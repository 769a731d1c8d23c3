------------------------------ MODULE PcgMemory ------------------------------
(***************************************************************************)
(* The memory behind one solver::Pcg: what its constructor and hypre       *)
(* allocate, which arrays hypre's structures point at, and who releases    *)
(* them, when generation succeeds and the solver is applied and destroyed, *)
(* and when the constructor throws half-way.  hypre is up throughout       *)
(* (HypreRuntime has the rest); the ranks' agreement is PcgSpmd's subject. *)
(***************************************************************************)
EXTENDS Integers

CONSTANT MaxApplies   \* bound: applies of the solver

ASSUME AppliesAssumption == MaxApplies \in Nat

VARIABLES
  setting,      \* the matrix, its index type, the hypre build
  pc,           \* where the constructor, an apply or the destructor stands
  alive,        \* blocks of memory allocated and not released
  misfreed,     \* blocks released twice, or not by their allocator
  ptr,          \* the array each slot of the hypre matrix points at
  owned,        \* blocks of the hypre matrix whose arrays hypre would free
  marks,        \* what has been done to the diagonal block
  permuted,     \* arrays hypre has rearranged in place
  local,        \* the two vectors are still locals of the constructor
  target,       \* target[v]: null, or 0 setup's array, n the array of apply n
  level0,       \* BoomerAMG's level 0 points at setup's arrays
  holders,      \* who keeps the Ginkgo matrix alive
  apply,        \* number of applies so far
  operands      \* the applies whose b and x are still allocated

matrixVars == <<ptr, owned, marks, permuted>>
solveVars  == <<apply, operands>>
vectorVars == <<local, target, level0>>
vars == <<setting, pc, alive, misfreed, matrixVars, solveVars, vectorVars, holders>>

Settings == [distributed : BOOLEAN,  \* a distributed::Matrix, not a Csr
             converted : BOOLEAN,    \* its local indices are not HYPRE_Int
             shell : BOOLEAN,        \* hypre 2.33 or newer
             device : BOOLEAN,
             fits : BOOLEAN]         \* its size fits into HYPRE_BigInt

(* Blocks by allocator; the Ginkgo matrix's own arrays are one block.      *)
HypreBlocks   == {"parcsr", "hypreOffI", "hypreMap", "colMap",
                  "amg", "pcg", "vectorB", "vectorX"}
WrapperBlocks == {"diagI", "diagJ", "diagA", "offdI", "offdJ", "setupB", "setupX"}
Blocks        == HypreBlocks \cup WrapperBlocks \cup {"ginkgo"}

Null    == "null"
Slots   == {"diag.I", "diag.J", "diag.A", "offd.I", "offd.J", "offd.A", "map"}
Vectors == {"b", "x"}
VectorOf(v) == IF v = "b" THEN "vectorB" ELSE "vectorX"

NoArray == -1

Init ==
  /\ setting \in Settings
  /\ pc = "size" /\ alive = {"ginkgo"} /\ misfreed = {}
  /\ ptr = [s \in Slots |-> Null] /\ owned = {"diag", "offd"}
  /\ marks = {} /\ permuted = {}
  /\ local = TRUE /\ target = [v \in Vectors |-> NoArray] /\ level0 = FALSE
  /\ holders = {"application"}
  /\ apply = 0 /\ operands = {}

Go(from, to) == pc = from /\ pc' = to /\ setting' = setting

(* An exception leaves the constructor: the locals go first, see below.    *)
Throw(from) == Go(from, "~locals")

Alloc(B) == alive' = alive \cup B /\ misfreed' = misfreed

(* who releases B; wrong is whatever is gone already or not who's.         *)
Free(B, who) ==
  /\ alive' = alive \ B
  /\ misfreed' = misfreed \cup {x \in B : x \notin alive \/ x \notin who}

Keep == UNCHANGED <<alive, misfreed>>

-----------------------------------------------------------------------------
(* The import: build_serial_par_csr or build_distributed_par_csr.          *)

(* The global size must fit; the policy may conflict.                      *)
CheckSize ==
  /\ \/ setting.fits /\ Go("size", "create") /\ holders' = holders \cup {"solver"}
     \/ Throw("size") /\ UNCHANGED holders
  /\ Keep /\ UNCHANGED <<matrixVars, solveVars, vectorVars>>

CreateMatrix ==
  /\ Go("create", "diag") /\ Alloc({"parcsr"})
  /\ UNCHANGED <<matrixVars, solveVars, vectorVars, holders>>

(* The arrays the wrapper allocates for a block of the matrix: columns and *)
(* values of the diagonal block are always copied, index arrays are        *)
(* converted if their types differ, all others alias Ginkgo's.             *)
DiagCopies == {"diagJ", "diagA"} \cup IF setting.converted THEN {"diagI"} ELSE {}
OffdCopies == IF setting.converted THEN {"offdI", "offdJ"} ELSE {}

Or(copies, own) == IF own \in copies THEN own ELSE "ginkgo"

(* Any of the allocations may fail; after the last set_block points hypre  *)
(* at the arrays and takes their ownership from it.                        *)
SetDiag ==
  /\ \/ /\ Go("diag", IF setting.distributed THEN "offd" ELSE "initialize")
        /\ Alloc(DiagCopies)
        /\ ptr' = [ptr EXCEPT !["diag.I"] = Or(DiagCopies, "diagI"),
                              !["diag.J"] = Or(DiagCopies, "diagJ"),
                              !["diag.A"] = Or(DiagCopies, "diagA")]
        /\ owned' = owned \ {"diag"}
     \/ /\ Throw("diag")
        /\ \E B \in SUBSET DiagCopies : Alloc(B)
        /\ UNCHANGED <<ptr, owned>>
  /\ UNCHANGED <<marks, permuted, solveVars, vectorVars, holders>>

SetOffd ==
  /\ \/ /\ Go("offd", "initialize")
        /\ Alloc(OffdCopies)
        /\ ptr' = [ptr EXCEPT !["offd.I"] = Or(OffdCopies, "offdI"),
                              !["offd.J"] = Or(OffdCopies, "offdJ"),
                              !["offd.A"] = "ginkgo"]
        /\ owned' = owned \ {"offd"}
     \/ /\ Throw("offd")
        /\ \E B \in SUBSET OffdCopies : Alloc(B)
        /\ UNCHANGED <<ptr, owned>>
  /\ UNCHANGED <<marks, permuted, solveVars, vectorVars, holders>>

(* hypre_ParCSRMatrixInitialize_v2 allocates what is still null: the row   *)
(* pointers of a serial matrix's empty offd block, the column map of a     *)
(* distributed one.                                                        *)
InitializeMatrix ==
  LET slot  == IF setting.distributed THEN "map" ELSE "offd.I"
      block == IF setting.distributed THEN "hypreMap" ELSE "hypreOffI"
  IN /\ \/ /\ Go("initialize", "rownnz") \/ Throw("initialize")
           /\ Alloc({block}) /\ ptr' = [ptr EXCEPT ![slot] = block]
        \/ Throw("initialize") /\ Keep /\ UNCHANGED ptr
     /\ UNCHANGED <<owned, marks, permuted, solveVars, vectorVars, holders>>

(* Variant of SetRownnz: it is called for the offd block only.             *)
SetRownnzOffd ==
  /\ Go("rownnz", "reorder")
  /\ Keep /\ UNCHANGED <<matrixVars, solveVars, vectorVars, holders>>

(* hypre_CSRMatrixSetRownnz, unchecked: hypre counts the block's rows.     *)
SetRownnz ==
  /\ Go("rownnz", "reorder")
  /\ marks' = marks \cup {"rownnz"}
  /\ Keep /\ UNCHANGED <<ptr, owned, permuted, solveVars, vectorVars, holders>>

(* reorder_diag_first moves every row's diagonal to the front.  On the     *)
(* host it goes over the rows counted so far, so that it succeeds without  *)
(* having done anything if none are; it may fail half-way.                 *)
ReorderDiag ==
  LET reaches == setting.device \/ "rownnz" \in marks
      moved   == {ptr["diag.J"], ptr["diag.A"]}
  IN /\ \/ /\ Go("reorder", IF setting.distributed THEN "colmap" ELSE "finish")
           /\ marks' = IF reaches THEN marks \cup {"diag_first"} ELSE marks
        \/ Throw("reorder") /\ UNCHANGED marks
     /\ permuted' = IF reaches THEN permuted \cup moved ELSE permuted
     /\ Keep /\ UNCHANGED <<ptr, owned, solveVars, vectorVars, holders>>

(* The host copy of the remote columns may fail; then the map is allocated *)
(* with hypre's allocator and held by a plain pointer.                     *)
AllocColMap ==
  /\ \/ Go("colmap", "columns") /\ Alloc({"colMap"})
     \/ Throw("colmap") /\ Keep
  /\ UNCHANGED <<matrixVars, solveVars, vectorVars, holders>>

(* Each global column is converted by to_hypre_big_int, which cannot throw *)
(* here: the columns are below the global size, and that fitted.  The map  *)
(* then replaces the one hypre allocated.                                  *)
AttachColMap ==
  /\ Go("columns", "finish")
  /\ Free({ptr["map"]} \ {Null}, HypreBlocks)
  /\ ptr' = [ptr EXCEPT !["map"] = "colMap"]
  /\ UNCHANGED <<owned, marks, permuted, solveVars, vectorVars, holders>>

(* The nonzero count and the communication package.                        *)
FinishMatrix ==
  /\ Go("finish", "amg") \/ Throw("finish")
  /\ Keep /\ UNCHANGED <<matrixVars, solveVars, vectorVars, holders>>

-----------------------------------------------------------------------------
(* The rest of the constructor.                                            *)

(* Each solver is created and configured; options, a callback or hypre may *)
(* fail after the creation too.                                            *)
CreateSolver(from, to, block) ==
  /\ \/ Go(from, to) /\ Alloc({block})
     \/ Throw(from) /\ \E B \in SUBSET {block} : Alloc(B)
  /\ UNCHANGED <<matrixVars, solveVars, vectorVars, holders>>

CreateAmg == CreateSolver("amg", "pcg", "amg")
CreatePcg == CreateSolver("pcg", "arrays", "pcg")

(* Setup's arrays are allocated one after the other, then filled.          *)
AllocArrays ==
  /\ \/ Go("arrays", "b") /\ Alloc({"setupB", "setupX"})
     \/ /\ Throw("arrays")
        /\ \E B \in {{}, {"setupB"}, {"setupB", "setupX"}} : Alloc(B)
  /\ UNCHANGED <<matrixVars, solveVars, vectorVars, holders>>

Place(v) == IF v = "b" THEN "place_b" ELSE "place_x"

CreateVector(v) ==
  /\ \/ Go(v, Place(v)) /\ Alloc({VectorOf(v)})
     \/ Throw(v) /\ Keep
  /\ UNCHANGED <<matrixVars, solveVars, vectorVars, holders>>

(* Variant of PlaceVector: the constructor does not clean up after itself. *)
PlaceVectorUncaught(v) ==
  /\ \/ /\ Go(Place(v), IF v = "b" THEN "x" ELSE "setup")
        /\ target' = [target EXCEPT ![v] = 0]
     \/ Throw(Place(v)) /\ UNCHANGED target
  /\ Keep /\ UNCHANGED <<matrixVars, solveVars, local, level0, holders>>

(* placed_vector's constructor goes on to point the vector at the array,   *)
(* which it does not own; if any call fails it calls destroy itself, for   *)
(* its destructor will not run.                                            *)
PlaceVector(v) ==
  /\ \/ /\ Go(Place(v), IF v = "b" THEN "x" ELSE "setup")
        /\ target' = [target EXCEPT ![v] = 0] /\ Keep
     \/ /\ Throw(Place(v))
        /\ Free({VectorOf(v)}, HypreBlocks) /\ UNCHANGED target
  /\ UNCHANGED <<matrixVars, solveVars, local, level0, holders>>

(* HYPRE_ParCSRPCGSetup leaves the vectors in BoomerAMG's level 0.         *)
Setup ==
  /\ Go("setup", "keep") \/ Throw("setup")
  /\ level0' = TRUE
  /\ Keep /\ UNCHANGED <<matrixVars, solveVars, local, target, holders>>

(* Variant of KeepVectors: setup's arrays are locals of the constructor.   *)
KeepVectorsOnly ==
  /\ \/ Go("keep", "hierarchy") /\ local' = FALSE
     \/ Throw("keep") /\ UNCHANGED local
  /\ Free({"setupB", "setupX"}, WrapperBlocks)
  /\ UNCHANGED <<matrixVars, solveVars, target, level0, holders>>

(* After the phase ends the vectors move from the locals into the state.   *)
KeepVectors ==
  /\ \/ Go("keep", "hierarchy") /\ local' = FALSE
     \/ Throw("keep") /\ UNCHANGED local
  /\ Keep /\ UNCHANGED <<matrixVars, solveVars, target, level0, holders>>

QueryHierarchy ==
  /\ Go("hierarchy", "ready") \/ Throw("hierarchy")
  /\ Keep /\ UNCHANGED <<matrixVars, solveVars, vectorVars, holders>>

-----------------------------------------------------------------------------
(* The application, with a generated solver.                               *)

StartApply ==
  /\ Go("ready", "set_b") /\ apply < MaxApplies
  /\ apply' = apply + 1 /\ operands' = operands \cup {apply'}
  /\ Keep /\ UNCHANGED <<matrixVars, vectorVars, holders>>

(* Between applies, or when the solver is gone, the application may free   *)
(* its vectors and let go of the matrix.                                   *)
Idle == pc \in {"ready", "gone"}

FreeOperands ==
  /\ Idle /\ \E n \in operands : operands' = operands \ {n}
  /\ Keep /\ UNCHANGED <<setting, pc, matrixVars, vectorVars, holders, apply>>

LetMatrixGo ==
  /\ Idle /\ "application" \in holders /\ holders' = holders \ {"application"}
  /\ alive' = IF holders' = {} THEN alive \ {"ginkgo"} ELSE alive
  /\ UNCHANGED <<setting, pc, misfreed, matrixVars, vectorVars, solveVars>>

(* Variant of SetValues: a failure goes unnoticed.                         *)
SetValuesUnchecked(v) ==
  LET at == IF v = "b" THEN "set_b" ELSE "set_x"
  IN /\ Go(at, IF v = "b" THEN "set_x" ELSE "solve")
     /\ \/ target' = [target EXCEPT ![v] = apply]
        \/ setting.shell /\ UNCHANGED target
     /\ Keep /\ UNCHANGED <<matrixVars, solveVars, local, level0, holders>>

(* set_values, which can fail in hypre 2.33 and newer only.                *)
SetValues(v) ==
  LET at == IF v = "b" THEN "set_b" ELSE "set_x"
  IN /\ \/ /\ Go(at, IF v = "b" THEN "set_x" ELSE "solve")
           /\ target' = [target EXCEPT ![v] = apply]
        \/ setting.shell /\ Go(at, "ready") /\ UNCHANGED target
     /\ Keep /\ UNCHANGED <<matrixVars, solveVars, local, level0, holders>>

(* The solve hands BoomerAMG PCG's own vectors.  A failure other than not  *)
(* converging is thrown; it may come before that.                          *)
Solve ==
  /\ \/ Go("solve", "report") /\ level0' = FALSE
     \/ Go("solve", "ready") /\ level0' \in {FALSE, level0}
  /\ Keep /\ UNCHANGED <<matrixVars, solveVars, local, target, holders>>

(* The diagnostics are read, which may fail, then stored; not followed.    *)
Report ==
  /\ Go("report", "ready")
  /\ Keep /\ UNCHANGED <<matrixVars, vectorVars, solveVars, holders>>

DestroySolver ==
  /\ Go("ready", "~locals")
  /\ Keep /\ UNCHANGED <<matrixVars, vectorVars, solveVars, holders>>

-----------------------------------------------------------------------------
(* Unwinding and destruction, in the order C++ prescribes.                 *)
(* The vectors whose constructor has finished.                             *)
VectorBlocks == {VectorOf(v) : v \in {w \in Vectors : target[w] # NoArray}}

FreeVectors(from, to, here) ==
  /\ Go(from, to) /\ Free(IF here THEN VectorBlocks ELSE {}, HypreBlocks)
  /\ UNCHANGED <<matrixVars, vectorVars, solveVars, holders>>

(* The constructor's locals, dummy_x before dummy_b.                       *)
FreeLocals == FreeVectors("~locals", "~solvers", local)

(* The body of ~state.                                                     *)
FreeSolvers ==
  /\ Go("~solvers", "~vectors")
  /\ Free(alive \cap {"pcg", "amg"}, HypreBlocks)
  /\ level0' = FALSE
  /\ UNCHANGED <<matrixVars, solveVars, local, target, holders>>

(* The members of the state, the last declared first.                      *)
FreeMembers == FreeVectors("~vectors", "~arrays", ~local)

FreeArrays ==
  /\ Go("~arrays", "~matrix")
  /\ Free(alive \cap {"setupB", "setupX"}, WrapperBlocks)
  /\ UNCHANGED <<matrixVars, vectorVars, solveVars, holders>>

(* Variant of Detached: the offd block is forgotten.                       *)
DetachedDiagOnly(s) == s \in {"diag.I", "diag.J", "diag.A"}

(* The slots ~par_csr clears before it hands the matrix to hypre.          *)
Detached(s) ==
  \/ s \in {"diag.I", "diag.J", "diag.A"}
  \/ setting.distributed /\ s \in {"offd.I", "offd.J", "offd.A"}

(* hypre frees row pointers and the map whoever owns them, columns and     *)
(* values of the blocks it owns.                                           *)
FreedByHypre ==
  {"diag.I", "offd.I", "map"}
    \cup (IF "diag" \in owned THEN {"diag.J", "diag.A"} ELSE {})
    \cup (IF "offd" \in owned THEN {"offd.J", "offd.A"} ELSE {})

FreeMatrix ==
  /\ Go("~matrix", "~copies")
  /\ IF "parcsr" \in alive
     THEN /\ Free({"parcsr"} \cup
                  ({ptr[s] : s \in {t \in FreedByHypre : ~Detached(t)}} \ {Null}),
                  HypreBlocks)
          /\ ptr' = [s \in Slots |-> Null]
     ELSE Keep /\ UNCHANGED ptr
  /\ UNCHANGED <<owned, marks, permuted, vectorVars, solveVars, holders>>

(* par_csr's arrays and its hold on the Ginkgo matrix.                     *)
FreeCopies ==
  /\ Go("~copies", "gone")
  /\ holders' = holders \ {"solver"}
  /\ LET copies == alive \cap {"diagI", "diagJ", "diagA", "offdI", "offdJ"}
         ginkgo == IF holders' = {} THEN {"ginkgo"} ELSE {}
     IN Free(copies \cup ginkgo, WrapperBlocks \cup {"ginkgo"})
  /\ UNCHANGED <<matrixVars, vectorVars, solveVars>>

-----------------------------------------------------------------------------
Import ==
  \/ CheckSize \/ CreateMatrix \/ SetDiag \/ SetOffd \/ InitializeMatrix
  \/ SetRownnz \/ ReorderDiag \/ AllocColMap \/ AttachColMap \/ FinishMatrix

Construct ==
  \/ CreateAmg \/ CreatePcg \/ AllocArrays
  \/ \E v \in Vectors : CreateVector(v) \/ PlaceVector(v)
  \/ Setup \/ KeepVectors \/ QueryHierarchy

Use ==
  \/ StartApply \/ Solve \/ Report \/ \E v \in Vectors : SetValues(v)
  \/ FreeOperands \/ LetMatrixGo

Destroy ==
  \/ DestroySolver \/ FreeLocals \/ FreeSolvers \/ FreeMembers \/ FreeArrays
  \/ FreeMatrix \/ FreeCopies

Next == Import \/ Construct \/ Use \/ Destroy

Spec == Init /\ [][Next]_vars

-----------------------------------------------------------------------------
TypeOK ==
  /\ setting \in Settings
  /\ pc \in {"size", "create", "diag", "offd", "initialize", "rownnz", "reorder",
             "colmap", "columns", "finish", "amg", "pcg", "arrays", "b", "x", "place_b",
             "place_x", "setup", "keep", "hierarchy", "ready", "set_b", "set_x",
             "solve", "report", "~locals", "~solvers", "~vectors", "~arrays",
             "~matrix", "~copies", "gone"}
  /\ alive \subseteq Blocks /\ misfreed \subseteq Blocks
  /\ ptr \in [Slots -> Blocks \cup {Null}]
  /\ owned \subseteq {"diag", "offd"}
  /\ marks \subseteq {"rownnz", "diag_first"}
  /\ permuted \subseteq Blocks \cup {Null}
  /\ local \in BOOLEAN /\ level0 \in BOOLEAN
  /\ target \in [Vectors -> {NoArray} \cup 0 .. MaxApplies]
  /\ holders \subseteq {"application", "solver"}
  /\ apply \in 0 .. MaxApplies /\ operands \subseteq 1 .. apply

(* Every block is released once, by whoever allocated it: hypre never frees *)
(* an array of Ginkgo's or of the wrapper's, however far the constructor    *)
(* came (set_block, ~par_csr).                                              *)
FreedByOwner == misfreed = {}

(* When the solver is gone, destroyed or never finished, nothing it         *)
(* allocated is left (the catch of placed_vector, ~state, ~par_csr).        *)
NothingLeft == pc = "gone" => alive \subseteq {"ginkgo"}

(* What hypre may read is there while it may read it: the matrix's arrays   *)
(* as long as the matrix, setup's arrays while BoomerAMG's level 0 points   *)
(* at them (the comments in Pcg::state and before par_csr).                 *)
ReadableByHypre ==
  /\ \A s \in Slots : ptr[s] # Null => ptr[s] \in alive
  /\ level0 => {"setupB", "setupX"} \subseteq alive

(* BoomerAMG finds every row's diagonal first, on the host and the device,  *)
(* from its setup on, and no array of the caller's matrix was rearranged    *)
(* for it: the rows are counted before the reorder goes over them, and it   *)
(* goes over copies (the comment before reorder_diag_first).                *)
DiagonalFirst ==
  /\ level0 \/ pc \in {"setup", "ready", "solve"} => "diag_first" \in marks
  /\ "ginkgo" \notin permuted

(* A solve reads and writes the operands of its own apply, which are still  *)
(* allocated, even after an apply that threw with one vector re-pointed.    *)
SolvesOwnOperands ==
  pc = "solve" => \A v \in Vectors : target[v] = apply /\ target[v] \in operands
=============================================================================
