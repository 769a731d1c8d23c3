--------------------------- MODULE PcgMemoryProofs ---------------------------
(***************************************************************************)
(* Proofs about PcgMemory for any number of applies: wherever the          *)
(* constructor, an apply or nothing fails, every block is released once    *)
(* and by its allocator, and hypre reads only what is there.  The          *)
(* invariant says, for each place in the constructor, the applies and the  *)
(* destructors, which blocks are there and who points at them.             *)
(***************************************************************************)
EXTENDS PcgMemory, TLAPS

(* Where the constructor is, in the order of its code.                     *)
InImport   == {"diag", "offd", "initialize", "rownnz", "reorder", "colmap",
                "columns", "finish"}
InArrays   == {"b", "place_b", "x", "place_x", "setup", "keep", "hierarchy"}
InSolvers  == {"amg", "pcg", "arrays"} \cup InArrays
InApply    == {"set_b", "set_x", "solve", "report"}
Generated  == {"ready"} \cup InApply
Placed     == {"setup", "keep", "hierarchy"} \cup Generated
WithMatrix == InImport \cup InSolvers \cup Generated
Unwinding  == {"~locals", "~solvers", "~vectors", "~arrays", "~matrix", "~copies", "gone"}

(* A size that hypre cannot hold is turned down before anything is made,   *)
(* and the solver keeps the Ginkgo matrix from then on: nothing but the    *)
(* last holder's going releases it.                                        *)
Holding ==
  /\ pc \in {"create"} \cup WithMatrix => setting.fits /\ "solver" \in holders
  /\ pc # "gone" => holders # {}
  /\ "ginkgo" \in alive <=> holders # {}

(* A vector's block is there from its creation until the destructor of     *)
(* whoever has it, the constructor's locals or the state.                  *)
VectorsLive ==
  /\ pc \notin {"~arrays", "~matrix", "~copies", "gone"}
  /\ pc \in {"~solvers", "~vectors"} => ~local

VectorsKept ==
  /\ \A v \in Vectors :
       VectorOf(v) \in alive <=> VectorsLive /\ (target[v] # NoArray \/ pc = Place(v))
  /\ pc \notin Unwinding =>
       /\ target["b"] # NoArray <=> pc \in {"x", "place_x"} \cup Placed
       /\ target["x"] # NoArray <=> pc \in Placed

(* What each slot of the hypre matrix may point at.                        *)
SlotTypes ==
  /\ ptr["diag.I"] \in {Null, "ginkgo", "diagI"}
  /\ ptr["diag.J"] \in {Null, "diagJ"} /\ ptr["diag.A"] \in {Null, "diagA"}
  /\ setting.distributed =>
       /\ ptr["offd.I"] \in {Null, "ginkgo", "offdI"}
       /\ ptr["offd.J"] \in {Null, "ginkgo", "offdJ"} /\ ptr["offd.A"] \in {Null, "ginkgo"}
       /\ ptr["map"] \in {Null, "hypreMap", "colMap"}
  /\ ~setting.distributed =>
       /\ ptr["offd.I"] \in {Null, "hypreOffI"}
       /\ \A s \in {"offd.J", "offd.A", "map"} : ptr[s] = Null

(* The blocks hypre allocates for the matrix hang on it, but for the       *)
(* column map between its allocation and its attachment.                   *)
MatrixKept ==
  /\ SlotTypes
  /\ pc \in {"offd", "colmap", "columns"} => setting.distributed
  /\ pc \in WithMatrix => "parcsr" \in alive
  /\ pc \in {"size", "create", "~copies", "gone"} => "parcsr" \notin alive
  /\ "parcsr" \notin alive => \A s \in Slots : ptr[s] = Null
  /\ "hypreOffI" \in alive <=> ptr["offd.I"] = "hypreOffI"
  /\ "hypreMap" \in alive <=> ptr["map"] = "hypreMap"
  /\ "colMap" \in alive <=> ptr["map"] = "colMap" \/ pc = "columns"
  /\ pc \in InImport \ {"finish"} => ptr["map"] # "colMap"
  /\ \A s \in Slots : ptr[s] # Null => ptr[s] \in alive

(* BoomerAMG and PCG go before the vectors, setup's arrays after them.     *)
SolversKept ==
  /\ pc \in InArrays \cup Generated => {"setupB", "setupX"} \subseteq alive
  /\ pc \in {"~vectors", "~arrays", "~matrix", "~copies", "gone"} =>
       {"amg", "pcg"} \cap alive = {}
  /\ pc \in {"~matrix", "~copies", "gone"} => {"setupB", "setupX"} \cap alive = {}
  /\ pc = "gone" => {"diagI", "diagJ", "diagA", "offdI", "offdJ"} \cap alive = {}
  /\ level0 => /\ pc \notin {"~vectors", "~arrays", "~matrix", "~copies", "gone"}
               /\ {"setupB", "setupX"} \subseteq alive
  /\ pc = "reorder" => "rownnz" \in marks
  /\ level0 \/ pc \in {"colmap", "columns", "finish"} \cup InSolvers \cup Generated =>
       "diag_first" \in marks
  /\ "ginkgo" \notin permuted

(* An apply is at the operands the application gave it.                    *)
OperandsKept ==
  /\ pc \in {"set_b", "set_x", "solve"} => apply \in operands
  /\ pc \in {"set_x", "solve"} => target["b"] = apply
  /\ pc = "solve" => target["x"] = apply

Inv ==
  /\ TypeOK /\ FreedByOwner
  /\ Holding /\ VectorsKept /\ MatrixKept /\ SolversKept /\ OperandsKept

(* Releasing blocks that are there, by their allocator, is no fault.       *)
Releasable(B, who) == \A x \in B : x \in alive /\ x \in who

LEMMA FreeRight ==
  ASSUME FreedByOwner, NEW B, NEW who, Free(B, who), Releasable(B, who)
  PROVE  FreedByOwner'
  BY DEF Free, FreedByOwner, Releasable

LEMMA FreeType ==
  ASSUME TypeOK, NEW B, NEW who, Free(B, who), B \subseteq Blocks
  PROVE  alive' \subseteq Blocks /\ misfreed' \subseteq Blocks
  BY DEF Free, TypeOK

(* The vectors freed by whoever has them are there, and hypre's.           *)
LEMMA VectorBlocksLive ==
  ASSUME Inv, VectorsLive
  PROVE  Releasable(VectorBlocks, HypreBlocks)
<1>1. ASSUME NEW v \in Vectors, target[v] # NoArray
      PROVE  VectorOf(v) \in alive /\ VectorOf(v) \in HypreBlocks
  BY <1>1 DEF Inv, VectorsKept, VectorOf, HypreBlocks
<1> QED  BY <1>1 DEF Releasable, VectorBlocks

LEMMA VectorBlocksType == VectorBlocks \subseteq Blocks
  BY DEF VectorBlocks, VectorOf, Blocks, HypreBlocks

(* What hypre frees with the matrix is there, and hypre's.                 *)
LEMMA MatrixBlocksLive ==
  ASSUME Inv
  PROVE  Releasable({ptr[s] : s \in {t \in FreedByHypre : ~Detached(t)}} \ {Null},
                    HypreBlocks)
<1>1. ASSUME NEW s \in Slots, s \in FreedByHypre, ~Detached(s), ptr[s] # Null
      PROVE  ptr[s] \in alive /\ ptr[s] \in HypreBlocks
  BY <1>1 DEF Inv, MatrixKept, SlotTypes, FreedByHypre, Detached, HypreBlocks,
     Null, Slots
<1>2. FreedByHypre \subseteq Slots
  BY DEF FreedByHypre, Slots
<1> QED  BY <1>1, <1>2 DEF Releasable

USE DEF matrixVars, solveVars, vectorVars, vars, Go, Throw, Alloc, Keep,
        Null, NoArray, Slots, Vectors, VectorOf, Place, InImport,
        InArrays, InSolvers, InApply, Generated, Placed, WithMatrix, Unwinding

LEMMA ImportStep == ASSUME Inv, Import PROVE Inv'
<1>1. CASE CheckSize
  <2>1. TypeOK'
    BY <1>1 DEF Inv, CheckSize, TypeOK
  <2>2. FreedByOwner' /\ Holding' /\ SolversKept' /\ OperandsKept'
    BY <1>1 DEF Inv, CheckSize, FreedByOwner, Holding,
       SolversKept, OperandsKept
  <2>3. VectorsKept' /\ MatrixKept'
    BY <1>1 DEF Inv, CheckSize, VectorsKept, MatrixKept, SlotTypes
  <2> QED  BY <2>1, <2>2, <2>3 DEF Inv
<1>2. CASE CreateMatrix
  <2>1. TypeOK'
    BY <1>2 DEF Inv, CreateMatrix, Blocks, HypreBlocks, TypeOK
  <2>2. FreedByOwner' /\ Holding' /\ SolversKept' /\ OperandsKept'
    BY <1>2 DEF Inv, CreateMatrix, FreedByOwner, Holding, SolversKept, OperandsKept
  <2>3. VectorsKept' /\ MatrixKept'
    BY <1>2 DEF Inv, CreateMatrix, VectorsKept, MatrixKept, SlotTypes
  <2> QED  BY <2>1, <2>2, <2>3 DEF Inv
<1>3. CASE SetDiag
  <2>1. TypeOK'
    <3>1. \A own : Or(DiagCopies, own) \in Blocks
      BY DEF Or, DiagCopies, Blocks, WrapperBlocks
    <3>2. ptr' \in [Slots -> Blocks \cup {Null}]
      BY <1>3, <3>1 DEF Inv, TypeOK, SetDiag
    <3>3. alive' \subseteq Blocks /\ misfreed' \subseteq Blocks
      BY <1>3 DEF Inv, TypeOK, SetDiag, DiagCopies, Blocks, WrapperBlocks
    <3> QED  BY <1>3, <3>2, <3>3 DEF Inv, TypeOK, SetDiag
  <2>2. FreedByOwner' /\ Holding' /\ SolversKept' /\ OperandsKept'
    BY <1>3 DEF Inv, SetDiag, DiagCopies, Or, FreedByOwner,
       Holding, SolversKept, OperandsKept
  <2>3. VectorsKept' /\ MatrixKept'
    <3>1. VectorsKept'
      BY <1>3 DEF Inv, SetDiag, DiagCopies, VectorsKept
    <3>2. alive \subseteq alive' /\ alive' \ alive \subseteq DiagCopies
      BY <1>3 DEF SetDiag
    <3>3. CASE ptr' = ptr
      BY <1>3, <3>1, <3>2, <3>3 DEF Inv, SetDiag, DiagCopies, MatrixKept,
         SlotTypes
    <3>4. CASE ptr' # ptr
      <4>1. ptr'["diag.I"] \in {"ginkgo", "diagI"} \cap alive'
              /\ ptr'["diag.J"] \in {"diagJ"} \cap alive'
              /\ ptr'["diag.A"] \in {"diagA"} \cap alive'
        BY <1>3, <3>4 DEF Inv, TypeOK, SetDiag, DiagCopies, Or, Holding
      <4>2. \A s \in Slots \ {"diag.I", "diag.J", "diag.A"} : ptr'[s] = ptr[s]
        BY <1>3, <3>4 DEF Inv, TypeOK, SetDiag
      <4>3. MatrixKept'
        BY <1>3, <3>2, <3>4, <4>1, <4>2 DEF Inv, SetDiag, DiagCopies,
           MatrixKept, SlotTypes
      <4> QED  BY <3>1, <4>3
    <3> QED  BY <3>3, <3>4
  <2> QED  BY <2>1, <2>2, <2>3 DEF Inv
<1>4. CASE SetOffd
  <2>1. TypeOK'
    <3>1. \A own : Or(OffdCopies, own) \in Blocks
      BY DEF Or, OffdCopies, Blocks, WrapperBlocks
    <3>2. ptr' \in [Slots -> Blocks \cup {Null}]
      BY <1>4, <3>1 DEF Inv, TypeOK, SetOffd, Blocks
    <3>3. alive' \subseteq Blocks /\ misfreed' \subseteq Blocks
      BY <1>4 DEF Inv, TypeOK, SetOffd, OffdCopies, Blocks, WrapperBlocks
    <3> QED  BY <1>4, <3>2, <3>3 DEF Inv, TypeOK, SetOffd
  <2>2. FreedByOwner' /\ Holding' /\ SolversKept' /\ OperandsKept'
    BY <1>4 DEF Inv, SetOffd, OffdCopies, Or, FreedByOwner,
       Holding, SolversKept, OperandsKept
  <2>3. VectorsKept' /\ MatrixKept'
    <3>1. VectorsKept'
      BY <1>4 DEF Inv, SetOffd, OffdCopies, VectorsKept
    <3>2. alive \subseteq alive' /\ alive' \ alive \subseteq OffdCopies
      BY <1>4 DEF SetOffd
    <3>3. CASE ptr' = ptr
      BY <1>4, <3>1, <3>2, <3>3 DEF Inv, SetOffd, OffdCopies, MatrixKept,
         SlotTypes
    <3>4. CASE ptr' # ptr
      <4>1. ptr'["offd.I"] \in {"ginkgo", "offdI"} \cap alive'
              /\ ptr'["offd.J"] \in {"ginkgo", "offdJ"} \cap alive'
              /\ ptr'["offd.A"] \in {"ginkgo"} \cap alive'
        BY <1>4, <3>4 DEF Inv, TypeOK, SetOffd, OffdCopies, Or, Holding
      <4>2. \A s \in Slots \ {"offd.I", "offd.J", "offd.A"} : ptr'[s] = ptr[s]
        BY <1>4, <3>4 DEF Inv, TypeOK, SetOffd
      <4>3. MatrixKept'
        BY <1>4, <3>2, <3>4, <4>1, <4>2 DEF Inv, SetOffd, OffdCopies,
           MatrixKept, SlotTypes
      <4> QED  BY <3>1, <4>3
    <3> QED  BY <3>3, <3>4
  <2> QED  BY <2>1, <2>2, <2>3 DEF Inv
<1>5. CASE InitializeMatrix
  <2>1. TypeOK'
    <3>1. alive' \subseteq Blocks /\ misfreed' \subseteq Blocks
      BY <1>5 DEF Inv, TypeOK, InitializeMatrix, Blocks, HypreBlocks
    <3>2. ptr' \in [Slots -> Blocks \cup {Null}]
      <4>1. "hypreMap" \in Blocks /\ "hypreOffI" \in Blocks
        BY DEF Blocks, HypreBlocks
      <4> QED  BY <1>5, <4>1 DEF Inv, TypeOK, InitializeMatrix
    <3> QED  BY <1>5, <3>1, <3>2 DEF Inv, TypeOK, InitializeMatrix
  <2>2. FreedByOwner' /\ Holding' /\ SolversKept' /\ OperandsKept'
    BY <1>5 DEF Inv, InitializeMatrix, FreedByOwner, Holding, SolversKept, OperandsKept
  <2>3. VectorsKept' /\ MatrixKept'
    BY <1>5 DEF Inv, InitializeMatrix, VectorsKept, MatrixKept, SlotTypes,
       TypeOK
  <2> QED  BY <2>1, <2>2, <2>3 DEF Inv
<1>6. CASE ReorderDiag
  <2>1. TypeOK'
    <3>1. {ptr["diag.J"], ptr["diag.A"]} \subseteq Blocks \cup {Null}
      BY DEF Inv, TypeOK
    <3>2. permuted' \subseteq Blocks \cup {Null}
      BY <1>6, <3>1 DEF Inv, TypeOK, ReorderDiag
    <3>3. marks' \subseteq {"rownnz", "diag_first"}
      BY <1>6 DEF Inv, TypeOK, ReorderDiag
    <3> QED  BY <1>6, <3>2, <3>3 DEF Inv, ReorderDiag, TypeOK
  <2>2. FreedByOwner' /\ Holding' /\ SolversKept' /\ OperandsKept'
    <3>1. "ginkgo" \notin permuted'
      BY <1>6 DEF ReorderDiag, Inv, MatrixKept, SlotTypes, SolversKept
    <3> QED  BY <1>6, <3>1 DEF Inv, ReorderDiag, FreedByOwner, Holding,
                SolversKept, OperandsKept
  <2>3. VectorsKept' /\ MatrixKept'
    BY <1>6 DEF Inv, ReorderDiag, VectorsKept, MatrixKept, SlotTypes
  <2> QED  BY <2>1, <2>2, <2>3 DEF Inv
<1>7. CASE AllocColMap
  <2>1. TypeOK'
    BY <1>7 DEF Inv, AllocColMap, Blocks, HypreBlocks, TypeOK
  <2>2. FreedByOwner' /\ Holding' /\ SolversKept' /\ OperandsKept'
    BY <1>7 DEF Inv, AllocColMap, FreedByOwner, Holding,
       SolversKept, OperandsKept
  <2>3. VectorsKept' /\ MatrixKept'
    BY <1>7 DEF Inv, AllocColMap, VectorsKept, MatrixKept, SlotTypes
  <2> QED  BY <2>1, <2>2, <2>3 DEF Inv
<1>8. CASE AttachColMap
  <2>1. TypeOK'
    <3>1. {ptr["map"]} \ {Null} \subseteq Blocks
      BY DEF Inv, TypeOK
    <3>2. alive' \subseteq Blocks /\ misfreed' \subseteq Blocks
      BY <1>8, <3>1, FreeType DEF Inv, TypeOK, AttachColMap
    <3>3. ptr' \in [Slots -> Blocks \cup {Null}]
      BY <1>8 DEF Inv, TypeOK, AttachColMap, Blocks, HypreBlocks
    <3> QED  BY <1>8, <3>2, <3>3 DEF Inv, TypeOK, AttachColMap
  <2>2. FreedByOwner'
    <3>1. Releasable({ptr["map"]} \ {Null}, HypreBlocks)
      BY <1>8 DEF Releasable, Inv, AttachColMap, MatrixKept, SlotTypes, HypreBlocks
    <3> QED  BY <1>8, <3>1, FreeRight DEF Inv, AttachColMap, FreedByOwner
  <2>3. Holding' /\ SolversKept' /\ OperandsKept'
    <3>1. ptr["map"] \in {Null, "hypreMap"}
      BY <1>8 DEF Inv, MatrixKept, SlotTypes, AttachColMap
    <3>2. alive' \in {alive, alive \ {"hypreMap"}}
      BY <1>8, <3>1 DEF Inv, MatrixKept, AttachColMap, Free
    <3> QED  BY <1>8, <3>2 DEF Inv, AttachColMap, Holding, SolversKept,
                OperandsKept
  <2>4. VectorsKept' /\ MatrixKept'
    <3>1. ptr["map"] \in {Null, "hypreMap"} /\ setting.distributed
      BY <1>8 DEF Inv, MatrixKept, SlotTypes, AttachColMap
    <3>2. CASE pc' = "finish"
      <4>1. alive' = alive \ {"hypreMap"} /\ ptr' = [ptr EXCEPT !["map"] = "colMap"]
        BY <1>8, <3>1, <3>2 DEF Inv, MatrixKept, AttachColMap, Free
      <4>2. VectorsKept'
        BY <1>8, <3>2, <4>1 DEF Inv, VectorsKept, AttachColMap
      <4>3. SlotTypes'
        BY <1>8, <3>1, <4>1 DEF Inv, MatrixKept, SlotTypes, AttachColMap
      <4>4. \A s \in Slots : ptr'[s] # Null => ptr'[s] \in alive'
        BY <1>8, <4>1 DEF Inv, TypeOK, MatrixKept, SlotTypes, AttachColMap
      <4>5. MatrixKept'
        BY <1>8, <3>1, <3>2, <4>1, <4>3, <4>4 DEF Inv, TypeOK, MatrixKept,
           AttachColMap
      <4> QED  BY <4>2, <4>5
    <3>3. CASE pc' # "finish"
      BY <1>8, <3>3 DEF Inv, Holding, AttachColMap
    <3> QED  BY <3>2, <3>3
  <2> QED  BY <2>1, <2>2, <2>3, <2>4 DEF Inv
<1>9. CASE FinishMatrix
  <2>1. TypeOK'
    BY <1>9 DEF Inv, FinishMatrix, TypeOK
  <2>2. FreedByOwner' /\ Holding' /\ SolversKept' /\ OperandsKept'
    BY <1>9 DEF Inv, FinishMatrix, FreedByOwner, Holding, SolversKept, OperandsKept
  <2>3. VectorsKept' /\ MatrixKept'
    BY <1>9 DEF Inv, FinishMatrix, VectorsKept, MatrixKept, SlotTypes
  <2> QED  BY <2>1, <2>2, <2>3 DEF Inv
<1>10. CASE SetRownnz
  <2>1. TypeOK'
    BY <1>10 DEF Inv, SetRownnz, TypeOK
  <2>2. FreedByOwner' /\ Holding' /\ SolversKept' /\ OperandsKept'
    BY <1>10 DEF Inv, SetRownnz, FreedByOwner, Holding, SolversKept, OperandsKept
  <2>3. VectorsKept' /\ MatrixKept'
    BY <1>10 DEF Inv, SetRownnz, VectorsKept, MatrixKept, SlotTypes
  <2> QED  BY <2>1, <2>2, <2>3 DEF Inv
<1> QED  BY <1>1, <1>2, <1>3, <1>4, <1>5, <1>6, <1>7, <1>8, <1>9, <1>10 DEF Import

LEMMA ConstructStep == ASSUME Inv, Construct PROVE Inv'
<1>1. CASE CreateAmg
  <2>1. TypeOK'
    BY <1>1 DEF Inv, CreateAmg, CreateSolver, Blocks, HypreBlocks, TypeOK
  <2>2. FreedByOwner' /\ Holding' /\ SolversKept' /\ OperandsKept'
    BY <1>1 DEF Inv, CreateAmg, CreateSolver, FreedByOwner,
       Holding, SolversKept, OperandsKept
  <2>3. VectorsKept' /\ MatrixKept'
    BY <1>1 DEF Inv, CreateAmg, CreateSolver, VectorsKept, MatrixKept,
       SlotTypes
  <2> QED  BY <2>1, <2>2, <2>3 DEF Inv
<1>2. CASE CreatePcg
  <2>1. TypeOK'
    BY <1>2 DEF Inv, CreatePcg, CreateSolver, Blocks, HypreBlocks, TypeOK
  <2>2. FreedByOwner' /\ Holding' /\ SolversKept' /\ OperandsKept'
    BY <1>2 DEF Inv, CreatePcg, CreateSolver, FreedByOwner,
       Holding, SolversKept, OperandsKept
  <2>3. VectorsKept' /\ MatrixKept'
    BY <1>2 DEF Inv, CreatePcg, CreateSolver, VectorsKept, MatrixKept,
       SlotTypes
  <2> QED  BY <2>1, <2>2, <2>3 DEF Inv
<1>3. CASE AllocArrays
  <2>1. TypeOK'
    BY <1>3 DEF Inv, AllocArrays, Blocks, WrapperBlocks, TypeOK
  <2>2. FreedByOwner' /\ Holding' /\ SolversKept' /\ OperandsKept'
    BY <1>3 DEF Inv, AllocArrays, FreedByOwner, Holding,
       SolversKept, OperandsKept
  <2>3. VectorsKept' /\ MatrixKept'
    BY <1>3 DEF Inv, AllocArrays, VectorsKept, MatrixKept, SlotTypes
  <2> QED  BY <2>1, <2>2, <2>3 DEF Inv
<1>4. ASSUME NEW v \in Vectors, CreateVector(v) PROVE Inv'
  <2>1. TypeOK'
    BY <1>4 DEF Inv, CreateVector, Blocks, HypreBlocks, TypeOK
  <2>2. FreedByOwner' /\ Holding' /\ SolversKept' /\ OperandsKept'
    BY <1>4 DEF Inv, CreateVector, FreedByOwner, Holding, SolversKept, OperandsKept
  <2>3. VectorsKept' /\ MatrixKept'
    BY <1>4 DEF Inv, CreateVector, VectorsKept, VectorsLive, MatrixKept,
       SlotTypes
  <2> QED  BY <2>1, <2>2, <2>3 DEF Inv
<1>5. ASSUME NEW v \in Vectors, PlaceVector(v) PROVE Inv'
  <2>1. TypeOK'
    <3>1. alive' \subseteq Blocks /\ misfreed' \subseteq Blocks
      BY <1>5, FreeType DEF Inv, TypeOK, PlaceVector, Blocks, HypreBlocks
    <3>2. target' \in [Vectors -> {NoArray} \cup 0 .. MaxApplies]
      BY <1>5, AppliesAssumption DEF Inv, TypeOK, PlaceVector
    <3> QED  BY <1>5, <3>1, <3>2 DEF Inv, TypeOK, PlaceVector
  <2>2. FreedByOwner'
    <3>1. Releasable({VectorOf(v)}, HypreBlocks)
      BY <1>5 DEF Releasable, Inv, VectorsKept, VectorsLive, PlaceVector, HypreBlocks
    <3> QED  BY <1>5, <3>1, FreeRight DEF Inv, PlaceVector, FreedByOwner
  <2>3. Holding' /\ SolversKept' /\ OperandsKept'
    BY <1>5 DEF Inv, PlaceVector, Free, Holding,
       SolversKept, OperandsKept
  <2>4. VectorsKept' /\ MatrixKept'
    BY <1>5 DEF Inv, PlaceVector, Free, VectorsKept, VectorsLive, MatrixKept,
       SlotTypes, TypeOK
  <2> QED  BY <2>1, <2>2, <2>3, <2>4 DEF Inv
<1>6. CASE Setup
  <2>1. TypeOK'
    BY <1>6 DEF Inv, Setup, TypeOK
  <2>2. FreedByOwner' /\ Holding' /\ SolversKept' /\ OperandsKept'
    BY <1>6 DEF Inv, Setup, FreedByOwner, Holding,
       SolversKept, OperandsKept
  <2>3. VectorsKept' /\ MatrixKept'
    BY <1>6 DEF Inv, Setup, VectorsKept, VectorsLive, MatrixKept, SlotTypes
  <2> QED  BY <2>1, <2>2, <2>3 DEF Inv
<1>7. CASE KeepVectors
  <2>1. TypeOK'
    BY <1>7 DEF Inv, KeepVectors, TypeOK
  <2>2. FreedByOwner' /\ Holding' /\ SolversKept' /\ OperandsKept'
    BY <1>7 DEF Inv, KeepVectors, FreedByOwner, Holding,
       SolversKept, OperandsKept
  <2>3. VectorsKept' /\ MatrixKept'
    BY <1>7 DEF Inv, KeepVectors, VectorsKept, VectorsLive, MatrixKept,
       SlotTypes
  <2> QED  BY <2>1, <2>2, <2>3 DEF Inv
<1>8. CASE QueryHierarchy
  <2>1. TypeOK'
    BY <1>8 DEF Inv, QueryHierarchy, TypeOK
  <2>2. FreedByOwner' /\ Holding' /\ SolversKept' /\ OperandsKept'
    BY <1>8 DEF Inv, QueryHierarchy, FreedByOwner, Holding, SolversKept, OperandsKept
  <2>3. VectorsKept' /\ MatrixKept'
    BY <1>8 DEF Inv, QueryHierarchy, VectorsKept, VectorsLive, MatrixKept,
       SlotTypes
  <2> QED  BY <2>1, <2>2, <2>3 DEF Inv
<1> QED  BY <1>1, <1>2, <1>3, <1>4, <1>5, <1>6, <1>7, <1>8 DEF Construct

LEMMA UseStep == ASSUME Inv, Use PROVE Inv'
<1>1. CASE StartApply
  <2>1. TypeOK'
    <3>1. apply' \in 0 .. MaxApplies /\ operands' \subseteq 1 .. apply'
      BY <1>1, AppliesAssumption DEF Inv, TypeOK, StartApply
    <3> QED  BY <1>1, <3>1 DEF Inv, TypeOK, StartApply
  <2>2. FreedByOwner' /\ Holding' /\ SolversKept' /\ OperandsKept'
    BY <1>1 DEF Inv, StartApply, FreedByOwner, Holding,
       SolversKept, OperandsKept
  <2>3. VectorsKept' /\ MatrixKept'
    BY <1>1 DEF Inv, StartApply, VectorsKept, VectorsLive, MatrixKept,
       SlotTypes
  <2> QED  BY <2>1, <2>2, <2>3 DEF Inv
<1>2. CASE Solve
  <2>1. TypeOK'
    <3>1. level0' \in BOOLEAN
      <4>1. level0 \in BOOLEAN
        BY DEF Inv, TypeOK
      <4> QED  BY <1>2, <4>1 DEF Solve
    <3> QED  BY <1>2, <3>1 DEF Inv, Solve, TypeOK
  <2>2. FreedByOwner' /\ Holding' /\ OperandsKept'
    BY <1>2 DEF Inv, Solve, FreedByOwner, Holding, OperandsKept
  <2>4. SolversKept'
    <3>1. level0' => level0
      BY <1>2 DEF Solve
    <3> QED  BY <1>2, <3>1 DEF Inv, Solve, SolversKept
  <2>3. VectorsKept' /\ MatrixKept'
    <3>1. /\ pc = "solve" /\ pc' \in {"report", "ready"}
          /\ UNCHANGED <<setting, alive, ptr, local, target>>
      BY <1>2 DEF Solve
    <3> QED  BY <3>1 DEF Inv, VectorsKept, VectorsLive, MatrixKept, SlotTypes
  <2> QED  BY <2>1, <2>2, <2>3, <2>4 DEF Inv
<1>3. CASE Report
  <2>1. TypeOK'
    BY <1>3 DEF Inv, Report, TypeOK
  <2>2. FreedByOwner' /\ Holding' /\ SolversKept' /\ OperandsKept'
    BY <1>3 DEF Inv, Report, FreedByOwner, Holding,
       SolversKept, OperandsKept
  <2>3. VectorsKept' /\ MatrixKept'
    BY <1>3 DEF Inv, Report, VectorsKept, VectorsLive, MatrixKept, SlotTypes
  <2> QED  BY <2>1, <2>2, <2>3 DEF Inv
<1>4. ASSUME NEW v \in Vectors, SetValues(v) PROVE Inv'
  <2>1. TypeOK'
    BY <1>4 DEF Inv, SetValues, TypeOK
  <2>2. FreedByOwner' /\ Holding' /\ SolversKept' /\ OperandsKept'
    BY <1>4 DEF Inv, SetValues, FreedByOwner, Holding,
       SolversKept, OperandsKept, TypeOK
  <2>3. VectorsKept' /\ MatrixKept'
    BY <1>4 DEF Inv, SetValues, VectorsKept, VectorsLive, MatrixKept,
       SlotTypes, TypeOK
  <2> QED  BY <2>1, <2>2, <2>3 DEF Inv
<1>5. CASE FreeOperands
  <2>1. TypeOK'
    BY <1>5 DEF Inv, FreeOperands, Idle, TypeOK
  <2>2. FreedByOwner' /\ Holding' /\ SolversKept' /\ OperandsKept'
    BY <1>5 DEF Inv, FreeOperands, Idle, FreedByOwner, Holding, SolversKept, OperandsKept
  <2>3. VectorsKept' /\ MatrixKept'
    BY <1>5 DEF Inv, FreeOperands, Idle, VectorsKept, VectorsLive, MatrixKept,
       SlotTypes
  <2> QED  BY <2>1, <2>2, <2>3 DEF Inv
<1>6. CASE LetMatrixGo
  <2>1. TypeOK'
    BY <1>6 DEF Inv, LetMatrixGo, Idle, TypeOK
  <2>2. FreedByOwner' /\ Holding' /\ SolversKept' /\ OperandsKept'
    <3>1. holders' = {} => pc = "gone"
      BY <1>6 DEF Inv, Holding, LetMatrixGo, Idle
    <3>2. Holding'
      BY <1>6, <3>1 DEF Inv, Holding, LetMatrixGo, Idle
    <3> QED  BY <1>6, <3>1, <3>2 DEF Inv, LetMatrixGo, Idle, FreedByOwner,
                SolversKept, OperandsKept
  <2>3. VectorsKept' /\ MatrixKept'
    <3>1. holders' = {} => pc = "gone"
      BY <1>6 DEF Inv, Holding, LetMatrixGo, Idle
    <3>2. alive' \in {alive, alive \ {"ginkgo"}} /\ pc' = pc /\ ptr' = ptr
      BY <1>6 DEF LetMatrixGo
    <3>3. \A s \in Slots : ptr[s] # Null => ptr[s] \in alive'
      BY <1>6, <3>1 DEF Inv, MatrixKept, LetMatrixGo
    <3>4. MatrixKept'
      BY <1>6, <3>2, <3>3 DEF Inv, MatrixKept, SlotTypes, LetMatrixGo
    <3> QED  BY <1>6, <3>2, <3>4 DEF Inv, VectorsKept, VectorsLive, LetMatrixGo
  <2> QED  BY <2>1, <2>2, <2>3 DEF Inv
<1> QED  BY <1>1, <1>2, <1>3, <1>4, <1>5, <1>6 DEF Use

LEMMA DestroyStep == ASSUME Inv, Destroy PROVE Inv'
<1>1. CASE DestroySolver
  <2>1. TypeOK'
    BY <1>1 DEF Inv, DestroySolver, TypeOK
  <2>2. FreedByOwner' /\ Holding' /\ SolversKept' /\ OperandsKept'
    BY <1>1 DEF Inv, DestroySolver, FreedByOwner, Holding, SolversKept, OperandsKept
  <2>3. VectorsKept' /\ MatrixKept'
    BY <1>1 DEF Inv, DestroySolver, VectorsKept, VectorsLive, MatrixKept,
       SlotTypes
  <2> QED  BY <2>1, <2>2, <2>3 DEF Inv
<1>2. CASE FreeLocals
  <2>1. TypeOK'
    <3>2. (IF local THEN VectorBlocks ELSE {}) \subseteq Blocks
      BY VectorBlocksType
    <3>3. alive' \subseteq Blocks /\ misfreed' \subseteq Blocks
      BY <1>2, <3>2, FreeType DEF Inv, FreeLocals, FreeVectors
    <3> QED  BY <1>2, <3>3 DEF Inv, TypeOK, FreeLocals, FreeVectors
  <2>2. FreedByOwner'
    <3>1. local => VectorsLive
      BY <1>2 DEF VectorsLive, FreeLocals, FreeVectors
    <3>2. Releasable(IF local THEN VectorBlocks ELSE {}, HypreBlocks)
      BY <3>1, VectorBlocksLive DEF Releasable
    <3> QED  BY <1>2, <3>2, FreeRight DEF Inv, FreeLocals, FreeVectors
  <2>3. Holding' /\ SolversKept' /\ OperandsKept'
    BY <1>2 DEF Inv, FreeLocals, FreeVectors, Free, VectorBlocks,
       Holding, SolversKept, OperandsKept
  <2>4. VectorsKept' /\ MatrixKept'
    BY <1>2 DEF Inv, FreeLocals, FreeVectors, Free, VectorBlocks, VectorsKept,
       VectorsLive, MatrixKept, SlotTypes
  <2> QED  BY <2>1, <2>2, <2>3, <2>4 DEF Inv
<1>3. CASE FreeSolvers
  <2>1. TypeOK'
    BY <1>3 DEF Inv, FreeSolvers, Free, TypeOK
  <2>2. FreedByOwner' /\ Holding' /\ SolversKept' /\ OperandsKept'
    BY <1>3 DEF Inv, FreeSolvers, Free, HypreBlocks, FreedByOwner,
       Holding, SolversKept, OperandsKept
  <2>3. VectorsKept' /\ MatrixKept'
    BY <1>3 DEF Inv, FreeSolvers, Free, VectorsKept, VectorsLive, MatrixKept,
       SlotTypes
  <2> QED  BY <2>1, <2>2, <2>3 DEF Inv
<1>4. CASE FreeMembers
  <2>1. TypeOK'
    <3>2. (IF ~local THEN VectorBlocks ELSE {}) \subseteq Blocks
      BY VectorBlocksType
    <3>3. alive' \subseteq Blocks /\ misfreed' \subseteq Blocks
      BY <1>4, <3>2, FreeType DEF Inv, FreeMembers, FreeVectors
    <3> QED  BY <1>4, <3>3 DEF Inv, TypeOK, FreeMembers, FreeVectors
  <2>2. FreedByOwner'
    <3>1. ~local => VectorsLive
      BY <1>4 DEF VectorsLive, FreeMembers, FreeVectors
    <3>2. Releasable(IF ~local THEN VectorBlocks ELSE {}, HypreBlocks)
      BY <3>1, VectorBlocksLive DEF Releasable
    <3> QED  BY <1>4, <3>2, FreeRight DEF Inv, FreeMembers, FreeVectors
  <2>3. Holding' /\ SolversKept' /\ OperandsKept'
    BY <1>4 DEF Inv, FreeMembers, FreeVectors, Free, VectorBlocks,
       Holding, SolversKept, OperandsKept
  <2>4. VectorsKept' /\ MatrixKept'
    BY <1>4 DEF Inv, FreeMembers, FreeVectors, Free, VectorBlocks, VectorsKept,
       VectorsLive, MatrixKept, SlotTypes
  <2> QED  BY <2>1, <2>2, <2>3, <2>4 DEF Inv
<1>5. CASE FreeArrays
  <2>1. TypeOK'
    BY <1>5 DEF Inv, FreeArrays, Free, TypeOK
  <2>2. FreedByOwner' /\ Holding' /\ SolversKept' /\ OperandsKept'
    BY <1>5 DEF Inv, FreeArrays, Free, WrapperBlocks, FreedByOwner,
       Holding, SolversKept, OperandsKept
  <2>3. VectorsKept' /\ MatrixKept'
    BY <1>5 DEF Inv, FreeArrays, Free, VectorsKept, VectorsLive, MatrixKept,
       SlotTypes
  <2> QED  BY <2>1, <2>2, <2>3 DEF Inv
<1>6. CASE FreeMatrix
  <2>1. TypeOK'
    <3>1. {ptr[s] : s \in {t \in FreedByHypre : ~Detached(t)}} \ {Null} \subseteq Blocks
      BY DEF Inv, TypeOK, FreedByHypre
    <3>2. alive' \subseteq Blocks /\ misfreed' \subseteq Blocks
      BY <1>6, <3>1, FreeType DEF Inv, TypeOK, FreeMatrix
    <3>3. ptr' \in [Slots -> Blocks \cup {Null}]
      BY <1>6 DEF Inv, TypeOK, FreeMatrix
    <3> QED  BY <1>6, <3>2, <3>3 DEF Inv, TypeOK, FreeMatrix
  <2>2. FreedByOwner'
    <3>1. CASE "parcsr" \notin alive
      BY <1>6, <3>1 DEF Inv, FreeMatrix, FreedByOwner
    <3>2. CASE "parcsr" \in alive
      <4>1. Releasable({"parcsr"} \cup
                         ({ptr[s] : s \in {t \in FreedByHypre : ~Detached(t)}} \ {Null}),
                       HypreBlocks)
        BY <3>2, MatrixBlocksLive DEF Releasable, HypreBlocks
      <4> QED  BY <1>6, <3>2, <4>1, FreeRight DEF Inv, FreeMatrix
    <3> QED  BY <3>1, <3>2
  <2>3. Holding' /\ SolversKept' /\ OperandsKept'
    <3>1. alive' \subseteq alive /\ ("ginkgo" \in alive => "ginkgo" \in alive')
      BY <1>6, MatrixBlocksLive DEF Releasable, FreeMatrix, Free, HypreBlocks
    <3> QED  BY <1>6, <3>1 DEF Inv, FreeMatrix, Holding, SolversKept,
                OperandsKept
  <2>4. VectorsKept' /\ MatrixKept'
    BY <1>6 DEF Inv, FreeMatrix, FreedByHypre, Detached, Free, VectorsKept,
       VectorsLive, MatrixKept, SlotTypes
  <2> QED  BY <2>1, <2>2, <2>3, <2>4 DEF Inv
<1>7. CASE FreeCopies
  <2>1. TypeOK'
    BY <1>7 DEF Inv, FreeCopies, Free, Blocks, TypeOK
  <2>2. FreedByOwner'
    <3> DEFINE copies == alive \cap {"diagI", "diagJ", "diagA", "offdI", "offdJ"}
                 ginkgo == IF holders' = {} THEN {"ginkgo"} ELSE {}
    <3>2. holders # {} /\ "ginkgo" \in alive
      BY <1>7 DEF Inv, Holding, FreeCopies
    <3>3. Releasable(copies \cup ginkgo, WrapperBlocks \cup {"ginkgo"})
      BY <3>2 DEF Releasable, WrapperBlocks
    <3>4. Free(copies \cup ginkgo, WrapperBlocks \cup {"ginkgo"})
      BY <1>7 DEF FreeCopies
    <3> HIDE DEF copies, ginkgo
    <3> QED  BY <3>3, <3>4, FreeRight DEF Inv
  <2>3. Holding' /\ SolversKept' /\ OperandsKept'
    BY <1>7 DEF Inv, FreeCopies, Free, Holding,
       SolversKept, OperandsKept
  <2>4. VectorsKept' /\ MatrixKept'
    BY <1>7 DEF Inv, FreeCopies, Free, VectorsKept, VectorsLive, MatrixKept,
       SlotTypes
  <2> QED  BY <2>1, <2>2, <2>3, <2>4 DEF Inv
<1> QED  BY <1>1, <1>2, <1>3, <1>4, <1>5, <1>6, <1>7 DEF Destroy

(* The type invariant and the invariant hold in every state.               *)
LEMMA InitInv == Init => Inv
<1> SUFFICES ASSUME Init PROVE Inv
  OBVIOUS
<1>1. TypeOK
  <2>1. alive \subseteq Blocks /\ ptr \in [Slots -> Blocks \cup {Null}]
    BY DEF Init, Blocks
  <2>2. target \in [Vectors -> {NoArray} \cup 0 .. MaxApplies]
    BY DEF Init
  <2>3. apply \in 0 .. MaxApplies /\ operands \subseteq 1 .. apply
    BY AppliesAssumption DEF Init
  <2>4. /\ setting \in Settings /\ misfreed \subseteq Blocks
        /\ owned \subseteq {"diag", "offd"} /\ marks \subseteq {"rownnz", "diag_first"}
        /\ permuted \subseteq Blocks \cup {Null} /\ holders \subseteq {"application", "solver"}
    BY DEF Init
  <2> HIDE DEF Null, NoArray
  <2> QED  BY <2>1, <2>2, <2>3, <2>4 DEF Init, TypeOK
<1>2. FreedByOwner /\ Holding /\ SolversKept /\ OperandsKept
  BY DEF Init, FreedByOwner, Holding, SolversKept,
     OperandsKept
<1>3. VectorsKept /\ MatrixKept
  BY DEF Init, VectorsKept, MatrixKept, SlotTypes
<1> QED  BY <1>1, <1>2, <1>3 DEF Inv

LEMMA StutterInv == Inv /\ UNCHANGED vars => Inv'
  BY DEF Inv, TypeOK, FreedByOwner, Holding,
     VectorsKept, VectorsLive, MatrixKept, SlotTypes, SolversKept, OperandsKept

THEOREM Invariance == Spec => []Inv
<1>1. Inv /\ [Next]_vars => Inv'
  BY ImportStep, ConstructStep, UseStep, DestroyStep, StutterInv DEF Next
<1> QED  BY InitInv, <1>1, PTL DEF Spec

(* Type correctness.                                                       *)
THEOREM TypeCorrect == Spec => []TypeOK
<1>1. Inv => TypeOK
  BY DEF Inv
<1> QED  BY Invariance, <1>1, PTL

(* Every block is released once and by whoever allocated it, wherever the  *)
(* constructor or an apply fails (set_block, ~par_csr, ~state).            *)
THEOREM FreedByOwnerHolds == Spec => []FreedByOwner
<1>1. Inv => FreedByOwner
  BY DEF Inv
<1> QED  BY Invariance, <1>1, PTL

(* A solver that is gone, destroyed or never finished, leaves nothing.     *)
THEOREM NothingLeftHolds == Spec => []NothingLeft
<1>1. Inv => NothingLeft
  <2> SUFFICES ASSUME Inv, pc = "gone" PROVE alive \subseteq {"ginkgo"}
    BY DEF NothingLeft
  <2>1. {"amg", "pcg", "setupB", "setupX", "diagI", "diagJ", "diagA", "offdI", "offdJ"}
          \cap alive = {}
    BY DEF Inv, SolversKept
  <2>2. {"vectorB", "vectorX"} \cap alive = {}
    BY DEF Inv, VectorsKept, VectorsLive
  <2>3. {"parcsr", "hypreOffI", "hypreMap", "colMap"} \cap alive = {}
    BY DEF Inv, MatrixKept
  <2> QED  BY <2>1, <2>2, <2>3 DEF Inv, TypeOK, Blocks, HypreBlocks,
              WrapperBlocks
<1> QED  BY Invariance, <1>1, PTL

(* The arrays hypre holds pointers to are there.                           *)
THEOREM ReadableHolds == Spec => []ReadableByHypre
<1>1. Inv => ReadableByHypre
  BY DEF Inv, MatrixKept, SolversKept, ReadableByHypre
<1> QED  BY Invariance, <1>1, PTL

(* BoomerAMG finds every row's diagonal first, and the caller's matrix is  *)
(* not rearranged for it.                                                  *)
THEOREM DiagonalFirstHolds == Spec => []DiagonalFirst
<1>1. Inv => DiagonalFirst
  BY DEF Inv, SolversKept, DiagonalFirst
<1> QED  BY Invariance, <1>1, PTL

(* A solve works on the operands of its own apply, which are allocated.    *)
THEOREM OwnOperandsHolds == Spec => []SolvesOwnOperands
<1>1. Inv => SolvesOwnOperands
  BY DEF Inv, OperandsKept, SolvesOwnOperands
<1> QED  BY Invariance, <1>1, PTL
==============================================================================
