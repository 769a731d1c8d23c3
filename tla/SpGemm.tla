-------------------------------- MODULE SpGemm --------------------------------
(***************************************************************************)
(* The SpGEMM benchmark wrappers: which device arrays one product x = A b  *)
(* hands to the third-party kernels, who releases them, and what x holds   *)
(* at each point, for a wrapper that is created, applied and destroyed.    *)
(* The kernels are external: AC-SpGEMM and spECK allocate the product's    *)
(* columns and values, and their dCSR frees what it points at when it goes *)
(* out of scope; nsparse and Kokkos work on Ginkgo's arrays in two phases. *)
(***************************************************************************)
EXTENDS Integers

CONSTANT MaxApplies   \* bound: applies of the wrapper

Kinds == {"nsparse", "ac", "speck", "kokkos"}

ASSUME SpGemmAssumption == MaxApplies \in Nat

VARIABLES
  kind, cuda,    \* the wrapper, and whether its executor is a CudaExecutor
  object,        \* "none", "live" or "gone"
  kokkos,        \* Kokkos is initialized
  pc,            \* where an apply stands, "idle" between applies
  alive,         \* device arrays allocated and not released
  misfreed,      \* arrays released twice, or Ginkgo's released by a kernel's
  held,          \* held[w]: the arrays the dCSR w frees with itself
  rowsOf,        \* the apply x's row pointers are from
  dataOf,        \* the apply x's columns and values are from
  block,         \* the arrays of x's columns and values
  apply,         \* number of applies so far
  whole,         \* the last apply to return normally
  unwound        \* the steps of applies that threw

vars == <<kind, cuda, object, kokkos, pc, alive, misfreed, held, rowsOf, dataOf,
          block, apply, whole, unwound>>

Wraps    == {"this", "b", "x"}
Data(n)  == <<"data", n>>
Name(a)  == <<a, 0>>
Operands == {Name("A"), Name("B"), Name("x_rows")}
Scratch  == Name("row_offsets")
Unknown  == -1       \* allocated, not written yet

Init ==
  /\ kind \in Kinds /\ cuda \in BOOLEAN
  /\ object = "none" /\ kokkos = FALSE /\ pc = "idle"
  /\ alive = Operands \cup {Data(0)} /\ misfreed = {}
  /\ held = [w \in Wraps |-> {}]
  /\ rowsOf = 0 /\ dataOf = 0 /\ block = Data(0) /\ apply = 0 /\ whole = 0
  /\ unwound = {}

OnePhase == kind \in {"ac", "speck"}
Go(from, to) == pc = from /\ pc' = to /\ UNCHANGED <<kind, cuda>>
Still == UNCHANGED <<object, kokkos>>
Memory == <<alive, misfreed, held>>
Product == <<rowsOf, dataOf, block>>

-------------------------------------------------------------------------------
(* The constructor of KokkosCsr throws on another executor than a          *)
(* CudaExecutor before it has initialized Kokkos; the others take any.     *)
Initialized(ok) == kind = "kokkos" /\ ok

Constructible == kind = "kokkos" => cuda

Construct ==
  /\ object = "none" /\ Go("idle", "idle")
  /\ object' = IF Constructible THEN "live" ELSE "gone"
  /\ kokkos' = Initialized(Constructible)
  /\ UNCHANGED <<Memory, Product, apply, whole, unwound>>

(* ~KokkosCsr finalizes Kokkos; a constructor that threw has no destructor.*)
Destroy ==
  /\ object = "live" /\ Go("idle", "idle")
  /\ object' = "gone" /\ kokkos' = FALSE
  /\ UNCHANGED <<Memory, Product, apply, whole, unwound>>

(* as<CudaExecutor> and as<csr> pass; otherwise apply throws, untouched.   *)
(* What a product of released arrays does is undefined and not followed.   *)
StartApply ==
  /\ object = "live" /\ cuda /\ apply < MaxApplies /\ Go("idle", "wrap")
  /\ OnePhase => unwound = {}
  /\ apply' = apply + 1 /\ Still
  /\ UNCHANGED <<Memory, Product, whole, unwound>>

(* AC-SpGEMM and spECK get the arrays of A and b in dCSRs.                 *)
Wrap ==
  /\ OnePhase /\ Go("wrap", "alloc_rows")
  /\ held' = [this |-> {Name("A")}, b |-> {Name("B")}, x |-> {}]
  /\ Still /\ UNCHANGED <<alive, misfreed, Product, apply, whole, unwound>>

(* x's wrap gets a new array for the rows of the product.                  *)
AllocRows ==
  /\ Go("alloc_rows", "multiply")
  /\ alive' = alive \cup {Scratch} /\ misfreed' = misfreed
  /\ held' = [held EXCEPT !["x"] = {Scratch}]
  /\ Still /\ UNCHANGED <<Product, apply, whole, unwound>>

(* The kernel allocates the columns and values it computes.                *)
Multiply ==
  /\ OnePhase /\ Go("multiply", "adopt")
  /\ alive' = alive \cup {Data(apply)} /\ misfreed' = misfreed
  /\ held' = [held EXCEPT !["x"] = @ \cup {Data(apply)}]
  /\ Still /\ UNCHANGED <<Product, apply, whole, unwound>>

(* x takes the new columns and values over and releases its old ones.      *)
Adopt ==
  /\ Go("adopt", "copy_rows")
  /\ alive' = alive \ {block} /\ block' = Data(apply) /\ dataOf' = apply
  /\ Still /\ UNCHANGED <<misfreed, held, rowsOf, apply, whole, unwound>>

(* Variant: x keeps the row pointers it had.                               *)
RowsKept(n) == rowsOf

(* The row offsets are copied into x's own array.                          *)
RowsCopied(n) == n

CopyRows ==
  /\ Go("copy_rows", "release")
  /\ rowsOf' = RowsCopied(apply)
  /\ Still /\ UNCHANGED <<Memory, dataOf, block, apply, whole, unwound>>

(* Variants: b's wrap keeps its arrays; x's row offsets are let go too.    *)
ReleasedNotB == [w \in Wraps |-> IF w = "this" THEN {} ELSE held[w] \ {block}]
ReleasedAll  == [w \in Wraps |-> {}]

(* The pointers are set to null, all but x's row offsets.                  *)
Released == [w \in Wraps |-> IF w = "x" THEN {Scratch} ELSE {}]

Release ==
  /\ Go("release", "leave")
  /\ held' = Released
  /\ Still /\ UNCHANGED <<alive, misfreed, Product, apply, whole, unwound>>

-------------------------------------------------------------------------------
(* nsparse and Kokkos: x's row pointers are written first.                 *)
Symbolic ==
  /\ ~OnePhase /\ Go("wrap", "resize")
  /\ rowsOf' = apply
  /\ Still /\ UNCHANGED <<Memory, dataOf, block, apply, whole, unwound>>

(* resize_and_reset of the columns and the values.                         *)
Resize ==
  /\ Go("resize", "numeric")
  /\ alive' = (alive \ {block}) \cup {Data(apply)} /\ block' = Data(apply)
  /\ dataOf' = Unknown
  /\ Still /\ UNCHANGED <<misfreed, held, rowsOf, apply, whole, unwound>>

Numeric ==
  /\ Go("numeric", "leave")
  /\ dataOf' = apply
  /\ Still /\ UNCHANGED <<Memory, rowsOf, block, apply, whole, unwound>>

-------------------------------------------------------------------------------
(* The dCSRs go out of scope and free what they hold.                      *)
FreeWraps ==
  LET freed == UNION {held[w] : w \in Wraps}
  IN  /\ alive' = alive \ freed
      /\ misfreed' = misfreed \cup (freed \cap (Operands \cup {block})) \cup (freed \ alive)
      /\ held' = [w \in Wraps |-> {}]

Leave ==
  /\ Go("leave", "idle") /\ FreeWraps
  /\ whole' = apply
  /\ Still /\ UNCHANGED <<Product, apply, unwound>>

(* An allocation, a kernel or a copy throws: the wraps go as they are,     *)
(* with the application's arrays still in them.                            *)
Unwind ==
  /\ \E from \in IF OnePhase THEN {"alloc_rows", "multiply", "adopt", "copy_rows"}
                  ELSE {"wrap", "resize", "numeric"} :
       Go(from, "idle") /\ unwound' = unwound \cup {from}
  /\ FreeWraps
  /\ Still /\ UNCHANGED <<Product, apply, whole>>

Next ==
  \/ Construct \/ Destroy \/ StartApply
  \/ Wrap \/ AllocRows \/ Multiply \/ Adopt \/ CopyRows \/ Release
  \/ Symbolic \/ Resize \/ Numeric
  \/ Leave \/ Unwind

Spec == Init /\ [][Next]_vars

-------------------------------------------------------------------------------
(* Types; a kernel's wrap of x holds nothing of x's own.                   *)
TypeOK ==
  /\ kind \in Kinds /\ cuda \in BOOLEAN /\ kokkos \in BOOLEAN
  /\ object \in {"none", "live", "gone"}
  /\ held["x"] \subseteq {Scratch, Data(apply)}
  /\ apply \in 0..MaxApplies /\ whole \in 0..apply
  /\ unwound \subseteq {"alloc_rows", "multiply", "adopt", "copy_rows",
                      "wrap", "resize", "numeric"}
  /\ rowsOf \in 0..apply /\ dataOf \in {Unknown} \cup 0..apply

(* The arrays of the application that a thrown AC-SpGEMM or spECK product  *)
(* has taken with it: A and b, and what x has just adopted.                *)
Lost ==
  IF OnePhase /\ unwound # {}
  THEN {Name("A"), Name("B")} \cup (IF "copy_rows" \in unwound THEN {block} ELSE {})
  ELSE {}

(* The matrices of the application survive every product that returns, and *)
(* every product of nsparse and Kokkos: Ginkgo alone releases their        *)
(* arrays, each once.  A product of AC-SpGEMM or spECK that throws         *)
(* releases those in its dCSRs under the application (the comment "prevent *)
(* data from being deleted" comes too late), but never x's row pointers.   *)
LostOnlyByUnwinding ==
  /\ misfreed = Lost
  /\ \A a \in Operands \cup {block} : a \in alive <=> a \notin Lost

(* Between applies nothing is left of one: the row offsets allocated for   *)
(* the kernel are gone, and so are x's former columns and values.  Kokkos  *)
(* is up while a KokkosCsr lives and at no other time, also when its       *)
(* constructor throws.                                                     *)
NothingLeaks ==
  /\ pc = "idle" => alive \subseteq Operands \cup {block}
  /\ kokkos <=> object = "live" /\ kind = "kokkos"

(* After an apply that returned, x's rows, columns and values are all of   *)
(* that product, whatever an earlier apply left half-written.              *)
ProductWhole ==
  pc = "idle" /\ apply > 0 /\ whole = apply => rowsOf = apply /\ dataOf = apply
===============================================================================
