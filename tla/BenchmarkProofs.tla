--------------------------- MODULE BenchmarkProofs ---------------------------
(***************************************************************************)
(* Proofs about the two components around the wrappers' solvers: the       *)
(* SpGEMM benchmark wrappers, for any number of products, and the driver   *)
(* device_smoke, for any number of ranks and repetitions.                  *)
(*                                                                         *)
(* SpGEMM: whoever throws, what is allocated besides the three matrices is *)
(* what x's wrap holds, so that nothing outlives an apply (Leftovers), and *)
(* x is complete when an apply returns (Progress).  What becomes of the    *)
(* application's matrices is a matter of what the wraps hold at each step  *)
(* (WrapsKept): only a one-phase product that is unwound loses any.        *)
(*                                                                         *)
(* device_smoke: a rank that leaves main before the others does so for a   *)
(* reason that gives all such ranks the same status, and keeps the others  *)
(* from ever ending their call (Ends).                                     *)
(***************************************************************************)
EXTENDS SpGemm, DeviceSmoke, TLAPS

OnePhaseSteps == {"alloc_rows", "multiply", "adopt", "copy_rows", "release"}
TwoPhaseSteps == {"resize", "numeric"}

(* An apply runs on a wrapper that lives, in the steps of its kind.        *)
Control ==
  /\ pc \in {"idle", "wrap", "leave"} \cup OnePhaseSteps \cup TwoPhaseSteps
  /\ pc \in OnePhaseSteps => OnePhase
  /\ pc \in TwoPhaseSteps => ~OnePhase
  /\ pc # "idle" => object = "live" /\ whole < apply
  /\ kokkos <=> object = "live" /\ kind = "kokkos"

(* What is there besides the matrices hangs on the wrap of x.              *)
Leftovers ==
  /\ alive \subseteq Operands \cup {block} \cup held["x"]
  /\ held \in [Wraps -> SUBSET (Operands \cup {Scratch, Data(apply)})]
  /\ pc \in {"idle", "wrap"} \/ ~OnePhase => \A w \in Wraps : held[w] = {}
  /\ pc = "alloc_rows" => held["x"] = {}
  /\ pc \in {"copy_rows", "release"} => block = Data(apply)

(* How much of the product x holds.                                        *)
Progress ==
  /\ pc \in TwoPhaseSteps \cup {"release", "leave"} => rowsOf = apply
  /\ pc \in {"copy_rows", "release", "leave"} => dataOf = apply
  /\ ProductWhole

Inv == TypeOK /\ Control /\ Leftovers /\ Progress

USE DEF Go, Still, Memory, Product, Wraps, Operands, Scratch, Name, Data, Unknown,
        OnePhaseSteps, TwoPhaseSteps

LEMMA InitInv == Init => Inv
<1> SUFFICES ASSUME Init PROVE Inv
  OBVIOUS
<1>1. TypeOK
  <2>1. apply \in 0 .. MaxApplies /\ whole \in 0 .. apply /\ rowsOf \in 0 .. apply
    BY SpGemmAssumption DEF Init
  <2> QED  BY <2>1 DEF Init, TypeOK
<1>2. Control /\ Leftovers /\ Progress
  BY DEF Init, Control, Leftovers, Progress, ProductWhole
<1> QED  BY <1>1, <1>2 DEF Inv

LEMMA Steps == ASSUME Inv, Next PROVE Inv'
<1>1. CASE Construct
  <2>1. TypeOK' /\ Control'
    BY <1>1 DEF Inv, TypeOK, Control, Leftovers, OnePhase, Construct,
       Constructible, Initialized, Kinds
  <2>2. Leftovers' /\ Progress'
    BY <1>1 DEF Inv, TypeOK, Control, Leftovers, Progress, ProductWhole,
       OnePhase, Construct, Constructible, Initialized, Kinds
  <2> QED  BY <2>1, <2>2 DEF Inv
<1>2. CASE Destroy
  <2>1. TypeOK' /\ Control'
    BY <1>2 DEF Inv, TypeOK, Control, Leftovers, OnePhase, Destroy
  <2>2. Leftovers' /\ Progress'
    BY <1>2 DEF Inv, TypeOK, Control, Leftovers, Progress, ProductWhole,
       OnePhase, Destroy
  <2> QED  BY <2>1, <2>2 DEF Inv
<1>3. CASE StartApply
  <2>1. TypeOK' /\ Control'
    BY <1>3, SpGemmAssumption DEF Inv, TypeOK, Control, Leftovers, OnePhase,
       StartApply
  <2>2. Leftovers' /\ Progress'
    BY <1>3 DEF Inv, TypeOK, Control, Leftovers, Progress, ProductWhole,
       OnePhase, StartApply
  <2> QED  BY <2>1, <2>2 DEF Inv
<1>4. CASE Wrap
  <2>1. TypeOK' /\ Control'
    BY <1>4 DEF Inv, TypeOK, Control, Leftovers, OnePhase, Wrap
  <2>2. Leftovers' /\ Progress'
    BY <1>4 DEF Inv, TypeOK, Control, Leftovers, Progress, ProductWhole,
       OnePhase, Wrap
  <2> QED  BY <2>1, <2>2 DEF Inv
<1>5. CASE AllocRows
  <2>1. TypeOK' /\ Control'
    BY <1>5 DEF Inv, TypeOK, Control, Leftovers, OnePhase, AllocRows
  <2>2. Leftovers' /\ Progress'
    BY <1>5 DEF Inv, TypeOK, Control, Leftovers, Progress, ProductWhole,
       OnePhase, AllocRows
  <2> QED  BY <2>1, <2>2 DEF Inv
<1>6. CASE Multiply
  <2>1. TypeOK' /\ Control'
    BY <1>6 DEF Inv, TypeOK, Control, Leftovers, OnePhase, Multiply
  <2>2. Leftovers' /\ Progress'
    BY <1>6 DEF Inv, TypeOK, Control, Leftovers, Progress, ProductWhole,
       OnePhase, Multiply
  <2> QED  BY <2>1, <2>2 DEF Inv
<1>7. CASE Adopt
  <2>1. TypeOK' /\ Control'
    BY <1>7, SpGemmAssumption DEF Inv, TypeOK, Control, Leftovers, OnePhase,
       Adopt
  <2>2. Leftovers' /\ Progress'
    BY <1>7 DEF Inv, TypeOK, Control, Leftovers, Progress, ProductWhole,
       OnePhase, Adopt
  <2> QED  BY <2>1, <2>2 DEF Inv
<1>8. CASE CopyRows
  <2>1. TypeOK' /\ Control'
    BY <1>8, SpGemmAssumption DEF Inv, TypeOK, Control, Leftovers, OnePhase,
       CopyRows, RowsCopied
  <2>2. Leftovers' /\ Progress'
    BY <1>8 DEF Inv, TypeOK, Control, Leftovers, Progress, ProductWhole,
       OnePhase, CopyRows, RowsCopied
  <2> QED  BY <2>1, <2>2 DEF Inv
<1>9. CASE Release
  <2>1. TypeOK' /\ Control'
    BY <1>9 DEF Inv, TypeOK, Control, Leftovers, OnePhase, Release, Released
  <2>2. Leftovers' /\ Progress'
    BY <1>9 DEF Inv, TypeOK, Control, Leftovers, Progress, ProductWhole,
       OnePhase, Release, Released
  <2> QED  BY <2>1, <2>2 DEF Inv
<1>10. CASE Symbolic
  <2>1. TypeOK' /\ Control'
    BY <1>10, SpGemmAssumption DEF Inv, TypeOK, Control, Leftovers, OnePhase,
       Symbolic
  <2>2. Leftovers' /\ Progress'
    BY <1>10 DEF Inv, TypeOK, Control, Leftovers, Progress, ProductWhole,
       OnePhase, Symbolic
  <2> QED  BY <2>1, <2>2 DEF Inv
<1>11. CASE Resize
  <2>1. TypeOK' /\ Control'
    BY <1>11 DEF Inv, TypeOK, Control, Leftovers, OnePhase, Resize
  <2>2. Leftovers' /\ Progress'
    BY <1>11 DEF Inv, TypeOK, Control, Leftovers, Progress, ProductWhole,
       OnePhase, Resize
  <2> QED  BY <2>1, <2>2 DEF Inv
<1>12. CASE Numeric
  <2>1. TypeOK' /\ Control'
    BY <1>12, SpGemmAssumption DEF Inv, TypeOK, Control, Leftovers, OnePhase,
       Numeric
  <2>2. Leftovers' /\ Progress'
    BY <1>12 DEF Inv, TypeOK, Control, Leftovers, Progress, ProductWhole,
       OnePhase, Numeric
  <2> QED  BY <2>1, <2>2 DEF Inv
<1>13. CASE Leave
  <2>1. TypeOK' /\ Control'
    BY <1>13, SpGemmAssumption DEF Inv, TypeOK, Control, Leftovers, OnePhase,
       Leave, FreeWraps
  <2>2. Leftovers' /\ Progress'
    BY <1>13 DEF Inv, TypeOK, Control, Leftovers, Progress, ProductWhole,
       OnePhase, Leave, FreeWraps
  <2> QED  BY <2>1, <2>2 DEF Inv
<1>14. CASE Unwind
  <2>1. TypeOK' /\ Control'
    BY <1>14, SpGemmAssumption DEF Inv, TypeOK, Control, Leftovers, OnePhase,
       Unwind, FreeWraps
  <2>2. Leftovers' /\ Progress'
    BY <1>14 DEF Inv, TypeOK, Control, Leftovers, Progress, ProductWhole,
       OnePhase, Unwind, FreeWraps
  <2> QED  BY <2>1, <2>2 DEF Inv
<1> QED  BY <1>1, <1>2, <1>3, <1>4, <1>5, <1>6, <1>7, <1>8, <1>9, <1>10, <1>11, <1>12, <1>13, <1>14 DEF Next

LEMMA Invariance == Spec => []Inv
<1>1. Inv /\ [Next]_vars => Inv'
  <2>1. Inv /\ UNCHANGED vars => Inv'
    BY DEF vars, Inv, TypeOK, Control, OnePhase, Leftovers, Progress, ProductWhole
  <2> QED  BY <2>1, Steps
<1> QED  BY InitInv, <1>1, PTL DEF Spec

(* Nothing that one product needed is left when its apply ends, and Kokkos *)
(* is up exactly while a KokkosCsr lives, whoever throws.                  *)
THEOREM NothingIsLeaked == Spec => []NothingLeaks
<1>1. Inv => NothingLeaks
  BY DEF Inv, Control, Leftovers, NothingLeaks
<1> QED  BY <1>1, Invariance, PTL

(* After an apply that returned, x is wholly that product, whoever throws  *)
(* in it or threw before.                                                  *)
THEOREM ProductIsWhole == Spec => []ProductWhole
<1>1. Inv => ProductWhole
  BY DEF Inv, Progress
<1> QED  BY <1>1, Invariance, PTL

-----------------------------------------------------------------------------
(* The application's matrices.  x's columns and values are from an earlier *)
(* apply until this one's replace them.                                    *)
BlockKept ==
  \E m \in 0 .. apply :
    /\ block = Data(m)
    /\ pc \in {"wrap", "alloc_rows", "multiply", "adopt", "resize"} => m < apply

(* The wraps of a one-phase product hold the application's arrays and what *)
(* the kernel has allocated, until all but the row offsets are released.   *)
WrapsKept ==
  /\ pc \in OnePhaseSteps => held["this"] = {Name("A")} /\ held["b"] = {Name("B")}
  /\ pc = "multiply" => held["x"] = {Scratch}
  /\ pc \in {"adopt", "copy_rows", "release"} => held["x"] = {Scratch, Data(apply)}
  /\ pc \in {"multiply", "adopt", "copy_rows", "release"} => Scratch \in alive
  /\ pc = "adopt" => Data(apply) \in alive
  /\ pc = "leave" /\ OnePhase =>
       /\ held["this"] = {} /\ held["b"] = {} /\ held["x"] = {Scratch}
       /\ Scratch \in alive

(* No one-phase product follows one that was unwound.                      *)
UnwoundLast == OnePhase /\ pc # "idle" => unwound = {}

Surviving == BlockKept /\ WrapsKept /\ UnwoundLast /\ LostOnlyByUnwinding

(* The wraps free what they hold.                                          *)
LEMMA Freed == UNION {held[w] : w \in Wraps} = held["this"] \cup held["b"] \cup held["x"]
  OBVIOUS

LEMMA FreedEnding ==
  ASSUME Inv, Surviving, FreeWraps, UNCHANGED <<kind, apply, block>>,
         (pc = "leave" /\ unwound' = unwound) \/ ~OnePhase
  PROVE  LostOnlyByUnwinding'
<1>1. UNION {held[w] : w \in Wraps} \in {{}, {Scratch}}
  BY Freed DEF Inv, Leftovers, Surviving, WrapsKept
<1>2. UNION {held[w] : w \in Wraps} \subseteq alive
  BY Freed DEF Inv, Leftovers, Surviving, WrapsKept
<1>3. block # Scratch
  BY DEF Surviving, BlockKept
<1>4. Lost' = Lost
  BY DEF Lost, OnePhase
<1> QED  BY <1>1, <1>2, <1>3, <1>4 DEF FreeWraps, Surviving, LostOnlyByUnwinding

(* What an unwound one-phase product takes with it.                        *)
LEMMA FreedUnwinding ==
  ASSUME Inv, Surviving, Unwind, OnePhase
  PROVE  LostOnlyByUnwinding'
<1> DEFINE freed == UNION {held[w] : w \in Wraps}
           gone == {Name("A"), Name("B")} \cup (IF pc = "copy_rows" THEN {block} ELSE {})
<1>1. /\ pc \in {"alloc_rows", "multiply", "adopt", "copy_rows"}
      /\ unwound = {} /\ unwound' = {pc}
      /\ FreeWraps /\ UNCHANGED <<kind, apply, block>>
  BY DEF Unwind, Surviving, UnwoundLast
<1>2. Lost = {} /\ Lost' = gone
  BY <1>1 DEF Lost, OnePhase
<1>3. misfreed = {} /\ \A a \in Operands \cup {block} : a \in alive
  BY <1>2 DEF Surviving, LostOnlyByUnwinding
<1>4. /\ freed = {Name("A"), Name("B")} \cup held["x"]
      /\ block \notin {Name("A"), Name("B"), Scratch}
      /\ pc \in {"alloc_rows", "multiply", "adopt"} => Data(apply) # block
      /\ pc = "copy_rows" => Data(apply) = block
  BY <1>1, Freed DEF Surviving, WrapsKept, BlockKept, Inv, Leftovers, TypeOK
<1>5. /\ pc = "alloc_rows" => held["x"] = {}
      /\ pc = "multiply" => held["x"] = {Scratch}
      /\ pc \in {"adopt", "copy_rows"} => held["x"] = {Scratch, Data(apply)}
  BY DEF Surviving, WrapsKept, Inv, Leftovers
<1>6. /\ \A a \in freed : a \in alive
      /\ \A a \in Operands \cup {block} : a \in freed <=> a \in gone
      /\ \A a \in gone : a \in freed /\ a \in Operands \cup {block}
  <2>1. \A a \in freed : a \in alive
    BY <1>1, <1>3, <1>4, <1>5 DEF Surviving, WrapsKept
  <2>2. \A a \in Operands \cup {block} : a \in freed <=> a \in gone
    BY <1>1, <1>4, <1>5
  <2>3. \A a \in gone : a \in freed /\ a \in Operands \cup {block}
    BY <1>1, <1>4, <1>5
  <2> QED  BY <2>1, <2>2, <2>3
<1>7. /\ alive' = alive \ freed
      /\ misfreed' = misfreed \cup (freed \cap (Operands \cup {block})) \cup (freed \ alive)
  BY <1>1 DEF FreeWraps
<1> HIDE DEF freed, gone
<1>8. misfreed' = gone
  BY <1>3, <1>6, <1>7
<1>9. \A a \in Operands \cup {block} : a \in alive' <=> a \notin gone
  BY <1>3, <1>6, <1>7
<1> QED  BY <1>1, <1>2, <1>8, <1>9 DEF LostOnlyByUnwinding

LEMMA SurvivingSteps ==
  ASSUME Inv, Surviving, Next
  PROVE  Surviving'
<1>1. CASE Construct
  <2>1. BlockKept'
    BY <1>1 DEF Surviving, BlockKept, Inv, TypeOK, Construct, Constructible,
       Initialized, Kinds
  <2>2. WrapsKept'
    BY <1>1 DEF Surviving, WrapsKept, Inv, Control, Leftovers, OnePhase,
       Construct, Constructible, Initialized, Kinds
  <2>3. LostOnlyByUnwinding'
    BY <1>1 DEF Surviving, LostOnlyByUnwinding, Lost, OnePhase, BlockKept, WrapsKept, Construct,
       Constructible, Initialized, Kinds
  <2>4. UnwoundLast'
    BY <1>1 DEF Surviving, UnwoundLast, OnePhase, Construct
  <2> QED  BY <2>1, <2>2, <2>3, <2>4 DEF Surviving
<1>2. CASE Destroy
  <2>1. BlockKept'
    BY <1>2 DEF Surviving, BlockKept, Inv, TypeOK, Destroy
  <2>2. WrapsKept'
    BY <1>2 DEF Surviving, WrapsKept, Inv, Control, Leftovers, OnePhase,
       Destroy
  <2>3. LostOnlyByUnwinding'
    BY <1>2 DEF Surviving, LostOnlyByUnwinding, Lost, OnePhase, BlockKept, WrapsKept, Destroy
  <2>4. UnwoundLast'
    BY <1>2 DEF Surviving, UnwoundLast, OnePhase, Destroy
  <2> QED  BY <2>1, <2>2, <2>3, <2>4 DEF Surviving
<1>3. CASE StartApply
  <2>1. BlockKept'
    BY <1>3 DEF Surviving, BlockKept, Inv, TypeOK, StartApply
  <2>2. WrapsKept'
    BY <1>3 DEF Surviving, WrapsKept, Inv, Control, Leftovers, OnePhase,
       StartApply
  <2>3. LostOnlyByUnwinding'
    BY <1>3 DEF Surviving, LostOnlyByUnwinding, Lost, OnePhase, BlockKept, WrapsKept, StartApply
  <2>4. UnwoundLast'
    BY <1>3 DEF Surviving, UnwoundLast, OnePhase, StartApply
  <2> QED  BY <2>1, <2>2, <2>3, <2>4 DEF Surviving
<1>4. CASE Wrap
  <2>1. BlockKept'
    BY <1>4 DEF Surviving, BlockKept, Inv, TypeOK, Wrap
  <2>2. WrapsKept'
    BY <1>4 DEF Surviving, WrapsKept, Inv, Control, Leftovers, OnePhase, Wrap
  <2>3. LostOnlyByUnwinding'
    BY <1>4 DEF Surviving, LostOnlyByUnwinding, Lost, OnePhase, BlockKept, WrapsKept, Wrap
  <2>4. UnwoundLast'
    BY <1>4 DEF Surviving, UnwoundLast, OnePhase, Wrap
  <2> QED  BY <2>1, <2>2, <2>3, <2>4 DEF Surviving
<1>5. CASE AllocRows
  <2>1. BlockKept'
    BY <1>5 DEF Surviving, BlockKept, Inv, TypeOK, AllocRows
  <2>2. WrapsKept'
    BY <1>5 DEF Surviving, WrapsKept, Inv, Control, Leftovers, OnePhase,
       AllocRows
  <2>3. LostOnlyByUnwinding'
    BY <1>5 DEF Surviving, LostOnlyByUnwinding, Lost, OnePhase, BlockKept, WrapsKept, AllocRows
  <2>4. UnwoundLast'
    BY <1>5 DEF Surviving, UnwoundLast, OnePhase, AllocRows
  <2> QED  BY <2>1, <2>2, <2>3, <2>4 DEF Surviving
<1>6. CASE Multiply
  <2>1. BlockKept'
    BY <1>6 DEF Surviving, BlockKept, Inv, TypeOK, Multiply
  <2>2. WrapsKept'
    BY <1>6 DEF Surviving, WrapsKept, Inv, Control, Leftovers, OnePhase,
       Multiply
  <2>3. LostOnlyByUnwinding'
    BY <1>6 DEF Surviving, LostOnlyByUnwinding, Lost, OnePhase, BlockKept, WrapsKept, Multiply
  <2>4. UnwoundLast'
    BY <1>6 DEF Surviving, UnwoundLast, OnePhase, Multiply
  <2> QED  BY <2>1, <2>2, <2>3, <2>4 DEF Surviving
<1>7. CASE Adopt
  <2>1. BlockKept'
    BY <1>7 DEF Surviving, BlockKept, Inv, TypeOK, Adopt
  <2>2. WrapsKept'
    <3>1. block # Scratch
      BY DEF Surviving, BlockKept
    <3> QED  BY <1>7, <3>1 DEF Surviving, WrapsKept, Inv, Control, OnePhase, Adopt
  <2>3. LostOnlyByUnwinding'
    <3>1. OnePhase /\ pc = "adopt"
      BY <1>7 DEF Adopt, Inv, Control
    <3>2. Lost = {} /\ Lost' = {}
      BY <1>7, <3>1 DEF Adopt, Surviving, UnwoundLast, Lost, OnePhase
    <3>3. Data(apply) \in alive /\ Data(apply) # block /\ block \notin Operands
      BY <1>7 DEF Adopt, Surviving, WrapsKept, BlockKept, Inv, TypeOK
    <3> QED  BY <1>7, <3>2, <3>3 DEF Adopt, Surviving, LostOnlyByUnwinding
  <2>4. UnwoundLast'
    BY <1>7 DEF Surviving, UnwoundLast, OnePhase, Adopt
  <2> QED  BY <2>1, <2>2, <2>3, <2>4 DEF Surviving
<1>8. CASE CopyRows
  <2>1. BlockKept'
    BY <1>8 DEF Surviving, BlockKept, Inv, TypeOK, CopyRows, RowsCopied
  <2>2. WrapsKept'
    BY <1>8 DEF Surviving, WrapsKept, Inv, Control, Leftovers, OnePhase,
       CopyRows, RowsCopied
  <2>3. LostOnlyByUnwinding'
    BY <1>8 DEF Surviving, LostOnlyByUnwinding, Lost, OnePhase, BlockKept, WrapsKept, CopyRows,
       RowsCopied
  <2>4. UnwoundLast'
    BY <1>8 DEF Surviving, UnwoundLast, OnePhase, CopyRows
  <2> QED  BY <2>1, <2>2, <2>3, <2>4 DEF Surviving
<1>9. CASE Release
  <2>1. BlockKept'
    BY <1>9 DEF Surviving, BlockKept, Inv, TypeOK, Release, Released
  <2>2. WrapsKept'
    BY <1>9 DEF Surviving, WrapsKept, Inv, Control, Leftovers, OnePhase,
       Release, Released
  <2>3. LostOnlyByUnwinding'
    BY <1>9 DEF Surviving, LostOnlyByUnwinding, Lost, OnePhase, BlockKept, WrapsKept, Release,
       Released
  <2>4. UnwoundLast'
    BY <1>9 DEF Surviving, UnwoundLast, OnePhase, Release
  <2> QED  BY <2>1, <2>2, <2>3, <2>4 DEF Surviving
<1>10. CASE Symbolic
  <2>1. BlockKept'
    BY <1>10 DEF Surviving, BlockKept, Inv, TypeOK, Symbolic
  <2>2. WrapsKept'
    BY <1>10 DEF Surviving, WrapsKept, Inv, Control, Leftovers, OnePhase,
       Symbolic
  <2>3. LostOnlyByUnwinding'
    BY <1>10 DEF Surviving, LostOnlyByUnwinding, Lost, OnePhase, BlockKept, WrapsKept, Symbolic
  <2>4. UnwoundLast'
    BY <1>10 DEF Surviving, UnwoundLast, OnePhase, Symbolic
  <2> QED  BY <2>1, <2>2, <2>3, <2>4 DEF Surviving
<1>11. CASE Resize
  <2>1. BlockKept'
    BY <1>11 DEF Surviving, BlockKept, Inv, TypeOK, Resize
  <2>2. WrapsKept'
    BY <1>11 DEF Surviving, WrapsKept, Inv, Control, Leftovers, OnePhase,
       Resize
  <2>3. LostOnlyByUnwinding'
    <3>1. ~OnePhase
      BY <1>11 DEF Resize, Inv, Control
    <3>2. Lost = {} /\ Lost' = {}
      BY <1>11, <3>1 DEF Resize, Lost, OnePhase
    <3>3. block \notin Operands
      BY DEF Surviving, BlockKept
    <3> QED  BY <1>11, <3>2, <3>3 DEF Resize, Surviving, LostOnlyByUnwinding
  <2>4. UnwoundLast'
    BY <1>11 DEF Surviving, UnwoundLast, OnePhase, Resize
  <2> QED  BY <2>1, <2>2, <2>3, <2>4 DEF Surviving
<1>12. CASE Numeric
  <2>1. BlockKept'
    BY <1>12 DEF Surviving, BlockKept, Inv, TypeOK, Numeric
  <2>2. WrapsKept'
    BY <1>12 DEF Surviving, WrapsKept, Inv, Control, Leftovers, OnePhase,
       Numeric
  <2>3. LostOnlyByUnwinding'
    BY <1>12 DEF Surviving, LostOnlyByUnwinding, Lost, OnePhase, BlockKept, WrapsKept, Numeric
  <2>4. UnwoundLast'
    BY <1>12 DEF Surviving, UnwoundLast, OnePhase, Numeric
  <2> QED  BY <2>1, <2>2, <2>3, <2>4 DEF Surviving
<1>13. CASE Leave
  <2>1. BlockKept'
    BY <1>13 DEF Surviving, BlockKept, Inv, TypeOK, Leave, FreeWraps
  <2>2. WrapsKept'
    BY <1>13 DEF Surviving, WrapsKept, Inv, Control, Leftovers, OnePhase,
       Leave, FreeWraps
  <2>3. LostOnlyByUnwinding'
    BY <1>13, FreedEnding DEF Leave
  <2>4. UnwoundLast'
    BY <1>13 DEF Surviving, UnwoundLast, OnePhase, Leave
  <2> QED  BY <2>1, <2>2, <2>3, <2>4 DEF Surviving
<1>14. CASE Unwind
  <2>1. BlockKept'
    BY <1>14 DEF Surviving, BlockKept, Inv, TypeOK, Unwind, FreeWraps
  <2>2. WrapsKept'
    BY <1>14 DEF Surviving, WrapsKept, Inv, Control, Leftovers, OnePhase,
       Unwind, FreeWraps
  <2>3. LostOnlyByUnwinding'
    <3>1. FreeWraps /\ UNCHANGED <<kind, apply, block>>
      BY <1>14 DEF Unwind
    <3> QED  BY <1>14, <3>1, FreedEnding, FreedUnwinding
  <2>4. UnwoundLast'
    BY <1>14 DEF Surviving, UnwoundLast, OnePhase, Unwind
  <2> QED  BY <2>1, <2>2, <2>3, <2>4 DEF Surviving
<1> QED  BY <1>1, <1>2, <1>3, <1>4, <1>5, <1>6, <1>7, <1>8, <1>9, <1>10, <1>11, <1>12, <1>13, <1>14 DEF Next

(* Every product that returns, and every one of nsparse and Kokkos, leaves *)
(* the application its matrices and releases every array once; a product   *)
(* of AC-SpGEMM or spECK that throws takes A and b with it, and x's new    *)
(* columns and values once they are adopted, and nothing else.             *)
THEOREM MatricesLostByUnwinding == Spec => []LostOnlyByUnwinding
<1>1. Init => Surviving
  BY DEF Init, Surviving, BlockKept, WrapsKept, UnwoundLast, LostOnlyByUnwinding, Lost
<1>2. Inv /\ Surviving /\ [Next]_vars => Surviving'
  <2>1. Surviving /\ UNCHANGED vars => Surviving'
    BY DEF vars, Surviving, BlockKept, WrapsKept, UnwoundLast, LostOnlyByUnwinding, Lost, OnePhase
  <2> QED  BY <2>1, SurvivingSteps
<1>3. Surviving => LostOnlyByUnwinding
  BY DEF Surviving
<1> QED  BY <1>1, <1>2, <1>3, Invariance, PTL DEF Spec
-----------------------------------------------------------------------------
(* device_smoke.  A rank that has left main's loop, or never entered it.   *)
Left(r) == at[r] \in {"finalize", "exited"}

(* No rank is at a later call than another that is at one, and none has    *)
(* ended a call while another has no executor yet; MPI ends for all.       *)
LockStep ==
  /\ \A q, r \in Ranks : at[q] \in Calls /\ at[r] \in Calls => at[q] = at[r]
  /\ \A q, r \in Ranks : at[q] \in {"start", "executor"} => at[r] \notin {"apply", "verify"}
  /\ \A q, r \in Ranks : at[q] = "exited" => at[r] = "exited"

(* A rank beyond parse_options has repetitions to make, one at a call has  *)
(* an executor; the repetition is one of them.                             *)
Passed ==
  /\ \A r \in Ranks : at[r] \in Calls \cup {"executor"} => reps > 0
  /\ \A r \in Ranks : at[r] \in Calls => backend
  /\ rep >= 1 /\ (reps > 0 => rep <= reps)

(* The verdict on the repetitions is the same on all ranks.                *)
Verdicts ==
  /\ \A q, r \in Ranks : overall[q] = overall[r]
  /\ \A r \in Ranks : overall[r] = 0 => right

(* All ranks left together, from the last repetition or from a call that   *)
(* threw on all of them.                                                   *)
EndedTogether ==
  /\ \A r \in Ranks : Left(r)
  /\ \A q, r \in Ranks : status[q] = status[r]
  /\ \A r \in Ranks : status[r] = 0 => right /\ rep = reps

(* The status of a rank that leaves on its own, which is the same for all. *)
EarlyStatus == IF reps > 0 /\ backend /\ fault \in Calls THEN 1 ELSE 2

LeftEarly ==
  \A r \in Ranks : Left(r) =>
    /\ status[r] = EarlyStatus
    /\ reps = 0 \/ ~backend \/ fault # "none"

Ends == EndedTogether \/ LeftEarly

SmokeInv == SmokeTypeOK /\ LockStep /\ Passed /\ Verdicts /\ Ends

(* Somebody can go on: a rank on its own, or all in a call they joined.    *)
SomebodyGoesOn ==
  \/ \E r \in Ranks : at[r] \in {"start", "executor"} \cup Calls /\ r \notin inside
  \/ \E c \in Calls : AllInside(c)
  \/ \A r \in Ranks : at[r] = "finalize"

NobodyWaitsInVain == fault = "none" => Exited \/ SomebodyGoesOn

USE DEF Calls, Left, AllInside

LEMMA RankZero == 0 \in Ranks
  BY SmokeAssumption DEF Ranks

LEMMA SmokeInitInv == SmokeInit => SmokeInv
<1> SUFFICES ASSUME SmokeInit PROVE SmokeInv
  OBVIOUS
<1>1. reps \in Nat
  BY SmokeAssumption DEF SmokeInit
<1>2. SmokeTypeOK
  BY DEF SmokeInit, SmokeTypeOK
<1>3. LockStep /\ Passed /\ Verdicts
  BY <1>1 DEF SmokeInit, LockStep, Passed, Verdicts
<1>4. LeftEarly
  BY DEF SmokeInit, LeftEarly
<1> QED  BY <1>2, <1>3, <1>4 DEF SmokeInv, Ends

(* While a rank has not left, whoever has left did so early.               *)
LEMMA NotTogether ==
  ASSUME SmokeInv, NEW r \in Ranks, ~Left(r)
  PROVE  LeftEarly
  BY DEF SmokeInv, Ends, EndedTogether

(* A step of one rank: where it may get, and with what status.             *)
LEMMA AloneMoves ==
  ASSUME SmokeInv, NEW r \in Ranks, Alone(r)
  PROVE  /\ UNCHANGED <<reps, backend, fault, rep, overall, right>>
         /\ ~Left(r)
         /\ \E p \in Calls \cup {"executor", "finalize"}, s \in {0, 1, 2} :
              /\ at' = [at EXCEPT ![r] = p]
              /\ status' = [status EXCEPT ![r] = s]
              /\ p = "executor" => at[r] = "start" /\ reps > 0
              /\ p \in Calls =>
                   \/ at[r] = p
                   \/ at[r] = "executor" /\ p = "generate" /\ backend
              /\ p = "finalize" =>
                   s = EarlyStatus /\ (reps = 0 \/ ~backend \/ fault # "none")
         /\ \/ inside' = inside /\ r \notin inside
            \/ inside' = inside \cup {r} /\ at' = at /\ at[r] \in Calls
<1> USE DEF SmokeInv
<1>0. reps \in Nat /\ status[r] \in {0, 1, 2} /\ at = [at EXCEPT ![r] = at[r]]
      /\ status = [status EXCEPT ![r] = status[r]]
      /\ (at[r] \notin Calls => r \notin inside)
  BY SmokeAssumption DEF SmokeTypeOK
<1>1. CASE ParseOptions(r)
  <2>1. CASE reps = 0
    BY <1>0, <1>1, <2>1 DEF ParseOptions, Return, EarlyStatus
  <2>2. CASE reps # 0
    BY <1>0, <1>1, <2>2 DEF ParseOptions
  <2> QED  BY <2>1, <2>2
<1>2. CASE CreateExecutor(r)
  <2>1. at[r] = "executor" /\ UNCHANGED <<reps, backend, fault, inside, rep, overall, right>>
    BY <1>2 DEF CreateExecutor
  <2>2. CASE backend /\ at' = [at EXCEPT ![r] = "generate"] /\ status' = status
    BY <1>0, <2>1, <2>2
  <2>3. CASE (~backend \/ fault = "executor") /\ Return(r, 2)
    BY <1>0, <2>1, <2>3 DEF Return, EarlyStatus
  <2> QED  BY <1>2, <2>2, <2>3 DEF CreateExecutor
<1>3. CASE Join(r)
  BY <1>0, <1>3 DEF Join
<1>4. CASE FailAlone(r)
  <2>1. reps > 0 /\ backend
    BY <1>4 DEF FailAlone, Passed
  <2> QED  BY <1>0, <1>4, <2>1 DEF FailAlone, Return, EarlyStatus
<1> QED  BY <1>1, <1>2, <1>3, <1>4 DEF Alone

LEMMA AloneInv == ASSUME SmokeInv, NEW r \in Ranks, Alone(r) PROVE SmokeInv'
<1> USE DEF SmokeInv
<1>1. PICK p \in Calls \cup {"executor", "finalize"}, s \in {0, 1, 2} :
        /\ at' = [at EXCEPT ![r] = p]
        /\ status' = [status EXCEPT ![r] = s]
        /\ p = "executor" => at[r] = "start" /\ reps > 0
        /\ p \in Calls =>
             \/ at[r] = p
             \/ at[r] = "executor" /\ p = "generate" /\ backend
        /\ p = "finalize" =>
             s = EarlyStatus /\ (reps = 0 \/ ~backend \/ fault # "none")
  BY AloneMoves
<1>2. /\ UNCHANGED <<reps, backend, fault, rep, overall, right>> /\ ~Left(r)
      /\ \/ inside' = inside /\ r \notin inside
         \/ inside' = inside \cup {r} /\ at' = at /\ at[r] \in Calls
  BY AloneMoves
<1>3. \A q \in Ranks : /\ at'[q] = IF q = r THEN p ELSE at[q]
                       /\ status'[q] = IF q = r THEN s ELSE status[q]
  BY <1>1 DEF SmokeTypeOK
<1>4. LockStep'
  BY <1>1, <1>2, <1>3 DEF LockStep
<1>5. SmokeTypeOK'
  <2>1. /\ at' \in [Ranks -> Calls \cup {"start", "executor", "finalize", "exited"}]
        /\ status' \in [Ranks -> {0, 1, 2}]
    BY <1>1 DEF SmokeTypeOK
  <2>2. inside' \subseteq {q \in Ranks : at'[q] \in Calls}
    BY <1>2, <1>3 DEF SmokeTypeOK
  <2>3. \A q, w \in inside' : at'[q] = at'[w]
    BY <1>4, <2>2 DEF LockStep
  <2> QED  BY <1>2, <2>1, <2>2, <2>3 DEF SmokeTypeOK
<1>6. Passed'
  BY <1>1, <1>2, <1>3 DEF Passed
<1>7. Verdicts'
  BY <1>2 DEF Verdicts
<1>8. LeftEarly'
  <2>1. LeftEarly
    BY <1>2, NotTogether
  <2>2. EarlyStatus' = EarlyStatus
    BY <1>2 DEF EarlyStatus
  <2> QED  BY <1>1, <1>2, <1>3, <2>1, <2>2 DEF LeftEarly
<1> QED  BY <1>4, <1>5, <1>6, <1>7, <1>8 DEF Ends

(* In a call all ranks have joined nobody has left.                        *)
LEMMA TogetherInv == ASSUME SmokeInv, Together PROVE SmokeInv'
<1> USE DEF SmokeInv
<1>0. /\ reps \in Nat /\ rep \in Nat
      /\ DOMAIN at = Ranks /\ DOMAIN status = Ranks /\ DOMAIN overall = Ranks
  BY SmokeAssumption DEF SmokeTypeOK
<1>1. ASSUME NEW c \in Calls, NEW next \in Calls, Complete(c, next)  PROVE SmokeInv'
  <2>1. /\ \A r \in Ranks : at[r] = c
        /\ inside' = {} /\ UNCHANGED <<reps, backend, fault, rep, overall, right>>
    BY <1>1 DEF Complete
  <2>2. LeftEarly
    BY <2>1, RankZero, NotTogether
  <2>3. reps > 0 /\ backend /\ Verdicts' /\ rep >= 1 /\ rep <= reps
    BY <2>1, RankZero DEF Passed, Verdicts
  <2>4. CASE at' = [r \in Ranks |-> next] /\ status' = status
    <3>1. SmokeTypeOK' /\ LockStep' /\ Passed'
      BY <2>1, <2>3, <2>4 DEF SmokeTypeOK, LockStep, Passed
    <3>2. LeftEarly'
      BY <2>4 DEF LeftEarly
    <3> QED  BY <2>3, <3>1, <3>2 DEF Ends
  <2>5. CASE at' = [r \in Ranks |-> "finalize"] /\ status' = [r \in Ranks |-> 1]
    <3>1. SmokeTypeOK' /\ LockStep' /\ Passed'
      BY <2>1, <2>3, <2>5 DEF SmokeTypeOK, LockStep, Passed
    <3>2. EndedTogether'
      BY <2>5 DEF EndedTogether
    <3> QED  BY <2>3, <3>1, <3>2 DEF Ends
  <2> QED  BY <1>1, <2>4, <2>5 DEF Complete
<1>2. CASE Verify
  <2>1. /\ \A r \in Ranks : at[r] = "verify"
        /\ inside' = {} /\ UNCHANGED <<reps, backend, fault>>
        /\ rep' = IF rep < reps THEN rep + 1 ELSE rep
    BY <1>2 DEF Verify
  <2>2. PICK x \in Results :
          /\ overall' = [r \in Ranks |-> Overall(x, r)]
          /\ right' = (right /\ x.converged /\ x.hypre = "accurate")
          /\ at' = [r \in Ranks |-> IF LeavesLoop(x, r) THEN "finalize" ELSE "generate"]
          /\ status' = [r \in Ranks |-> IF LeavesLoop(x, r) THEN overall'[r] ELSE status[r]]
    BY <1>2, Zenon DEF Verify
  <2>3. reps > 0 /\ backend /\ rep >= 1 /\ rep <= reps
    BY <2>1, RankZero DEF Passed
  <2>4. rep' \in Nat /\ rep' >= 1 /\ rep' <= reps
    BY <1>0, <2>1, <2>3
  <2>5. \A r \in Ranks : overall[r] \in {0, 1} /\ overall'[r] = Overall(x, r)
    BY <2>2 DEF SmokeTypeOK
  <2>6. overall' \in [Ranks -> {0, 1}]
    BY <2>2, <2>5 DEF Overall
  <2>7. \A q, r \in Ranks : RepOk(x, q) <=> RepOk(x, r)
    BY DEF RepOk, DiffSmall
  <2>8. \A q, r \in Ranks : overall'[q] = overall'[r]
    BY <2>5, <2>7 DEF Overall, Verdicts
  <2>9. right' \in BOOLEAN /\ \A r \in Ranks : overall'[r] = 0 => right'
    <3>1. \A r \in Ranks : overall'[r] = 0 => overall[r] = 0 /\ RepOk(x, r)
      BY <2>5 DEF Overall
    <3>2. \A r \in Ranks : RepOk(x, r) => x.converged /\ x.hypre = "accurate"
      BY DEF RepOk, ResidualSmall
    <3>3. \A r \in Ranks : overall[r] = 0 => right
      BY DEF Verdicts
    <3>4. \A r \in Ranks : overall'[r] = 0 => right'
      BY <2>2, <3>1, <3>2, <3>3, Zenon
    <3>5. right' \in BOOLEAN
      BY <2>2, Zenon
    <3> QED  BY <3>4, <3>5
  <2>10. CASE rep = reps
    <3>1. /\ at' = [r \in Ranks |-> "finalize"]
          /\ status' = [r \in Ranks |-> overall'[r]] /\ rep' = reps
      BY <1>0, <2>1, <2>2, <2>10 DEF LeavesLoop
    <3>2. SmokeTypeOK'
      BY <2>1, <2>4, <2>6, <2>9, <3>1 DEF SmokeTypeOK
    <3>3. LockStep' /\ Passed' /\ Verdicts'
      BY <2>1, <2>3, <2>4, <2>8, <2>9, <3>1 DEF LockStep, Passed, Verdicts
    <3>4. EndedTogether'
      BY <2>1, <2>8, <2>9, <3>1 DEF EndedTogether
    <3> QED  BY <3>2, <3>3, <3>4 DEF Ends
  <2>11. CASE rep # reps
    <3>1. at' = [r \in Ranks |-> "generate"] /\ status' = [r \in Ranks |-> status[r]]
      BY <2>2, <2>11 DEF LeavesLoop
    <3>2. SmokeTypeOK'
      BY <2>1, <2>4, <2>6, <2>9, <3>1 DEF SmokeTypeOK
    <3>3. LockStep' /\ Passed' /\ Verdicts'
      BY <2>1, <2>3, <2>4, <2>8, <2>9, <3>1 DEF LockStep, Passed, Verdicts
    <3>4. LeftEarly'
      BY <3>1 DEF LeftEarly
    <3> QED  BY <3>2, <3>3, <3>4 DEF Ends
  <2> QED  BY <2>10, <2>11
<1>3. CASE Finalize
  <2>1. /\ \A r \in Ranks : at[r] = "finalize" /\ at'[r] = "exited"
        /\ at' = [r \in Ranks |-> "exited"]
        /\ UNCHANGED <<reps, backend, fault, inside, rep, overall, status, right>>
    BY <1>3 DEF Finalize
  <2>2. SmokeTypeOK' /\ LockStep' /\ Passed' /\ Verdicts'
    BY <2>1 DEF SmokeTypeOK, LockStep, Passed, Verdicts
  <2>3. Ends'
    <3>1. CASE EndedTogether
      BY <2>1, <3>1 DEF Ends, EndedTogether
    <3>2. CASE LeftEarly
      BY <2>1, <3>2 DEF Ends, LeftEarly, EarlyStatus
    <3> QED  BY <3>1, <3>2 DEF Ends
  <2> QED  BY <2>2, <2>3
<1> QED  BY <1>1, <1>2, <1>3 DEF Together

LEMMA SmokeStutter == SmokeInv /\ UNCHANGED smokeVars => SmokeInv'
  BY DEF smokeVars, SmokeInv, SmokeTypeOK, LockStep, Passed, Verdicts, Ends,
         EndedTogether, LeftEarly, EarlyStatus

(* Ranks that leave main early do so with one status, and only all ranks   *)
(* together leave its loop, wherever a rank fails alone.                   *)
THEOREM SmokeInvariance == SmokeSpec => []SmokeInv
<1>1. SmokeInv /\ [SmokeNext]_smokeVars => SmokeInv'
  BY AloneInv, TogetherInv, SmokeStutter DEF SmokeNext
<1> QED  BY SmokeInitInv, <1>1, PTL DEF SmokeSpec

(* device_smoke exits alike on all ranks, and with zero only if every      *)
(* repetition converged to an accurate solution on all of them.            *)
THEOREM StatusIsRight == SmokeSpec => []StatusRight
<1>1. SmokeInv => StatusRight
  <2> SUFFICES ASSUME SmokeInv, Exited  PROVE StatusRight
    BY DEF StatusRight
  <2>1. \A r \in Ranks : Left(r)
    BY DEF Exited
  <2>2. CASE EndedTogether
    BY <2>2, RankZero DEF EndedTogether, StatusRight
  <2>3. CASE LeftEarly
    <3>1. \A r \in Ranks : status[r] = EarlyStatus /\ EarlyStatus # 0
      BY <2>1, <2>3 DEF LeftEarly, EarlyStatus
    <3> QED  BY <3>1, RankZero DEF StatusRight
  <2> QED  BY <2>2, <2>3 DEF SmokeInv, Ends
<1> QED  BY <1>1, SmokeInvariance, PTL

(* Unless a rank fails alone, some rank can always go on until all have    *)
(* exited: what EveryRankExits needs besides fairness.                     *)
THEOREM SmokeGoesOn == SmokeSpec => []NobodyWaitsInVain
<1>1. SmokeInv => NobodyWaitsInVain
  <2> SUFFICES ASSUME SmokeInv, fault = "none", ~Exited,
                      ~\E r \in Ranks : at[r] \in {"start", "executor"} \cup Calls /\ r \notin inside
               PROVE  SomebodyGoesOn
    BY DEF NobodyWaitsInVain, SomebodyGoesOn
  <2> USE DEF SmokeInv
  <2>1. \A r \in Ranks : at[r] \in {"start", "executor"} => r \notin inside
    BY DEF SmokeTypeOK
  <2>2. \A r \in Ranks : (at[r] \in Calls /\ r \in inside) \/ Left(r)
    BY <2>1 DEF SmokeTypeOK
  <2>3. CASE \A r \in Ranks : Left(r)
    BY <2>3 DEF LockStep, Exited, SomebodyGoesOn
  <2>4. CASE \E r \in Ranks : ~Left(r)
    <3>1. PICK r \in Ranks : ~Left(r)
      BY <2>4
    <3>2. LeftEarly /\ reps > 0 /\ backend
      BY <2>2, <3>1, NotTogether DEF Passed
    <3>3. \A q \in Ranks : ~Left(q)
      BY <3>2 DEF LeftEarly
    <3>4. AllInside(at[r]) /\ at[r] \in Calls
      BY <2>2, <3>3 DEF LockStep, SmokeTypeOK
    <3> QED  BY <3>4 DEF SomebodyGoesOn
  <2> QED  BY <2>3, <2>4
<1> QED  BY <1>1, SmokeInvariance, PTL
=============================================================================
