------------------------------ MODULE KspVectors ------------------------------
(***************************************************************************)
(* How solver::Ksp hands the application's b and x to PETSc: the caller's  *)
(* arrays, or host copies of them, are placed in the two vectors built at  *)
(* generation for the time of one solve and reset on every way out.  One   *)
(* solver is applied again and again, plainly or as alpha * solve + beta * *)
(* x, and every call may fail.  The rejections before the solve are        *)
(* KspSpmd's.                                                              *)
(***************************************************************************)
EXTENDS Integers, Sequences

CONSTANT MaxApplies   \* bound: applies of the solver, a natural number

VARIABLES
  setting,     \* where the executor and PETSc's vectors live
  pc,          \* where the apply stands
  advanced,    \* the apply is the four-argument one
  applies,     \* number of applies so far
  content,     \* what the arrays of this apply hold
  placed,      \* placed[v]: array placed in vector v, or "own"
  guards,      \* the placed_array objects alive, innermost last
  stuck,       \* vectors whose reset failed: the error is not checked
  ended,       \* how the last apply ended: "ok" or "thrown"
  reported,    \* the apply each of the three diagnostics is from
  completed    \* the last solve whose results were stored

dataVars == <<content, placed, guards, stuck>>
pastVars == <<ended, reported, completed>>
vars == <<setting, pc, advanced, applies, dataVars, pastVars>>

Settings == {"host",       \* host executor
             "in_place",   \* device executor, device vectors
             "staged"}     \* device executor, PETSc without CUDA

Vectors == {"b", "x"}
Arrays  == {"b", "x", "x_solve", "host_b", "host_x"}
Values  == {"none", "rhs", "guess", "partial", "solution", "combined", "wrong"}
Diagnostics == {"iterations", "norm", "reason"}

DeviceVectors == setting = "in_place"
OnDevice(a)   == setting # "host" /\ a \in {"b", "x", "x_solve"}

(* The vector apply_impl(b, x) is called with as x.                        *)
Target == IF advanced THEN "x_solve" ELSE "x"

Init ==
  /\ setting \in Settings /\ pc = "idle" /\ advanced = FALSE /\ applies = 0
  /\ content = [a \in Arrays |-> "none"]
  /\ placed = [v \in Vectors |-> "own"] /\ guards = <<>> /\ stuck = {}
  /\ ended = "ok" /\ reported = [d \in Diagnostics |-> 0] /\ completed = 0

Go(from, to) == pc = from /\ pc' = to /\ UNCHANGED <<setting, advanced, applies>>

-----------------------------------------------------------------------------
(* The application calls apply; the advanced one works on a clone of x.    *)
StartApply ==
  /\ pc = "idle" /\ applies < MaxApplies
  /\ applies' = applies + 1 /\ advanced' \in BOOLEAN
  /\ content' = [a \in Arrays |->
       CASE a = "b" -> "rhs"
         [] a = "x" \/ (a = "x_solve" /\ advanced') -> "guess"
         [] OTHER -> "none"]
  /\ pc' = IF setting = "staged" THEN "copy_in" ELSE "place_b"
  /\ UNCHANGED <<setting, placed, guards, stuck, pastVars>>

(* An exception leaves apply; the guards alive are destroyed on the way.   *)
Throw(from) == Go(from, "unwind") /\ UNCHANGED dataVars

(* solve_with_arrays copies both operands to the host.                     *)
CopyIn ==
  /\ \/ /\ Go("copy_in", "place_b")
        /\ content' = [content EXCEPT !["host_b"] = content["b"],
                                      !["host_x"] = content[Target]]
        /\ UNCHANGED <<placed, guards, stuck>>
     \/ Throw("copy_in")
  /\ UNCHANGED pastVars

(* The array solve() is called with.                                       *)
Operand(v) ==
  IF setting = "staged" THEN (IF v = "b" THEN "host_b" ELSE "host_x")
  ELSE IF v = "b" THEN "b" ELSE Target

(* placed_array's constructor.  PETSc refuses a second array in a vector.  *)
PlaceArray(v) ==
  LET at == IF v = "b" THEN "place_b" ELSE "place_x"
  IN /\ \/ /\ placed[v] = "own"
           /\ Go(at, IF v = "b" THEN "place_x" ELSE "solve")
           /\ placed' = [placed EXCEPT ![v] = Operand(v)]
           /\ guards' = Append(guards, v)
           /\ UNCHANGED <<content, stuck>>
        \/ Throw(at)
     /\ UNCHANGED pastVars

(* What KSPSolve makes of the arrays in the vectors.                       *)
Solution ==
  IF /\ content[placed["b"]] = "rhs" /\ content[placed["x"]] = "guess"
     /\ \A v \in Vectors : OnDevice(placed[v]) <=> DeviceVectors
  THEN "solution" ELSE "wrong"

Solve ==
  /\ \/ /\ Go("solve", "read")
        /\ content' = [content EXCEPT ![placed["x"]] = Solution]
     \/ /\ Go("solve", "unwind")
        /\ content' \in {content, [content EXCEPT ![placed["x"]] = "partial"]}
  /\ UNCHANGED <<placed, guards, stuck, pastVars>>

(* The three diagnostics are read, which may fail, then stored.            *)
ReadDiagnostics ==
  /\ \/ /\ Go("read", "reset")
        /\ reported' = [d \in Diagnostics |-> applies]
        /\ completed' = applies
     \/ Go("read", "unwind") /\ UNCHANGED <<reported, completed>>
  /\ UNCHANGED <<dataVars, ended>>

(* VecResetArray restores the vector's own array; a second one would lose  *)
(* it.                                                                     *)
Reset(v) == [placed EXCEPT ![v] = IF @ = "own" THEN "lost" ELSE "own"]

(* The destructor does not look at what VecResetArray returns: when it     *)
(* fails the array stays in the vector, and PETSc refuses the next one.    *)
ResetOrStick(v) ==
  \/ placed' = Reset(v) /\ UNCHANGED stuck
  \/ stuck' = stuck \cup {v} /\ UNCHANGED placed

DropGuard ==
  /\ guards' = SubSeq(guards, 1, Len(guards) - 1)
  /\ UNCHANGED <<setting, pc, advanced, applies, content, pastVars>>

(* Variant of DestroyGuard: an exception skips the reset.                  *)
DestroyGuardOnSuccess ==
  /\ pc \in {"reset", "unwind"} /\ guards # <<>>
  /\ IF pc = "reset" THEN ResetOrStick(guards[Len(guards)])
                     ELSE UNCHANGED <<placed, stuck>>
  /\ DropGuard

(* Leaving solve, normally or not, destroys the guards, the last one first. *)
DestroyGuard ==
  /\ pc \in {"reset", "unwind"} /\ guards # <<>>
  /\ ResetOrStick(guards[Len(guards)])
  /\ DropGuard

LeaveSolve ==
  /\ guards = <<>>
  /\ Go("reset", IF setting = "staged" THEN "copy_out" ELSE "combine")
  /\ UNCHANGED <<dataVars, pastVars>>

(* Variant of LeaveThrown: x is copied back after an exception too.        *)
LeaveThrownCopying ==
  /\ guards = <<>> /\ Go("unwind", "idle")
  /\ ended' = "thrown"
  /\ content' = IF setting = "staged"
                THEN [content EXCEPT ![Target] = content["host_x"]] ELSE content
  /\ UNCHANGED <<placed, guards, stuck, reported, completed>>

(* After an exception apply ends with the guards gone, x not copied back.   *)
LeaveThrown ==
  /\ guards = <<>> /\ Go("unwind", "idle")
  /\ ended' = "thrown"
  /\ UNCHANGED <<dataVars, reported, completed>>

(* The staged x goes back to the caller.                                   *)
CopyOut ==
  /\ \/ /\ Go("copy_out", "combine")
        /\ content' = [content EXCEPT ![Target] = content["host_x"]]
        /\ UNCHANGED <<placed, guards, stuck>>
     \/ Throw("copy_out")
  /\ UNCHANGED pastVars

(* The advanced apply scales x and adds the solution; the plain one is     *)
(* done.                                                                   *)
Combine ==
  /\ \/ /\ Go("combine", "idle") /\ ended' = "ok"
        /\ content' = IF ~advanced THEN content ELSE [content EXCEPT !["x"] =
             IF content["x"] = "guess" /\ content["x_solve"] = "solution"
             THEN "combined" ELSE "wrong"]
     \/ /\ advanced /\ Go("combine", "unwind") /\ UNCHANGED ended
        /\ content' \in {content, [content EXCEPT !["x"] = "partial"]}
  /\ UNCHANGED <<placed, guards, stuck, reported, completed>>

-----------------------------------------------------------------------------
Next ==
  \/ StartApply \/ CopyIn \/ Solve \/ ReadDiagnostics \/ DestroyGuard
  \/ LeaveSolve \/ LeaveThrown \/ CopyOut \/ Combine
  \/ \E v \in Vectors : PlaceArray(v)

Spec == Init /\ [][Next]_vars

-----------------------------------------------------------------------------
(* Types.  No vector has lost its own array to a reset too many.           *)
TypeOK ==
  /\ setting \in Settings
  /\ pc \in {"idle", "copy_in", "place_b", "place_x", "solve", "read", "reset",
             "unwind", "copy_out", "combine"}
  /\ advanced \in BOOLEAN /\ applies \in 0 .. MaxApplies
  /\ content \in [Arrays -> Values]
  /\ placed \in [Vectors -> Arrays \cup {"own"}]
  /\ guards \in Seq(Vectors) /\ Len(guards) <= 2 /\ stuck \subseteq Vectors
  /\ ended \in {"ok", "thrown"}
  /\ reported \in [Diagnostics -> 0 .. applies] /\ completed \in 0 .. applies

(* PETSc keeps no pointer to the application's data: between two applies    *)
(* both vectors are back at their own arrays, whatever failed in the last   *)
(* one (the comment before placed_array), but for a failed reset itself.    *)
NothingPlaced ==
  pc = "idle" => \A v \in Vectors : placed[v] = "own" \/ v \in stuck

(* An apply that returns has x hold the solution of its own b from its own  *)
(* initial guess, or the combination with it, whatever went wrong before    *)
(* and wherever the vectors live; b is left alone.  An apply whose solve    *)
(* throws leaves x untouched, unless PETSc works on x itself                *)
(* (solve_with_arrays, the advanced apply).  The diagnostics always         *)
(* describe one solve, after an apply that returned its own.                *)
ResultsRight ==
  /\ pc = "idle" /\ applies > 0 /\ ended = "ok" =>
       /\ content["x"] = IF advanced THEN "combined" ELSE "solution"
       /\ content["b"] = "rhs"
       /\ completed = applies
  /\ pc = "idle" /\ ended = "thrown" /\ completed # applies
       /\ (advanced \/ setting = "staged")
     => content["x"] = "guess"
  /\ \A d \in Diagnostics : reported[d] = completed
=============================================================================
