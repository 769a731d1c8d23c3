----------------------------- MODULE PetscProcess -----------------------------
(***************************************************************************)
(* The PETSc wrapper in one process, its two halves together: PetscRuntime *)
(* says which PETSc objects exist and when PETSc is up, KspVectors what an *)
(* apply does with the vectors of one solver.  The process has one thread: *)
(* solvers and environments come and go between applies, and an apply is   *)
(* called on a Ksp the application holds.                                  *)
(***************************************************************************)
EXTENDS PetscRuntime

CONSTANTS
  MaxApplies,   \* bound: applies of the solver
  Applied       \* the state whose vectors are followed

ASSUME AppliesAssumption == MaxApplies \in Nat /\ Applied \in States

VARIABLES setting, pc, advanced, applies, content, placed, guards, stuck,
          ended, reported, completed       \* see KspVectors

applyVars == <<setting, pc, advanced, applies, content, placed, guards, stuck,
               ended, reported, completed>>

V == INSTANCE KspVectors

ProcessInit == Init /\ V!Init

(* A step of the application or of an environment, between two applies.    *)
Outside == pc = "idle" /\ Next /\ UNCHANGED applyVars

(* A step of apply.  The documentation of Ksp asks for PETSc to be up.     *)
Inside ==
  /\ pc = "idle" => Held(Applied) /\ petsc = "up" /\ mpi = "up"
  /\ V!Next
  /\ UNCHANGED vars

ProcessNext == Outside \/ Inside

ProcessSpec == ProcessInit /\ [][ProcessNext]_<<vars, applyVars>>

-----------------------------------------------------------------------------
(* PETSc keeps no pointer to the application's data: between two applies,   *)
(* and so whenever the solver's vectors are destroyed, both are back at     *)
(* their own arrays, whatever failed (the comment before placed_array), but *)
(* for a vector whose own reset failed: the destructor drops that error.    *)
NothingPlaced == V!NothingPlaced

(* Every apply that returns solved its own system, one that throws leaves x *)
(* as it was wherever it can (see KspVectors).                              *)
ResultsRight == V!ResultsRight
=============================================================================
