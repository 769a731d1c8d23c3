----------------------------- MODULE PetscRuntime -----------------------------
(***************************************************************************)
(* The PETSc wrapper within one process: who initializes and finalizes     *)
(* PETSc (environment.hpp and the application), and the PETSc objects      *)
(* behind the Ksp objects an application generates, copies, moves and      *)
(* destroys, at any time relative to the end of PETSc and of MPI.  PETSc   *)
(* keeps no process policy and no sticky errors.  It is brought up once.   *)
(***************************************************************************)
EXTENDS Integers, Sequences

CONSTANTS
  Handles,      \* Ksp objects of the application
  States,       \* Ksp::state instances, shared between copies
  MaxScopes     \* bound: nested environments

ASSUME BoundsAssumption ==
  /\ MaxScopes \in Nat
  /\ "none" \notin States /\ "moved" \notin States

VARIABLES
  mpi,          \* "none", "up", "finalized"
  petsc,        \* "none", "up", "finalized"
  scopes,       \* who entered, innermost last: owner, guest, app
  parts,        \* parts[s]: the PETSc objects of state s that exist
  handle,       \* handle[h]: state of Ksp h, "moved" from, or "none"
  calls         \* how often PETSc was called when it or MPI was down

vars == <<mpi, petsc, scopes, parts, handle, calls>>

Parts == {"mat", "ksp", "vectors"}
Fresh == {"unused"}     \* a state that has not been created yet

Init ==
  /\ mpi = "none" /\ petsc = "none" /\ scopes = <<>>
  /\ parts = [s \in States |-> Fresh]
  /\ handle = [h \in Handles |-> "none"]
  /\ calls = 0

Held(s) == \E h \in Handles : handle[h] = s

(* PETSc tolerates being called while it and MPI are up.                   *)
Called == calls' = IF petsc = "up" /\ mpi = "up" THEN calls ELSE 1

-----------------------------------------------------------------------------
MpiInit ==
  /\ mpi = "none" /\ mpi' = "up"
  /\ UNCHANGED <<petsc, scopes, parts, handle, calls>>

(* The application may finalize MPI while static environments and solvers  *)
(* still exist.                                                            *)
MpiFinalize ==
  /\ mpi = "up" /\ mpi' = "finalized"
  /\ UNCHANGED <<petsc, scopes, parts, handle, calls>>

(* An environment that finds PETSc up leaves its end to whoever began it.  *)
Role == IF petsc = "up" THEN "guest" ELSE "owner"

(* environment's constructor; it throws, with no effect, before MPI is up. *)
EnterEnvironment ==
  /\ mpi = "up" /\ petsc # "finalized" /\ Len(scopes) < MaxScopes
  /\ petsc' = "up"
  /\ scopes' = Append(scopes, Role)
  /\ UNCHANGED <<mpi, parts, handle, calls>>

(* PetscInitialize returns an error: the constructor throws before the     *)
(* environment owns PETSc, and as no destructor runs nobody finalizes what *)
(* is up by then.  A failure that leaves PETSc down has no effect.         *)
EnvironmentFails ==
  /\ mpi = "up" /\ petsc = "none" /\ petsc' = "up"
  /\ UNCHANGED <<mpi, scopes, parts, handle, calls>>

(* The application initializes PETSc on its own.                           *)
EnterApplication ==
  /\ mpi = "up" /\ petsc = "none" /\ Len(scopes) < MaxScopes
  /\ petsc' = "up" /\ scopes' = Append(scopes, "app")
  /\ UNCHANGED <<mpi, parts, handle, calls>>

(* The application calls PetscFinalize early, environments or not.         *)
FinalizeEarly ==
  /\ mpi = "up" /\ petsc = "up" /\ petsc' = "finalized"
  /\ UNCHANGED <<mpi, scopes, parts, handle, calls>>

(* ~environment finalizes PETSc if it initialized it, MPI still runs and   *)
(* nobody else has finalized PETSc; the application takes the same care.   *)
Finalizes(who) == who # "guest" /\ mpi # "finalized" /\ petsc # "finalized"

LeaveScope ==
  /\ scopes # <<>>
  /\ LET who == scopes[Len(scopes)]
     IN IF Finalizes(who) THEN Called /\ petsc' = "finalized"
        ELSE UNCHANGED <<calls, petsc>>
  /\ scopes' = SubSeq(scopes, 1, Len(scopes) - 1)
  /\ UNCHANGED <<mpi, parts, handle>>

-----------------------------------------------------------------------------
(* Variant of Destroyed: the destructor does not look at MPI.              *)
DestroyedAnyway(made) == IF petsc # "up" THEN made ELSE {}

(* ~state: what is left of the objects made.                               *)
Destroyed(made) == IF mpi = "finalized" \/ petsc # "up" THEN made ELSE {}

(* Whether it called PETSc is recorded.                                    *)
DestroyCalls(made) == IF Destroyed(made) # made THEN Called ELSE calls' = calls

(* Variant of GenerateThrows: what was made before the exception stays.    *)
GenerateLeaks(h, s) ==
  /\ petsc = "up" /\ mpi = "up" /\ handle[h] = "none" /\ parts[s] = Fresh
  /\ \E made \in {{}, {"mat"}, {"mat", "ksp"}, Parts} :
       parts' = [parts EXCEPT ![s] = made]
  /\ UNCHANGED <<mpi, petsc, scopes, handle, calls>>

(* Ksp's constructor makes the matrix, the KSP and the vectors, in this    *)
(* order.  It throws before the first if PETSc is not up, at any later     *)
(* point if a call fails; its state is destroyed then.                     *)
GenerateThrows(h, s) ==
  /\ mpi = "up" /\ handle[h] = "none" /\ parts[s] = Fresh
  /\ \E made \in IF petsc = "up" THEN {{}, {"mat"}, {"mat", "ksp"}, Parts} ELSE {{}} :
       /\ parts' = [parts EXCEPT ![s] = Destroyed(made)]
       /\ DestroyCalls(made)
  /\ UNCHANGED <<mpi, petsc, scopes, handle>>

Generate(h, s) ==
  /\ petsc = "up" /\ mpi = "up" /\ handle[h] = "none" /\ parts[s] = Fresh
  /\ parts' = [parts EXCEPT ![s] = Parts]
  /\ handle' = [handle EXCEPT ![h] = s]
  /\ UNCHANGED <<mpi, petsc, scopes, calls>>

(* The handles become new; a state that loses its last one is destroyed.   *)
Rebind(new) ==
  LET lost == {s \in States : Held(s) /\ \A h \in Handles : new[h] # s}
  IN /\ handle' = new
     /\ parts' = [s \in States |-> IF s \in lost THEN Destroyed(parts[s])
                                   ELSE parts[s]]
     /\ \/ lost # {} /\ \A s \in lost : DestroyCalls(parts[s])
        \/ lost = {} /\ calls' = calls
     /\ UNCHANGED <<mpi, petsc, scopes>>

(* Copy and move, as constructors and as assignments over an older solver. *)
Copy(h, g) ==
  /\ h # g /\ handle[h] # "none"
  /\ Rebind([handle EXCEPT ![g] = handle[h]])

Move(h, g) ==
  /\ h # g /\ handle[h] # "none"
  /\ Rebind([handle EXCEPT ![g] = handle[h], ![h] = "moved"])

(* Variant of Destroy: the state goes with the handle, shared or not.      *)
DestroyShared(h) ==
  /\ handle[h] # "none"
  /\ handle' = [handle EXCEPT ![h] = "none"]
  /\ parts' = [s \in States |-> IF s = handle[h] THEN Destroyed(parts[s])
                                ELSE parts[s]]
  /\ UNCHANGED <<mpi, petsc, scopes, calls>>

Destroy(h) ==
  /\ handle[h] # "none"
  /\ Rebind([handle EXCEPT ![h] = "none"])

-----------------------------------------------------------------------------
Next ==
  \/ MpiInit \/ MpiFinalize
  \/ EnterEnvironment \/ EnvironmentFails \/ EnterApplication
  \/ FinalizeEarly \/ LeaveScope
  \/ \E h \in Handles :
       \/ \E s \in States : Generate(h, s) \/ GenerateThrows(h, s)
       \/ \E g \in Handles : Copy(h, g) \/ Move(h, g)
       \/ Destroy(h)

Spec == Init /\ [][Next]_vars

-----------------------------------------------------------------------------
(* Types; only the outermost scope may have initialized PETSc.             *)
TypeOK ==
  /\ mpi \in {"none", "up", "finalized"}
  /\ petsc \in {"none", "up", "finalized"}
  /\ scopes \in Seq({"owner", "guest", "app"}) /\ Len(scopes) <= MaxScopes
  /\ \A i \in DOMAIN scopes : scopes[i] # "guest" => i = 1
  /\ parts \in [States -> (SUBSET Parts) \cup {Fresh}]
  /\ handle \in [Handles -> States \cup {"moved", "none"}]
  /\ calls \in {0, 1}

(* Neither a destructor nor an environment calls PETSc once it or MPI is    *)
(* finalized, in whatever order they go (the comments in ~state and         *)
(* ~environment).                                                           *)
NoLateCalls == calls = 0

(* The objects of a solver some copy still holds are all there.             *)
SharedObjectsAlive == \A s \in States : Held(s) => parts[s] = Parts

(* What nobody holds is gone, generated in full or only in part, unless     *)
(* PETSc or MPI was already finalized when it was let go.                   *)
NothingLeaks ==
  mpi = "up" /\ petsc = "up" =>
    \A s \in States : Held(s) \/ parts[s] \in {{}, Fresh}

(* An inner environment never takes PETSc away from an outer scope: PETSc   *)
(* goes down while scopes are left only if the application said so.         *)
UpInScopes ==
  [][petsc = "up" /\ petsc' # "up" /\ scopes' # scopes => scopes' = <<>>]_vars
=============================================================================
