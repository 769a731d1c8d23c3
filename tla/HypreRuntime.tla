----------------------------- MODULE HypreRuntime -----------------------------
(***************************************************************************)
(* The hypre wrapper within one process: who initializes and finalizes     *)
(* hypre (environment.hpp and the application), the memory location of the *)
(* process, the sticky error flag, and the hypre objects behind the Pcg    *)
(* objects an application copies, moves and destroys.  hypre and MPI are   *)
(* external; a call into hypre is atomic.                                  *)
(***************************************************************************)
EXTENDS Integers, Sequences

CONSTANTS
  Handles,      \* Pcg objects of the application
  States,       \* Pcg::state instances, shared between copies
  GpuBuild,     \* hypre was built with HYPRE_USING_GPU
  MaxScopes,    \* bound: nested environments
  MaxInits      \* bound: initializations of hypre in the process

ASSUME BoundsAssumption ==
  /\ MaxScopes \in Nat /\ MaxInits \in Nat
  /\ GpuBuild \in BOOLEAN
  /\ Handles \cap States = {}
  /\ States \cap {"moved", "none"} = {}

VARIABLES
  mpi,          \* "none", "up", "finalized"
  hypre,        \* "none", "up", "finalized"
  inits,        \* how often hypre has been initialized
  scopes,       \* who keeps hypre up, innermost last: owner, guest, app
  abandoned,    \* a failed HYPRE_Initialize left hypre up, for nobody
  active,       \* active_memory_location(), "none" unset
  location,     \* the memory location hypre itself is set to
  errors,       \* hypre's global error flag, sticky until cleared
  object,       \* object[s]: the hypre objects behind state s
  handle,       \* handle[h]: state of Pcg h, "moved" from, or "none"
  last          \* the last generate or apply: hypre's failures, and its end

lifeVars == <<mpi, hypre, inits, scopes, abandoned>>
vars == <<lifeVars, active, location, errors, object, handle, last>>

Locations == {"host", "device"}
Available == IF GpuBuild THEN Locations ELSE {"host"}
Parts     == {"solvers", "vectors", "matrix"}

Unused == [parts |-> {}, location |-> "none", placed |-> "none", epoch |-> 0]

Init ==
  /\ mpi = "none" /\ hypre = "none" /\ inits = 0 /\ scopes = <<>> /\ abandoned = FALSE
  /\ active = "none" /\ location = "none"
  /\ errors = {}
  /\ object = [s \in States |-> Unused]
  /\ handle = [h \in Handles |-> "none"]
  /\ last = [op |-> "none", failures |-> {}, end |-> "none"]

Held(s) == \E h \in Handles : handle[h] = s

-----------------------------------------------------------------------------
(* MPI and hypre are brought up and down.                                  *)
MpiInit ==
  /\ mpi = "none" /\ mpi' = "up"
  /\ UNCHANGED <<hypre, inits, scopes, abandoned, active, location, errors,
                 object, handle, last>>

(* The application may finalize MPI while static environments and solvers  *)
(* still exist.                                                            *)
MpiFinalize ==
  /\ mpi = "up" /\ mpi' = "finalized"
  /\ UNCHANGED <<hypre, inits, scopes, abandoned, active, location, errors,
                 object, handle, last>>

(* A hypre call that newly fails with f returns the whole sticky flag;     *)
(* GKO_TPL_ASSERT_NO_HYPRE_ERRORS throws on any bit and clears them all.   *)
Returns(f) == errors \cup f

(* HYPRE_Initialize: a GPU build starts at the device location.  Solvers   *)
(* of an earlier initialization are gone, as Pcg's documentation demands.  *)
Initialize ==
  /\ hypre # "up" /\ inits < MaxInits
  /\ \A s \in States : ~Held(s)
  /\ hypre' = "up" /\ inits' = inits + 1
  /\ location' = IF GpuBuild THEN "device" ELSE "host"

(* environment's constructor throws, with no effect, before MPI is up.  It *)
(* is not modelled after MPI_Finalize, where MPI_Initialized still holds.  *)
(* An environment that finds hypre up is a guest, whoever brought it up.   *)
EnterEnvironment ==
  /\ mpi = "up" /\ Len(scopes) < MaxScopes
  /\ \/ /\ hypre = "up"
        /\ scopes' = Append(scopes, "guest")
        /\ UNCHANGED <<hypre, inits, location>>
     \/ /\ Initialize /\ Returns({}) = {}
        /\ scopes' = Append(scopes, "owner")
  /\ UNCHANGED <<mpi, abandoned, active, errors, object, handle, last>>

(* HYPRE_Initialize returns an error: the constructor throws before the    *)
(* environment owns hypre, and as no destructor runs nobody finalizes what *)
(* hypre has set up by then.  A failure that leaves hypre down has no      *)
(* effect on the process.                                                  *)
EnvironmentFails ==
  /\ mpi = "up"
  /\ Initialize /\ Returns({"fatal"}) # {}
  /\ abandoned' = TRUE
  /\ errors' = {}
  /\ UNCHANGED <<mpi, scopes, active, object, handle, last>>

(* The application initializes hypre on its own.                           *)
EnterApplication ==
  /\ mpi = "up" /\ Len(scopes) < MaxScopes
  /\ Initialize
  /\ scopes' = Append(scopes, "app")
  /\ UNCHANGED <<mpi, abandoned, active, errors, object, handle, last>>

(* Variant of Finalizes: an environment that found hypre up finalizes too. *)
FinalizesAlways(who) == mpi # "finalized" /\ hypre = "up"

(* Who finalizes hypre on leaving: the one that initialized it, and not    *)
(* once MPI is finalized.                                                  *)
Finalizes(who) == who # "guest" /\ mpi # "finalized" /\ hypre = "up"

(* Scopes nest; the innermost is left first.                               *)
LeaveScope ==
  /\ scopes # <<>>
  /\ LET who == scopes[Len(scopes)]
     IN hypre' = IF Finalizes(who) THEN "finalized" ELSE hypre
  /\ scopes' = SubSeq(scopes, 1, Len(scopes) - 1)
  /\ UNCHANGED <<mpi, inits, abandoned, active, location, errors, object, handle, last>>

-----------------------------------------------------------------------------
(* set_process_policy, as in PcgSpmd, with what it does to hypre itself.   *)
PolicyThrows(l) == (active # "none" /\ active # l) \/ (l = "device" /\ ~GpuBuild)

(* Variant of SetPolicy: the location is remembered but not set in hypre.  *)
SetPolicyQuiet(l) ==
  /\ active' = l
  /\ location' = location

SetPolicy(l) ==
  /\ active' = l
  /\ location' = IF active = "none" THEN l ELSE location

(* Pcg's constructor: the exception of a failed generate destroys what it  *)
(* had created, so only a successful one leaves objects behind.            *)
GenerateRejected(h, l) ==
  /\ mpi = "up" /\ handle[h] = "none"
  /\ hypre # "up" \/ PolicyThrows(l)
  /\ last' = [op |-> "generate", failures |-> {},
              end |-> IF hypre # "up" THEN "uninitialized" ELSE "policy"]
  /\ UNCHANGED <<lifeVars, active, location, errors, object, handle>>

(* hypre fails while the policy is set: it is not remembered, though hypre *)
(* may have taken the location already.                                    *)
PolicyFails(h, l) ==
  /\ mpi = "up" /\ hypre = "up" /\ handle[h] = "none"
  /\ ~PolicyThrows(l) /\ active = "none"
  /\ location' \in {location, l}
  /\ last' = [op |-> "generate", failures |-> {"fatal"}, end |-> "hypre_error"]
  /\ errors' = {}
  /\ UNCHANGED <<lifeVars, active, object, handle>>

Generate(h, s, l) ==
  /\ mpi = "up" /\ hypre = "up" /\ handle[h] = "none"
  /\ object[s] = Unused
  /\ ~PolicyThrows(l)
  /\ SetPolicy(l)
  /\ \E f \in {{}, {"fatal"}} :
       /\ last' = [op |-> "generate", failures |-> f,
                   end |-> IF Returns(f) # {} THEN "hypre_error" ELSE "ok"]
       /\ errors' = {}
       /\ IF Returns(f) # {}
          THEN UNCHANGED <<object, handle>>
          ELSE /\ object' = [object EXCEPT ![s] =
                     [parts |-> Parts, location |-> l, placed |-> location',
                      epoch |-> inits]]
               /\ handle' = [handle EXCEPT ![h] = s]
  /\ UNCHANGED lifeVars

(* Variant of CheckSolve: the convergence bit stays set.                   *)
CheckSolveSticky(f) ==
  IF "fatal" \in f THEN [end |-> "hypre_error", left |-> {}]
  ELSE [end |-> "ok", left |-> f]

(* What apply makes of the flag HYPRE_ParCSRPCGSolve returned: the         *)
(* convergence bit is cleared, any other is thrown and all are cleared.    *)
CheckSolve(f) ==
  LET fatal == f \ {"conv"}
  IN IF fatal # {} THEN [end |-> "hypre_error", left |-> {}]
     ELSE [end |-> "ok", left |-> f \ {"conv"}]

Apply(h) ==
  /\ mpi = "up" /\ hypre = "up" /\ handle[h] \in States
  /\ object[handle[h]].epoch = inits
  /\ \E f \in SUBSET {"conv", "fatal"} :
       LET checked == CheckSolve(Returns(f))
       IN /\ last' = [op |-> "apply", failures |-> f, end |-> checked.end]
          /\ errors' = checked.left
  /\ UNCHANGED <<lifeVars, active, location, object, handle>>

-----------------------------------------------------------------------------
(* What the destructors look at: ~state at MPI and hypre, the destructors  *)
(* of its matrix and its vectors at hypre only.                            *)
SolversFreed == mpi # "finalized" /\ hypre = "up"
MatrixFreed  == hypre = "up"
VectorsFreed == hypre = "up"

(* Variant of PartsFreed: the destructors look at neither hypre nor MPI.   *)
PartsFreedUnguarded == Parts

(* The parts the destructor of a state frees, its own and its members'.    *)
PartsFreed ==
  {p \in Parts : \/ p = "solvers" /\ SolversFreed
                 \/ p = "matrix" /\ MatrixFreed
                 \/ p = "vectors" /\ VectorsFreed}

(* The handles become new; a state that loses its last one is destroyed.   *)
Rebind(new) ==
  /\ handle' = new
  /\ object' = [s \in States |->
       IF Held(s) /\ \A h \in Handles : new[h] # s
       THEN [object[s] EXCEPT !.parts = @ \ PartsFreed] ELSE object[s]]
  /\ UNCHANGED <<lifeVars, active, location, errors, last>>

(* Copy and move, as constructors and as assignments over an older solver; *)
(* a copy shares the state, a move leaves its source empty.                *)
Copy(h, g) ==
  /\ h # g /\ handle[h] # "none"
  /\ Rebind([handle EXCEPT ![g] = handle[h]])

(* Variant of Move: an older solver in the target is overwritten, not      *)
(* released.                                                               *)
MoveOverwrites(h, g) ==
  /\ h # g /\ handle[h] # "none"
  /\ handle' = [handle EXCEPT ![g] = handle[h], ![h] = "moved"]
  /\ UNCHANGED <<lifeVars, active, location, errors, object, last>>

Move(h, g) ==
  /\ h # g /\ handle[h] # "none"
  /\ Rebind([handle EXCEPT ![g] = handle[h], ![h] = "moved"])

(* Variant of Destroy: the state goes with the handle, shared or not.      *)
DestroyShared(h) ==
  /\ handle[h] # "none"
  /\ handle' = [handle EXCEPT ![h] = "none"]
  /\ object' = [s \in States |-> IF handle[h] = s
       THEN [object[s] EXCEPT !.parts = @ \ PartsFreed] ELSE object[s]]
  /\ UNCHANGED <<lifeVars, active, location, errors, last>>

Destroy(h) ==
  /\ handle[h] # "none"
  /\ Rebind([handle EXCEPT ![h] = "none"])

-----------------------------------------------------------------------------
Next ==
  \/ MpiInit
  \/ MpiFinalize
  \/ EnterEnvironment
  \/ EnvironmentFails
  \/ EnterApplication
  \/ LeaveScope
  \/ \E h \in Handles : \/ \E l \in Locations : GenerateRejected(h, l)
                                             \/ PolicyFails(h, l)
                        \/ \E s \in States, l \in Locations : Generate(h, s, l)
                        \/ Apply(h)
                        \/ Destroy(h)
                        \/ \E g \in Handles : Copy(h, g) \/ Move(h, g)

Spec == Init /\ [][Next]_vars

-----------------------------------------------------------------------------
(* Types.  No location of this process is one its hypre was not built for. *)
TypeOK ==
  /\ mpi \in {"none", "up", "finalized"}
  /\ hypre \in {"none", "up", "finalized"}
  /\ inits \in 0 .. MaxInits
  /\ scopes \in Seq({"owner", "guest", "app"}) /\ Len(scopes) <= MaxScopes
  /\ abandoned \in BOOLEAN
  /\ active \in Available \cup {"none"}
  /\ location \in Available \cup {"none"}
  /\ errors \subseteq {"conv", "fatal"}
  /\ object \in [States -> [parts : SUBSET Parts,
                            location : Available \cup {"none"},
                            placed : Available \cup {"none"},
                            epoch : 0 .. MaxInits]]
  /\ handle \in [Handles -> States \cup {"moved", "none"}]
  /\ last.end \in {"none", "uninitialized", "policy", "hypre_error", "ok"}

(* hypre is up exactly while somebody's scope keeps it up: nested          *)
(* environments neither finalize it under the outer one nor leave it up    *)
(* after the outermost (test/environment.cpp).  The one exception is an    *)
(* HYPRE_Initialize that failed halfway, and it lasts: no environment      *)
(* entered later takes hypre down.                                         *)
UpInScopes == mpi = "up" => (hypre = "up" <=> scopes # <<>> \/ abandoned)

(* The objects of a solver some copy still holds are all there.            *)
SharedObjectsAlive ==
  \A h \in Handles : handle[h] \in States => object[handle[h]].parts = Parts

(* The objects of a solver nobody holds are all gone, unless hypre or MPI  *)
(* was down when its last copy was destroyed.                              *)
NothingLeaks ==
  [][\A s \in States :
       /\ Held(s) /\ ~Held(s)' /\ hypre = "up" /\ mpi = "up"
       => object'[s].parts = {}]_vars

(* No destructor frees a hypre object after hypre was finalized.           *)
NoFreeAfterFinalize ==
  [][\A s \in States : object'[s].parts # object[s].parts => hypre = "up"]_vars

(* While hypre is up for the first time it builds every object at the      *)
(* memory location of its solver: the policy is established before the     *)
(* first object, whatever failed earlier (set_process_policy).             *)
PlacedWhereAsked ==
  \A s \in States : object[s].parts # {} /\ object[s].epoch = 1 =>
    object[s].placed = object[s].location

(* A call ends with a hypre error exactly if hypre failed in this call;    *)
(* not converging is no failure.                                           *)
OwnFailuresOnly == last.end = "hypre_error" <=> "fatal" \in last.failures
=============================================================================
