-------------------------- MODULE PetscRuntimeProofs --------------------------
(***************************************************************************)
(* Proofs about PetscRuntime for any number of handles, states and nested  *)
(* environments.  PETSc is up only after MPI and goes up but once, and     *)
(* there are no solvers before it did (LifeOrder); with it, what a         *)
(* destructor calls, it calls while both are up, and what nobody holds is  *)
(* destroyed at the moment its last handle goes.  The second half is about *)
(* the whole process: applies of one solver run between those steps, and   *)
(* wherever one fails, its guards leave PETSc's vectors as they were,      *)
(* unless a reset fails too, and the arrays say how far it came            *)
(* (GuardsKept, ContentKept).                                              *)
(***************************************************************************)
EXTENDS PetscProcess, SequenceTheorems, TLAPS

(* PETSc comes after MPI, scopes and solvers after PETSc.                  *)
LifeOrder ==
  /\ scopes # <<>> => petsc # "none"
  /\ petsc # "none" => mpi # "none"
  /\ petsc = "none" => \A s \in States : ~Held(s) /\ parts[s] \in {{}, Fresh}

Inv == TypeOK /\ LifeOrder /\ NoLateCalls /\ SharedObjectsAlive /\ NothingLeaks

(* A state that was created is not fresh.                                  *)
LEMMA PartsAreNotFresh == Parts # Fresh /\ Parts # {} /\ Parts \in SUBSET Parts
<1>1. "mat" \in Parts /\ "mat" \notin Fresh
  BY DEF Parts, Fresh
<1> QED  BY <1>1

LEMMA Initially == Init => Inv
<1> SUFFICES ASSUME Init PROVE Inv
  OBVIOUS
<1>1. scopes \in Seq({"owner", "guest", "app"}) /\ Len(scopes) = 0 /\ DOMAIN scopes = {}
  BY DEF Init
<1>2. /\ mpi \in {"none", "up", "finalized"} /\ petsc \in {"none", "up", "finalized"}
      /\ parts \in [States -> (SUBSET Parts) \cup {Fresh}]
      /\ handle \in [Handles -> States \cup {"moved", "none"}] /\ calls \in {0, 1}
  BY DEF Init
<1>0. TypeOK
  BY <1>1, <1>2, BoundsAssumption DEF TypeOK
<1>3. \A s \in States : ~Held(s) /\ parts[s] = Fresh
  BY BoundsAssumption DEF Init, Held
<1> QED
  BY <1>0, <1>3 DEF Init, Inv, LifeOrder, NoLateCalls, SharedObjectsAlive, NothingLeaks

(* Entering a scope on top: it is the first, or PETSc is up.               *)
LEMMA Entering ==
  ASSUME TypeOK, LifeOrder, NEW who \in {"owner", "guest", "app"}, Len(scopes) < MaxScopes,
         petsc # "none" => who = "guest", scopes' = Append(scopes, who)
  PROVE  /\ scopes' \in Seq({"owner", "guest", "app"}) /\ Len(scopes') <= MaxScopes
         /\ \A i \in DOMAIN scopes' : scopes'[i] # "guest" => i = 1
<1>1. scopes \in Seq({"owner", "guest", "app"}) /\ Len(scopes) \in Nat
  BY LenProperties DEF TypeOK
<1>2. /\ scopes' \in Seq({"owner", "guest", "app"})
      /\ Len(scopes') = Len(scopes) + 1
      /\ \A i \in 1..Len(scopes) : scopes'[i] = scopes[i]
      /\ scopes'[Len(scopes) + 1] = who
  BY <1>1
<1>3. DOMAIN scopes = 1..Len(scopes) /\ DOMAIN scopes' = 1..Len(scopes) + 1
  BY <1>1, <1>2
<1>4. \A i \in 1..Len(scopes) : scopes[i] # "guest" => i = 1
  BY <1>3 DEF TypeOK
<1>5. who # "guest" => Len(scopes) = 0
  BY <1>1, EmptySeq DEF LifeOrder
<1>6. \A i \in 1..Len(scopes) + 1 : scopes'[i] # "guest" => i = 1
  <2> SUFFICES ASSUME NEW i \in 1..Len(scopes) + 1, scopes'[i] # "guest" PROVE i = 1
    OBVIOUS
  <2>1. CASE i \in 1..Len(scopes)
    BY <2>1, <1>2, <1>4
  <2>2. CASE i = Len(scopes) + 1
    BY <2>2, <1>2, <1>5
  <2> QED  BY <2>1, <2>2, <1>1
<1> QED  BY <1>1, <1>2, <1>3, <1>6, BoundsAssumption

-------------------------------------------------------------------------------
(* Destroying calls PETSc only while it and MPI are up.                    *)
LEMMA DestroyingIsTimely ==
  ASSUME Inv, NEW made, DestroyCalls(made)
  PROVE  calls' = 0
<1>1. CASE Destroyed(made) # made
  <2>1. mpi # "finalized" /\ petsc = "up"
    BY <1>1 DEF Destroyed
  <2>2. mpi = "up"
    BY <2>1 DEF Inv, LifeOrder, TypeOK
  <2> QED  BY <1>1, <2>1, <2>2 DEF DestroyCalls, Called, Inv, NoLateCalls
<1>2. CASE Destroyed(made) = made
  BY <1>2 DEF DestroyCalls, Inv, NoLateCalls
<1> QED  BY <1>1, <1>2

(* New handles on states that are held: what they let go is destroyed.     *)
LEMMA Rebinding ==
  ASSUME Inv, NEW new \in [Handles -> States \cup {"moved", "none"}],
         \A s \in States : (\E h \in Handles : new[h] = s) => Held(s),
         Rebind(new)
  PROVE  Inv'
<1> DEFINE lost == {s \in States : Held(s) /\ \A h \in Handles : new[h] # s}
<1>1. /\ handle' = new /\ UNCHANGED <<mpi, petsc, scopes>>
      /\ parts' = [s \in States |-> IF s \in lost THEN Destroyed(parts[s]) ELSE parts[s]]
      /\ \/ lost # {} /\ \A s \in lost : DestroyCalls(parts[s])
         \/ lost = {} /\ calls' = calls
  BY DEF Rebind
<1>2. calls' = 0
  <2>1. CASE lost = {}
    BY <2>1, <1>1 DEF Inv, NoLateCalls
  <2>2. CASE lost # {}
    <3>1. PICK s \in lost : DestroyCalls(parts[s])
      BY <2>2, <1>1
    <3> QED  BY <3>1, DestroyingIsTimely
  <2> QED  BY <2>1, <2>2
<1>3. \A s \in States : parts'[s] = IF s \in lost THEN Destroyed(parts[s]) ELSE parts[s]
  BY <1>1
<1>4. \A s \in States : Held(s)' => Held(s) /\ s \notin lost
  BY <1>1 DEF Held
<1>5. TypeOK'
  <2>1. \A s \in States : parts[s] \in (SUBSET Parts) \cup {Fresh}
    BY DEF Inv, TypeOK
  <2>2. \A s \in States : Destroyed(parts[s]) \in (SUBSET Parts) \cup {Fresh}
    BY <2>1 DEF Destroyed
  <2>3. parts' \in [States -> (SUBSET Parts) \cup {Fresh}]
    BY <1>1, <2>1, <2>2
  <2> QED  BY <1>1, <1>2, <2>3 DEF Inv, TypeOK
<1>6. LifeOrder'
  <2>1. CASE petsc = "none"
    <3>1. \A s \in States : ~Held(s) /\ parts[s] \in {{}, Fresh}
      BY <2>1 DEF Inv, LifeOrder
    <3>2. lost = {}
      BY <3>1
    <3>3. \A s \in States : ~Held(s)' /\ parts'[s] \in {{}, Fresh}
      BY <3>1, <3>2, <1>3, <1>4
    <3> QED  BY <3>3, <1>1 DEF Inv, LifeOrder
  <2>2. CASE petsc # "none"
    BY <2>2, <1>1 DEF Inv, LifeOrder
  <2> QED  BY <2>1, <2>2
<1>7. SharedObjectsAlive'
  BY <1>3, <1>4 DEF Inv, SharedObjectsAlive
<1>8. NothingLeaks'
  <2> SUFFICES ASSUME mpi' = "up", petsc' = "up", NEW s \in States, ~Held(s)'
               PROVE  parts'[s] \in {{}, Fresh}
    BY DEF NothingLeaks
  <2>1. CASE s \in lost
    BY <2>1, <1>1, <1>3 DEF Destroyed
  <2>2. CASE s \notin lost
    <3>1. ~Held(s)
      BY <2>2, <1>1 DEF Held
    <3> QED  BY <3>1, <2>2, <1>1, <1>3 DEF Inv, NothingLeaks
  <2> QED  BY <2>1, <2>2
<1> QED  BY <1>2, <1>5, <1>6, <1>7, <1>8 DEF Inv, NoLateCalls

(* Leaving the innermost scope.                                            *)
LEMMA Leaving ==
  ASSUME Inv, LeaveScope
  PROVE  /\ Inv'
         /\ petsc = "up" /\ petsc' # "up" => scopes' = <<>>
<1> DEFINE n == Len(scopes)
<1>1. /\ scopes \in Seq({"owner", "guest", "app"}) /\ n \in Nat \ {0}
      /\ DOMAIN scopes = 1..n /\ scopes' = SubSeq(scopes, 1, n - 1)
  BY LenProperties, EmptySeq DEF Inv, TypeOK, LeaveScope
<1>2. /\ scopes' \in Seq({"owner", "guest", "app"}) /\ Len(scopes') = n - 1
      /\ \A i \in 1..n - 1 : scopes'[i] = scopes[i]
  BY <1>1, SubSeqProperties
<1>3. DOMAIN scopes' = 1..n - 1
  BY <1>2, LenProperties
<1>4. \A i \in DOMAIN scopes' : scopes'[i] # "guest" => i = 1
  <2>1. \A i \in 1..n : scopes[i] # "guest" => i = 1
    BY <1>1 DEF Inv, TypeOK
  <2> QED  BY <2>1, <1>1, <1>2, <1>3
<1>5. petsc # "none" /\ UNCHANGED <<mpi, parts, handle>>
  BY <1>1 DEF LeaveScope, Inv, LifeOrder
<1>6. CASE Finalizes(scopes[n])
  <2>1. n = 1 /\ scopes[n] # "guest"
    BY <1>1, <1>6 DEF Finalizes, Inv, TypeOK
  <2>2. scopes' = <<>>
    BY <2>1, <1>2, EmptySeq
  <2>3. petsc' = "finalized" /\ Called
    BY <1>6 DEF LeaveScope
  <2>4. mpi = "up" /\ petsc = "up"
    BY <1>5, <1>6 DEF Finalizes, Inv, TypeOK, LifeOrder
  <2>5. calls' = 0
    BY <2>3, <2>4 DEF Called, Inv, NoLateCalls
  <2>6. TypeOK'
    BY <1>2, <1>4, <1>5, <2>1, <2>3, <2>5, BoundsAssumption DEF Inv, TypeOK
  <2>7. LifeOrder' /\ SharedObjectsAlive' /\ NothingLeaks'
    BY <1>5, <2>3, <2>4 DEF Inv, LifeOrder, SharedObjectsAlive, NothingLeaks, Held
  <2> QED  BY <2>2, <2>5, <2>6, <2>7 DEF Inv, NoLateCalls
<1>7. CASE ~Finalizes(scopes[n])
  <2>1. UNCHANGED <<calls, petsc>>
    BY <1>7 DEF LeaveScope
  <2>2. Len(scopes') <= MaxScopes
    BY <1>1, <1>2, BoundsAssumption DEF Inv, TypeOK
  <2>3. TypeOK'
    BY <1>2, <1>4, <1>5, <2>1, <2>2 DEF Inv, TypeOK
  <2>4. LifeOrder' /\ SharedObjectsAlive' /\ NothingLeaks' /\ NoLateCalls'
    BY <1>5, <2>1 DEF Inv, LifeOrder, SharedObjectsAlive, NothingLeaks, NoLateCalls, Held
  <2> QED  BY <2>1, <2>3, <2>4 DEF Inv
<1> QED  BY <1>6, <1>7

LEMMA Entered ==
  ASSUME Inv, EnterEnvironment \/ EnterApplication
  PROVE  Inv'
<1>1. PICK who \in {"owner", "guest", "app"} :
        /\ scopes' = Append(scopes, who) /\ Len(scopes) < MaxScopes
        /\ petsc # "none" => who = "guest"
        /\ mpi = "up" /\ petsc' = "up" /\ UNCHANGED <<mpi, parts, handle, calls>>
  BY DEF EnterEnvironment, EnterApplication, Role, Inv, TypeOK
<1>2. /\ scopes' \in Seq({"owner", "guest", "app"}) /\ Len(scopes') <= MaxScopes
      /\ \A i \in DOMAIN scopes' : scopes'[i] # "guest" => i = 1
  BY <1>1, Entering DEF Inv
<1>3. TypeOK'
  BY <1>1, <1>2 DEF Inv, TypeOK
<1>4. petsc = "up" \/ petsc = "none"
  BY DEF EnterEnvironment, EnterApplication, Inv, TypeOK
<1>5. LifeOrder' /\ SharedObjectsAlive' /\ NoLateCalls'
  BY <1>1 DEF Inv, LifeOrder, SharedObjectsAlive, NoLateCalls, Held
<1>6. NothingLeaks'
  BY <1>1, <1>4 DEF Inv, LifeOrder, NothingLeaks, Held
<1> QED  BY <1>3, <1>5, <1>6 DEF Inv

(* MPI goes up, MPI goes down, the application finalizes PETSc.            *)
LEMMA Environs ==
  ASSUME Inv, MpiInit \/ MpiFinalize \/ EnvironmentFails \/ FinalizeEarly
  PROVE  Inv'
<1>1. UNCHANGED <<scopes, parts, handle, calls>>
  BY DEF MpiInit, MpiFinalize, EnvironmentFails, FinalizeEarly
<1>2. TypeOK'
  BY <1>1 DEF MpiInit, MpiFinalize, EnvironmentFails, FinalizeEarly, Inv, TypeOK
<1>3. LifeOrder' /\ NothingLeaks'
  BY <1>1 DEF MpiInit, MpiFinalize, EnvironmentFails, FinalizeEarly, Inv, LifeOrder, NothingLeaks, Held
<1>4. SharedObjectsAlive' /\ NoLateCalls'
  BY <1>1 DEF Inv, SharedObjectsAlive, NoLateCalls, Held
<1> QED  BY <1>2, <1>3, <1>4 DEF Inv

LEMMA Generated ==
  ASSUME Inv, NEW h \in Handles, NEW s \in States, Generate(h, s)
  PROVE  Inv'
<1>1. /\ petsc = "up" /\ mpi = "up" /\ UNCHANGED <<mpi, petsc, scopes, calls>>
      /\ parts' = [parts EXCEPT ![s] = Parts] /\ handle' = [handle EXCEPT ![h] = s]
      /\ handle[h] = "none"
  BY DEF Generate
<1>2. TypeOK'
  BY <1>1, PartsAreNotFresh DEF Inv, TypeOK
<1>3. /\ parts'[s] = Parts /\ handle'[h] = s
      /\ \A t \in States \ {s} : parts'[t] = parts[t]
      /\ \A g \in Handles \ {h} : handle'[g] = handle[g]
  BY <1>1 DEF Inv, TypeOK
<1>4. Held(s)'
  BY <1>3 DEF Held
<1>5. \A t \in States \ {s} : Held(t)' <=> Held(t)
  BY <1>1, <1>3, BoundsAssumption DEF Held
<1>6. SharedObjectsAlive' /\ NothingLeaks'
  BY <1>1, <1>3, <1>4, <1>5 DEF Inv, SharedObjectsAlive, NothingLeaks
<1>7. LifeOrder' /\ NoLateCalls'
  BY <1>1 DEF Inv, LifeOrder, NoLateCalls
<1> QED  BY <1>2, <1>6, <1>7 DEF Inv

LEMMA GeneratedInPart ==
  ASSUME Inv, NEW h \in Handles, NEW s \in States, GenerateThrows(h, s)
  PROVE  Inv'
<1>1. PICK made \in SUBSET Parts :
        /\ parts' = [parts EXCEPT ![s] = Destroyed(made)] /\ DestroyCalls(made)
        /\ petsc # "up" => made = {}
  <2>1. \A made \in {{}, {"mat"}, {"mat", "ksp"}, Parts} : made \in SUBSET Parts
    BY DEF Parts
  <2> QED  BY <2>1 DEF GenerateThrows
<1>2. mpi = "up" /\ parts[s] = Fresh /\ UNCHANGED <<mpi, petsc, scopes, handle>>
  BY DEF GenerateThrows
<1>3. calls' = 0
  BY <1>1, DestroyingIsTimely
<1>4. Destroyed(made) = {}
  BY <1>1, <1>2 DEF Destroyed
<1>5. /\ parts'[s] = {} /\ \A t \in States \ {s} : parts'[t] = parts[t]
      /\ parts' \in [States -> (SUBSET Parts) \cup {Fresh}]
  BY <1>1, <1>4 DEF Inv, TypeOK
<1>6. ~Held(s) /\ \A t \in States : Held(t)' <=> Held(t)
  BY <1>2, PartsAreNotFresh DEF Inv, SharedObjectsAlive, Held
<1>7. TypeOK'
  BY <1>2, <1>3, <1>5 DEF Inv, TypeOK
<1>8. SharedObjectsAlive' /\ NothingLeaks' /\ LifeOrder'
  BY <1>2, <1>5, <1>6 DEF Inv, SharedObjectsAlive, NothingLeaks, LifeOrder
<1> QED  BY <1>3, <1>7, <1>8 DEF Inv, NoLateCalls

(* Copies, moves and destructions only rebind handles to held states.      *)
LEMMA Rebound ==
  ASSUME Inv, NEW h \in Handles, NEW g \in Handles, Copy(h, g) \/ Move(h, g) \/ Destroy(h)
  PROVE  Inv'
<1>0. handle \in [Handles -> States \cup {"moved", "none"}]
  BY DEF Inv, TypeOK
<1>1. CASE Copy(h, g)
  <2> DEFINE new == [handle EXCEPT ![g] = handle[h]]
  <2>1. /\ new \in [Handles -> States \cup {"moved", "none"}]
        /\ \A s \in States : (\E k \in Handles : new[k] = s) => Held(s)
    BY <1>0 DEF Held
  <2>2. Rebind(new)
    BY <1>1 DEF Copy
  <2> HIDE DEF new
  <2> QED  BY <2>1, <2>2, Rebinding
<1>2. CASE Move(h, g)
  <2> DEFINE new == [handle EXCEPT ![g] = handle[h], ![h] = "moved"]
  <2>1. /\ new \in [Handles -> States \cup {"moved", "none"}]
        /\ \A s \in States : (\E k \in Handles : new[k] = s) => Held(s)
    BY <1>0, BoundsAssumption DEF Held
  <2>2. Rebind(new)
    BY <1>2 DEF Move
  <2> HIDE DEF new
  <2> QED  BY <2>1, <2>2, Rebinding
<1>3. CASE Destroy(h)
  <2> DEFINE new == [handle EXCEPT ![h] = "none"]
  <2>1. /\ new \in [Handles -> States \cup {"moved", "none"}]
        /\ \A s \in States : (\E k \in Handles : new[k] = s) => Held(s)
    BY <1>0, BoundsAssumption DEF Held
  <2>2. Rebind(new)
    BY <1>3 DEF Destroy
  <2> HIDE DEF new
  <2> QED  BY <2>1, <2>2, Rebinding
<1> QED  BY <1>1, <1>2, <1>3

LEMMA Steps == Inv /\ [Next]_vars => Inv'
<1> SUFFICES ASSUME Inv, [Next]_vars PROVE Inv'
  OBVIOUS
<1>1. CASE MpiInit \/ MpiFinalize \/ EnvironmentFails \/ FinalizeEarly
  BY <1>1, Environs
<1>2. CASE EnterEnvironment \/ EnterApplication
  BY <1>2, Entered
<1>3. CASE LeaveScope
  BY <1>3, Leaving
<1>4. CASE \E h \in Handles, s \in States : Generate(h, s)
  BY <1>4, Generated
<1>5. CASE \E h \in Handles, s \in States : GenerateThrows(h, s)
  BY <1>5, GeneratedInPart
<1>6. CASE \E h \in Handles, g \in Handles : Copy(h, g) \/ Move(h, g) \/ Destroy(h)
  BY <1>6, Rebound
<1>7. CASE UNCHANGED vars
  BY <1>7 DEF vars, Inv, TypeOK, LifeOrder, NoLateCalls, SharedObjectsAlive, NothingLeaks, Held
<1> QED
  BY <1>1, <1>2, <1>3, <1>4, <1>5, <1>6, <1>7 DEF Next

-------------------------------------------------------------------------------
(* The invariant of PetscRuntime.                                          *)
THEOREM Invariance == Spec => []Inv
BY Initially, Steps, PTL DEF Spec

(* Types, and only the outermost scope brought PETSc up.                   *)
THEOREM TypeCorrect == Spec => []TypeOK
<1>1. Inv => TypeOK
  BY DEF Inv
<1> QED  BY <1>1, Invariance, PTL

(* Destructors and environments call PETSc only while it and MPI are up,   *)
(* however objects, environments and the application's own finalize calls  *)
(* are interleaved.                                                        *)
THEOREM CallsAreTimely == Spec => []NoLateCalls
<1>1. Inv => NoLateCalls
  BY DEF Inv
<1> QED  BY <1>1, Invariance, PTL

(* A copy keeps the PETSc objects alive for as long as it lives.           *)
THEOREM SharedStayAlive == Spec => []SharedObjectsAlive
<1>1. Inv => SharedObjectsAlive
  BY DEF Inv
<1> QED  BY <1>1, Invariance, PTL

(* While PETSc is up nothing is left of what nobody holds, also of what a  *)
(* constructor made before it threw.                                       *)
THEOREM NothingIsLeaked == Spec => []NothingLeaks
<1>1. Inv => NothingLeaks
  BY DEF Inv
<1> QED  BY <1>1, Invariance, PTL

(* The end of an inner environment does not take PETSc from an outer one.  *)
THEOREM UpInsideScopes == Spec => UpInScopes
<1>1. Inv /\ [Next]_vars =>
        [petsc = "up" /\ petsc' # "up" /\ scopes' # scopes => scopes' = <<>>]_vars
  <2> SUFFICES ASSUME Inv, Next, petsc = "up", petsc' # "up", scopes' # scopes
               PROVE  scopes' = <<>>
    OBVIOUS
  <2>1. LeaveScope
    BY DEF Next, MpiInit, MpiFinalize, EnterEnvironment, EnvironmentFails, EnterApplication, FinalizeEarly,
           Generate, GenerateThrows, Copy, Move, Destroy, Rebind
  <2> QED  BY <2>1, Leaving
<1> QED  BY <1>1, Invariance, PTL DEF Spec, UpInScopes

-------------------------------------------------------------------------------
(* An apply is no step of PetscRuntime, so the process with its applies     *)
(* implements PetscRuntime.                                                 *)
THEOREM ProcessIsRuntime == ProcessSpec => Spec
<1>1. ProcessInit => Init
  BY DEF ProcessInit
<1>2. [ProcessNext]_<<vars, applyVars>> => [Next]_vars
  BY DEF ProcessNext, Outside, Inside
<1> QED  BY <1>1, <1>2, PTL DEF ProcessSpec, Spec

(* What PetscRuntime promises holds with applies in between.                *)
THEOREM ProcessIsSafe ==
  ProcessSpec => [](NoLateCalls /\ SharedObjectsAlive /\ NothingLeaks)
<1> QED
  BY ProcessIsRuntime, CallsAreTimely, SharedStayAlive, NothingIsLeaked, PTL
-------------------------------------------------------------------------------
(* The vectors of the solver that is applied.                              *)

(* The guards alive are those of the vectors with an array in them, b's    *)
(* below x's, and the array is the one this apply has placed there; only a *)
(* vector whose reset failed holds an array without a guard.               *)
GuardsKept ==
  /\ guards \in {<<>>, <<"b">>, <<"b", "x">>}
  /\ guards # <<>> => placed["b"] = V!Operand("b")
  /\ guards = <<"b", "x">> => placed["x"] = V!Operand("x")
  /\ guards = <<>> => placed["b"] = "own" \/ "b" \in stuck
  /\ guards # <<"b", "x">> => placed["x"] = "own" \/ "x" \in stuck
  /\ pc \in {"idle", "copy_in", "place_b", "copy_out", "combine"} => guards = <<>>
  /\ pc = "place_x" => guards = <<"b">>
  /\ pc \in {"solve", "read"} => guards = <<"b", "x">>
  /\ pc \in {"copy_in", "copy_out"} => setting = "staged"

(* How far the arrays are: the operands as the application gave them until *)
(* the solve, which writes to the operand only, and which counts as        *)
(* completed once its diagnostics are stored.                              *)
BeforeSolve == {"copy_in", "place_b", "place_x", "solve"}

ContentKept ==
  /\ applies > 0 => content["b"] = "rhs"
  /\ pc # "idle" => applies > 0
  /\ pc \in BeforeSolve => content["x"] = "guess" /\ content[V!Target] = "guess"
  /\ pc \in BeforeSolve \ {"copy_in"} =>
       content[V!Operand("b")] = "rhs" /\ content[V!Operand("x")] = "guess"
  /\ pc \in {"read", "reset", "copy_out"} => content[V!Operand("x")] = "solution"
  /\ pc = "combine" => content[V!Target] = "solution"
  /\ pc \in {"read", "reset", "copy_out", "combine"} /\ advanced => content["x"] = "guess"
  /\ pc \in {"reset", "copy_out", "combine"} => completed = applies
  /\ pc # "idle" /\ completed # applies /\ (advanced \/ setting = "staged") =>
       content["x"] = "guess"

ApplyInv == V!TypeOK /\ GuardsKept /\ ContentKept /\ V!NothingPlaced /\ V!ResultsRight

LEMMA GuardSequences ==
  /\ Append(<<>>, "b") = <<"b">> /\ Append(<<"b">>, "x") = <<"b", "x">>
  /\ Len(<<>>) = 0 /\ Len(<<"b">>) = 1 /\ Len(<<"b", "x">>) = 2
  /\ SubSeq(<<"b">>, 1, 0) = <<>> /\ SubSeq(<<"b", "x">>, 1, 1) = <<"b">>
  /\ <<>> # <<"b">> /\ <<>> # <<"b", "x">> /\ <<"b">> # <<"b", "x">>
  /\ <<"b">>[1] = "b" /\ <<"b", "x">>[2] = "x"
<1>1. Append(<<"b">>, "x") = <<"b", "x">>
  <2>1. /\ Append(<<"b">>, "x") \in Seq({"b", "x"}) /\ <<"b", "x">> \in Seq({"b", "x"})
        /\ Len(Append(<<"b">>, "x")) = 2 /\ Len(<<"b", "x">>) = 2
        /\ \A i \in 1 .. 2 : Append(<<"b">>, "x")[i] = <<"b", "x">>[i]
    OBVIOUS
  <2> QED  BY <2>1, SeqEqual
<1>2. SubSeq(<<"b", "x">>, 1, 1) = <<"b">>
  <2>1. /\ SubSeq(<<"b", "x">>, 1, 1) \in Seq({"b", "x"}) /\ <<"b">> \in Seq({"b", "x"})
        /\ Len(SubSeq(<<"b", "x">>, 1, 1)) = 1 /\ Len(<<"b">>) = 1
        /\ \A i \in 1 .. 1 : SubSeq(<<"b", "x">>, 1, 1)[i] = <<"b">>[i]
    OBVIOUS
  <2> QED  BY <2>1, SeqEqual
<1>3. Append(<<>>, "b") = <<"b">> /\ SubSeq(<<"b">>, 1, 0) = <<>>
  OBVIOUS
<1>4. Len(<<>>) = 0 /\ Len(<<"b">>) = 1 /\ Len(<<"b", "x">>) = 2
  OBVIOUS
<1>5. <<>> # <<"b">> /\ <<>> # <<"b", "x">> /\ <<"b">> # <<"b", "x">>
  OBVIOUS
<1> QED  BY <1>1, <1>2, <1>3, <1>4, <1>5

LEMMA GuardsType ==
  ASSUME NEW g, g = <<>> \/ g = <<"b">> \/ g = <<"b", "x">>
  PROVE  g \in Seq(V!Vectors) /\ Len(g) <= 2
<1>1. ASSUME g = <<>> PROVE g \in Seq(V!Vectors) /\ Len(g) <= 2
  BY <1>1
<1>2. ASSUME g = <<"b">> PROVE g \in Seq(V!Vectors) /\ Len(g) <= 2
  BY <1>2 DEF V!Vectors
<1>3. ASSUME g = <<"b", "x">> PROVE g \in Seq(V!Vectors) /\ Len(g) <= 2
  BY <1>3 DEF V!Vectors
<1> QED  BY <1>1, <1>2, <1>3

LEMMA ApplyInitially == V!Init => ApplyInv
<1> SUFFICES ASSUME V!Init PROVE ApplyInv
  OBVIOUS
<1>1. GuardsKept /\ V!NothingPlaced
  BY DEF V!Init, GuardsKept, V!NothingPlaced, V!Vectors
<1>2. ContentKept /\ V!ResultsRight
  BY DEF V!Init, ContentKept, BeforeSolve, V!ResultsRight
<1>3. V!TypeOK
  <2>1. applies \in 0 .. MaxApplies /\ completed \in 0 .. applies
    BY AppliesAssumption DEF V!Init
  <2>2. /\ content \in [V!Arrays -> V!Values]
        /\ placed \in [V!Vectors -> V!Arrays \cup {"own"}]
        /\ reported \in [V!Diagnostics -> 0 .. applies]
    BY DEF V!Init, V!Values
  <2>3. guards \in Seq(V!Vectors) /\ Len(guards) <= 2
    BY GuardsType DEF V!Init
  <2> QED  BY <1>1, <2>1, <2>2, <2>3 DEF V!Init, V!TypeOK
<1> QED  BY <1>1, <1>2, <1>3 DEF ApplyInv

USE DEF V!vars, V!dataVars, V!pastVars, V!Go, V!Throw, V!Vectors, V!Arrays, V!Values,
        V!Diagnostics, V!Target, V!Operand

LEMMA ApplySteps == ASSUME ApplyInv, V!Next PROVE ApplyInv'
<1>1. CASE V!StartApply
  <2>1. V!TypeOK'
    BY <1>1, AppliesAssumption DEF ApplyInv, V!TypeOK, V!StartApply
  <2>2. GuardsKept' /\ V!NothingPlaced'
    BY <1>1 DEF ApplyInv, V!TypeOK, GuardsKept, V!NothingPlaced, V!StartApply
  <2>3. ContentKept' /\ V!ResultsRight'
    BY <1>1 DEF ApplyInv, V!TypeOK, GuardsKept, ContentKept, BeforeSolve,
       V!ResultsRight, V!StartApply
  <2> QED  BY <2>1, <2>2, <2>3 DEF ApplyInv
<1>2. CASE V!CopyIn
  <2>1. V!TypeOK'
    <3>1. content' \in [V!Arrays -> V!Values]
      BY <1>2 DEF ApplyInv, V!TypeOK, V!CopyIn
    <3>2. UNCHANGED <<placed, guards, stuck>>
      BY <1>2 DEF V!CopyIn
    <3> QED  BY <1>2, <3>1, <3>2 DEF ApplyInv, V!TypeOK, V!CopyIn
  <2>2. GuardsKept' /\ V!NothingPlaced'
    BY <1>2 DEF ApplyInv, V!TypeOK, GuardsKept, V!NothingPlaced, V!CopyIn
  <2>3. ContentKept' /\ V!ResultsRight'
    BY <1>2 DEF ApplyInv, V!TypeOK, GuardsKept, ContentKept, BeforeSolve,
       V!ResultsRight, V!CopyIn
  <2> QED  BY <2>1, <2>2, <2>3 DEF ApplyInv
<1>3. ASSUME NEW v \in V!Vectors, V!PlaceArray(v) PROVE ApplyInv'
  <2>1. V!TypeOK'
    <3>1. placed' \in [V!Vectors -> V!Arrays \cup {"own"}]
      BY <1>3 DEF ApplyInv, V!TypeOK, V!PlaceArray
    <3>2. guards' = guards \/ guards' = <<"b">> \/ guards' = <<"b", "x">>
      <4>1. CASE v = "b"
        BY <1>3, <4>1, GuardSequences DEF ApplyInv, GuardsKept, V!PlaceArray
      <4>2. CASE v = "x"
        BY <1>3, <4>2, GuardSequences DEF ApplyInv, GuardsKept, V!PlaceArray
      <4> QED  BY <4>1, <4>2 DEF V!Vectors
    <3>3. guards' \in Seq(V!Vectors) /\ Len(guards') <= 2
      BY <3>2, GuardsType DEF ApplyInv, V!TypeOK
    <3> QED  BY <1>3, <3>1, <3>3 DEF ApplyInv, V!TypeOK, V!PlaceArray
  <2>2. GuardsKept' /\ V!NothingPlaced'
    <3>1. CASE pc' = "unwind"
      BY <1>3, <3>1 DEF ApplyInv, GuardsKept, V!NothingPlaced, V!PlaceArray
    <3>2. CASE pc' # "unwind" /\ v = "b"
      <4>1. guards' = <<"b">> /\ placed' = [placed EXCEPT !["b"] = V!Operand("b")]
        BY <1>3, <3>2, GuardSequences DEF ApplyInv, GuardsKept, V!PlaceArray
      <4> QED  BY <1>3, <3>2, <4>1, GuardSequences
               DEF ApplyInv, V!TypeOK, GuardsKept, V!NothingPlaced, V!PlaceArray
    <3>3. CASE pc' # "unwind" /\ v = "x"
      <4>1. guards' = <<"b", "x">> /\ placed' = [placed EXCEPT !["x"] = V!Operand("x")]
        BY <1>3, <3>3, GuardSequences DEF ApplyInv, GuardsKept, V!PlaceArray
      <4> QED  BY <1>3, <3>3, <4>1, GuardSequences
               DEF ApplyInv, V!TypeOK, GuardsKept, V!NothingPlaced, V!PlaceArray
    <3> QED  BY <3>1, <3>2, <3>3 DEF V!Vectors
  <2>3. ContentKept' /\ V!ResultsRight'
    BY <1>3 DEF ApplyInv, V!TypeOK, GuardsKept, ContentKept, BeforeSolve,
       V!ResultsRight, V!PlaceArray
  <2> QED  BY <2>1, <2>2, <2>3 DEF ApplyInv
<1>4. CASE V!Solve
  <2>1. V!TypeOK'
    BY <1>4 DEF ApplyInv, V!TypeOK, V!Solve, V!Solution, V!OnDevice,
       V!DeviceVectors
  <2>2. GuardsKept' /\ V!NothingPlaced'
    BY <1>4 DEF ApplyInv, V!TypeOK, GuardsKept, V!NothingPlaced, V!Solve,
       V!Solution, V!OnDevice, V!DeviceVectors
  <2>3. ContentKept' /\ V!ResultsRight'
    <3>1. placed["b"] = V!Operand("b") /\ placed["x"] = V!Operand("x")
      BY <1>4, GuardSequences DEF ApplyInv, GuardsKept, V!Solve
    <3>2. content["b"] = "rhs" /\ content["x"] = "guess" /\ applies > 0
      BY <1>4 DEF ApplyInv, ContentKept, BeforeSolve, V!Solve
    <3>3. V!Solution = "solution"
      BY <1>4, <3>1 DEF ApplyInv, V!TypeOK, ContentKept, BeforeSolve, V!Solve, V!Solution,
         V!Settings, V!OnDevice, V!DeviceVectors
    <3>4. V!Operand("x") # "b" /\ (V!Operand("x") = "x" => ~advanced /\ setting # "staged")
      BY <1>4 DEF V!Operand
    <3>5. content' \in {content, [content EXCEPT ![V!Operand("x")] = "partial"],
                        [content EXCEPT ![V!Operand("x")] = "solution"]}
      BY <1>4, <3>1, <3>3 DEF V!Solve
    <3>6. pc' = "read" => content'[V!Operand("x")] = "solution"
      BY <1>4, <3>1, <3>3 DEF ApplyInv, V!TypeOK, V!Solve
    <3>7. content'["b"] = "rhs" /\ (advanced \/ setting = "staged" => content'["x"] = "guess")
      BY <3>2, <3>4, <3>5 DEF ApplyInv, V!TypeOK
    <3> QED  BY <1>4, <3>2, <3>6, <3>7 DEF ApplyInv, ContentKept, BeforeSolve,
                V!ResultsRight, V!Solve
  <2> QED  BY <2>1, <2>2, <2>3 DEF ApplyInv
<1>5. CASE V!ReadDiagnostics
  <2>1. V!TypeOK'
    BY <1>5 DEF ApplyInv, V!TypeOK, V!ReadDiagnostics
  <2>2. GuardsKept' /\ V!NothingPlaced'
    BY <1>5 DEF ApplyInv, V!TypeOK, GuardsKept, V!NothingPlaced,
       V!ReadDiagnostics
  <2>3. ContentKept' /\ V!ResultsRight'
    BY <1>5 DEF ApplyInv, V!TypeOK, GuardsKept, ContentKept, BeforeSolve,
       V!ResultsRight, V!ReadDiagnostics
  <2> QED  BY <2>1, <2>2, <2>3 DEF ApplyInv
<1>6. CASE V!DestroyGuard
  <2>1. /\ guards = <<"b">> \/ guards = <<"b", "x">>
        /\ pc \in {"reset", "unwind"}
        /\ UNCHANGED <<setting, pc, advanced, applies, content, V!pastVars>>
    BY <1>6 DEF ApplyInv, GuardsKept, V!DestroyGuard, V!DropGuard
  <2>2. PICK v \in V!Vectors :
          /\ v = IF guards = <<"b">> THEN "b" ELSE "x"
          /\ placed[v] # "own" /\ V!ResetOrStick(v)
          /\ guards' = IF v = "b" THEN <<>> ELSE <<"b">>
    <3>1. CASE guards = <<"b">>
      BY <1>6, <3>1, GuardSequences
         DEF ApplyInv, GuardsKept, V!DestroyGuard, V!DropGuard
    <3>2. CASE guards = <<"b", "x">>
      BY <1>6, <3>2, GuardSequences
         DEF ApplyInv, GuardsKept, V!DestroyGuard, V!DropGuard
    <3> QED  BY <2>1, <3>1, <3>2
  <2>3. \/ placed' = [placed EXCEPT ![v] = "own"] /\ stuck' = stuck
        \/ placed' = placed /\ stuck' = stuck \cup {v}
    BY <2>2 DEF ApplyInv, V!TypeOK, V!ResetOrStick, V!Reset
  <2>4. V!TypeOK'
    <3>1. guards' \in Seq(V!Vectors) /\ Len(guards') <= 2
      BY <2>2, GuardsType
    <3>2. placed' \in [V!Vectors -> V!Arrays \cup {"own"}] /\ stuck' \subseteq V!Vectors
      BY <2>3 DEF ApplyInv, V!TypeOK
    <3> QED  BY <2>1, <3>1, <3>2 DEF ApplyInv, V!TypeOK
  <2>5. GuardsKept' /\ V!NothingPlaced'
    <3>1. CASE v = "b"
      BY <2>1, <2>2, <2>3, <3>1, GuardSequences
         DEF ApplyInv, V!TypeOK, GuardsKept, V!NothingPlaced
    <3>2. CASE v = "x"
      BY <2>1, <2>2, <2>3, <3>2, GuardSequences
         DEF ApplyInv, V!TypeOK, GuardsKept, V!NothingPlaced
    <3> QED  BY <3>1, <3>2 DEF V!Vectors
  <2>6. ContentKept' /\ V!ResultsRight'
    BY <2>1 DEF ApplyInv, ContentKept, BeforeSolve, V!ResultsRight
  <2> QED  BY <2>4, <2>5, <2>6 DEF ApplyInv
<1>7. CASE V!LeaveSolve
  <2>1. V!TypeOK'
    BY <1>7 DEF ApplyInv, V!TypeOK, V!LeaveSolve
  <2>2. GuardsKept' /\ V!NothingPlaced'
    BY <1>7 DEF ApplyInv, V!TypeOK, GuardsKept, V!NothingPlaced, V!LeaveSolve
  <2>3. ContentKept' /\ V!ResultsRight'
    BY <1>7 DEF ApplyInv, V!TypeOK, GuardsKept, ContentKept, BeforeSolve,
       V!ResultsRight, V!LeaveSolve
  <2> QED  BY <2>1, <2>2, <2>3 DEF ApplyInv
<1>8. CASE V!LeaveThrown
  <2>1. V!TypeOK'
    BY <1>8 DEF ApplyInv, V!TypeOK, V!LeaveThrown
  <2>2. GuardsKept' /\ V!NothingPlaced'
    BY <1>8 DEF ApplyInv, V!TypeOK, GuardsKept, V!NothingPlaced, V!LeaveThrown
  <2>3. ContentKept' /\ V!ResultsRight'
    BY <1>8 DEF ApplyInv, V!TypeOK, GuardsKept, ContentKept, BeforeSolve,
       V!ResultsRight, V!LeaveThrown
  <2> QED  BY <2>1, <2>2, <2>3 DEF ApplyInv
<1>9. CASE V!CopyOut
  <2>1. V!TypeOK'
    <3>1. content' \in [V!Arrays -> V!Values]
      BY <1>9 DEF ApplyInv, V!TypeOK, V!CopyOut
    <3>2. UNCHANGED <<placed, guards, stuck>>
      BY <1>9 DEF V!CopyOut
    <3> QED  BY <1>9, <3>1, <3>2 DEF ApplyInv, V!TypeOK, V!CopyOut
  <2>2. GuardsKept' /\ V!NothingPlaced'
    BY <1>9 DEF ApplyInv, V!TypeOK, GuardsKept, V!NothingPlaced, V!CopyOut
  <2>3. ContentKept' /\ V!ResultsRight'
    BY <1>9 DEF ApplyInv, V!TypeOK, GuardsKept, ContentKept, BeforeSolve,
       V!ResultsRight, V!CopyOut
  <2> QED  BY <2>1, <2>2, <2>3 DEF ApplyInv
<1>10. CASE V!Combine
  <2>1. V!TypeOK'
    BY <1>10 DEF ApplyInv, V!TypeOK, V!Combine
  <2>2. GuardsKept' /\ V!NothingPlaced'
    <3>1. /\ UNCHANGED <<placed, guards, stuck, setting, advanced>>
          /\ pc = "combine" /\ pc' \in {"idle", "unwind"}
      BY <1>10 DEF V!Combine
    <3> QED  BY <3>1 DEF ApplyInv, GuardsKept, V!NothingPlaced
  <2>3. ContentKept' /\ V!ResultsRight'
    BY <1>10 DEF ApplyInv, V!TypeOK, GuardsKept, ContentKept, BeforeSolve,
       V!ResultsRight, V!Combine
  <2> QED  BY <2>1, <2>2, <2>3 DEF ApplyInv
<1> QED  BY <1>1, <1>2, <1>3, <1>4, <1>5, <1>6, <1>7, <1>8, <1>9, <1>10 DEF V!Next

LEMMA ApplyStutters == ASSUME ApplyInv, UNCHANGED applyVars PROVE ApplyInv'
  BY DEF ApplyInv, V!TypeOK, GuardsKept, ContentKept, BeforeSolve, V!NothingPlaced,
     V!ResultsRight, applyVars

(* Applies of one solver among whatever else the process does.             *)
THEOREM ProcessInvariance == ProcessSpec => []ApplyInv
<1>1. ProcessInit => ApplyInv
  BY ApplyInitially DEF ProcessInit
<1>2. ApplyInv /\ [ProcessNext]_<<vars, applyVars>> => ApplyInv'
  BY ApplySteps, ApplyStutters DEF ProcessNext, Outside, Inside
<1> QED  BY <1>1, <1>2, PTL DEF ProcessSpec

(* Between two applies PETSc holds no array of the application's, wherever *)
(* the last apply failed (the comment before placed_array), unless the     *)
(* reset of that vector is what failed.                                    *)
THEOREM VectorsAreReset == ProcessSpec => []NothingPlaced
<1>1. ApplyInv => NothingPlaced
  BY DEF ApplyInv, NothingPlaced
<1> QED  BY <1>1, ProcessInvariance, PTL

(* An apply that returns has solved its own system into x, one that throws *)
(* leaves x alone where it can, and the diagnostics are of one solve.      *)
THEOREM AppliesAreRight == ProcessSpec => []ResultsRight
<1>1. ApplyInv => ResultsRight
  BY DEF ApplyInv, ResultsRight
<1> QED  BY <1>1, ProcessInvariance, PTL
===============================================================================
