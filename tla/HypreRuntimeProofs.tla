-------------------------- MODULE HypreRuntimeProofs --------------------------
(***************************************************************************)
(* Proofs about HypreRuntime for any number of handles, states, nested     *)
(* scopes and initializations, with and without a GPU build.  ProcessOrder *)
(* relates the process policy to hypre's life: nobody sets a policy before *)
(* hypre is up, and during the first initialization hypre is where the     *)
(* policy says.  That no call leaves a bit in hypre's error flag is what   *)
(* makes a call report its own failures only.                              *)
(***************************************************************************)
EXTENDS HypreRuntime, SequenceTheorems, TLAPS

(* Of the scopes that keep hypre up the outermost one, and no other,       *)
(* brought it up; none did if a failed initialization left it up.          *)
ScopesNest == \A i \in DOMAIN scopes : scopes[i] # "guest" <=> i = 1 /\ ~abandoned

ProcessOrder ==
  /\ inits = 0 <=> hypre = "none"
  /\ mpi = "none" => hypre = "none" /\ scopes = <<>> /\ ~abandoned
  /\ inits = 0 => active = "none"
  /\ inits <= 1 /\ active # "none" => location = active
  /\ errors = {}

Inv == /\ TypeOK /\ ScopesNest /\ ProcessOrder
       /\ UpInScopes /\ SharedObjectsAlive /\ PlacedWhereAsked /\ OwnFailuresOnly

LEMMA PartsNotEmpty == Parts # {} /\ Parts \in SUBSET Parts
<1>1. "matrix" \in Parts
  BY DEF Parts
<1> QED  BY <1>1

LEMMA Initially == Init => Inv
<1> SUFFICES ASSUME Init PROVE Inv
  OBVIOUS
<1>1. scopes \in Seq({"owner", "guest", "app"}) /\ Len(scopes) = 0 /\ DOMAIN scopes = {}
  BY DEF Init
<1>2. object \in [States -> [parts : SUBSET Parts, location : Available \cup {"none"},
                              placed : Available \cup {"none"}, epoch : 0 .. MaxInits]]
  BY BoundsAssumption DEF Init, Unused
<1>3. /\ mpi \in {"none", "up", "finalized"} /\ hypre \in {"none", "up", "finalized"}
      /\ inits \in 0 .. MaxInits
      /\ active \in Available \cup {"none"} /\ location \in Available \cup {"none"}
      /\ errors \subseteq {"conv", "fatal"}
      /\ handle \in [Handles -> States \cup {"moved", "none"}]
      /\ last.end \in {"none", "uninitialized", "policy", "hypre_error", "ok"}
  BY BoundsAssumption DEF Init
<1>4. TypeOK
  <2>1. abandoned \in BOOLEAN
    BY DEF Init
  <2> QED  BY <1>1, <1>2, <1>3, <2>1, BoundsAssumption DEF TypeOK
<1>5. ScopesNest /\ ProcessOrder /\ UpInScopes
  BY <1>1 DEF Init, ScopesNest, ProcessOrder, UpInScopes
<1>6. SharedObjectsAlive /\ PlacedWhereAsked /\ OwnFailuresOnly
  BY BoundsAssumption DEF Init, Unused, SharedObjectsAlive, PlacedWhereAsked, OwnFailuresOnly
<1> QED
  BY <1>4, <1>5, <1>6 DEF Inv

-------------------------------------------------------------------------------
(* A scope is entered on top, and initializes exactly if it finds neither  *)
(* another scope nor an abandoned hypre.                                   *)
LEMMA Entering ==
  ASSUME TypeOK, ScopesNest, NEW who \in {"owner", "guest", "app"}, Len(scopes) < MaxScopes,
         who # "guest" <=> scopes = <<>> /\ ~abandoned, scopes' = Append(scopes, who),
         abandoned' = abandoned
  PROVE  /\ scopes' \in Seq({"owner", "guest", "app"}) /\ Len(scopes') <= MaxScopes
         /\ scopes' # <<>> /\ ScopesNest'
<1>1. scopes \in Seq({"owner", "guest", "app"}) /\ Len(scopes) \in Nat
  BY LenProperties DEF TypeOK
<1>2. /\ scopes' \in Seq({"owner", "guest", "app"})
      /\ Len(scopes') = Len(scopes) + 1
      /\ \A i \in 1..Len(scopes) : scopes'[i] = scopes[i]
      /\ scopes'[Len(scopes) + 1] = who
  BY <1>1
<1>3. DOMAIN scopes = 1..Len(scopes) /\ DOMAIN scopes' = 1..Len(scopes) + 1
  BY <1>1, <1>2
<1>4. who # "guest" <=> Len(scopes) = 0 /\ ~abandoned
  BY <1>1, EmptySeq
<1>5. ScopesNest'
  <2> SUFFICES ASSUME NEW i \in 1..Len(scopes) + 1
               PROVE  scopes'[i] # "guest" <=> i = 1 /\ ~abandoned
    BY <1>3 DEF ScopesNest
  <2>1. CASE i \in 1..Len(scopes)
    BY <2>1, <1>2, <1>3 DEF ScopesNest
  <2>2. CASE i = Len(scopes) + 1
    BY <2>2, <1>1, <1>2, <1>4
  <2> QED  BY <2>1, <2>2, <1>1
<1>6. scopes' # <<>>
  BY <1>1, <1>2, EmptySeq
<1> QED  BY <1>1, <1>2, <1>5, <1>6, BoundsAssumption

LEMMA Initialized ==
  ASSUME Inv, Initialize, mpi = "up", UNCHANGED <<mpi, active>>
  PROVE  /\ scopes = <<>> /\ ~abandoned /\ hypre' = "up" /\ inits' \in 1 .. MaxInits
         /\ location' \in Available
         /\ inits' <= 1 => active' = "none"
<1>1. scopes = <<>> /\ ~abandoned /\ hypre' = "up"
  BY DEF Inv, UpInScopes, Initialize
<1>2. inits \in 0 .. MaxInits /\ inits < MaxInits /\ inits' = inits + 1
  BY DEF Inv, TypeOK, Initialize
<1>3. location' \in Available
  BY DEF Initialize, Available, Locations
<1> QED  BY <1>1, <1>2, <1>3, BoundsAssumption DEF Inv, ProcessOrder

LEMMA Entered ==
  ASSUME Inv, EnterEnvironment \/ EnterApplication
  PROVE  Inv'
<1>1. /\ mpi = "up" /\ Len(scopes) < MaxScopes
      /\ UNCHANGED <<mpi, abandoned, active, errors, object, handle, last>>
  BY DEF EnterEnvironment, EnterApplication
<1>2. CASE hypre = "up" /\ scopes' = Append(scopes, "guest") /\ UNCHANGED <<hypre, inits, location>>
  <2>1. ~(scopes = <<>> /\ ~abandoned)
    BY <1>1, <1>2 DEF Inv, UpInScopes
  <2>2. /\ scopes' \in Seq({"owner", "guest", "app"}) /\ Len(scopes') <= MaxScopes
        /\ scopes' # <<>> /\ ScopesNest'
    BY <1>1, <1>2, <2>1, Entering DEF Inv
  <2>3. TypeOK'
    BY <1>1, <1>2, <2>2 DEF Inv, TypeOK
  <2>4. ProcessOrder' /\ UpInScopes'
    BY <1>1, <1>2, <2>2 DEF Inv, ProcessOrder, UpInScopes
  <2>5. SharedObjectsAlive' /\ PlacedWhereAsked' /\ OwnFailuresOnly'
    BY <1>1 DEF Inv, SharedObjectsAlive, PlacedWhereAsked, OwnFailuresOnly
  <2> QED  BY <2>2, <2>3, <2>4, <2>5 DEF Inv
<1>3. CASE \E who \in {"owner", "app"} : Initialize /\ scopes' = Append(scopes, who)
  <2>1. PICK who \in {"owner", "app"} : Initialize /\ scopes' = Append(scopes, who)
    BY <1>3
  <2>2. /\ scopes = <<>> /\ ~abandoned /\ hypre' = "up" /\ inits' \in 1 .. MaxInits
        /\ location' \in Available
        /\ inits' <= 1 => active' = "none"
    BY <1>1, <2>1, Initialized
  <2>3. /\ scopes' \in Seq({"owner", "guest", "app"}) /\ Len(scopes') <= MaxScopes
        /\ scopes' # <<>> /\ ScopesNest'
    BY <1>1, <2>1, <2>2, Entering DEF Inv
  <2>4. inits' \in 0 .. MaxInits /\ inits' # 0
    BY <2>2, BoundsAssumption
  <2>5. TypeOK'
    BY <1>1, <2>2, <2>3, <2>4 DEF Inv, TypeOK
  <2>6. ProcessOrder' /\ UpInScopes'
    BY <1>1, <2>2, <2>3, <2>4 DEF Inv, ProcessOrder, UpInScopes
  <2>7. SharedObjectsAlive' /\ PlacedWhereAsked' /\ OwnFailuresOnly'
    BY <1>1 DEF Inv, SharedObjectsAlive, PlacedWhereAsked, OwnFailuresOnly
  <2> QED  BY <2>3, <2>5, <2>6, <2>7 DEF Inv
<1> QED  BY <1>2, <1>3 DEF EnterEnvironment, EnterApplication

(* Only an initialization that finds hypre down can fail and leave it up.  *)
LEMMA EnteringFails ==
  ASSUME Inv, EnvironmentFails
  PROVE  Inv'
<1>1. /\ mpi = "up" /\ Initialize /\ abandoned' = TRUE /\ errors' = {}
      /\ UNCHANGED <<mpi, scopes, active, object, handle, last>>
  BY DEF EnvironmentFails
<1>2. /\ scopes = <<>> /\ hypre' = "up" /\ inits' \in 1 .. MaxInits
      /\ location' \in Available
      /\ inits' <= 1 => active' = "none"
  BY <1>1, Initialized
<1>3. inits' \in 0 .. MaxInits /\ inits' # 0
  BY <1>2, BoundsAssumption
<1>4. TypeOK'
  BY <1>1, <1>2, <1>3 DEF Inv, TypeOK
<1>5. ScopesNest'
  <2>1. DOMAIN scopes' = {}
    BY <1>1, <1>2
  <2> QED  BY <2>1 DEF ScopesNest
<1>6. ProcessOrder' /\ UpInScopes'
  BY <1>1, <1>2, <1>3 DEF Inv, ProcessOrder, UpInScopes
<1>7. SharedObjectsAlive' /\ PlacedWhereAsked' /\ OwnFailuresOnly'
  BY <1>1 DEF Inv, SharedObjectsAlive, PlacedWhereAsked, OwnFailuresOnly
<1> QED  BY <1>4, <1>5, <1>6, <1>7 DEF Inv

LEMMA Leaving ==
  ASSUME Inv, LeaveScope
  PROVE  Inv'
<1> DEFINE n == Len(scopes)
<1>1. /\ scopes \in Seq({"owner", "guest", "app"}) /\ n \in Nat \ {0}
      /\ DOMAIN scopes = 1..n /\ scopes' = SubSeq(scopes, 1, n - 1)
      /\ n <= MaxScopes
  BY LenProperties, EmptySeq DEF Inv, TypeOK, LeaveScope
<1>2. /\ scopes' \in Seq({"owner", "guest", "app"}) /\ Len(scopes') = n - 1
      /\ \A i \in 1..n - 1 : scopes'[i] = scopes[i]
  BY <1>1, SubSeqProperties
<1>3. DOMAIN scopes' = 1..n - 1 /\ Len(scopes') <= MaxScopes
  BY <1>1, <1>2, LenProperties, BoundsAssumption
<1>4. ScopesNest'
  BY <1>1, <1>2, <1>3 DEF Inv, ScopesNest, LeaveScope
<1>5. scopes' = <<>> <=> n = 1
  <2>1. scopes' = <<>> <=> Len(scopes') = 0
    BY <1>2, EmptySeq
  <2> QED  BY <2>1, <1>1, <1>2
<1>6. scopes[n] # "guest" <=> n = 1 /\ ~abandoned
  BY <1>1 DEF Inv, ScopesNest
<1>7. /\ UNCHANGED <<mpi, inits, abandoned, active, location, errors, object, handle, last>>
      /\ hypre' = IF Finalizes(scopes[n]) THEN "finalized" ELSE hypre
  BY DEF LeaveScope
<1>8. mpi # "none" /\ hypre' \in {"none", "up", "finalized"}
  BY <1>1, <1>7 DEF Inv, TypeOK, ProcessOrder, LeaveScope
<1>9. TypeOK'
  BY <1>2, <1>3, <1>7, <1>8 DEF Inv, TypeOK
<1>10. ProcessOrder'
  BY <1>7, <1>8 DEF Inv, ProcessOrder, Finalizes
<1>11. UpInScopes'
  BY <1>1, <1>5, <1>6, <1>7 DEF Inv, UpInScopes, Finalizes, LeaveScope
<1>12. SharedObjectsAlive' /\ PlacedWhereAsked' /\ OwnFailuresOnly'
  BY <1>7 DEF Inv, SharedObjectsAlive, PlacedWhereAsked, OwnFailuresOnly
<1> QED  BY <1>4, <1>9, <1>10, <1>11, <1>12 DEF Inv

LEMMA MpiChanges ==
  ASSUME Inv, MpiInit \/ MpiFinalize
  PROVE  Inv'
<1>1. UNCHANGED <<hypre, inits, scopes, abandoned, active, location, errors,
                  object, handle, last>>
  BY DEF MpiInit, MpiFinalize
<1>2. TypeOK' /\ ProcessOrder' /\ UpInScopes'
  BY <1>1 DEF MpiInit, MpiFinalize, Inv, TypeOK, ProcessOrder, UpInScopes
<1>3. ScopesNest' /\ SharedObjectsAlive' /\ PlacedWhereAsked' /\ OwnFailuresOnly'
  BY <1>1 DEF Inv, ScopesNest, SharedObjectsAlive, PlacedWhereAsked, OwnFailuresOnly
<1> QED  BY <1>2, <1>3 DEF Inv

-------------------------------------------------------------------------------
(* Requests that leave the objects as they are.                            *)
LEMMA Unsuccessful ==
  ASSUME Inv, NEW h \in Handles, NEW l \in Locations,
         GenerateRejected(h, l) \/ PolicyFails(h, l)
  PROVE  Inv'
<1>1. UNCHANGED <<mpi, hypre, inits, scopes, abandoned, active, object, handle>>
  BY DEF GenerateRejected, PolicyFails, lifeVars
<1>2. location' \in Available \cup {"none"}
  BY DEF GenerateRejected, PolicyFails, PolicyThrows, Available, Locations, Inv, TypeOK
<1>3. /\ errors' = {}
      /\ last'.end \in {"uninitialized", "policy", "hypre_error"}
      /\ OwnFailuresOnly'
  BY DEF GenerateRejected, PolicyFails, OwnFailuresOnly, Inv, ProcessOrder
<1>4. active # "none" => location' = location
  BY DEF GenerateRejected, PolicyFails
<1>5. TypeOK'
  BY <1>1, <1>2, <1>3 DEF Inv, TypeOK
<1>6. ProcessOrder'
  BY <1>1, <1>3, <1>4 DEF Inv, ProcessOrder
<1>7. ScopesNest' /\ UpInScopes' /\ SharedObjectsAlive' /\ PlacedWhereAsked'
  BY <1>1 DEF Inv, ScopesNest, UpInScopes, SharedObjectsAlive, PlacedWhereAsked
<1> QED  BY <1>3, <1>5, <1>6, <1>7 DEF Inv

(* A policy that is accepted is what hypre is set to, as long as hypre was *)
(* initialized once.                                                       *)
LEMMA PolicyTaken ==
  ASSUME Inv, NEW l \in Locations, ~PolicyThrows(l), SetPolicy(l)
  PROVE  /\ active' = l /\ l \in Available
         /\ location' \in Available \cup {"none"}
         /\ inits <= 1 => location' = l
<1>1. active' = l /\ (active = "none" \/ active = l) /\ l # "none"
  BY DEF SetPolicy, PolicyThrows, Locations
<1>2. l \in Available
  BY DEF PolicyThrows, Locations, Available
<1> QED  BY <1>1, <1>2 DEF SetPolicy, Inv, TypeOK, ProcessOrder

LEMMA Generated ==
  ASSUME Inv, NEW h \in Handles, NEW s \in States, NEW l \in Locations, Generate(h, s, l)
  PROVE  /\ Inv'
         /\ \A t \in States : Held(t) => Held(t)'
<1>1. /\ hypre = "up" /\ mpi = "up" /\ handle[h] = "none"
      /\ UNCHANGED <<mpi, hypre, inits, scopes, abandoned>> /\ errors' = {}
      /\ errors = {}
  BY DEF Generate, lifeVars, Inv, ProcessOrder
<1>2. /\ active' = l /\ l \in Available
      /\ location' \in Available \cup {"none"}
      /\ inits <= 1 => location' = l
  BY PolicyTaken DEF Generate
<1>3. inits \in 1 .. MaxInits
  BY <1>1, BoundsAssumption DEF Inv, TypeOK, ProcessOrder
<1>4. PICK f \in {{}, {"fatal"}} :
        /\ last' = [op |-> "generate", failures |-> f,
                    end |-> IF f # {} THEN "hypre_error" ELSE "ok"]
        /\ IF f # {}
           THEN UNCHANGED <<object, handle>>
           ELSE /\ object' = [object EXCEPT ![s] =
                      [parts |-> Parts, location |-> l, placed |-> location',
                       epoch |-> inits]]
                /\ handle' = [handle EXCEPT ![h] = s]
  BY <1>1 DEF Generate, Returns
<1>5. OwnFailuresOnly' /\ last'.end \in {"hypre_error", "ok"}
  BY <1>4 DEF OwnFailuresOnly
<1>6. ProcessOrder' /\ UpInScopes' /\ ScopesNest'
  BY <1>1, <1>2, <1>3 DEF Inv, ProcessOrder, UpInScopes, ScopesNest
<1>7. CASE f # {}
  <2>1. UNCHANGED <<object, handle>>
    BY <1>4, <1>7
  <2>2. TypeOK'
    BY <2>1, <1>1, <1>2, <1>5 DEF Inv, TypeOK
  <2>3. SharedObjectsAlive' /\ PlacedWhereAsked'
    BY <2>1 DEF Inv, SharedObjectsAlive, PlacedWhereAsked
  <2>4. \A t \in States : Held(t) => Held(t)'
    BY <2>1 DEF Held
  <2> QED  BY <2>2, <2>3, <2>4, <1>5, <1>6 DEF Inv
<1>8. CASE f = {}
  <2> DEFINE made == [parts |-> Parts, location |-> l, placed |-> location', epoch |-> inits]
  <2>1. object' = [object EXCEPT ![s] = made] /\ handle' = [handle EXCEPT ![h] = s]
    BY <1>4, <1>8
  <2>2. made \in [parts : SUBSET Parts, location : Available \cup {"none"},
                  placed : Available \cup {"none"}, epoch : 0 .. MaxInits]
    BY <1>2, <1>3, PartsNotEmpty
  <2>3. made.parts = Parts /\ (made.epoch = 1 => made.placed = made.location)
    BY <1>2
  <2> HIDE DEF made
  <2>4. /\ object'[s] = made /\ \A t \in States \ {s} : object'[t] = object[t]
        /\ handle'[h] = s /\ \A g \in Handles \ {h} : handle'[g] = handle[g]
    BY <2>1 DEF Inv, TypeOK
  <2>5. TypeOK'
    <3>1. /\ object' \in [States -> [parts : SUBSET Parts, location : Available \cup {"none"},
                                     placed : Available \cup {"none"}, epoch : 0 .. MaxInits]]
          /\ handle' \in [Handles -> States \cup {"moved", "none"}]
      BY <2>1, <2>2 DEF Inv, TypeOK
    <3> QED  BY <3>1, <1>1, <1>2, <1>5 DEF Inv, TypeOK
  <2>6. SharedObjectsAlive' /\ PlacedWhereAsked'
    BY <2>3, <2>4 DEF Inv, SharedObjectsAlive, PlacedWhereAsked
  <2>7. \A t \in States : Held(t) => Held(t)'
    BY <2>4, <1>1, BoundsAssumption DEF Held
  <2> QED  BY <2>5, <2>6, <2>7, <1>5, <1>6 DEF Inv
<1> QED  BY <1>7, <1>8

LEMMA Applied ==
  ASSUME Inv, NEW h \in Handles, Apply(h)
  PROVE  Inv'
<1>1. UNCHANGED <<mpi, hypre, inits, scopes, abandoned, active, location, object, handle>>
  BY DEF Apply, lifeVars
<1>2. PICK f \in SUBSET {"conv", "fatal"} :
        /\ last' = [op |-> "apply", failures |-> f, end |-> CheckSolve(f).end]
        /\ errors' = CheckSolve(f).left
  <2>1. \A f : Returns(f) = f
    BY DEF Returns, Inv, ProcessOrder
  <2> QED  BY <2>1 DEF Apply
<1>3. /\ CheckSolve(f).left = {}
      /\ CheckSolve(f).end \in {"hypre_error", "ok"}
      /\ CheckSolve(f).end = "hypre_error" <=> "fatal" \in f
  <2>1. f \ {"conv"} # {} <=> "fatal" \in f
    <3>1. CASE "fatal" \in f
      <4>1. "fatal" \in f \ {"conv"}
        BY <3>1
      <4> QED  BY <4>1, <3>1
    <3>2. CASE "fatal" \notin f
      <4>1. \A x \in f : x = "conv"
        BY <3>2
      <4> QED  BY <4>1, <3>2
    <3> QED  BY <3>1, <3>2
  <2> QED  BY <2>1 DEF CheckSolve
<1>4. TypeOK' /\ ProcessOrder' /\ OwnFailuresOnly'
  BY <1>1, <1>2, <1>3 DEF Inv, TypeOK, ProcessOrder, OwnFailuresOnly
<1>5. ScopesNest' /\ UpInScopes' /\ SharedObjectsAlive' /\ PlacedWhereAsked'
  BY <1>1 DEF Inv, ScopesNest, UpInScopes, SharedObjectsAlive, PlacedWhereAsked
<1> QED  BY <1>4, <1>5 DEF Inv

-------------------------------------------------------------------------------
(* New handles on states that are held.  What they let go is freed if MPI  *)
(* and hypre are up, and no other state loses anything.                    *)
LEMMA Rebinding ==
  ASSUME Inv, NEW new \in [Handles -> States \cup {"moved", "none"}],
         \A s \in States : (\E h \in Handles : new[h] = s) => Held(s),
         Rebind(new)
  PROVE  /\ Inv'
         /\ \A s \in States :
              /\ Held(s) /\ ~Held(s)' /\ hypre = "up" /\ mpi = "up"
                 => object'[s].parts = {}
              /\ object'[s].parts # object[s].parts => hypre = "up"
<1> DEFINE lost == {s \in States : Held(s) /\ \A h \in Handles : new[h] # s}
<1>1. /\ handle' = new
      /\ UNCHANGED <<mpi, hypre, inits, scopes, abandoned, active, location, errors, last>>
      /\ object' = [s \in States |->
           IF s \in lost THEN [object[s] EXCEPT !.parts = @ \ PartsFreed] ELSE object[s]]
  BY DEF Rebind, lifeVars
<1>2. \A s \in States : Held(s)' => Held(s) /\ s \notin lost
  BY <1>1 DEF Held
<1>3. \A s \in States :
        /\ s \notin lost => object'[s] = object[s]
        /\ s \in lost => object'[s] = [object[s] EXCEPT !.parts = @ \ PartsFreed]
  BY <1>1
<1>4. \A s \in States :
        /\ object[s] \in [parts : SUBSET Parts, location : Available \cup {"none"},
                          placed : Available \cup {"none"}, epoch : 0 .. MaxInits]
        /\ object'[s] \in [parts : SUBSET Parts, location : Available \cup {"none"},
                           placed : Available \cup {"none"}, epoch : 0 .. MaxInits]
        /\ object'[s].parts \subseteq object[s].parts
        /\ object'[s].placed = object[s].placed
        /\ object'[s].location = object[s].location
        /\ object'[s].epoch = object[s].epoch
        /\ s \in lost => object'[s].parts = object[s].parts \ PartsFreed
  <2> SUFFICES ASSUME NEW s \in States
               PROVE  LET old == object[s]
                          next == object'[s]
                          type == [parts : SUBSET Parts, location : Available \cup {"none"},
                                   placed : Available \cup {"none"}, epoch : 0 .. MaxInits]
                      IN /\ old \in type /\ next \in type
                         /\ next.parts \subseteq old.parts
                         /\ next.placed = old.placed /\ next.location = old.location
                         /\ next.epoch = old.epoch
                         /\ s \in lost => next.parts = old.parts \ PartsFreed
    OBVIOUS
  <2>1. object[s] \in [parts : SUBSET Parts, location : Available \cup {"none"},
                       placed : Available \cup {"none"}, epoch : 0 .. MaxInits]
    BY DEF Inv, TypeOK
  <2>2. CASE s \in lost
    <3>1. object'[s] = [object[s] EXCEPT !.parts = object[s].parts \ PartsFreed]
      BY <2>2, <1>3
    <3> HIDE DEF lost
    <3> QED  BY <2>1, <3>1
  <2>3. CASE s \notin lost
    BY <2>1, <2>3, <1>3
  <2> QED  BY <2>2, <2>3
<1>5. TypeOK'
  <2>1. object' \in [States -> [parts : SUBSET Parts, location : Available \cup {"none"},
                               placed : Available \cup {"none"}, epoch : 0 .. MaxInits]]
    BY <1>1, <1>4
  <2> QED  BY <2>1, <1>1 DEF Inv, TypeOK
<1>6. ScopesNest' /\ ProcessOrder' /\ UpInScopes' /\ OwnFailuresOnly'
  BY <1>1 DEF Inv, ScopesNest, ProcessOrder, UpInScopes, OwnFailuresOnly
<1>7. SharedObjectsAlive'
  <2> SUFFICES ASSUME NEW h \in Handles, NEW s \in States, handle'[h] = s
               PROVE  object'[s].parts = Parts
    BY DEF SharedObjectsAlive
  <2>1. Held(s)'
    BY DEF Held
  <2>2. Held(s) /\ object'[s] = object[s]
    BY <2>1, <1>2, <1>3
  <2> QED  BY <2>2 DEF Held, Inv, SharedObjectsAlive
<1>8. PlacedWhereAsked'
  BY <1>4 DEF Inv, PlacedWhereAsked
<1>9. hypre = "up" /\ mpi = "up" => PartsFreed = Parts
  BY DEF PartsFreed, Parts, SolversFreed, MatrixFreed, VectorsFreed
<1>10. hypre # "up" => PartsFreed = {}
  BY DEF PartsFreed, Parts, SolversFreed, MatrixFreed, VectorsFreed
<1>11. \A s \in States : Held(s) /\ ~Held(s)' => s \in lost
  BY <1>1 DEF Held
<1>12. ASSUME NEW s \in States
       PROVE  /\ Held(s) /\ ~Held(s)' /\ hypre = "up" /\ mpi = "up"
                 => object'[s].parts = {}
              /\ object'[s].parts # object[s].parts => hypre = "up"
  <2>1. object[s].parts \subseteq Parts
    BY <1>4
  <2>2. CASE s \in lost
    BY <2>1, <2>2, <1>4, <1>9, <1>10
  <2>3. CASE s \notin lost
    BY <2>3, <1>3, <1>11
  <2> QED  BY <2>2, <2>3
<1> QED  BY <1>5, <1>6, <1>7, <1>8, <1>12 DEF Inv

(* Copies, moves and destructions are rebindings to held states.           *)
LEMMA Rebound ==
  ASSUME Inv, NEW h \in Handles, NEW g \in Handles, Copy(h, g) \/ Move(h, g) \/ Destroy(h)
  PROVE  \E new \in [Handles -> States \cup {"moved", "none"}] :
           /\ \A s \in States : (\E k \in Handles : new[k] = s) => Held(s)
           /\ Rebind(new)
<1>0. handle \in [Handles -> States \cup {"moved", "none"}]
  BY DEF Inv, TypeOK
<1>1. CASE Copy(h, g)
  <2> DEFINE new == [handle EXCEPT ![g] = handle[h]]
  <2>1. /\ new \in [Handles -> States \cup {"moved", "none"}]
        /\ \A s \in States : (\E k \in Handles : new[k] = s) => Held(s)
    BY <1>0 DEF Held
  <2> QED  BY <2>1, <1>1 DEF Copy
<1>2. CASE Move(h, g)
  <2> DEFINE new == [handle EXCEPT ![g] = handle[h], ![h] = "moved"]
  <2>1. /\ new \in [Handles -> States \cup {"moved", "none"}]
        /\ \A s \in States : (\E k \in Handles : new[k] = s) => Held(s)
    BY <1>0, BoundsAssumption DEF Held
  <2> QED  BY <2>1, <1>2 DEF Move
<1>3. CASE Destroy(h)
  <2> DEFINE new == [handle EXCEPT ![h] = "none"]
  <2>1. /\ new \in [Handles -> States \cup {"moved", "none"}]
        /\ \A s \in States : (\E k \in Handles : new[k] = s) => Held(s)
    BY <1>0, BoundsAssumption DEF Held
  <2> QED  BY <2>1, <1>3 DEF Destroy
<1> QED  BY <1>1, <1>2, <1>3

(* What a step does to the states: the two action properties, and the      *)
(* invariant.                                                              *)
StepFrees(s) ==
  /\ Held(s) /\ ~Held(s)' /\ hypre = "up" /\ mpi = "up" => object'[s].parts = {}
  /\ object'[s].parts # object[s].parts => hypre = "up"

LEMMA Steps ==
  ASSUME Inv, [Next]_vars
  PROVE  Inv' /\ \A s \in States : StepFrees(s)
<1>1. CASE UNCHANGED <<object, handle>>
  <2>1. \A s \in States : StepFrees(s)
    BY <1>1 DEF StepFrees, Held
  <2>2. CASE MpiInit \/ MpiFinalize
    BY <2>1, <2>2, MpiChanges
  <2>3. CASE EnterEnvironment \/ EnterApplication \/ EnvironmentFails
    BY <2>1, <2>3, Entered, EnteringFails
  <2>4. CASE LeaveScope
    BY <2>1, <2>4, Leaving
  <2>5. CASE \E h \in Handles, l \in Locations : GenerateRejected(h, l) \/ PolicyFails(h, l)
    BY <2>1, <2>5, Unsuccessful
  <2>6. CASE \E h \in Handles, s \in States, l \in Locations : Generate(h, s, l)
    BY <2>1, <2>6, Generated
  <2>7. CASE \E h \in Handles : Apply(h)
    BY <2>1, <2>7, Applied
  <2>8. CASE \E h \in Handles, g \in Handles : Copy(h, g) \/ Move(h, g) \/ Destroy(h)
    <3>1. Inv'
      BY <2>8, Rebound, Rebinding
    <3> QED  BY <3>1, <2>1
  <2>9. CASE UNCHANGED vars
    BY <2>1, <2>9 DEF vars, lifeVars, Inv, TypeOK, ScopesNest, ProcessOrder, UpInScopes,
                      SharedObjectsAlive, PlacedWhereAsked, OwnFailuresOnly
  <2> QED
    BY <2>2, <2>3, <2>4, <2>5, <2>6, <2>7, <2>8, <2>9 DEF Next
<1>2. CASE \E h \in Handles, s \in States, l \in Locations : Generate(h, s, l)
  <2>1. Inv' /\ (\A s \in States : Held(s) => Held(s)') /\ hypre = "up"
    BY <1>2, Generated DEF Generate
  <2> QED  BY <2>1 DEF StepFrees
<1>3. CASE \E h \in Handles, g \in Handles : Copy(h, g) \/ Move(h, g) \/ Destroy(h)
  BY <1>3, Rebound, Rebinding DEF StepFrees
<1>4. \/ UNCHANGED <<object, handle>>
      \/ \E h \in Handles, s \in States, l \in Locations : Generate(h, s, l)
      \/ \E h \in Handles, g \in Handles : Copy(h, g) \/ Move(h, g) \/ Destroy(h)
  BY DEF Next, MpiInit, MpiFinalize, EnterEnvironment, EnvironmentFails, EnterApplication, LeaveScope,
         GenerateRejected, PolicyFails, Apply, vars
<1> QED  BY <1>1, <1>2, <1>3, <1>4

-------------------------------------------------------------------------------
(* The invariant of HypreRuntime.                                          *)
THEOREM Invariance == Spec => []Inv
<1>1. Inv /\ [Next]_vars => Inv'
  BY Steps
<1> QED  BY <1>1, Initially, PTL DEF Spec

(* Types: a process never runs hypre, and never puts an object, at a       *)
(* location its hypre was not built for.                                   *)
THEOREM TypeCorrect == Spec => []TypeOK
<1>1. Inv => TypeOK
  BY DEF Inv
<1> QED  BY <1>1, Invariance, PTL

(* While MPI is up, hypre is up exactly inside somebody's scope or once an *)
(* HYPRE_Initialize failed halfway, however environments, failed ones too, *)
(* and applications that initialize hypre themselves nest.                 *)
THEOREM HypreUpInScopes == Spec => []UpInScopes
<1>1. Inv => UpInScopes
  BY DEF Inv
<1> QED  BY <1>1, Invariance, PTL

(* A copy keeps the hypre objects of its solver alive for as long as it    *)
(* lives.                                                                  *)
THEOREM SharedStayAlive == Spec => []SharedObjectsAlive
<1>1. Inv => SharedObjectsAlive
  BY DEF Inv
<1> QED  BY <1>1, Invariance, PTL

(* During hypre's first initialization every object is built where its     *)
(* solver's executor asks for, also after requests that were turned down   *)
(* or failed.                                                              *)
THEOREM ObjectsPlaced == Spec => []PlacedWhereAsked
<1>1. Inv => PlacedWhereAsked
  BY DEF Inv
<1> QED  BY <1>1, Invariance, PTL

(* A call reports a hypre error exactly if hypre failed in this very call: *)
(* no bit of the sticky flag reaches another call.                         *)
THEOREM FailuresAreOwn == Spec => []OwnFailuresOnly
<1>1. Inv => OwnFailuresOnly
  BY DEF Inv
<1> QED  BY <1>1, Invariance, PTL

(* What loses its last holder while hypre and MPI are up is freed.         *)
THEOREM NothingIsLeaked == Spec => NothingLeaks
<1>1. Inv /\ [Next]_vars =>
        [\A s \in States :
           /\ Held(s) /\ ~Held(s)' /\ hypre = "up" /\ mpi = "up"
           => object'[s].parts = {}]_vars
  BY Steps DEF StepFrees
<1> QED  BY <1>1, Invariance, PTL DEF Spec, NothingLeaks

(* No destructor hands an object to a hypre that was finalized.            *)
THEOREM NothingFreedLate == Spec => NoFreeAfterFinalize
<1>1. Inv /\ [Next]_vars =>
        [\A s \in States : object'[s].parts # object[s].parts => hypre = "up"]_vars
  BY Steps DEF StepFrees
<1> QED  BY <1>1, Invariance, PTL DEF Spec, NoFreeAfterFinalize
===============================================================================
