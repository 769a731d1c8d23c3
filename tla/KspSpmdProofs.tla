---------------------------- MODULE KspSpmdProofs ----------------------------
(***************************************************************************)
(* Proofs about KspSpmd for every number of ranks, every program, every    *)
(* options database and whatever fails on whichever rank.                  *)
(*                                                                         *)
(* The first part holds whatever fails; the second, from NoRankFailsAlone  *)
(* on, shows that KspSpmd implements UniformCalls when nothing fails on    *)
(* one rank alone.                                                         *)
(***************************************************************************)
EXTENDS KspSpmd, WellFoundedInduction, TLAPS

USE DEF Pending, OK, Scan, Assembly, ImportBarrier, Setup, SetupBarrier, Flags, Solve

(* A rank is back from the calls before the one it is in, and has not      *)
(* communicated in the later ones.                                         *)
CallOrder ==
  \A k \in Ops : \A r \in Ranks :
     /\ k < cur[r] <=> Ended(k, r)
     /\ k > cur[r] => reached[k][r] = 0

(* A call of generate succeeds only where every rank has come to the last  *)
(* barrier, and there a rank can only throw on an MPI error.               *)
SolversComplete ==
  \A k \in Ops : \A r, q \in Ranks : IsGenerate(k) =>
     /\ outcome[k][r] = OK => reached[k][q] = SetupBarrier
     /\ reached[k][r] = SetupBarrier => outcome[k][r] \in {OK, Pending, "mpi"}

SafeInv == /\ TypeOK /\ CallOrder /\ OwnOptions
           /\ SolversComplete /\ PhasesSeparated /\ SolveOnlyUsable

-----------------------------------------------------------------------------
(* What the two ways to leave a stretch of code change.                    *)
LEMMA EnterEffect ==
  ASSUME TypeOK, NEW r \in Ranks, NEW k \in Ops, NEW i \in 0 .. SetupBarrier,
         Enter(r, k, i)
  PROVE  /\ reached' \in [Ops -> [Ranks -> 0 .. SetupBarrier]]
         /\ \A j \in Ops : \A q \in Ranks :
              reached'[j][q] = IF j = k /\ q = r THEN i ELSE reached[j][q]
         /\ cur' = cur
         /\ outcome' = outcome
  BY DEF Enter, TypeOK

LEMMA EndEffect ==
  ASSUME TypeOK, NEW r \in Ranks, NEW k \in Ops, NEW o \in Outcomes, End(r, k, o)
  PROVE  /\ outcome' \in [Ops -> [Ranks -> Outcomes \cup {Pending}]]
         /\ \A j \in Ops : \A q \in Ranks :
              outcome'[j][q] = IF j = k /\ q = r THEN o ELSE outcome[j][q]
         /\ cur' \in [Ranks -> 1 .. MaxOps + 1]
         /\ \A q \in Ranks : cur'[q] = IF q = r THEN k + 1 ELSE cur[q]
         /\ reached' = reached
  BY SizesAssumption DEF End, TypeOK, Ops

(* From the assembly on every collective waits for all ranks.              *)
LEMMA AllAwaited ==
  ASSUME NEW r \in Ranks, NEW k \in Ops, NEW i \in Assembly .. SetupBarrier,
         Resume(r, k, i)
  PROVE  /\ cur[r] = k /\ reached[k][r] = i /\ IsGenerate(k)
         /\ \A q \in Ranks : reached[k][q] >= i
  <1>1. GeneratePeers(r, i) = Ranks
    BY DEF GeneratePeers
  <1> QED BY <1>1 DEF Resume, At, Released

(* How generate ends on rank r, told by the collective the rank left.      *)
EndsWell(r, k, o) ==
  /\ o = OK => \A q \in Ranks : reached[k][q] = SetupBarrier
  /\ reached[k][r] = SetupBarrier => o \in {OK, "mpi"}

(* What a step of generate can do, told by the collective the rank left.   *)
LEMMA GenerateStep ==
  ASSUME TypeOK, NEW r \in Ranks, NEW k \in Ops, Generate(r, k)
  PROVE  /\ cur[r] = k /\ IsGenerate(k) /\ UNCHANGED <<prog, flags>>
         /\ \/ /\ reached[k][r] < SetupBarrier /\ Enter(r, k, reached[k][r] + 1)
               /\ reached[k][r] >= Assembly =>
                    \A q \in Ranks : reached[k][q] >= reached[k][r]
            \/ \E o \in Outcomes : End(r, k, o) /\ EndsWell(r, k, o)
  <1>0. ASSUME NEW i \in {Scan, ImportBarrier, SetupBarrier}, CollectiveFails(r, k, i)
        PROVE  cur[r] = k /\ \E o \in Outcomes : End(r, k, o) /\ EndsWell(r, k, o)
    BY <1>0 DEF CollectiveFails, At, EndsWell, Outcomes
  <1>1. CASE GenerateEntry(r, k)
    <2>1. GenerateVerdict(prog[k]) \in (Outcomes \ {OK}) \cup {"enter"}
      BY DEF GenerateVerdict, Outcomes
    <2> QED BY <1>1, <2>1 DEF GenerateEntry, At, EndsWell, Outcomes
  <1>2. CASE ImportTriplets(r, k)
    BY <1>0, <1>2 DEF ImportTriplets, Resume, At, EndsWell, Outcomes
  <1>3. CASE Configure(r, k)
    BY <1>3, AllAwaited DEF Configure, EndsWell, Outcomes
  <1>4. CASE AssemblyFails(r, k)
    BY <1>4, AllAwaited DEF AssemblyFails, EndsWell, Outcomes
  <1>5. CASE StartSetup(r, k)
    BY <1>0, <1>5, AllAwaited DEF StartSetup
  <1>6. CASE FinishSetup(r, k)
    BY <1>6, AllAwaited DEF FinishSetup, EndsWell, Outcomes
  <1>7. CASE FinishGenerate(r, k)
    <2>1. \A q \in Ranks : reached[k][q] \in 0 .. SetupBarrier
      BY DEF TypeOK
    <2> QED BY <1>0, <1>7, <2>1, AllAwaited DEF FinishGenerate, EndsWell, Outcomes
  <1> QED BY <1>1, <1>2, <1>3, <1>4, <1>5, <1>6, <1>7 DEF Generate

LEMMA ApplyStep ==
  ASSUME TypeOK, NEW r \in Ranks, NEW k \in Ops, Apply(r, k)
  PROVE  /\ cur[r] = k /\ ~IsGenerate(k) /\ reached[k][r] <= Solve
         /\ UNCHANGED <<prog, nextId, database, instances>>
         /\ \/ /\ Enter(r, k, reached[k][r] + 1) /\ reached[k][r] < Solve
               /\ reached[k][r] = Flags => \A q \in Ranks : flags[k][q] = {}
               /\ reached[k][r] >= Flags =>
                    \A q \in Ranks : reached[k][q] >= reached[k][r]
            \/ \E o \in Outcomes : End(r, k, o)
         /\ \/ UNCHANGED flags
            \/ /\ reached[k][r] = 0
               /\ \E o \in Operands : flags' = [flags EXCEPT ![k][r] = LocalFlags(o)]
  <1>1. CASE ApplyEntry(r, k)
    BY <1>1 DEF ApplyEntry, At, Outcomes
  <1>2. CASE RejectOrSolve(r, k)
    <2>1. \A f : Rejection(f) \in Outcomes
      BY DEF Rejection, Outcomes
    <2>2. "solve" \in Outcomes
      BY DEF Outcomes
    <2>3. ReducedFlags(r, k) = {} => \A q \in Ranks : flags[k][q] = {}
      BY DEF ReducedFlags
    <2> QED BY <1>2, <2>1, <2>2, <2>3
            DEF RejectOrSolve, CollectiveFails, At, Released, Outcomes
  <1>3. CASE FinishSolve(r, k)
    BY <1>3 DEF FinishSolve, At, Released, Outcomes
  <1> QED BY <1>1, <1>2, <1>3 DEF Apply

-----------------------------------------------------------------------------
(* Types of the variables every step moves, and the order of the calls.    *)
LEMMA InitTypeOK == Init => TypeOK
  BY SizesAssumption
  DEF Init, CallsInit, TypeOK, Ranks, Ops, Outcomes

LEMMA InitOrder == Init => CallOrder
  BY SizesAssumption DEF Init, CallsInit, CallOrder, Ended, Ops

LEMMA MoveTypeOK ==
  ASSUME TypeOK, NEW r \in Ranks, NEW k \in Ops,
         \/ \E i \in 0 .. SetupBarrier : Enter(r, k, i)
         \/ \E o \in Outcomes : End(r, k, o)
  PROVE  /\ cur' \in [Ranks -> 1 .. MaxOps + 1]
         /\ reached' \in [Ops -> [Ranks -> 0 .. SetupBarrier]]
         /\ outcome' \in [Ops -> [Ranks -> Outcomes \cup {Pending}]]
  <1>1. CASE \E i \in 0 .. SetupBarrier : Enter(r, k, i)
    BY <1>1, EnterEffect DEF TypeOK
  <1>2. CASE \E o \in Outcomes : End(r, k, o)
    BY <1>2, EndEffect DEF TypeOK
  <1> QED BY <1>1, <1>2

LEMMA MoveOrder ==
  ASSUME TypeOK, CallOrder, NEW r \in Ranks, NEW k \in Ops, cur[r] = k,
         \/ \E i \in 0 .. SetupBarrier : Enter(r, k, i)
         \/ \E o \in Outcomes : End(r, k, o)
  PROVE  CallOrder'
  <1> SUFFICES ASSUME NEW j \in Ops, NEW q \in Ranks
               PROVE  /\ j < cur'[q] <=> outcome'[j][q] # Pending
                      /\ j > cur'[q] => reached'[j][q] = 0
    BY DEF CallOrder, Ended
  <1>1. /\ j < cur[q] <=> outcome[j][q] # Pending
        /\ j > cur[q] => reached[j][q] = 0 /\ ~(j = k /\ q = r)
    BY SizesAssumption DEF CallOrder, Ended, Ops
  <1>2. CASE \E i \in 0 .. SetupBarrier : Enter(r, k, i)
    BY <1>1, <1>2, EnterEffect
  <1>3. CASE \E o \in Outcomes : End(r, k, o)
    <2>1. PICK o \in Outcomes : End(r, k, o)
      BY <1>3
    <2>2. o # Pending
      BY DEF Outcomes
    <2>3. /\ outcome'[j][q] = IF j = k /\ q = r THEN o ELSE outcome[j][q]
          /\ cur'[q] = IF q = r THEN k + 1 ELSE cur[q]
          /\ reached' = reached
      BY <2>1, EndEffect
    <2> QED BY <1>1, <2>2, <2>3, SizesAssumption DEF Ops
  <1> QED BY <1>2, <1>3

-----------------------------------------------------------------------------
(* The options database.                                                   *)
IdsDrawn ==
  \A r \in Ranks :
    /\ database[r] \subseteq (0 .. nextId[r] - 1) \X OptionNames
    /\ instances[r] \subseteq [id : 0 .. nextId[r] - 1,
                                asked : SUBSET OptionNames,
                                got : SUBSET OptionNames]

(* A new KSP draws a prefix nobody has, so what it reads under it is what  *)
(* was put there for it.                                                   *)
LEMMA InstanceOwn ==
  ASSUME nextId \in [Ranks -> Nat], IdsDrawn, OwnOptions, NEW r \in Ranks,
         NEW options \in SUBSET OptionNames, NewInstance(r, options),
         DOMAIN database = Ranks, DOMAIN instances = Ranks
  PROVE  /\ nextId' \in [Ranks -> Nat]
         /\ DOMAIN database' = Ranks /\ DOMAIN instances' = Ranks
         /\ IdsDrawn' /\ OwnOptions'
  <1> DEFINE n == nextId[r]
             db == database[r] \cup {<<n, o>> : o \in options}
             ksp == [id |-> n, asked |-> options, got |-> OptionsUnder(db, n)]
  <1>1. /\ nextId' = [nextId EXCEPT ![r] = n + 1]
        /\ database' = [database EXCEPT ![r] = db]
        /\ instances' = [instances EXCEPT ![r] = instances[r] \cup {ksp}]
    BY DEF NewInstance
  <1>2. n \in Nat /\ nextId' \in [Ranks -> Nat]
    BY <1>1
  <1>3. \A q \in Ranks : /\ nextId'[q] = IF q = r THEN n + 1 ELSE nextId[q]
                         /\ database'[q] = IF q = r THEN db ELSE database[q]
                         /\ instances'[q] = IF q = r THEN instances[r] \cup {ksp}
                                                    ELSE instances[q]
    BY <1>1
  <1>4. OptionsUnder(db, n) = options
    <2>1. \A o \in OptionNames : <<n, o>> \notin database[r]
      <3> SUFFICES ASSUME NEW o \in OptionNames, <<n, o>> \in database[r] PROVE FALSE
        OBVIOUS
      <3>1. <<n, o>> \in (0 .. n - 1) \X OptionNames
        BY DEF IdsDrawn
      <3> QED BY <3>1, <1>2
    <2>2. \A o \in OptionNames : <<n, o>> \in db <=> o \in options
      BY <2>1
    <2> QED BY <2>2 DEF OptionsUnder
  <1>5. db \subseteq (0 .. n) \X OptionNames
    <2>1. database[r] \subseteq (0 .. n - 1) \X OptionNames
      BY DEF IdsDrawn
    <2>2. 0 .. n - 1 \subseteq 0 .. n /\ n \in 0 .. n
      BY <1>2
    <2> QED BY <2>1, <2>2
  <1>6. instances[r] \cup {ksp} \subseteq
          [id : 0 .. n, asked : SUBSET OptionNames, got : SUBSET OptionNames]
    <2>1. \A i \in instances[r] :
            i \in [id : 0 .. n - 1, asked : SUBSET OptionNames, got : SUBSET OptionNames]
      BY DEF IdsDrawn
    <2>2. 0 .. n - 1 \subseteq 0 .. n /\ n \in 0 .. n
      BY <1>2
    <2>3. ksp \in [id : 0 .. n, asked : SUBSET OptionNames, got : SUBSET OptionNames]
      BY <1>4, <2>2
    <2> QED BY <2>1, <2>2, <2>3
  <1>7. ksp.got = ksp.asked
    BY <1>4
  <1>8. OwnOptions'
    <2> HIDE DEF ksp, db
    <2> QED BY <1>3, <1>7 DEF OwnOptions
  <1>9. IdsDrawn'
    <2> HIDE DEF ksp, db
    <2> SUFFICES ASSUME NEW q \in Ranks
                 PROVE  /\ database'[q] \subseteq (0 .. nextId'[q] - 1) \X OptionNames
                        /\ instances'[q] \subseteq [id : 0 .. nextId'[q] - 1,
                                                     asked : SUBSET OptionNames,
                                                     got : SUBSET OptionNames]
      BY DEF IdsDrawn
    <2>1. CASE q = r
      <3>1. nextId'[q] - 1 = n
        BY <2>1, <1>2, <1>3
      <3> QED BY <2>1, <3>1, <1>3, <1>5, <1>6
    <2>2. CASE q # r
      BY <2>2, <1>3 DEF IdsDrawn
    <2> QED BY <2>1, <2>2
  <1> QED BY <1>1, <1>2, <1>8, <1>9

(* TypeOK in the parts the steps disturb separately.                       *)
LEMMA TypesSplit ==
  TypeOK <=> /\ prog \in [Ops -> Requests]
             /\ /\ cur \in [Ranks -> 1 .. MaxOps + 1]
                /\ reached \in [Ops -> [Ranks -> 0 .. SetupBarrier]]
                /\ outcome \in [Ops -> [Ranks -> Outcomes \cup {Pending}]]
             /\ nextId \in [Ranks -> Nat] /\ IdsDrawn
             /\ flags \in [Ops -> [Ranks -> SUBSET {"bad_cast", "stride", "size"}]]
  BY DEF TypeOK, IdsDrawn

(* The domains of the two sets a process keeps (they hold sets, so the     *)
(* invariant says no more of them).                                        *)
Databases == DOMAIN database = Ranks /\ DOMAIN instances = Ranks

LEMMA OptionsType ==
  ASSUME TypeOK, NEW k \in Ops, IsGenerate(k)
  PROVE  prog[k].options \in SUBSET OptionNames
  BY RequestsAssumption DEF TypeOK, IsGenerate, GenerateRequests, ApplyRequests

(* The data a step of generate changes: a KSP is created, or nothing.      *)
LEMMA GenerateData ==
  ASSUME NEW r \in Ranks, NEW k \in Ops, Generate(r, k)
  PROVE  \/ NewInstance(r, prog[k].options)
         \/ UNCHANGED <<nextId, database, instances>>
  BY DEF Generate, GenerateEntry, ImportTriplets, Configure, AssemblyFails,
         StartSetup, FinishSetup, FinishGenerate

LEMMA DataStep ==
  ASSUME TypeOK, Databases, OwnOptions, [Next]_vars
  PROVE  nextId' \in [Ranks -> Nat] /\ IdsDrawn' /\ Databases' /\ OwnOptions'
  <1>1. nextId \in [Ranks -> Nat] /\ IdsDrawn
    BY TypesSplit
  <1>2. ASSUME NEW r \in Ranks, NEW o \in SUBSET OptionNames, NewInstance(r, o)
        PROVE  nextId' \in [Ranks -> Nat] /\ IdsDrawn' /\ Databases' /\ OwnOptions'
    BY <1>1, <1>2, InstanceOwn DEF Databases
  <1>3. CASE UNCHANGED <<nextId, database, instances>>
    BY <1>1, <1>3 DEF IdsDrawn, Databases, OwnOptions
  <1>4. ASSUME NEW r \in Ranks, NEW k \in Ops, Generate(r, k)
        PROVE  nextId' \in [Ranks -> Nat] /\ IdsDrawn' /\ Databases' /\ OwnOptions'
    BY <1>2, <1>3, <1>4, GenerateStep, GenerateData, OptionsType
  <1>5. ASSUME NEW r \in Ranks, NEW k \in Ops, Apply(r, k)
        PROVE  nextId' \in [Ranks -> Nat] /\ IdsDrawn' /\ Databases' /\ OwnOptions'
    BY <1>3, <1>5, ApplyStep
  <1>6. ASSUME NEW r \in Ranks, NEW o \in SerialOptions, SerialGenerate(r, o)
        PROVE  nextId' \in [Ranks -> Nat] /\ IdsDrawn' /\ Databases' /\ OwnOptions'
    BY <1>2, <1>6, EnvironmentAssumption DEF SerialGenerate
  <1>7. CASE UNCHANGED vars
    BY <1>3, <1>7 DEF vars
  <1> QED BY <1>4, <1>5, <1>6, <1>7 DEF Next, Step, Terminated

-----------------------------------------------------------------------------
(* The step invariants of the ranks, one lemma for each kind of call.      *)
LEMMA LocalFlagsType ==
  \A o \in Operands : LocalFlags(o) \in SUBSET {"bad_cast", "stride", "size"}
  BY DEF LocalFlags

LEMMA GenerateTypeOrder ==
  ASSUME TypeOK, CallOrder, NEW r \in Ranks, NEW k \in Ops, Generate(r, k),
         nextId' \in [Ranks -> Nat], IdsDrawn'
  PROVE  TypeOK' /\ CallOrder'
  <1>1. reached[k][r] \in 0 .. SetupBarrier
    BY DEF TypeOK
  <1>2. /\ cur[r] = k /\ UNCHANGED <<prog, flags>>
        /\ \/ \E i \in 0 .. SetupBarrier : Enter(r, k, i)
           \/ \E o \in Outcomes : End(r, k, o)
    BY <1>1, GenerateStep
  <1>3. CallOrder'
    BY <1>2, MoveOrder
  <1>4. /\ cur' \in [Ranks -> 1 .. MaxOps + 1]
        /\ reached' \in [Ops -> [Ranks -> 0 .. SetupBarrier]]
        /\ outcome' \in [Ops -> [Ranks -> Outcomes \cup {Pending}]]
    BY <1>2, MoveTypeOK
  <1> QED BY <1>2, <1>3, <1>4, TypesSplit DEF TypeOK, IdsDrawn

LEMMA ApplyTypeOrder ==
  ASSUME TypeOK, CallOrder, NEW r \in Ranks, NEW k \in Ops, Apply(r, k)
  PROVE  TypeOK' /\ CallOrder'
  <1>1. reached[k][r] \in 0 .. SetupBarrier
    BY DEF TypeOK
  <1>2. /\ cur[r] = k /\ UNCHANGED <<prog, nextId, database, instances>>
        /\ \/ \E i \in 0 .. SetupBarrier : Enter(r, k, i)
           \/ \E o \in Outcomes : End(r, k, o)
    BY <1>1, ApplyStep
  <1>3. CallOrder'
    BY <1>2, MoveOrder
  <1>4. /\ cur' \in [Ranks -> 1 .. MaxOps + 1]
        /\ reached' \in [Ops -> [Ranks -> 0 .. SetupBarrier]]
        /\ outcome' \in [Ops -> [Ranks -> Outcomes \cup {Pending}]]
    BY <1>2, MoveTypeOK
  <1>5. flags' \in [Ops -> [Ranks -> SUBSET {"bad_cast", "stride", "size"}]]
    <2>1. CASE UNCHANGED flags
      BY <2>1 DEF TypeOK
    <2>2. CASE \E o \in Operands : flags' = [flags EXCEPT ![k][r] = LocalFlags(o)]
      BY <2>2, LocalFlagsType DEF TypeOK
    <2> QED BY <2>1, <2>2, ApplyStep
  <1> QED BY <1>2, <1>3, <1>4, <1>5 DEF TypeOK

(* generate is all or nothing, and its phases stay apart: a rank enters a  *)
(* collective or succeeds only with all others where it is, or further.    *)
LEMMA GenerateSafe ==
  ASSUME SafeInv, NEW r \in Ranks, NEW k \in Ops, Generate(r, k)
  PROVE  SolversComplete' /\ PhasesSeparated' /\ SolveOnlyUsable'
  <1>1. /\ TypeOK /\ CallOrder /\ cur[r] = k /\ IsGenerate(k)
        /\ UNCHANGED <<prog, flags>>
        /\ \A j \in Ops : \A q \in Ranks : reached[j][q] \in 0 .. SetupBarrier
        /\ outcome[k][r] = Pending
    BY GenerateStep DEF SafeInv, CallOrder, TypeOK, Ended
  <1>3. \A j \in Ops : IsGenerate(j)' <=> IsGenerate(j)
    BY <1>1 DEF IsGenerate
  <1>4. CASE /\ reached[k][r] < SetupBarrier /\ Enter(r, k, reached[k][r] + 1)
             /\ reached[k][r] >= Assembly =>
                  \A q \in Ranks : reached[k][q] >= reached[k][r]
    <2>1. /\ outcome' = outcome
          /\ \A j \in Ops : \A q \in Ranks : reached'[j][q] =
               IF j = k /\ q = r THEN reached[k][r] + 1 ELSE reached[j][q]
      BY <1>1, <1>4, EnterEffect
    <2>2. SolversComplete'
      <3> SUFFICES ASSUME NEW j \in Ops, NEW p \in Ranks, NEW q \in Ranks, IsGenerate(j)
                   PROVE  /\ outcome'[j][p] = OK => reached'[j][q] = SetupBarrier
                          /\ reached'[j][p] = SetupBarrier => outcome'[j][p] \in {OK, Pending, "mpi"}
        BY <1>3 DEF SolversComplete
      <3>1. /\ outcome[j][p] = OK => reached[j][q] = SetupBarrier
            /\ reached[j][p] = SetupBarrier => outcome[j][p] \in {OK, Pending, "mpi"}
        BY DEF SafeInv, SolversComplete
      <3> QED BY <3>1, <2>1, <1>1, <1>4
    <2>3. PhasesSeparated'
      <3> SUFFICES ASSUME NEW j \in Ops, NEW p \in Ranks, NEW q \in Ranks, IsGenerate(j),
                          reached'[j][p] >= Setup
                   PROVE  reached'[j][q] >= ImportBarrier
        BY <1>3 DEF PhasesSeparated
      <3>1. reached[j][p] >= Setup => reached[j][q] >= ImportBarrier
        BY DEF SafeInv, PhasesSeparated
      <3> QED BY <3>1, <2>1, <1>1, <1>4
    <2>4. SolveOnlyUsable'
      BY <1>1, <1>3, <2>1 DEF SafeInv, SolveOnlyUsable
    <2> QED BY <2>2, <2>3, <2>4
  <1>5. CASE \E o \in Outcomes : End(r, k, o) /\ EndsWell(r, k, o)
    <2>1. PICK o \in Outcomes : End(r, k, o) /\ EndsWell(r, k, o)
      BY <1>5
    <2>0. TypeOK /\ End(r, k, o)
      BY <1>1, <2>1
    <2>2. /\ reached' = reached
          /\ \A j \in Ops : \A q \in Ranks :
               outcome'[j][q] = IF j = k /\ q = r THEN o ELSE outcome[j][q]
      BY <2>0, EndEffect
    <2>3. SolversComplete'
      <3> SUFFICES ASSUME NEW j \in Ops, NEW p \in Ranks, NEW q \in Ranks, IsGenerate(j)
                   PROVE  /\ outcome'[j][p] = OK => reached'[j][q] = SetupBarrier
                          /\ reached'[j][p] = SetupBarrier => outcome'[j][p] \in {OK, Pending, "mpi"}
        BY <1>3 DEF SolversComplete
      <3>1. /\ outcome[j][p] = OK => reached[j][q] = SetupBarrier
            /\ reached[j][p] = SetupBarrier => outcome[j][p] \in {OK, Pending, "mpi"}
        BY DEF SafeInv, SolversComplete
      <3>2. CASE j = k /\ p = r
        <4>1. outcome'[j][p] = o /\ reached' = reached
          BY <3>2, <2>2
        <4> QED BY <3>2, <4>1, <2>1 DEF EndsWell
      <3>3. CASE ~(j = k /\ p = r)
        BY <3>1, <3>3, <2>2
      <3> QED BY <3>2, <3>3
    <2>4. PhasesSeparated' /\ SolveOnlyUsable'
      BY <1>1, <1>3, <2>2 DEF SafeInv, PhasesSeparated, SolveOnlyUsable
    <2> QED BY <2>3, <2>4
  <1> QED BY <1>1, <1>4, <1>5, GenerateStep

(* No rank solves before every rank's operands have been found usable, and *)
(* they are looked into once.                                              *)
LEMMA ApplySafe ==
  ASSUME SafeInv, NEW r \in Ranks, NEW k \in Ops, Apply(r, k)
  PROVE  SolversComplete' /\ PhasesSeparated' /\ SolveOnlyUsable'
  <1>1. /\ TypeOK /\ CallOrder /\ cur[r] = k /\ ~IsGenerate(k) /\ UNCHANGED prog
        /\ \A j \in Ops : \A q \in Ranks : reached[j][q] \in 0 .. SetupBarrier
        /\ reached[k][r] <= Solve
    BY ApplyStep DEF SafeInv, TypeOK
  <1>2. \/ UNCHANGED flags
        \/ /\ reached[k][r] = 0
           /\ \E o \in Operands : flags' = [flags EXCEPT ![k][r] = LocalFlags(o)]
    BY <1>1, ApplyStep
  <1>3. \A j \in Ops : IsGenerate(j)' <=> IsGenerate(j)
    BY <1>1 DEF IsGenerate
  <1>4. \A j \in Ops : \A q \in Ranks :
          \/ flags'[j][q] = flags[j][q]
          \/ j = k /\ q = r /\ reached[k][r] = 0
    BY <1>1, <1>2 DEF TypeOK
  <1>5. CASE /\ Enter(r, k, reached[k][r] + 1) /\ reached[k][r] < Solve
             /\ reached[k][r] = Flags => \A q \in Ranks : flags[k][q] = {}
             /\ reached[k][r] >= Flags =>
                  \A q \in Ranks : reached[k][q] >= reached[k][r]
    <2>1. /\ outcome' = outcome
          /\ \A j \in Ops : \A q \in Ranks : reached'[j][q] =
               IF j = k /\ q = r THEN reached[k][r] + 1 ELSE reached[j][q]
      BY <1>1, <1>5, EnterEffect
    <2>2. SolversComplete' /\ PhasesSeparated'
      BY <1>1, <1>3, <2>1 DEF SafeInv, SolversComplete, PhasesSeparated
    <2>3. SolveOnlyUsable'
      <3> SUFFICES ASSUME NEW j \in Ops, NEW p \in Ranks, NEW q \in Ranks, ~IsGenerate(j),
                          reached'[j][p] >= Solve
                   PROVE  reached'[j][q] >= Flags /\ flags'[j][q] = {}
        BY <1>3 DEF SolveOnlyUsable
      <3>1. reached[j][p] >= Solve => reached[j][q] >= Flags /\ flags[j][q] = {}
        BY DEF SafeInv, SolveOnlyUsable
      <3> QED BY <3>1, <2>1, <1>1, <1>4, <1>5
    <2> QED BY <2>2, <2>3
  <1>6. CASE \E o \in Outcomes : End(r, k, o)
    <2>1. PICK o \in Outcomes : End(r, k, o)
      BY <1>6
    <2>2. /\ reached' = reached
          /\ \A j \in Ops : \A q \in Ranks :
               outcome'[j][q] = IF j = k /\ q = r THEN o ELSE outcome[j][q]
      BY <1>1, <2>1, EndEffect
    <2>3. SolversComplete' /\ PhasesSeparated'
      BY <1>1, <1>3, <2>2 DEF SafeInv, SolversComplete, PhasesSeparated
    <2>4. SolveOnlyUsable'
      <3> SUFFICES ASSUME NEW j \in Ops, NEW p \in Ranks, NEW q \in Ranks, ~IsGenerate(j),
                          reached[j][p] >= Solve
                   PROVE  reached[j][q] >= Flags /\ flags'[j][q] = {}
        BY <1>3, <2>2 DEF SolveOnlyUsable
      <3>1. reached[j][q] >= Flags /\ flags[j][q] = {}
        BY DEF SafeInv, SolveOnlyUsable
      <3> QED BY <3>1, <1>1, <1>4
    <2> QED BY <2>3, <2>4
  <1> QED BY <1>1, <1>5, <1>6, ApplyStep

-----------------------------------------------------------------------------
LEMMA Initially == Init => SafeInv /\ Databases
  <1> SUFFICES ASSUME Init PROVE SafeInv /\ Databases
    OBVIOUS
  <1>1. TypeOK /\ CallOrder
    BY InitTypeOK, InitOrder
  <1>2. OwnOptions /\ Databases
    BY DEF Init, OwnOptions, Databases
  <1>3. SolversComplete /\ PhasesSeparated /\ SolveOnlyUsable
    BY DEF Init, CallsInit, SolversComplete, PhasesSeparated, SolveOnlyUsable
  <1> QED BY <1>1, <1>2, <1>3 DEF SafeInv

LEMMA Steps == SafeInv /\ Databases /\ [Next]_vars => SafeInv' /\ Databases'
  <1> SUFFICES ASSUME SafeInv, Databases, [Next]_vars PROVE SafeInv' /\ Databases'
    OBVIOUS
  <1>1. nextId' \in [Ranks -> Nat] /\ IdsDrawn' /\ Databases' /\ OwnOptions'
    BY DataStep DEF SafeInv
  <1>2. ASSUME NEW r \in Ranks, NEW k \in Ops, Generate(r, k) PROVE SafeInv'
    BY <1>1, <1>2, GenerateTypeOrder, GenerateSafe DEF SafeInv
  <1>3. ASSUME NEW r \in Ranks, NEW k \in Ops, Apply(r, k) PROVE SafeInv'
    BY <1>1, <1>3, ApplyTypeOrder, ApplySafe DEF SafeInv
  <1>4. CASE UNCHANGED <<callVars, prog, flags>>
    <2>1. TypeOK'
      BY <1>1, <1>4 DEF SafeInv, TypeOK, IdsDrawn, callVars
    <2>2. CallOrder' /\ SolversComplete' /\ PhasesSeparated' /\ SolveOnlyUsable'
      BY <1>4 DEF SafeInv, CallOrder, Ended, SolversComplete, PhasesSeparated,
                  SolveOnlyUsable, IsGenerate, callVars
    <2> QED BY <1>1, <2>1, <2>2 DEF SafeInv
  <1> QED BY <1>1, <1>2, <1>3, <1>4 DEF Next, Step, Terminated, SerialGenerate, vars

(* The invariant of KspSpmd, whatever fails.                               *)
THEOREM Invariance == Spec => []SafeInv
  BY Initially, Steps, PTL DEF Spec

(* Types; every prefix in use has been drawn from the process's counter.   *)
THEOREM TypeCorrect == Spec => []TypeOK
  <1>1. SafeInv => TypeOK
    BY DEF SafeInv
  <1> QED BY <1>1, Invariance, PTL

(* Every KSP of a process is configured with its own options, though all   *)
(* write to one database that nobody clears, and distributed and serial    *)
(* solvers come in any order.                                              *)
THEOREM OptionsAreOwn == Spec => []OwnOptions
  <1>1. SafeInv => OwnOptions
    BY DEF SafeInv
  <1> QED BY <1>1, Invariance, PTL

(* generate is all or nothing up to its last barrier on every              *)
(* communicator, whichever steps fail on whichever ranks: no rank holds a  *)
(* solver unless all have come to that barrier, and the others then have   *)
(* one too, are still in it, or failed in it on an MPI error of their own. *)
THEOREM GenerateAllOrNothing == Spec => []AllOrNothing
  <1>1. SafeInv => AllOrNothing
    BY DEF SafeInv, SolversComplete, AllOrNothing
  <1> QED BY <1>1, Invariance, PTL

(* The timed phases of generate do not overlap between ranks.              *)
THEOREM PhasesApart == Spec => []PhasesSeparated
  <1>1. SafeInv => PhasesSeparated
    BY DEF SafeInv
  <1> QED BY <1>1, Invariance, PTL

(* No rank enters KSPSolve while another's operands are unusable.          *)
THEOREM SolvesUsable == Spec => []SolveOnlyUsable
  <1>1. SafeInv => SolveOnlyUsable
    BY DEF SafeInv
  <1> QED BY <1>1, Invariance, PTL

-----------------------------------------------------------------------------
(* When nothing fails on one rank alone, KspSpmd implements UniformCalls:  *)
(* the program and the operands of all ranks decide each call, so it ends  *)
(* alike everywhere (CallsAgree), and each step of a rank joins a call,    *)
(* returns from it, or is not visible to the application.  The serial      *)
(* solvers a rank makes in between do not matter.                          *)
NoRankFailsAlone == LocalFaults = {}

(* The program makes a solver before apply k.                              *)
Supplied(k) ==
  \E j \in Ops : /\ j < k /\ IsGenerate(j)
                 /\ GenerateVerdict(prog[j]) = "enter" /\ "bad" \notin prog[j].options

(* How far a rank is in a call, and where it ended, tells what the program *)
(* and the operands of the ranks made of the call for all of them.         *)
GenerateInv(k, r) ==
  /\ reached[k][r] >= Scan => GenerateVerdict(prog[k]) = "enter"
  /\ reached[k][r] > Assembly => "bad" \notin prog[k].options
  /\ Ended(k, r) =>
       \/ /\ reached[k][r] = 0
          /\ outcome[k][r] = GenerateVerdict(prog[k]) /\ outcome[k][r] # "enter"
       \/ /\ reached[k][r] = Assembly
          /\ outcome[k][r] = "bad_option" /\ "bad" \in prog[k].options
       \/ reached[k][r] = SetupBarrier /\ outcome[k][r] = OK

ApplyInv(k, r) ==
  /\ reached[k][r] >= Flags => prog[k].columns = 1 /\ Supplied(k)
  /\ reached[k][r] <= Solve
  /\ Ended(k, r) =>
       \/ reached[k][r] = 0 /\ outcome[k][r] = "no_solver" /\ ~Supplied(k)
       \/ /\ reached[k][r] = 0 /\ outcome[k][r] = "dimension_mismatch"
          /\ Supplied(k) /\ prog[k].columns # 1
       \/ /\ reached[k][r] = Flags
          /\ \A q \in Ranks : reached[k][q] >= Flags
          /\ \E q \in Ranks : flags[k][q] # {}
          /\ outcome[k][r] = Rejection(ReducedFlags(r, k))
       \/ reached[k][r] = Solve /\ outcome[k][r] = OK

CallsAgree ==
  \A k \in Ops : \A r \in Ranks :
     /\ IsGenerate(k) => GenerateInv(k, r)
     /\ ~IsGenerate(k) => ApplyInv(k, r)

UniformInv == SafeInv /\ CallsAgree

-----------------------------------------------------------------------------
(* Without rank-local failures the steps are decided.                      *)
LEMMA GenerateDecided ==
  ASSUME NoRankFailsAlone, NEW r \in Ranks, NEW k \in Ops, Generate(r, k)
  PROVE  \/ /\ Enter(r, k, reached[k][r] + 1) /\ reached[k][r] \in 0 .. Setup
            /\ reached[k][r] = 0 => GenerateVerdict(prog[k]) = "enter"
            /\ reached[k][r] = Assembly => "bad" \notin prog[k].options
         \/ /\ reached[k][r] = 0 /\ GenerateVerdict(prog[k]) # "enter"
            /\ End(r, k, GenerateVerdict(prog[k]))
         \/ /\ reached[k][r] = Assembly /\ "bad" \in prog[k].options
            /\ End(r, k, "bad_option")
         \/ reached[k][r] = SetupBarrier /\ End(r, k, OK)
  <1> USE DEF NoRankFailsAlone, Fault, SyncFault, CollectiveFails, Resume, At
  <1>1. CASE GenerateEntry(r, k)   BY <1>1 DEF GenerateEntry
  <1>2. CASE ImportTriplets(r, k)  BY <1>2 DEF ImportTriplets
  <1>3. CASE Configure(r, k)       BY <1>3 DEF Configure
  <1>4. CASE AssemblyFails(r, k)   BY <1>4 DEF AssemblyFails
  <1>5. CASE StartSetup(r, k)      BY <1>5 DEF StartSetup
  <1>6. CASE FinishSetup(r, k)     BY <1>6 DEF FinishSetup
  <1>7. CASE FinishGenerate(r, k)  BY <1>7 DEF FinishGenerate
  <1> QED BY <1>1, <1>2, <1>3, <1>4, <1>5, <1>6, <1>7 DEF Generate

LEMMA ApplyDecided ==
  ASSUME NoRankFailsAlone, NEW r \in Ranks, NEW k \in Ops, Apply(r, k)
  PROVE  \/ /\ reached[k][r] = 0 /\ ~HasSolver(r, k)
            /\ End(r, k, "no_solver") /\ UNCHANGED flags
         \/ /\ reached[k][r] = 0 /\ HasSolver(r, k) /\ prog[k].columns # 1
            /\ End(r, k, "dimension_mismatch") /\ UNCHANGED flags
         \/ /\ reached[k][r] = 0 /\ HasSolver(r, k) /\ prog[k].columns = 1
            /\ Enter(r, k, Flags)
         \/ /\ reached[k][r] = Flags /\ \A q \in Ranks : reached[k][q] >= Flags
            /\ \E q \in Ranks : flags[k][q] # {}
            /\ End(r, k, Rejection(ReducedFlags(r, k))) /\ UNCHANGED flags
         \/ reached[k][r] = Flags /\ Enter(r, k, Solve) /\ UNCHANGED flags
         \/ reached[k][r] = Solve /\ End(r, k, OK) /\ UNCHANGED flags
  <1> USE DEF NoRankFailsAlone, Fault, CollectiveFails, At
  <1>1. CASE ApplyEntry(r, k)
    BY <1>1 DEF ApplyEntry
  <1>2. CASE RejectOrSolve(r, k)
    <2>1. ReducedFlags(r, k) # {} => \E q \in Ranks : flags[k][q] # {}
      BY DEF ReducedFlags
    <2> QED BY <1>2, <2>1 DEF RejectOrSolve, Released
  <1>3. CASE FinishSolve(r, k)
    BY <1>3 DEF FinishSolve
  <1> QED BY <1>1, <1>2, <1>3 DEF Apply

(* A rank that comes to call k holds a solver exactly if the program made  *)
(* one.                                                                    *)
LEMMA SolverOfProgram ==
  ASSUME UniformInv, NEW r \in Ranks, NEW k \in Ops, cur[r] = k
  PROVE  HasSolver(r, k) <=> Supplied(k)
  <1>1. \A q : GenerateVerdict(q) # OK
    BY DEF GenerateVerdict
  <1>2. ASSUME NEW j \in Ops, j < k, IsGenerate(j)
        PROVE  outcome[j][r] = OK <=>
                 GenerateVerdict(prog[j]) = "enter" /\ "bad" \notin prog[j].options
    <2>1. GenerateInv(j, r) /\ Ended(j, r)
      BY <1>2 DEF UniformInv, SafeInv, CallsAgree, CallOrder
    <2> QED BY <1>1, <2>1 DEF GenerateInv
  <1> QED BY <1>2 DEF HasSolver, Supplied

-----------------------------------------------------------------------------
LEMMA InitAgree == Init => CallsAgree
  BY DEF Init, CallsInit, CallsAgree, GenerateInv, ApplyInv, Ended

(* What a step does to the calls other than its own: nothing.              *)
LEMMA OthersAgree ==
  ASSUME CallsAgree, UNCHANGED prog, NEW j \in Ops, NEW p \in Ranks,
         reached'[j][p] = reached[j][p], outcome'[j][p] = outcome[j][p],
         \A q \in Ranks : reached[j][q] >= Flags => reached'[j][q] >= Flags,
         ~IsGenerate(j) /\ (\A q \in Ranks : reached[j][q] >= Flags) =>
            \A q \in Ranks : flags'[j][q] = flags[j][q]
  PROVE  /\ IsGenerate(j)' => GenerateInv(j, p)'
         /\ ~IsGenerate(j)' => ApplyInv(j, p)'
  <1>1. (IsGenerate(j)' <=> IsGenerate(j)) /\ (Supplied(j)' <=> Supplied(j))
    BY DEF IsGenerate, Supplied
  <1>2. CASE IsGenerate(j)
    BY <1>1, <1>2 DEF CallsAgree, GenerateInv, Ended
  <1>3. CASE ~IsGenerate(j)
    <2>1. ApplyInv(j, p)
      BY <1>3 DEF CallsAgree
    <2>2. ASSUME \A q \in Ranks : reached[j][q] >= Flags
          PROVE  /\ \A q \in Ranks : flags'[j][q] = flags[j][q]
                 /\ ReducedFlags(p, j)' = ReducedFlags(p, j)
                 /\ \A q \in Ranks : reached'[j][q] >= Flags
      BY <1>3, <2>2 DEF ReducedFlags
    <2> QED BY <1>1, <1>3, <2>1, <2>2 DEF ApplyInv, Ended
  <1> QED BY <1>1, <1>2, <1>3

LEMMA GenerateAgree ==
  ASSUME NoRankFailsAlone, UniformInv, NEW r \in Ranks, NEW k \in Ops, Generate(r, k)
  PROVE  CallsAgree'
  <1> SUFFICES ASSUME NEW j \in Ops, NEW p \in Ranks
               PROVE  /\ IsGenerate(j)' => GenerateInv(j, p)'
                      /\ ~IsGenerate(j)' => ApplyInv(j, p)'
    BY DEF CallsAgree
  <1>1. /\ TypeOK /\ CallsAgree /\ IsGenerate(k) /\ UNCHANGED <<prog, flags>>
        /\ reached[k][r] \in 0 .. SetupBarrier
        /\ \A i \in Ops : \A q \in Ranks : reached[i][q] \in 0 .. SetupBarrier
        /\ outcome[k][r] = Pending
    BY GenerateStep DEF UniformInv, SafeInv, TypeOK, CallOrder, Ended
  <1>2. IsGenerate(k)' /\ GenerateInv(k, r)
    BY <1>1 DEF IsGenerate, CallsAgree
  <1>3. CASE /\ Enter(r, k, reached[k][r] + 1) /\ reached[k][r] \in 0 .. Setup
             /\ reached[k][r] = 0 => GenerateVerdict(prog[k]) = "enter"
             /\ reached[k][r] = Assembly => "bad" \notin prog[k].options
    <2>1. /\ outcome' = outcome
          /\ \A i \in Ops : \A q \in Ranks : reached'[i][q] =
               IF i = k /\ q = r THEN reached[k][r] + 1 ELSE reached[i][q]
      BY <1>1, <1>3, EnterEffect
    <2>2. CASE j = k /\ p = r
      BY <1>1, <1>2, <1>3, <2>1, <2>2 DEF GenerateInv, Ended
    <2>3. CASE ~(j = k /\ p = r)
      BY <1>1, <2>1, <2>3, OthersAgree
    <2> QED BY <2>2, <2>3
  <1>4. ASSUME NEW o \in Outcomes, End(r, k, o),
               \/ reached[k][r] = 0 /\ o = GenerateVerdict(prog[k]) /\ o # "enter"
               \/ reached[k][r] = Assembly /\ o = "bad_option" /\ "bad" \in prog[k].options
               \/ reached[k][r] = SetupBarrier /\ o = OK
        PROVE  /\ IsGenerate(j)' => GenerateInv(j, p)'
               /\ ~IsGenerate(j)' => ApplyInv(j, p)'
    <2>1. /\ reached' = reached
          /\ \A i \in Ops : \A q \in Ranks :
               outcome'[i][q] = IF i = k /\ q = r THEN o ELSE outcome[i][q]
      BY <1>1, <1>4, EndEffect
    <2>2. CASE j = k /\ p = r
      BY <1>1, <1>2, <1>4, <2>1, <2>2 DEF GenerateInv, Ended
    <2>3. CASE ~(j = k /\ p = r)
      BY <1>1, <2>1, <2>3, OthersAgree
    <2> QED BY <2>2, <2>3
  <1>5. /\ {OK, "bad_option"} \subseteq Outcomes
        /\ GenerateVerdict(prog[k]) # "enter" => GenerateVerdict(prog[k]) \in Outcomes
    BY DEF Outcomes, GenerateVerdict
  <1> QED BY <1>3, <1>4, <1>5, GenerateDecided

LEMMA ApplyAgree ==
  ASSUME NoRankFailsAlone, UniformInv, NEW r \in Ranks, NEW k \in Ops, Apply(r, k)
  PROVE  CallsAgree'
  <1> SUFFICES ASSUME NEW j \in Ops, NEW p \in Ranks
               PROVE  /\ IsGenerate(j)' => GenerateInv(j, p)'
                      /\ ~IsGenerate(j)' => ApplyInv(j, p)'
    BY DEF CallsAgree
  <1>1. /\ TypeOK /\ CallsAgree /\ cur[r] = k /\ ~IsGenerate(k) /\ UNCHANGED prog
        /\ \A i \in Ops : \A q \in Ranks : reached[i][q] \in 0 .. SetupBarrier
        /\ outcome[k][r] = Pending
    BY ApplyStep DEF UniformInv, SafeInv, TypeOK, CallOrder, Ended
  <1>2. /\ ~IsGenerate(k)' /\ ApplyInv(k, r)
        /\ HasSolver(r, k) <=> Supplied(k)
        /\ Supplied(k)' <=> Supplied(k)
    BY <1>1, SolverOfProgram DEF IsGenerate, CallsAgree, Supplied
  <1>3. \A i \in Ops : \A q \in Ranks :
          \/ flags'[i][q] = flags[i][q]
          \/ i = k /\ q = r /\ reached[k][r] = 0
    BY <1>1, ApplyStep DEF TypeOK
  <1>4. ASSUME NEW i \in {Flags, Solve}, Enter(r, k, i),
               i = Flags => reached[k][r] = 0 /\ prog[k].columns = 1 /\ HasSolver(r, k),
               i = Solve => reached[k][r] = Flags
        PROVE  /\ IsGenerate(j)' => GenerateInv(j, p)'
               /\ ~IsGenerate(j)' => ApplyInv(j, p)'
    <2>1. /\ outcome' = outcome
          /\ \A l \in Ops : \A q \in Ranks : reached'[l][q] =
               IF l = k /\ q = r THEN i ELSE reached[l][q]
      BY <1>1, <1>4, EnterEffect
    <2>2. CASE j = k /\ p = r
      BY <1>1, <1>2, <1>4, <2>1, <2>2 DEF ApplyInv, Ended
    <2>3. CASE ~(j = k /\ p = r)
      <3>1. \A q \in Ranks : reached[j][q] >= Flags => reached'[j][q] >= Flags
        BY <1>1, <1>4, <2>1
      <3>2. (\A q \in Ranks : reached[j][q] >= Flags) =>
              \A q \in Ranks : flags'[j][q] = flags[j][q]
        BY <1>1, <1>3
      <3>3. reached'[j][p] = reached[j][p] /\ outcome'[j][p] = outcome[j][p]
        BY <2>1, <2>3
      <3> QED BY <1>1, <3>1, <3>2, <3>3, OthersAgree
    <2> QED BY <2>2, <2>3
  <1>5. ASSUME NEW o \in Outcomes, End(r, k, o), UNCHANGED flags,
               \/ reached[k][r] = 0 /\ o = "no_solver" /\ ~HasSolver(r, k)
               \/ /\ reached[k][r] = 0 /\ o = "dimension_mismatch"
                  /\ HasSolver(r, k) /\ prog[k].columns # 1
               \/ /\ reached[k][r] = Flags /\ \A q \in Ranks : reached[k][q] >= Flags
                  /\ \E q \in Ranks : flags[k][q] # {}
                  /\ o = Rejection(ReducedFlags(r, k))
               \/ reached[k][r] = Solve /\ o = OK
        PROVE  /\ IsGenerate(j)' => GenerateInv(j, p)'
               /\ ~IsGenerate(j)' => ApplyInv(j, p)'
    <2>1. /\ reached' = reached
          /\ \A i \in Ops : \A q \in Ranks :
               outcome'[i][q] = IF i = k /\ q = r THEN o ELSE outcome[i][q]
      BY <1>1, <1>5, EndEffect
    <2>2. CASE j = k /\ p = r
      <3>1. ReducedFlags(r, k)' = ReducedFlags(r, k)
        BY <1>5 DEF ReducedFlags
      <3> QED BY <1>1, <1>2, <1>5, <2>1, <2>2, <3>1 DEF ApplyInv, Ended
    <2>3. CASE ~(j = k /\ p = r)
      BY <1>1, <1>5, <2>1, <2>3, OthersAgree
    <2> QED BY <2>2, <2>3
  <1>6. /\ {OK, "no_solver", "dimension_mismatch"} \subseteq Outcomes
        /\ \A f : Rejection(f) \in Outcomes
    BY DEF Outcomes, Rejection
  <1> QED BY <1>4, <1>5, <1>6, ApplyDecided

LEMMA NextAgree ==
  ASSUME NoRankFailsAlone, UniformInv, [Next]_vars
  PROVE  CallsAgree'
  <1>1. ASSUME NEW r \in Ranks, NEW k \in Ops, Generate(r, k) PROVE CallsAgree'
    BY <1>1, GenerateAgree
  <1>2. ASSUME NEW r \in Ranks, NEW k \in Ops, Apply(r, k) PROVE CallsAgree'
    BY <1>2, ApplyAgree
  <1>3. CASE UNCHANGED <<callVars, prog, flags>>
    BY <1>3 DEF UniformInv, CallsAgree, GenerateInv, ApplyInv, Supplied, Ended,
                IsGenerate, ReducedFlags, callVars
  <1> QED BY <1>1, <1>2, <1>3 DEF Next, Step, Terminated, SerialGenerate, vars

(* Without rank-local failures the invariant holds throughout, for any     *)
(* serial solvers in between.                                              *)
THEOREM UniformInvariant == NoRankFailsAlone => (Spec => []UniformInv)
  <1> SUFFICES ASSUME NoRankFailsAlone PROVE Spec => []UniformInv
    OBVIOUS
  <1>1. SafeInv /\ CallsAgree /\ [Next]_vars => CallsAgree'
    BY NextAgree DEF UniformInv
  <1>2. SafeInv /\ CallsAgree => UniformInv
    BY DEF UniformInv
  <1> QED BY <1>1, <1>2, Invariance, InitAgree, PTL DEF Spec

-----------------------------------------------------------------------------
(* Two ranks that are back from a call were turned down, or served, alike. *)
LEMMA GeneratesAgree ==
  ASSUME UniformInv, NEW k \in Ops, IsGenerate(k), NEW r \in Ranks, NEW q \in Ranks,
         Ended(k, q)
  PROVE  /\ Ended(k, r) => outcome[k][r] = outcome[k][q]
         /\ reached[k][r] <= reached[k][q]
  <1>1. /\ GenerateInv(k, r) /\ GenerateInv(k, q)
        /\ reached[k][r] \in 0 .. SetupBarrier /\ reached[k][q] \in 0 .. SetupBarrier
    BY DEF UniformInv, CallsAgree, SafeInv, TypeOK
  <1> QED BY <1>1 DEF GenerateInv

LEMMA AppliesAgree ==
  ASSUME UniformInv, NEW k \in Ops, ~IsGenerate(k), NEW r \in Ranks, NEW q \in Ranks,
         Ended(k, q)
  PROVE  /\ Ended(k, r) => outcome[k][r] = outcome[k][q]
         /\ reached[k][r] <= reached[k][q]
  <1>1. /\ ApplyInv(k, r) /\ ApplyInv(k, q)
        /\ reached[k][r] \in 0 .. SetupBarrier /\ reached[k][q] \in 0 .. SetupBarrier
    BY DEF UniformInv, CallsAgree, SafeInv, TypeOK
  <1>2. \A p \in Ranks : reached[k][p] >= Solve => \A t \in Ranks : flags[k][t] = {}
    BY DEF UniformInv, SafeInv, SolveOnlyUsable
  <1>3. ReducedFlags(r, k) = ReducedFlags(q, k)
    BY DEF ReducedFlags
  <1> QED BY <1>1, <1>2, <1>3 DEF ApplyInv

LEMMA InvUniform == UniformInv => UniformOutcome /\ NoRankStranded
  BY GeneratesAgree, AppliesAgree DEF UniformOutcome, NoRankStranded

(* A call that succeeded on a rank was joined by all of them.              *)
JoinedByAll ==
  \A k \in Ops : \A r, q \in Ranks : outcome[k][r] = OK => reached[k][q] > 0

LEMMA SuccessJoined == UniformInv => JoinedByAll
  <1> SUFFICES ASSUME UniformInv, NEW k \in Ops, NEW r \in Ranks,
                      NEW q \in Ranks, outcome[k][r] = OK
               PROVE  reached[k][q] > 0
    BY DEF JoinedByAll
  <1>1. CASE IsGenerate(k)
    BY <1>1 DEF UniformInv, SafeInv, SolversComplete
  <1>2. CASE ~IsGenerate(k)
    <2>1. ApplyInv(k, r)
      BY <1>2 DEF UniformInv, CallsAgree
    <2>2. \A f : Rejection(f) # OK
      BY DEF Rejection
    <2>3. reached[k][r] = Solve
      BY <2>1, <2>2 DEF ApplyInv, Ended
    <2>4. reached[k][q] >= Flags /\ reached[k][q] \in 0 .. SetupBarrier
      BY <1>2, <2>3 DEF UniformInv, SafeInv, SolveOnlyUsable, TypeOK
    <2> QED BY <2>4
  <1> QED BY <1>1, <1>2

LEMMA InitRefines == Init => Uniform!Init
  BY DEF Init, CallsInit, Uniform!Init

(* A rank enters the collective after the one it is in.                    *)
LEMMA EnterRefines ==
  ASSUME UniformInv, UniformInv', NEW r \in Ranks, NEW k \in Ops, cur[r] = k,
         reached[k][r] < SetupBarrier, Enter(r, k, reached[k][r] + 1)
  PROVE  [Uniform!Next]_Uniform!vars
  <1> DEFINE joined == [j \in Ops |-> {q \in Ranks : reached[j][q] > 0}]
  <1>1. /\ TypeOK /\ CallOrder
        /\ \A j \in Ops : \A q \in Ranks : reached[j][q] \in 0 .. SetupBarrier
    BY DEF UniformInv, SafeInv, TypeOK
  <1>2. /\ outcome' = outcome
        /\ \A j \in Ops : \A q \in Ranks : reached'[j][q] =
             IF j = k /\ q = r THEN reached[k][r] + 1 ELSE reached[j][q]
    BY <1>1, EnterEffect
  <1>3. \A j \in Ops : joined'[j] = IF j = k THEN joined[k] \cup {r} ELSE joined[j]
    BY <1>1, <1>2
  <1>4. CASE reached[k][r] > 0
    <2>1. UNCHANGED joined
      BY <1>3, <1>4
    <2> QED BY <1>2, <2>1 DEF Uniform!vars
  <1>5. CASE reached[k][r] = 0
    <2>1. joined' = [joined EXCEPT ![k] = @ \cup {r}]
      BY <1>3
    <2>2. Uniform!Calling(r, k)
      BY <1>1, SizesAssumption
      DEF Uniform!Calling, Uniform!Returned, CallOrder, Ended, Ops
    <2>3. \A q \in Ranks : outcome[k][q] # "pending" => reached[k][q] > 0
      <3> SUFFICES ASSUME NEW q \in Ranks, outcome[k][q] # "pending"
                   PROVE  reached[k][q] > 0
        OBVIOUS
      <3>1. q # r
        BY <1>1, SizesAssumption DEF CallOrder, Ended, Ops
      <3>2. NoRankStranded'
        BY InvUniform, PTL
      <3> QED BY <1>1, <1>2, <1>5, <3>1, <3>2 DEF NoRankStranded, Ended
    <2>4. Uniform!Join(r, k)
      BY <1>2, <1>5, <2>1, <2>2, <2>3 DEF Uniform!Join, Uniform!Returned
    <2> QED BY <2>4 DEF Uniform!Next
  <1> QED BY <1>1, <1>4, <1>5

(* A call ends on a rank.                                                  *)
LEMMA EndRefines ==
  ASSUME UniformInv, UniformInv', NEW r \in Ranks, NEW k \in Ops, cur[r] = k,
         NEW o \in Outcomes, End(r, k, o)
  PROVE  [Uniform!Next]_Uniform!vars
  <1>1. TypeOK /\ CallOrder /\ \A q \in Ranks : reached[k][q] \in 0 .. SetupBarrier
    BY DEF UniformInv, SafeInv, TypeOK
  <1>2. /\ reached' = reached
        /\ \A q \in Ranks : outcome'[k][q] = IF q = r THEN o ELSE outcome[k][q]
    BY <1>1, EndEffect
  <1>3. o # Pending /\ ~Ended(k, r)
    BY <1>1, SizesAssumption DEF Outcomes, CallOrder, Ops
  <1>4. Uniform!Calling(r, k)
    BY <1>1, SizesAssumption
    DEF Uniform!Calling, Uniform!Returned, CallOrder, Ended, Ops
  <1>5. UniformOutcome' /\ NoRankStranded' /\ JoinedByAll'
    BY InvUniform, SuccessJoined, PTL
  <1>6. \A q \in Ranks : outcome[k][q] # "pending" => outcome[k][q] = o
    BY <1>2, <1>3, <1>5 DEF UniformOutcome, Ended
  <1>7. reached[k][r] = 0 => \A q \in Ranks : reached[k][q] = 0
    BY <1>1, <1>2, <1>3, <1>5 DEF NoRankStranded, Ended
  <1>8. o = "ok" => \A q \in Ranks : reached[k][q] > 0
    BY <1>2, <1>5 DEF JoinedByAll
  <1>9. outcome' = [outcome EXCEPT ![k][r] = o]
    BY DEF End
  <1>10. Uniform!Return(r, k, o)
    BY <1>1, <1>2, <1>4, <1>6, <1>7, <1>8, <1>9 DEF Uniform!Return, Uniform!Returned
  <1> QED BY <1>10 DEF Uniform!Next

LEMMA NextRefines ==
  UniformInv /\ UniformInv' /\ [Next]_vars => [Uniform!Next]_Uniform!vars
  <1> SUFFICES ASSUME UniformInv, UniformInv', [Next]_vars
               PROVE  [Uniform!Next]_Uniform!vars
    OBVIOUS
  <1>1. TypeOK
    BY DEF UniformInv, SafeInv
  <1>2. ASSUME NEW r \in Ranks, NEW k \in Ops, Generate(r, k)
        PROVE  [Uniform!Next]_Uniform!vars
    BY <1>1, <1>2, GenerateStep, EnterRefines, EndRefines
  <1>3. ASSUME NEW r \in Ranks, NEW k \in Ops, Apply(r, k)
        PROVE  [Uniform!Next]_Uniform!vars
    <2>1. reached[k][r] \in 0 .. SetupBarrier
      BY <1>1 DEF TypeOK
    <2> QED BY <1>1, <1>3, <2>1, ApplyStep, EnterRefines, EndRefines
  <1>4. CASE UNCHANGED callVars
    BY <1>4 DEF callVars, Uniform!vars
  <1> QED BY <1>2, <1>3, <1>4 DEF Next, Step, Terminated, SerialGenerate, vars

(* When nothing fails on one rank alone, every call of Ksp ends alike on   *)
(* all ranks.                                                              *)
THEOREM RanksAgree == NoRankFailsAlone => (Spec => []UniformOutcome)
  <1> SUFFICES ASSUME NoRankFailsAlone PROVE Spec => []UniformOutcome
    OBVIOUS
  <1> QED BY UniformInvariant, InvUniform, PTL

(* Nor does a rank wait in a collective another one will never enter.      *)
THEOREM NobodyStranded == NoRankFailsAlone => (Spec => []NoRankStranded)
  <1> SUFFICES ASSUME NoRankFailsAlone PROVE Spec => []NoRankStranded
    OBVIOUS
  <1> QED BY UniformInvariant, InvUniform, PTL

(* solver::Ksp's collective calls implement the contract UniformCalls on   *)
(* any number of ranks, with any serial solvers in between.                *)
THEOREM Refines == NoRankFailsAlone => (Spec => ImplementsUniform)
  <1> SUFFICES ASSUME NoRankFailsAlone PROVE Spec => ImplementsUniform
    OBVIOUS
  <1>1. Spec => []UniformInv
    BY UniformInvariant
  <1> QED BY <1>1, InitRefines, NextRefines, PTL
          DEF Spec, ImplementsUniform, Uniform!Spec

-----------------------------------------------------------------------------
(* No deadlock.  Rank r can go on: the collective it is in, if it is in    *)
(* one, has been entered by all the ranks it waits for.                    *)
CanGoOn(r) ==
  \E k \in Ops : \E i \in 0 .. SetupBarrier :
     /\ At(r, k, i)
     /\ IsGenerate(k) => i = 0 \/ Released(k, i, GeneratePeers(r, i))
     /\ ~IsGenerate(k) => i <= Solve /\ (i = 0 \/ Released(k, i, Ranks))

NobodyWaitsInVain == Finished \/ \E r \in Ranks : CanGoOn(r)

(* A step takes a rank to its next collective or out of its call, or       *)
(* leaves it where it is, and then as able to go on as it was.             *)
Advances(r) ==
  \/ cur'[r] > cur[r]
  \/ cur'[r] = cur[r] /\ \E k \in Ops : cur[r] = k /\ reached'[k][r] > reached[k][r]

Rests(r) ==
  /\ cur'[r] = cur[r] /\ \A k \in Ops : reached'[k][r] = reached[k][r]
  /\ CanGoOn(r) => CanGoOn(r)'

NobodyHoldsUp == \A r \in Ranks : Advances(r) \/ Rests(r)

LEMMA LeastNumber ==
  ASSUME NEW S \in SUBSET Nat, S # {}
  PROVE  \E m \in S : \A n \in S : m <= n
  <1>1. PICK m \in S : \A n \in S : <<n, m>> \notin OpToRel(<, Nat)
    BY NatLessThanWellFounded, WFMin, Zenon
  <1>2. \A n \in S : ~(n < m)
    BY <1>1 DEF OpToRel
  <1> QED BY <1>2

LEMMA PeersAreRanks ==
  ASSUME NEW r \in Ranks, NEW i PROVE \A q \in GeneratePeers(r, i) : q \in Ranks
  <1>1. ASSUME NEW q \in 0 .. r PROVE q \in Ranks
    BY SizesAssumption DEF Ranks
  <1> QED BY <1>1 DEF GeneratePeers

(* Of the ranks in the earliest call, one that is in its earliest          *)
(* collective has nobody behind it.                                        *)
LEMMA HindmostGoesOn ==
  ASSUME TypeOK, CallOrder, NoRankStranded, ~Finished,
         \A k \in Ops : \A r \in Ranks : ~IsGenerate(k) => reached[k][r] <= Solve
  PROVE  \E r \in Ranks : CanGoOn(r)
  <1>1. /\ \A q \in Ranks : cur[q] \in 1 .. MaxOps + 1
        /\ \A j \in Ops : \A q \in Ranks : reached[j][q] \in 0 .. SetupBarrier
        /\ MaxOps \in Nat
    BY SizesAssumption DEF TypeOK
  <1>2. PICK s \in Ranks : cur[s] \in Ops
    BY <1>1 DEF Finished, Ops
  <1> DEFINE Calls == {cur[q] : q \in Ranks}
  <1>3. Calls \in SUBSET Nat /\ Calls # {}
    BY <1>1, <1>2
  <1>4. PICK k \in Calls : \A j \in Calls : k <= j
    <2> HIDE DEF Calls
    <2> QED BY <1>3, LeastNumber
  <1>5. /\ k \in Ops /\ \A q \in Ranks : k <= cur[q]
    BY <1>1, <1>2, <1>4 DEF Ops
  <1> DEFINE There  == {q \in Ranks : cur[q] = k}
             Places == {reached[k][q] : q \in There}
  <1>6. Places \in SUBSET Nat /\ Places # {}
    BY <1>1, <1>4, <1>5
  <1>7. PICK i \in Places : \A j \in Places : i <= j
    <2> HIDE DEF Places
    <2> QED BY <1>6, LeastNumber
  <1>8. PICK r \in Ranks : cur[r] = k /\ reached[k][r] = i
    BY <1>7
  <1>9. ASSUME NEW q \in Ranks PROVE reached[k][q] >= i
    <2>1. CASE cur[q] = k
      BY <1>1, <1>5, <1>7, <1>8, <2>1
    <2>2. CASE cur[q] # k
      <3>1. Ended(k, q)
        BY <1>1, <1>5, <2>2 DEF CallOrder, Ops
      <3> QED BY <1>1, <1>5, <1>8, <3>1 DEF NoRankStranded
    <2> QED BY <2>1, <2>2
  <1>10. \A q \in GeneratePeers(r, i) : q \in Ranks
    BY PeersAreRanks
  <1> QED BY <1>1, <1>5, <1>8, <1>9, <1>10 DEF CanGoOn, At, Released

(* What lets a rank go on stays: no rank leaves a collective again.        *)
LEMMA StillGoesOn ==
  ASSUME TypeOK, NEW r \in Ranks, prog' = prog, cur'[r] = cur[r],
         \A k \in Ops : reached'[k][r] = reached[k][r],
         \A k \in Ops : \A q \in Ranks : reached'[k][q] >= reached[k][q],
         \A k \in Ops : \A q \in Ranks : reached'[k][q] \in 0 .. SetupBarrier
  PROVE  Rests(r)
  <1> SUFFICES ASSUME CanGoOn(r) PROVE CanGoOn(r)'
    BY DEF Rests
  <1>1. PICK k \in Ops, i \in 0 .. SetupBarrier :
          /\ At(r, k, i)
          /\ IsGenerate(k) => i = 0 \/ Released(k, i, GeneratePeers(r, i))
          /\ ~IsGenerate(k) => i <= Solve /\ (i = 0 \/ Released(k, i, Ranks))
    BY DEF CanGoOn
  <1>2. At(r, k, i)' /\ IsGenerate(k)' = IsGenerate(k)
    BY <1>1 DEF At, IsGenerate
  <1>3. \A q \in Ranks : reached[k][q] \in 0 .. SetupBarrier
    BY DEF TypeOK
  <1>4. \A q \in GeneratePeers(r, i) : q \in Ranks
    BY PeersAreRanks
  <1>5. Released(k, i, Ranks) => Released(k, i, Ranks)'
    BY <1>3 DEF Released
  <1>6. Released(k, i, GeneratePeers(r, i)) => Released(k, i, GeneratePeers(r, i))'
    <2>1. GeneratePeers(r, i)' = GeneratePeers(r, i)
      BY DEF GeneratePeers
    <2> QED BY <1>3, <1>4, <2>1 DEF Released
  <1> HIDE DEF IsGenerate
  <1> QED BY <1>1, <1>2, <1>5, <1>6 DEF CanGoOn

LEMMA StepsGoOn == ASSUME TypeOK, [Next]_vars PROVE NobodyHoldsUp
  <1>0. /\ \A q \in Ranks : cur[q] \in 1 .. MaxOps + 1
        /\ \A j \in Ops : \A q \in Ranks : reached[j][q] \in 0 .. SetupBarrier
    BY DEF TypeOK
  <1>1. ASSUME NEW s \in Ranks, NEW k \in Ops, cur[s] = k, prog' = prog,
               \/ reached[k][s] < SetupBarrier /\ Enter(s, k, reached[k][s] + 1)
               \/ \E o \in Outcomes : End(s, k, o)
        PROVE  NobodyHoldsUp
    <2>1. CASE reached[k][s] < SetupBarrier /\ Enter(s, k, reached[k][s] + 1)
      <3>1. reached[k][s] + 1 \in 0 .. SetupBarrier
        BY <1>0, <2>1
      <3>2. /\ \A j \in Ops : \A q \in Ranks :
                 reached'[j][q] = IF j = k /\ q = s THEN reached[k][s] + 1 ELSE reached[j][q]
            /\ cur' = cur
        BY <2>1, <3>1, EnterEffect
      <3>3. \A j \in Ops : \A q \in Ranks :
              reached'[j][q] >= reached[j][q] /\ reached'[j][q] \in 0 .. SetupBarrier
        BY <1>0, <3>1, <3>2
      <3>4. ASSUME NEW r \in Ranks, r # s PROVE Rests(r)
        BY <1>1, <3>2, <3>3, <3>4, StillGoesOn
      <3>5. Advances(s)
        BY <1>0, <1>1, <3>2 DEF Advances
      <3> QED BY <3>4, <3>5 DEF NobodyHoldsUp
    <2>2. CASE \E o \in Outcomes : End(s, k, o)
      <3>1. /\ \A q \in Ranks : cur'[q] = IF q = s THEN k + 1 ELSE cur[q]
            /\ reached' = reached
        BY <2>2, EndEffect
      <3>2. \A j \in Ops : \A q \in Ranks : reached'[j][q] >= reached[j][q]
        BY <1>0, <3>1
      <3>3. ASSUME NEW r \in Ranks, r # s PROVE Rests(r)
        BY <1>0, <1>1, <3>1, <3>2, <3>3, StillGoesOn
      <3>4. Advances(s)
        BY <1>0, <1>1, <3>1 DEF Advances
      <3> QED BY <3>3, <3>4 DEF NobodyHoldsUp
    <2> QED BY <1>1, <2>1, <2>2
  <1>2. ASSUME NEW s \in Ranks, NEW k \in Ops, Generate(s, k) PROVE NobodyHoldsUp
    BY <1>1, <1>2, GenerateStep
  <1>3. ASSUME NEW s \in Ranks, NEW k \in Ops, Apply(s, k) PROVE NobodyHoldsUp
    <2>1. /\ cur[s] = k /\ prog' = prog /\ reached[k][s] <= Solve
          /\ \/ reached[k][s] < Solve /\ Enter(s, k, reached[k][s] + 1)
             \/ \E o \in Outcomes : End(s, k, o)
      BY <1>0, <1>3, ApplyStep
    <2> QED BY <1>0, <1>1, <2>1
  <1>4. CASE UNCHANGED <<callVars, prog>>
    <2>1. /\ cur' = cur /\ reached' = reached /\ prog' = prog
          /\ \A j \in Ops : \A q \in Ranks : reached[j][q] >= reached[j][q]
      BY <1>0, <1>4 DEF callVars
    <2>2. ASSUME NEW r \in Ranks PROVE Rests(r)
      BY <1>0, <2>1, <2>2, StillGoesOn
    <2> QED BY <2>2 DEF NobodyHoldsUp
  <1> QED BY <1>2, <1>3, <1>4 DEF Next, Step, Terminated, SerialGenerate, vars

(* As long as the program runs some rank can go on: the ranks never all    *)
(* wait for each other, nor for one that is back from the call.  A rank    *)
(* that can go on can until it does, and every step of one brings it       *)
(* nearer the end of the program.  This is what EveryCallReturns needs     *)
(* besides fairness.                                                       *)
THEOREM NoDeadlock == NoRankFailsAlone => (Spec => []NobodyWaitsInVain /\ [][NobodyHoldsUp]_vars)
  <1> SUFFICES ASSUME NoRankFailsAlone PROVE Spec => []NobodyWaitsInVain /\ [][NobodyHoldsUp]_vars
    OBVIOUS
  <1>1. UniformInv => NobodyWaitsInVain
    <2> SUFFICES ASSUME UniformInv, ~Finished PROVE \E r \in Ranks : CanGoOn(r)
      BY DEF NobodyWaitsInVain
    <2>1. TypeOK /\ CallOrder
      BY DEF UniformInv, SafeInv
    <2>2. NoRankStranded
      BY InvUniform
    <2>3. \A k \in Ops : \A r \in Ranks : ~IsGenerate(k) => reached[k][r] <= Solve
      BY DEF UniformInv, CallsAgree, ApplyInv
    <2> QED BY <2>1, <2>2, <2>3, HindmostGoesOn
  <1>2. UniformInv /\ [Next]_vars => NobodyHoldsUp
    BY StepsGoOn DEF UniformInv, SafeInv
  <1> QED BY <1>1, <1>2, UniformInvariant, PTL DEF Spec
==============================================================================
