---------------------------- MODULE PcgSpmdProofs ----------------------------
(***************************************************************************)
(* Proofs about PcgSpmd for every number of ranks, every program, every    *)
(* halo pattern and every build.                                           *)
(*                                                                         *)
(* The first part holds of every behaviour, whatever fails on whichever    *)
(* rank.  The second, from RequestTypes on, shows that the ranks agree on  *)
(* every call and that none is left waiting, as long as the hypotheses of  *)
(* Agreement hold, and that PcgSpmd then implements UniformCalls.          *)
(***************************************************************************)
EXTENDS PcgInvariants, WellFoundedInduction, TLAPS

USE DEF Pending, OK, Scan, CommPkg, VectorB, VectorX, ImportBarrier, Setup,
        SetupBarrier, Levels, Rows, Flags, Solve

-----------------------------------------------------------------------------
(* What the two ways to leave a stretch of code change.                    *)
LEMMA EnterEffect ==
  ASSUME TypeOK, NEW r \in Ranks, NEW k \in Ops, NEW i \in 0 .. Rows,
         Enter(r, k, i)
  PROVE  /\ reached' \in [Ops -> [Ranks -> 0 .. Rows]]
         /\ \A j \in Ops : \A q \in Ranks :
              reached'[j][q] = IF j = k /\ q = r THEN i ELSE reached[j][q]
         /\ cur' = cur
         /\ outcome' = outcome
  BY DEF Enter, TypeOK

LEMMA EndEffect ==
  ASSUME TypeOK, NEW r \in Ranks, NEW k \in Ops,
         NEW o \in Outcomes \cup {Pending}, End(r, k, o)
  PROVE  /\ outcome' \in [Ops -> [Ranks -> Outcomes \cup {Pending}]]
         /\ \A j \in Ops : \A q \in Ranks :
              outcome'[j][q] = IF j = k /\ q = r THEN o ELSE outcome[j][q]
         /\ cur' \in [Ranks -> 1 .. MaxOps + 1]
         /\ \A q \in Ranks : cur'[q] = IF q = r THEN k + 1 ELSE cur[q]
         /\ reached' = reached
  BY SizesAssumption DEF End, TypeOK, Ops

-----------------------------------------------------------------------------
(* Type correctness: every reachable state of Pcg on all ranks has the     *)
(* types TypeOK states, whatever fails.                                    *)
LEMMA InitTypeOK == Init => TypeOK
  BY SizesAssumption
  DEF Init, CallsInit, TypeOK, Ranks, Ops, LegalFlags, Outcomes, Locations

(* A step that changes only the call variables keeps the types.            *)
LEMMA MoveTypeOK ==
  ASSUME TypeOK, NEW r \in Ranks, NEW k \in Ops,
         \/ \E i \in 0 .. Rows : Enter(r, k, i)
         \/ \E o \in Outcomes : End(r, k, o),
         UNCHANGED prog
  PROVE  /\ prog' \in [Ops -> Requests]
         /\ cur' \in [Ranks -> 1 .. MaxOps + 1]
         /\ reached' \in [Ops -> [Ranks -> 0 .. Rows]]
         /\ outcome' \in [Ops -> [Ranks -> Outcomes \cup {Pending}]]
  <1>1. CASE \E i \in 0 .. Rows : Enter(r, k, i)
    BY <1>1, EnterEffect DEF TypeOK
  <1>2. CASE \E o \in Outcomes : End(r, k, o)
    BY <1>2, EndEffect DEF TypeOK
  <1> QED BY <1>1, <1>2

(* A generate step moves the rank and only touches the policy at its entry *)
(* and the hierarchy error at its query.                                   *)
LEMMA GenerateMoves ==
  ASSUME NEW r \in Ranks, NEW k \in Ops, Generate(r, k)
  PROVE  /\ UNCHANGED <<prog, flags>>
         /\ \/ \E i \in 0 .. Rows : Enter(r, k, i)
            \/ \E o \in Outcomes : End(r, k, o)
  <1>1. CASE GenerateEntry(r, k)
    <2>1. GenerateVerdict(active[r], prog[k]) \in Outcomes \cup {"enter"}
      BY DEF GenerateVerdict, Outcomes
    <2> QED BY <1>1, <2>1 DEF GenerateEntry, Outcomes
  <1>2. CASE ImportBlocks(r, k)
    BY <1>2 DEF ImportBlocks, CollectiveFails, Outcomes
  <1>3. CASE Configure(r, k) BY <1>3 DEF Configure, Outcomes
  <1>4. CASE PlaceB(r, k) BY <1>4 DEF PlaceB, Outcomes
  <1>5. CASE PlaceX(r, k) BY <1>5 DEF PlaceX, Outcomes
  <1>6. CASE StartSetup(r, k)
    BY <1>6 DEF StartSetup, CollectiveFails, Outcomes
  <1>7. CASE FinishSetup(r, k) BY <1>7 DEF FinishSetup, Outcomes
  <1>8. CASE QueryHierarchy(r, k)
    BY <1>8 DEF QueryHierarchy, CollectiveFails, Outcomes
  <1>9. CASE ReduceLevels(r, k)
    BY <1>9 DEF ReduceLevels, CollectiveFails, Outcomes
  <1>10. CASE ReduceRows(r, k)
    BY <1>10 DEF ReduceRows, CollectiveFails, Outcomes
  <1> QED BY <1>1, <1>2, <1>3, <1>4, <1>5, <1>6, <1>7, <1>8, <1>9, <1>10
          DEF Generate

LEMMA ApplyMoves ==
  ASSUME NEW r \in Ranks, NEW k \in Ops, Apply(r, k)
  PROVE  /\ UNCHANGED <<prog, active, hierErr>>
         /\ \/ \E i \in 0 .. Rows : Enter(r, k, i)
            \/ \E o \in Outcomes : End(r, k, o)
  <1>1. CASE ApplyEntry(r, k) BY <1>1 DEF ApplyEntry, Outcomes
  <1>2. CASE RejectOrSolve(r, k)
    <2>1. Rejection(ReducedFlags(r, k)) \in Outcomes
      BY DEF Rejection, Outcomes
    <2> QED BY <1>2, <2>1 DEF RejectOrSolve, CollectiveFails, Outcomes
  <1>3. CASE FinishSolve(r, k) BY <1>3 DEF FinishSolve, Outcomes
  <1> QED BY <1>1, <1>2, <1>3 DEF Apply

LEMMA LocalFlagsLegal == \A o \in Operands : LocalFlags(o) \in LegalFlags
  <1> SUFFICES ASSUME NEW o \in Operands PROVE LocalFlags(o) \in LegalFlags
    OBVIOUS
  <1>1. CASE ~o.distributed
    BY <1>1 DEF LocalFlags, LegalFlags
  <1>2. CASE o.distributed
    <2> DEFINE F == {f \in {"stride", "size"} : \/ f = "stride" /\ ~o.unitStride
                                                \/ f = "size" /\ ~o.rowsMatch}
    <2>1. F \in {{}, {"stride"}, {"size"}, {"stride", "size"}}
      <3>1. CASE o.unitStride /\ o.rowsMatch
        <4>1. F = {} BY <3>1
        <4> QED BY <4>1
      <3>2. CASE o.unitStride /\ ~o.rowsMatch
        <4>1. F = {"size"} BY <3>2
        <4> QED BY <4>1
      <3>3. CASE ~o.unitStride /\ o.rowsMatch
        <4>1. F = {"stride"} BY <3>3
        <4> QED BY <4>1
      <3>4. CASE ~o.unitStride /\ ~o.rowsMatch
        <4>1. F = {"stride", "size"} BY <3>4
        <4> QED BY <4>1
      <3> QED BY <3>1, <3>2, <3>3, <3>4
    <2> QED BY <1>2, <2>1 DEF LocalFlags, LegalFlags
  <1> QED BY <1>1, <1>2

LEMMA PolicyAfterType ==
  \A a \in Locations \cup {"none"}, l \in Locations :
     PolicyAfter(a, l) \in Locations \cup {"none"}
  BY DEF PolicyAfter

LEMMA GenerateTypeOK ==
  ASSUME TypeOK, NEW r \in Ranks, NEW k \in Ops, Generate(r, k)
  PROVE  TypeOK'
  <1>1. UNCHANGED <<prog, flags>>
    BY GenerateMoves
  <1>2. /\ prog' \in [Ops -> Requests]
        /\ cur' \in [Ranks -> 1 .. MaxOps + 1]
        /\ reached' \in [Ops -> [Ranks -> 0 .. Rows]]
        /\ outcome' \in [Ops -> [Ranks -> Outcomes \cup {Pending}]]
    BY <1>1, GenerateMoves, MoveTypeOK
  <1>3. active' \in [Ranks -> Locations \cup {"none"}]
    <2>1. CASE GenerateEntry(r, k)
      <3>1. prog[k].location \in Locations
        BY <2>1, RequestsAssumption
        DEF GenerateEntry, IsGenerate, TypeOK, GenerateRequests, ApplyRequests
      <3>2. CASE active' = active
        BY <3>2 DEF TypeOK
      <3>3. CASE active' = [active EXCEPT ![r] =
                              IF prog[k].matrix = "rectangular" THEN @
                              ELSE PolicyAfter(@, prog[k].location)]
        BY <3>1, <3>3, PolicyAfterType DEF TypeOK
      <3> QED BY <2>1, <3>2, <3>3 DEF GenerateEntry
    <2>2. CASE ~GenerateEntry(r, k)
      BY <2>2 DEF Generate, ImportBlocks, Configure, PlaceB, PlaceX, StartSetup,
                  FinishSetup, QueryHierarchy, ReduceLevels, ReduceRows, TypeOK
    <2> QED BY <2>1, <2>2
  <1>4. hierErr' \in [Ops -> [Ranks -> {0, 1}]]
    <2>1. CASE QueryHierarchy(r, k)
      <3>1. CASE hierErr' = hierErr
        BY <3>1 DEF TypeOK
      <3>2. CASE \E code \in {0, 1} : hierErr' = [hierErr EXCEPT ![k][r] = code]
        BY <3>2 DEF TypeOK
      <3> QED BY <2>1, <3>1, <3>2 DEF QueryHierarchy
    <2>2. CASE ~QueryHierarchy(r, k)
      BY <2>2 DEF Generate, GenerateEntry, ImportBlocks, Configure, PlaceB,
                  PlaceX, StartSetup, FinishSetup, ReduceLevels, ReduceRows,
                  TypeOK
    <2> QED BY <2>1, <2>2
  <1> QED BY <1>1, <1>2, <1>3, <1>4 DEF TypeOK

LEMMA ApplyTypeOK ==
  ASSUME TypeOK, NEW r \in Ranks, NEW k \in Ops, Apply(r, k)
  PROVE  TypeOK'
  <1>1. UNCHANGED <<prog, active, hierErr>>
    BY ApplyMoves
  <1>2. /\ prog' \in [Ops -> Requests]
        /\ cur' \in [Ranks -> 1 .. MaxOps + 1]
        /\ reached' \in [Ops -> [Ranks -> 0 .. Rows]]
        /\ outcome' \in [Ops -> [Ranks -> Outcomes \cup {Pending}]]
    BY <1>1, ApplyMoves, MoveTypeOK
  <1>3. flags' \in [Ops -> [Ranks -> LegalFlags]]
    <2>1. CASE ApplyEntry(r, k)
      <3>1. CASE UNCHANGED flags
        BY <3>1 DEF TypeOK
      <3>2. CASE \E o \in Operands :
                   flags' = [flags EXCEPT ![k][r] = LocalFlags(o)]
        BY <3>2, LocalFlagsLegal DEF TypeOK
      <3> QED BY <2>1, <3>1, <3>2 DEF ApplyEntry
    <2>2. CASE ~ApplyEntry(r, k)
      BY <2>2 DEF Apply, RejectOrSolve, FinishSolve, TypeOK
    <2> QED BY <2>1, <2>2
  <1> QED BY <1>1, <1>2, <1>3 DEF TypeOK

LEMMA SerialTypeOK ==
  ASSUME TypeOK, NEW r \in Ranks, NEW l \in SerialLocs, SerialGenerate(r, l)
  PROVE  TypeOK'
  BY EnvironmentAssumption, PolicyAfterType
  DEF SerialGenerate, TypeOK, callVars

LEMMA NextTypeOK == TypeOK /\ [Next]_vars => TypeOK'
  <1> SUFFICES ASSUME TypeOK, [Next]_vars PROVE TypeOK'
    OBVIOUS
  <1>1. ASSUME NEW r \in Ranks, NEW k \in Ops, Generate(r, k) PROVE TypeOK'
    BY <1>1, GenerateTypeOK
  <1>2. ASSUME NEW r \in Ranks, NEW k \in Ops, Apply(r, k) PROVE TypeOK'
    BY <1>2, ApplyTypeOK
  <1>3. ASSUME NEW r \in Ranks, NEW l \in SerialLocs, SerialGenerate(r, l)
        PROVE  TypeOK'
    BY <1>3, SerialTypeOK
  <1>4. CASE UNCHANGED vars
    BY <1>4 DEF vars, callVars, TypeOK
  <1> QED BY <1>1, <1>2, <1>3, <1>4 DEF Next, Step, Terminated

(* TypeOK holds in every state of every execution.                         *)
THEOREM TypeCorrect == Spec => []TypeOK
  BY InitTypeOK, NextTypeOK, PTL DEF Spec

-----------------------------------------------------------------------------
(* How generate ends on rank r, told by the collective the rank left.      *)
EndsWell(r, k, o) ==
  /\ o = OK => \A q \in Ranks : reached[k][q] = Rows
  /\ reached[k][r] = Rows => o \in {OK, "mpi", "memory"}
  /\ o = "hierarchy" =>
       /\ reached[k][r] = Levels
       /\ \A q \in Ranks : reached[k][q] >= Levels
       /\ HierarchyFailed(r, k)

(* What a step of generate can do, told by the collective the rank left.   *)
LEMMA GenerateStep ==
  ASSUME TypeOK, NEW r \in Ranks, NEW k \in Ops, Generate(r, k)
  PROVE  /\ cur[r] = k /\ IsGenerate(k)
         /\ \/ /\ reached[k][r] < Rows
               /\ Enter(r, k, reached[k][r] + 1)
               /\ reached[k][r] = Levels => ~HierarchyFailed(r, k)
               /\ reached[k][r] >= ImportBarrier =>
                    \A q \in Ranks : reached[k][q] >= reached[k][r]
            \/ \E o \in Outcomes : End(r, k, o) /\ EndsWell(r, k, o)
         /\ \/ hierErr' = hierErr
            \/ /\ reached[k][r] = SetupBarrier
               /\ \A j \in Ops : \A q \in Ranks :
                    j # k \/ q # r => hierErr'[j][q] = hierErr[j][q]
  <1>1. ASSUME NEW i \in {Scan, ImportBarrier, SetupBarrier, Levels, Rows},
               CollectiveFails(r, k, i)
        PROVE  \E o \in Outcomes : End(r, k, o) /\ EndsWell(r, k, o)
    BY <1>1 DEF CollectiveFails, EndsWell, Outcomes
  <1>2. CASE GenerateEntry(r, k)
    <2>1. GenerateVerdict(active[r], prog[k]) \in (Outcomes \ {OK, "hierarchy"}) \cup {"enter"}
      BY DEF GenerateVerdict, Outcomes
    <2> QED BY <1>2, <2>1 DEF GenerateEntry, At, EndsWell, Outcomes
  <1>3. CASE ImportBlocks(r, k)
    BY <1>1, <1>3 DEF ImportBlocks, Resume, At, EndsWell, CollectiveFails, Outcomes
  <1>4. CASE Configure(r, k)
    BY <1>4 DEF Configure, Resume, At, EndsWell, Outcomes
  <1>5. CASE PlaceB(r, k)
    BY <1>5 DEF PlaceB, Resume, At, EndsWell, Outcomes
  <1>6. CASE PlaceX(r, k)
    BY <1>6 DEF PlaceX, Resume, At, EndsWell, Outcomes
  <1>7. CASE StartSetup(r, k)
    BY <1>1, <1>7 DEF StartSetup, Resume, At, Released, GeneratePeers,
                      CollectiveFails
  <1>8. CASE FinishSetup(r, k)
    BY <1>8 DEF FinishSetup, Resume, At, Released, GeneratePeers, EndsWell, Outcomes
  <1>9. CASE QueryHierarchy(r, k)
    <2>1. CASE \E code \in {0, 1} : hierErr' = [hierErr EXCEPT ![k][r] = code]
      <3>1. \A j \in Ops : \A q \in Ranks :
              j # k \/ q # r => hierErr'[j][q] = hierErr[j][q]
        BY <2>1 DEF TypeOK
      <3> QED BY <1>1, <1>9, <3>1
              DEF QueryHierarchy, Resume, At, Released, GeneratePeers,
                  CollectiveFails, EndsWell, Outcomes
    <2>2. CASE hierErr' = hierErr
      BY <1>1, <1>9, <2>2
      DEF QueryHierarchy, Resume, At, Released, GeneratePeers, CollectiveFails,
          EndsWell, Outcomes
    <2> QED BY <1>9, <2>1, <2>2 DEF QueryHierarchy
  <1>10. CASE ReduceLevels(r, k)
    BY <1>1, <1>10 DEF ReduceLevels, Resume, At, Released, GeneratePeers,
                       CollectiveFails, EndsWell, Outcomes
  <1>11. CASE ReduceRows(r, k)
    <2>1. \A q \in Ranks : reached[k][q] \in 0 .. Rows
      BY DEF TypeOK
    <2> QED BY <1>1, <1>11, <2>1
            DEF ReduceRows, Resume, At, Released, GeneratePeers,
                CollectiveFails, EndsWell, Outcomes
  <1> QED BY <1>2, <1>3, <1>4, <1>5, <1>6, <1>7, <1>8, <1>9, <1>10, <1>11
          DEF Generate

LEMMA ApplyStep ==
  ASSUME TypeOK, NEW r \in Ranks, NEW k \in Ops, Apply(r, k)
  PROVE  /\ cur[r] = k /\ ~IsGenerate(k)
         /\ reached[k][r] <= Solve
         /\ \/ Enter(r, k, reached[k][r] + 1) /\ reached[k][r] < Solve
            \/ \E o \in Outcomes : End(r, k, o)
  <1>1. CASE ApplyEntry(r, k)
    BY <1>1 DEF ApplyEntry, At, Outcomes
  <1>2. CASE RejectOrSolve(r, k)
    <2>1. Rejection(ReducedFlags(r, k)) \in Outcomes
      BY DEF Rejection, Outcomes
    <2> QED BY <1>2, <2>1 DEF RejectOrSolve, CollectiveFails, At, Outcomes
  <1>3. CASE FinishSolve(r, k)
    BY <1>3 DEF FinishSolve, At, Outcomes
  <1> QED BY <1>1, <1>2, <1>3 DEF Apply

-----------------------------------------------------------------------------
(* The calls stay in order: one conjunct for each way a step moves a rank. *)
LEMMA EnterOrder ==
  ASSUME TypeOK, CallOrder, NEW r \in Ranks, NEW k \in Ops, cur[r] = k,
         NEW i \in 0 .. Rows, Enter(r, k, i)
  PROVE  CallOrder'
  <1>1. /\ \A j \in Ops : \A q \in Ranks :
             reached'[j][q] = IF j = k /\ q = r THEN i ELSE reached[j][q]
        /\ cur' = cur
        /\ outcome' = outcome
    BY EnterEffect
  <1> SUFFICES ASSUME NEW j \in Ops, NEW q \in Ranks
               PROVE  /\ j < cur'[q] <=> outcome'[j][q] # Pending
                      /\ j > cur'[q] => reached'[j][q] = 0
    BY DEF CallOrder, Ended
  <1>2. /\ j < cur[q] <=> outcome[j][q] # Pending
        /\ j > cur[q] => reached[j][q] = 0
    BY DEF CallOrder, Ended
  <1>3. j > cur[q] => ~(j = k /\ q = r)
    BY SizesAssumption DEF Ops
  <1> QED BY <1>1, <1>2, <1>3

LEMMA EndOrder ==
  ASSUME TypeOK, CallOrder, NEW r \in Ranks, NEW k \in Ops, cur[r] = k,
         NEW o \in Outcomes, End(r, k, o)
  PROVE  CallOrder'
  <1>1. o # Pending
    BY DEF Outcomes
  <1>2. /\ \A j \in Ops : \A q \in Ranks :
             outcome'[j][q] = IF j = k /\ q = r THEN o ELSE outcome[j][q]
        /\ \A q \in Ranks : cur'[q] = IF q = r THEN k + 1 ELSE cur[q]
        /\ reached' = reached
    BY EndEffect
  <1> SUFFICES ASSUME NEW j \in Ops, NEW q \in Ranks
               PROVE  /\ j < cur'[q] <=> outcome'[j][q] # Pending
                      /\ j > cur'[q] => reached'[j][q] = 0
    BY DEF CallOrder, Ended
  <1>3. /\ j < cur[q] <=> outcome[j][q] # Pending
        /\ j > cur[q] => reached[j][q] = 0
    BY DEF CallOrder, Ended
  <1> QED BY <1>1, <1>2, <1>3, SizesAssumption DEF Ops

LEMMA InitOrder == Init => CallOrder
  BY SizesAssumption DEF Init, CallsInit, CallOrder, Ended, Ops

LEMMA NextOrder == TypeOK /\ CallOrder /\ [Next]_vars => CallOrder'
  <1> SUFFICES ASSUME TypeOK, CallOrder, [Next]_vars PROVE CallOrder'
    OBVIOUS
  <1>1. ASSUME NEW r \in Ranks, NEW k \in Ops, Generate(r, k) PROVE CallOrder'
    <2>1. reached[k][r] \in 0 .. Rows
      BY DEF TypeOK
    <2> QED BY <1>1, <2>1, GenerateStep, EnterOrder, EndOrder
  <1>2. ASSUME NEW r \in Ranks, NEW k \in Ops, Apply(r, k) PROVE CallOrder'
    <2>1. reached[k][r] \in 0 .. Rows
      BY DEF TypeOK
    <2> QED BY <1>2, <2>1, ApplyStep, EnterOrder, EndOrder
  <1>3. CASE UNCHANGED callVars
    BY <1>3 DEF callVars, CallOrder, Ended
  <1> QED BY <1>1, <1>2, <1>3 DEF Next, Step, Terminated, SerialGenerate, vars

-----------------------------------------------------------------------------
(* All or nothing.                                                         *)
LEMMA InitComplete == Init => SolversComplete
  BY DEF Init, CallsInit, SolversComplete, SolverInv, Ended

LEMMA GenerateComplete ==
  ASSUME AllOrNothingInv, NEW r \in Ranks, NEW k \in Ops, Generate(r, k)
  PROVE  SolversComplete'
  <1> USE DEF AllOrNothingInv
  <1> SUFFICES ASSUME NEW j \in Ops, NEW p \in Ranks, IsGenerate(j)
               PROVE  SolverInv(j, p)'
    BY GenerateMoves DEF SolversComplete, IsGenerate
  <1>1. /\ SolverInv(j, p) /\ SolverInv(k, r)
        /\ \A q \in Ranks : /\ reached[j][q] \in 0 .. Rows
                            /\ hierErr[j][q] \in {0, 1}
        /\ \A q \in Ranks : reached[k][q] \in 0 .. Rows
        /\ ~Ended(k, r) /\ cur[r] = k /\ IsGenerate(k)
    BY GenerateStep DEF SolversComplete, TypeOK, CallOrder
  <1>2. CASE /\ reached[k][r] < Rows
             /\ Enter(r, k, reached[k][r] + 1)
             /\ reached[k][r] = Levels => ~HierarchyFailed(r, k)
             /\ reached[k][r] >= ImportBarrier =>
                  \A q \in Ranks : reached[k][q] >= reached[k][r]
    <2>1. /\ \A q \in Ranks : reached'[j][q] =
                IF j = k /\ q = r THEN reached[k][r] + 1 ELSE reached[j][q]
          /\ outcome' = outcome
      <3>1. reached[k][r] + 1 \in 0 .. Rows
        BY <1>1, <1>2
      <3> QED BY <1>2, <3>1, EnterEffect
    <2>2. \/ hierErr' = hierErr
          \/ /\ reached[k][r] = SetupBarrier
             /\ \A q \in Ranks :
                  j # k \/ q # r => hierErr'[j][q] = hierErr[j][q]
      BY GenerateStep
    <2>3. CASE j # k
      BY <1>1, <2>1, <2>2, <2>3 DEF SolverInv, Ended
    <2>4. CASE j = k /\ p # r
      BY <1>1, <1>2, <2>1, <2>2, <2>4 DEF SolverInv, Ended
    <2>5. CASE j = k /\ p = r
      BY <1>1, <1>2, <2>1, <2>2, <2>5 DEF SolverInv, Ended, HierarchyFailed
    <2> QED BY <2>3, <2>4, <2>5
  <1>3. CASE \E o \in Outcomes : End(r, k, o) /\ EndsWell(r, k, o)
    <2>1. PICK o \in Outcomes : End(r, k, o) /\ EndsWell(r, k, o)
      BY <1>3
    <2>2. /\ outcome'[j][p] = IF j = k /\ p = r THEN o ELSE outcome[j][p]
          /\ reached' = reached
      BY <2>1, EndEffect
    <2>3. o # Pending
      BY DEF Outcomes
    <2>4. \/ hierErr' = hierErr
          \/ /\ reached[k][r] = SetupBarrier
             /\ \A i \in Ops : \A q \in Ranks :
                  i # k \/ q # r => hierErr'[i][q] = hierErr[i][q]
      BY GenerateStep
    <2>5. CASE hierErr' = hierErr
      BY <1>1, <2>1, <2>2, <2>3, <2>5 DEF SolverInv, EndsWell, Ended, HierarchyFailed
    <2>6. CASE reached[k][r] = SetupBarrier
               /\ \A i \in Ops : \A q \in Ranks :
                    i # k \/ q # r => hierErr'[i][q] = hierErr[i][q]
      BY <1>1, <2>1, <2>2, <2>3, <2>6 DEF SolverInv, EndsWell, Ended
    <2> QED BY <2>4, <2>5, <2>6
  <1> QED BY <1>2, <1>3, GenerateStep

LEMMA ApplyComplete ==
  ASSUME AllOrNothingInv, NEW r \in Ranks, NEW k \in Ops, Apply(r, k)
  PROVE  SolversComplete'
  <1> USE DEF AllOrNothingInv
  <1> SUFFICES ASSUME NEW j \in Ops, NEW p \in Ranks, IsGenerate(j)
               PROVE  SolverInv(j, p)'
    BY ApplyMoves DEF SolversComplete, IsGenerate
  <1>1. SolverInv(j, p) /\ j # k /\ hierErr' = hierErr
    BY ApplyStep, ApplyMoves DEF SolversComplete
  <1>2. reached[k][r] \in 0 .. Rows
    BY DEF TypeOK
  <1>3. CASE Enter(r, k, reached[k][r] + 1) /\ reached[k][r] < Solve
    BY <1>1, <1>2, <1>3, EnterEffect DEF SolverInv, Ended
  <1>4. CASE \E o \in Outcomes : End(r, k, o)
    BY <1>1, <1>4, EndEffect DEF SolverInv, Ended
  <1> QED BY <1>3, <1>4, ApplyStep

LEMMA NextAllOrNothing == AllOrNothingInv /\ [Next]_vars => AllOrNothingInv'
  <1> SUFFICES ASSUME AllOrNothingInv, [Next]_vars PROVE AllOrNothingInv'
    OBVIOUS
  <1>1. TypeOK' /\ CallOrder'
    BY NextTypeOK, NextOrder DEF AllOrNothingInv
  <1>2. SolversComplete'
    <2>1. ASSUME NEW r \in Ranks, NEW k \in Ops, Generate(r, k)
          PROVE  SolversComplete'
      BY <2>1, GenerateComplete
    <2>2. ASSUME NEW r \in Ranks, NEW k \in Ops, Apply(r, k)
          PROVE  SolversComplete'
      BY <2>2, ApplyComplete
    <2>3. CASE UNCHANGED <<callVars, prog, hierErr>>
      BY <2>3 DEF callVars, AllOrNothingInv, SolversComplete, SolverInv, Ended,
                  IsGenerate
    <2> QED BY <2>1, <2>2, <2>3 DEF Next, Step, Terminated, SerialGenerate, vars
  <1> QED BY <1>1, <1>2 DEF AllOrNothingInv

(* The invariant says that nobody succeeds next to a rank that failed      *)
(* before the last reduction.                                              *)
LEMMA InvAllOrNothing == AllOrNothingInv => AllOrNothing
  <1> SUFFICES ASSUME AllOrNothingInv, NEW k \in Ops, NEW r \in Ranks,
                      NEW q \in Ranks, IsGenerate(k), outcome[k][r] = OK
               PROVE  /\ reached[k][q] = Rows
                      /\ outcome[k][q] \in {OK, Pending, "mpi", "memory"}
    BY DEF AllOrNothing
  <1>1. SolverInv(k, r) /\ SolverInv(k, q)
    BY DEF AllOrNothingInv, SolversComplete
  <1> QED BY <1>1 DEF SolverInv, Ended

(* generate is all or nothing up to its last reduction on every            *)
(* communicator, whichever steps fail on whichever ranks: no rank holds a  *)
(* solver unless all have come to that reduction, and the others then have *)
(* it too, are still there, or failed in it on their own.                  *)
THEOREM GenerateAllOrNothing == Spec => []AllOrNothing
  <1>1. Init => AllOrNothingInv
    BY InitTypeOK, InitOrder, InitComplete DEF AllOrNothingInv
  <1> QED BY <1>1, NextAllOrNothing, InvAllOrNothing, PTL DEF Spec

-----------------------------------------------------------------------------
(* The phases of generate stay apart, and a process keeps one memory       *)
(* location.                                                               *)
LEMMA InitPhases == Init => PhasesSeparated
  BY DEF Init, CallsInit, PhasesSeparated

(* From the end of the import on, a rank that goes on has all ranks where  *)
(* it was, or further.                                                     *)
LEMMA GeneratePhases ==
  ASSUME TypeOK, PhasesSeparated, NEW r \in Ranks, NEW k \in Ops, Generate(r, k)
  PROVE  PhasesSeparated'
  <1>1. /\ prog' = prog
        /\ \A j \in Ops : \A q \in Ranks : reached[j][q] \in 0 .. Rows
    BY GenerateMoves DEF TypeOK
  <1>2. CASE /\ reached[k][r] < Rows
             /\ Enter(r, k, reached[k][r] + 1)
             /\ reached[k][r] >= ImportBarrier =>
                  \A q \in Ranks : reached[k][q] >= reached[k][r]
    <2>1. \A j \in Ops : \A q \in Ranks : reached'[j][q] =
            IF j = k /\ q = r THEN reached[k][r] + 1 ELSE reached[j][q]
      BY <1>1, <1>2, EnterEffect
    <2> QED BY <1>1, <1>2, <2>1 DEF PhasesSeparated, IsGenerate
  <1>3. CASE \E o \in Outcomes : End(r, k, o)
    BY <1>1, <1>3, EndEffect DEF PhasesSeparated, IsGenerate
  <1> QED BY <1>2, <1>3, GenerateStep

LEMMA ApplyPhases ==
  ASSUME TypeOK, PhasesSeparated, NEW r \in Ranks, NEW k \in Ops, Apply(r, k)
  PROVE  PhasesSeparated'
  <1>1. /\ prog' = prog /\ ~IsGenerate(k)
        /\ reached[k][r] \in 0 .. Rows
    BY ApplyMoves, ApplyStep DEF TypeOK
  <1>2. CASE Enter(r, k, reached[k][r] + 1) /\ reached[k][r] < Solve
    BY <1>1, <1>2, EnterEffect DEF PhasesSeparated, IsGenerate
  <1>3. CASE \E o \in Outcomes : End(r, k, o)
    BY <1>1, <1>3, EndEffect DEF PhasesSeparated, IsGenerate
  <1> QED BY <1>2, <1>3, ApplyStep

LEMMA NextPhases == TypeOK /\ PhasesSeparated /\ [Next]_vars => PhasesSeparated'
  <1> SUFFICES ASSUME TypeOK, PhasesSeparated, [Next]_vars PROVE PhasesSeparated'
    OBVIOUS
  <1>1. CASE UNCHANGED <<callVars, prog>>
    BY <1>1 DEF callVars, PhasesSeparated, IsGenerate
  <1> QED BY <1>1, GeneratePhases, ApplyPhases
          DEF Next, Step, Terminated, SerialGenerate, vars

(* The import and the setup that generate times do not overlap between any *)
(* two ranks, whatever fails (end_of_phase).                               *)
THEOREM PhasesApart == Spec => []PhasesSeparated
  BY InitTypeOK, NextTypeOK, InitPhases, NextPhases, PTL DEF Spec

-----------------------------------------------------------------------------
LEMMA InitLocation == Init => OneLocation
  BY DEF Init, CallsInit, OneLocation

(* A policy in force stays in force.                                       *)
LEMMA PolicyStays ==
  ASSUME NEW a, NEW l, a # "none"
  PROVE  PolicyAfter(a, l) = a
  BY DEF PolicyAfter, PolicyThrows

(* The location of the process is settled, as far as any solver at its     *)
(* check or behind it is concerned.                                        *)
LEMMA LocationKept ==
  ASSUME TypeOK, OneLocation, prog' = prog,
         \A q \in Ranks : active[q] # "none" => active'[q] = active[q],
         \A j \in Ops : \A q \in Ranks :
           IsGenerate(j) /\ reached'[j][q] >= Scan =>
             reached[j][q] >= Scan \/ active'[q] = prog[j].location
  PROVE  OneLocation'
  <1> SUFFICES ASSUME NEW j \in Ops, NEW q \in Ranks, IsGenerate(j),
                      reached'[j][q] >= Scan
               PROVE  active'[q] = prog[j].location
    BY DEF OneLocation, IsGenerate
  <1>1. CASE reached[j][q] >= Scan
    <2>1. prog[j] \in Requests /\ prog[j].kind = "generate"
      BY DEF TypeOK, IsGenerate
    <2>2. prog[j] \in GenerateRequests
      BY <2>1, RequestsAssumption DEF ApplyRequests
    <2>3. prog[j].location # "none"
      BY <2>2 DEF GenerateRequests, Locations
    <2>4. active[q] = prog[j].location
      BY <1>1 DEF OneLocation
    <2> QED BY <2>3, <2>4
  <1> QED BY <1>1

LEMMA GenerateLocation ==
  ASSUME TypeOK, OneLocation, NEW r \in Ranks, NEW k \in Ops, Generate(r, k)
  PROVE  OneLocation'
  <1>1. /\ prog' = prog
        /\ \A j \in Ops : \A q \in Ranks : reached[j][q] \in 0 .. Rows
    BY GenerateMoves DEF TypeOK
  <1>2. \A j \in Ops : \A q \in Ranks :
          reached'[j][q] >= Scan =>
            \/ reached[j][q] >= Scan
            \/ j = k /\ q = r /\ reached[k][r] = 0 /\ Enter(r, k, Scan)
    <2>1. CASE reached[k][r] < Rows /\ Enter(r, k, reached[k][r] + 1)
      <3>1. reached[k][r] + 1 \in 0 .. Rows
        BY <1>1, <2>1
      <3>2. \A j \in Ops : \A q \in Ranks : reached'[j][q] =
              IF j = k /\ q = r THEN reached[k][r] + 1 ELSE reached[j][q]
        BY <2>1, <3>1, EnterEffect
      <3>3. ASSUME reached[k][r] = 0 PROVE Enter(r, k, Scan)
        <4>1. reached[k][r] + 1 = Scan BY <3>3
        <4> QED BY <2>1, <4>1
      <3>4. \A j \in Ops : \A q \in Ranks :
              reached'[j][q] >= Scan =>
                \/ reached[j][q] >= Scan
                \/ j = k /\ q = r /\ reached[k][r] = 0
        BY <1>1, <3>2
      <3> QED BY <3>3, <3>4
    <2>2. CASE \E o \in Outcomes : End(r, k, o)
      BY <2>2 DEF End
    <2> QED BY <2>1, <2>2, GenerateStep
  <1>3. CASE GenerateEntry(r, k)
    <2>1. \A q \in Ranks : active[q] # "none" => active'[q] = active[q]
      BY <1>3, PolicyStays DEF GenerateEntry, TypeOK
    <2>2. Enter(r, k, Scan) => active'[r] = prog[k].location
      <3> SUFFICES ASSUME Enter(r, k, Scan) PROVE active'[r] = prog[k].location
        OBVIOUS
      <3>1. cur' = cur /\ cur[r] = k /\ k + 1 # k
        BY <1>3, SizesAssumption DEF GenerateEntry, At, Enter, Ops
      <3>2. \A o : ~End(r, k, o)
        BY <3>1 DEF End, TypeOK
      <3>3. /\ GenerateVerdict(active[r], prog[k]) = "enter"
            /\ active' = [active EXCEPT ![r] =
                            IF prog[k].matrix = "rectangular" THEN @
                            ELSE PolicyAfter(@, prog[k].location)]
        BY <1>3, <3>2 DEF GenerateEntry
      <3>4. /\ prog[k].matrix # "rectangular"
            /\ ~PolicyThrows(active[r], prog[k].location)
        BY <3>3 DEF GenerateVerdict
      <3> QED BY <3>3, <3>4 DEF PolicyAfter, TypeOK
    <2> QED BY <1>1, <1>2, <2>1, <2>2, LocationKept
  <1>4. CASE active' = active /\ reached[k][r] > 0
    BY <1>1, <1>2, <1>4, LocationKept
  <1>5. GenerateEntry(r, k) \/ (active' = active /\ reached[k][r] > 0)
    <2> SUFFICES ASSUME ~GenerateEntry(r, k)
                 PROVE  active' = active /\ reached[k][r] > 0
      OBVIOUS
    <2>1. active' = active
      BY DEF Generate, ImportBlocks, Configure, PlaceB, PlaceX, StartSetup,
             FinishSetup, QueryHierarchy, ReduceLevels, ReduceRows
    <2>2. \/ At(r, k, Scan) \/ At(r, k, CommPkg) \/ At(r, k, VectorB)
          \/ At(r, k, VectorX) \/ At(r, k, ImportBarrier) \/ At(r, k, Setup)
          \/ At(r, k, SetupBarrier) \/ At(r, k, Levels) \/ At(r, k, Rows)
      BY DEF Generate, ImportBlocks, Configure, PlaceB, PlaceX, StartSetup,
             FinishSetup, QueryHierarchy, ReduceLevels, ReduceRows, Resume,
             CollectiveFails
    <2> QED BY <2>1, <2>2 DEF At
  <1> QED BY <1>3, <1>4, <1>5

LEMMA ApplyLocation ==
  ASSUME TypeOK, OneLocation, NEW r \in Ranks, NEW k \in Ops, Apply(r, k)
  PROVE  OneLocation'
  <1>1. /\ prog' = prog /\ active' = active /\ ~IsGenerate(k)
        /\ reached[k][r] \in 0 .. Rows
    BY ApplyMoves, ApplyStep DEF TypeOK
  <1>2. \A j \in Ops : \A q \in Ranks :
          IsGenerate(j) => reached'[j][q] = reached[j][q]
    <2>1. CASE Enter(r, k, reached[k][r] + 1) /\ reached[k][r] < Solve
      BY <1>1, <2>1, EnterEffect
    <2>2. CASE \E o \in Outcomes : End(r, k, o)
      BY <2>2, EndEffect
    <2> QED BY <2>1, <2>2, ApplyStep
  <1> QED BY <1>1, <1>2, LocationKept

LEMMA NextLocation == TypeOK /\ OneLocation /\ [Next]_vars => OneLocation'
  <1> SUFFICES ASSUME TypeOK, OneLocation, [Next]_vars PROVE OneLocation'
    OBVIOUS
  <1>1. ASSUME NEW r \in Ranks, NEW l \in SerialLocs, SerialGenerate(r, l)
        PROVE  OneLocation'
    <2>1. \A q \in Ranks : active[q] # "none" => active'[q] = active[q]
      BY <1>1, PolicyStays DEF SerialGenerate, TypeOK
    <2> QED BY <1>1, <2>1, LocationKept DEF SerialGenerate, callVars
  <1>2. CASE UNCHANGED vars
    BY <1>2 DEF vars, callVars, OneLocation, IsGenerate
  <1> QED BY <1>1, <1>2, GenerateLocation, ApplyLocation
          DEF Next, Step, Terminated

(* Every solver past its policy check, in any program and with serial      *)
(* solvers of any kind in between, is at the memory location its process   *)
(* runs hypre in (set_process_policy).                                     *)
THEOREM LocationIsOne == Spec => []OneLocation
  BY InitTypeOK, NextTypeOK, InitLocation, NextLocation, PTL DEF Spec

-----------------------------------------------------------------------------
(* The policy check at the entry of generate.                              *)
LEMMA RequestTypes ==
  ASSUME TypeOK, NEW k \in Ops, IsGenerate(k)
  PROVE  prog[k] \in GenerateRequests /\ prog[k] \in Requests
  BY RequestsAssumption DEF TypeOK, IsGenerate, ApplyRequests

LEMMA SameThrow ==
  ASSUME UniformInv, Agreement, NEW r \in Ranks, NEW k \in Ops,
         cur[r] = k, reached[k][r] = 0, IsGenerate(k)
  PROVE  PolicyThrows(active[r], prog[k].location) <=> Conflict(k)
  <1>1. prog[k].location \in Locations /\ prog[k] \in Requests
    BY RequestTypes DEF UniformInv, AllOrNothingInv, GenerateRequests
  <1>2. /\ active[r] \in Locations \cup {"none"}
        /\ "none" \notin Locations
    BY DEF UniformInv, AllOrNothingInv, TypeOK, Locations
  <1>3. \A j \in Ops : PolicyChecked(r, j) <=> j < k
    <2> SUFFICES ASSUME NEW j \in Ops PROVE PolicyChecked(r, j) <=> j < k
      OBVIOUS
    <2>1. j > k => reached[j][r] = 0
      BY DEF UniformInv, AllOrNothingInv, CallOrder
    <2>2. CASE j = k
      BY <2>2, SizesAssumption DEF PolicyChecked, Ops
    <2>3. CASE j > k
      BY <2>1, <2>3, SizesAssumption DEF PolicyChecked, Ops
    <2>4. CASE j < k
      BY <2>4 DEF PolicyChecked
    <2> QED BY <2>2, <2>3, <2>4, SizesAssumption DEF Ops
  <1>4. CASE active[r] = "none" /\ \A j \in Ops : PolicyChecked(r, j) => ~Installs(j)
    BY <1>3, <1>4 DEF Conflict, FirstInstaller, PolicyThrows
  <1>5. CASE active[r] \in SerialLocs
    <2>1. PICK l \in Locations : /\ SerialLocs = {l}
                                 /\ \A q \in Requests : q.kind = "generate" => q.location = l
      BY <1>5 DEF Agreement
    <2>2. active[r] = l /\ prog[k].location = l
      BY <1>1, <1>5, <2>1 DEF IsGenerate
    <2>3. \A j \in Ops : FirstInstaller(j) => prog[j].location = l
      BY <2>1, RequestTypes
      DEF UniformInv, AllOrNothingInv, FirstInstaller, Installs, IsGenerate
    <2> QED BY <2>2, <2>3 DEF Conflict, PolicyThrows
  <1>6. CASE \E j \in Ops : /\ FirstInstaller(j)
                            /\ active[r] = prog[j].location
                            /\ PolicyChecked(r, j)
    <2>1. PICK j \in Ops : /\ FirstInstaller(j)
                           /\ active[r] = prog[j].location
                           /\ j < k
      BY <1>3, <1>6
    <2>2. prog[j].location \in Locations
      BY <2>1, RequestTypes
      DEF UniformInv, AllOrNothingInv, FirstInstaller, Installs, GenerateRequests
    <2>3. \A i \in Ops : FirstInstaller(i) => i = j
      BY <2>1, SizesAssumption DEF FirstInstaller, Ops
    <2> QED BY <1>2, <2>1, <2>2, <2>3 DEF Conflict, PolicyThrows
  <1> QED BY <1>4, <1>5, <1>6 DEF UniformInv, PolicyOrigin

(* Every rank comes to the verdict the program determines.                 *)
LEMMA SameVerdict ==
  ASSUME UniformInv, Agreement, NEW r \in Ranks, NEW k \in Ops,
         cur[r] = k, reached[k][r] = 0, IsGenerate(k)
  PROVE  GenerateVerdict(active[r], prog[k]) = ProgramVerdict(k)
  <1>1. PolicyThrows(active[r], prog[k].location) <=> Conflict(k)
    BY SameThrow
  <1>2. prog[k].matrix \in {"ordered", "rectangular", "unordered", "unsupported"}
    BY RequestTypes DEF UniformInv, AllOrNothingInv, GenerateRequests
  <1> QED BY <1>1, <1>2 DEF GenerateVerdict, ProgramVerdict

-----------------------------------------------------------------------------
(* A step at call k checks the policy for that call at most.               *)
LEMMA CheckedStep ==
  ASSUME TypeOK, CallOrder, NEW r \in Ranks, NEW k \in Ops,
         Generate(r, k) \/ Apply(r, k)
  PROVE  \A q \in Ranks : \A j \in Ops :
           PolicyChecked(q, j)' <=> PolicyChecked(q, j) \/ (q = r /\ j = k)
  <1>1. /\ cur[r] = k /\ reached[k][r] \in 0 .. Rows
        /\ \/ reached[k][r] < Rows /\ Enter(r, k, reached[k][r] + 1)
           \/ \E o \in Outcomes : End(r, k, o)
    <2>1. reached[k][r] \in 0 .. Rows
      BY DEF TypeOK
    <2>2. CASE Generate(r, k)
      BY <2>1, <2>2, GenerateStep
    <2>3. CASE Apply(r, k)
      BY <2>1, <2>3, ApplyStep
    <2> QED BY <2>2, <2>3
  <1>2. CASE reached[k][r] < Rows /\ Enter(r, k, reached[k][r] + 1)
    <2>1. /\ \A j \in Ops : \A q \in Ranks : reached'[j][q] =
               IF j = k /\ q = r THEN reached[k][r] + 1 ELSE reached[j][q]
          /\ cur' = cur
      <3>1. reached[k][r] + 1 \in 0 .. Rows
        BY <1>1, <1>2
      <3> QED BY <1>2, <3>1, EnterEffect
    <2> SUFFICES ASSUME NEW q \in Ranks, NEW j \in Ops
                 PROVE  PolicyChecked(q, j)' <=>
                          PolicyChecked(q, j) \/ (q = r /\ j = k)
      OBVIOUS
    <2> QED BY <1>1, <2>1 DEF PolicyChecked
  <1>3. CASE \E o \in Outcomes : End(r, k, o)
    BY <1>1, <1>3, EndEffect, SizesAssumption DEF PolicyChecked, Ops
  <1> QED BY <1>1, <1>2, <1>3

LEMMA GenerateOrigin ==
  ASSUME UniformInv, Agreement, NEW r \in Ranks, NEW k \in Ops, Generate(r, k)
  PROVE  PolicyOrigin'
  <1>1. /\ prog' = prog
        /\ cur[r] = k
        /\ IsGenerate(k)
        /\ \A q \in Ranks : \A j \in Ops :
             PolicyChecked(q, j)' <=> PolicyChecked(q, j) \/ (q = r /\ j = k)
    BY GenerateMoves, GenerateStep, CheckedStep DEF UniformInv, AllOrNothingInv
  <1>2. \A j \in Ops : /\ Installs(j)' <=> Installs(j)
                       /\ FirstInstaller(j)' <=> FirstInstaller(j)
    BY <1>1 DEF FirstInstaller, Installs, IsGenerate
  <1> SUFFICES ASSUME NEW q \in Ranks
               PROVE  \/ active'[q] = "none"
                         /\ \A j \in Ops : PolicyChecked(q, j)' => ~Installs(j)
                      \/ active'[q] \in SerialLocs
                      \/ \E j \in Ops : /\ FirstInstaller(j)
                                        /\ active'[q] = prog[j].location
                                        /\ PolicyChecked(q, j)'
    BY <1>1, <1>2 DEF PolicyOrigin
  <1>3. \/ active[q] = "none" /\ \A j \in Ops : PolicyChecked(q, j) => ~Installs(j)
        \/ active[q] \in SerialLocs
        \/ \E j \in Ops : /\ FirstInstaller(j)
                          /\ active[q] = prog[j].location
                          /\ PolicyChecked(q, j)
    BY DEF UniformInv, PolicyOrigin
  <1>4. CASE q = r /\ GenerateEntry(r, k)
    <2>1. /\ reached[k][r] = 0
          /\ active'[r] = IF prog[k].matrix = "rectangular" THEN active[r]
                          ELSE PolicyAfter(active[r], prog[k].location)
      BY <1>4 DEF GenerateEntry, InstallMayFail, Fault, Agreement, At,
                  UniformInv, AllOrNothingInv, TypeOK
    <2>2. \A j \in Ops : j < k => PolicyChecked(r, j)
      BY <1>1 DEF PolicyChecked
    <2>3. CASE active'[r] = active[r] /\ (active[r] # "none" \/ ~Installs(k))
      BY <1>1, <1>3, <1>4, <2>3
    <2>4. CASE active[r] = "none" /\ Installs(k)
      <3>1. active'[r] = prog[k].location
        BY <2>1, <2>4 DEF PolicyAfter, PolicyThrows, Installs
      <3>2. CASE \A j \in Ops : PolicyChecked(q, j) => ~Installs(j)
        <4>1. FirstInstaller(k)
          BY <1>4, <2>2, <2>4, <3>2 DEF FirstInstaller
        <4> QED BY <1>1, <1>4, <3>1, <4>1
      <3>3. CASE active[q] \in SerialLocs
        BY <1>4, <2>4, <3>3, EnvironmentAssumption DEF Locations
      <3>4. CASE \E j \in Ops : /\ FirstInstaller(j)
                                /\ active[q] = prog[j].location
                                /\ PolicyChecked(q, j)
        <4>1. PICK j \in Ops : FirstInstaller(j) /\ active[q] = prog[j].location
          BY <3>4
        <4>2. prog[j].location \in Locations
          BY <4>1, RequestTypes
          DEF FirstInstaller, Installs, UniformInv, AllOrNothingInv, GenerateRequests
        <4> QED BY <1>4, <2>4, <4>1, <4>2 DEF Locations
      <3> QED BY <1>3, <3>2, <3>3, <3>4
    <2>5. CASE active[r] = "none" /\ ~Installs(k)
      BY <1>1, <2>1, <2>3, <2>5 DEF Installs, PolicyAfter, PolicyThrows
    <2>6. CASE active[r] # "none"
      BY <2>1, <2>3, <2>6 DEF PolicyAfter, PolicyThrows
    <2> QED BY <2>4, <2>5, <2>6
  <1>5. CASE q # r \/ ~GenerateEntry(r, k)
    <2>1. active'[q] = active[q]
      BY <1>5 DEF Generate, GenerateEntry, ImportBlocks, Configure, PlaceB,
                  PlaceX, StartSetup, FinishSetup, QueryHierarchy, ReduceLevels,
                  ReduceRows, UniformInv, AllOrNothingInv, TypeOK
    <2>2. q = r => PolicyChecked(r, k)
      <3>1. CASE ~GenerateEntry(r, k)
        <4>1. reached[k][r] >= Scan
          BY <3>1 DEF Generate, ImportBlocks, Configure, PlaceB, PlaceX,
                  StartSetup, FinishSetup, QueryHierarchy, ReduceLevels,
                  ReduceRows, Resume, CollectiveFails, At
        <4> QED BY <4>1 DEF PolicyChecked
      <3> QED BY <1>5, <3>1
    <2> QED BY <1>1, <1>3, <2>1, <2>2
  <1> QED BY <1>4, <1>5

LEMMA ApplyOrigin ==
  ASSUME UniformInv, NEW r \in Ranks, NEW k \in Ops, Apply(r, k)
  PROVE  PolicyOrigin'
  <1>1. /\ prog' = prog /\ active' = active
        /\ ~IsGenerate(k)
        /\ \A q \in Ranks : \A j \in Ops :
             PolicyChecked(q, j)' <=> PolicyChecked(q, j) \/ (q = r /\ j = k)
    BY ApplyMoves, ApplyStep, CheckedStep DEF UniformInv, AllOrNothingInv
  <1>2. \A j \in Ops : /\ Installs(j)' <=> Installs(j)
                       /\ FirstInstaller(j)' <=> FirstInstaller(j)
    BY <1>1 DEF FirstInstaller, Installs, IsGenerate
  <1>3. ~Installs(k)
    BY <1>1 DEF Installs
  <1> QED BY <1>1, <1>2, <1>3 DEF UniformInv, PolicyOrigin

LEMMA SerialOrigin ==
  ASSUME UniformInv, NEW r \in Ranks, NEW l \in SerialLocs, SerialGenerate(r, l)
  PROVE  PolicyOrigin'
  <1>1. /\ UNCHANGED <<callVars, prog>>
        /\ \A q \in Ranks : active'[q] =
             IF q = r THEN PolicyAfter(active[r], l) ELSE active[q]
        /\ PolicyAfter(active[r], l) # active[r]
    BY DEF SerialGenerate, UniformInv, AllOrNothingInv, TypeOK
  <1>2. PolicyAfter(active[r], l) = l
    BY <1>1 DEF PolicyAfter
  <1> QED BY <1>1, <1>2
          DEF UniformInv, PolicyOrigin, PolicyChecked, FirstInstaller, Installs,
              IsGenerate, callVars
-----------------------------------------------------------------------------
(* The table of generate under Agreement: where it ends and how.           *)
LEMMA GenerateTable ==
  ASSUME UniformInv, Agreement, NEW r \in Ranks, NEW k \in Ops, Generate(r, k)
  PROVE  \/ /\ reached[k][r] = 0 /\ ProgramVerdict(k) = "enter"
            /\ Enter(r, k, Scan)
         \/ /\ reached[k][r] = 0 /\ ProgramVerdict(k) # "enter"
            /\ ProgramVerdict(k) \in Outcomes \ {OK}
            /\ End(r, k, ProgramVerdict(k))
         \/ /\ reached[k][r] = CommPkg /\ OptionsRejected(prog[k])
            /\ End(r, k, "bad_option")
         \/ /\ reached[k][r] \in 1 .. Levels
            /\ reached[k][r] = CommPkg => ~OptionsRejected(prog[k])
            /\ Enter(r, k, reached[k][r] + 1)
         \/ reached[k][r] = Levels /\ End(r, k, "hierarchy")
         \/ reached[k][r] = Rows /\ End(r, k, OK)
  <1> USE DEF UniformInv, AllOrNothingInv
  <1>1. CASE GenerateEntry(r, k)
    <2>1. /\ GenerateVerdict(active[r], prog[k]) = ProgramVerdict(k)
          /\ reached[k][r] = 0
      BY <1>1, SameVerdict DEF GenerateEntry, At
    <2>2. ProgramVerdict(k) \in (Outcomes \ {OK}) \cup {"enter"}
      BY DEF ProgramVerdict, Outcomes
    <2>3. \/ ProgramVerdict(k) = "enter" /\ Enter(r, k, Scan)
          \/ ProgramVerdict(k) # "enter" /\ End(r, k, ProgramVerdict(k))
      BY <1>1, <2>1 DEF GenerateEntry, InstallMayFail, Fault, Agreement
    <2> QED BY <2>1, <2>2, <2>3
  <1>2. CASE ImportBlocks(r, k)
    BY <1>2 DEF ImportBlocks, CollectiveFails, Resume, At, Fault,
                  Agreement
  <1>3. CASE Configure(r, k)
    BY <1>3 DEF Configure, Resume, At, Fault, Agreement
  <1>4. CASE PlaceB(r, k)
    BY <1>4 DEF PlaceB, Resume, At, Fault, Agreement
  <1>5. CASE PlaceX(r, k)
    BY <1>5 DEF PlaceX, Resume, At, Fault, SyncFault, Agreement
  <1>6. CASE StartSetup(r, k)
    BY <1>6 DEF StartSetup, CollectiveFails, Resume, At, Fault,
                  Agreement
  <1>7. CASE FinishSetup(r, k)
    BY <1>7 DEF FinishSetup, Resume, At, Fault, SyncFault, Agreement
  <1>8. CASE QueryHierarchy(r, k)
    BY <1>8 DEF QueryHierarchy, CollectiveFails, Resume, At, Fault,
                  Agreement
  <1>9. CASE ReduceLevels(r, k)
    BY <1>9 DEF ReduceLevels, CollectiveFails, Resume, At, Fault,
                  Agreement
  <1>10. CASE ReduceRows(r, k)
    BY <1>10 DEF ReduceRows, CollectiveFails, Resume, At, Fault,
                  Agreement
  <1> QED BY <1>1, <1>2, <1>3, <1>4, <1>5, <1>6, <1>7, <1>8, <1>9, <1>10
          DEF Generate

LEMMA ApplyTable ==
  ASSUME Agreement, NEW r \in Ranks, NEW k \in Ops, Apply(r, k)
  PROVE  \/ /\ reached[k][r] = 0 /\ ~HasSolver(r, k)
            /\ End(r, k, "no_solver") /\ flags' = flags
         \/ /\ reached[k][r] = 0 /\ HasSolver(r, k) /\ prog[k].columns # 1
            /\ End(r, k, "dimension_mismatch") /\ flags' = flags
         \/ /\ reached[k][r] = 0 /\ HasSolver(r, k) /\ prog[k].columns = 1
            /\ Enter(r, k, Flags)
            /\ \E o \in Operands : flags' = [flags EXCEPT ![k][r] = LocalFlags(o)]
         \/ /\ reached[k][r] = Flags
            /\ \A q \in Ranks : reached[k][q] >= Flags
            /\ flags' = flags
            /\ \/ /\ ReducedFlags(r, k) # {}
                  /\ End(r, k, Rejection(ReducedFlags(r, k)))
               \/ ReducedFlags(r, k) = {} /\ Enter(r, k, Solve)
         \/ reached[k][r] = Solve /\ End(r, k, OK) /\ flags' = flags
  <1>1. CASE ApplyEntry(r, k) BY <1>1 DEF ApplyEntry, At
  <1>2. CASE RejectOrSolve(r, k)
    BY <1>2 DEF RejectOrSolve, CollectiveFails, At, Released, Fault, Agreement
  <1>3. CASE FinishSolve(r, k)
    BY <1>3 DEF FinishSolve, At, Fault, Agreement
  <1> QED BY <1>1, <1>2, <1>3 DEF Apply

LEMMA NoFlags ==
  ASSUME NEW r \in Ranks, NEW k \in Ops
  PROVE  ReducedFlags(r, k) = {} <=> \A q \in Ranks : flags[k][q] = {}
  BY DEF ReducedFlags

(* Whether rank q has a solver for a call it has made or makes now is      *)
(* settled.                                                                *)
LEMMA SolverSettled ==
  ASSUME TypeOK, CallOrder, NEW r \in Ranks, NEW k \in Ops,
         Generate(r, k) \/ Apply(r, k),
         NEW q \in Ranks, NEW j \in Ops, j <= cur[q]
  PROVE  HasSolver(q, j)' <=> HasSolver(q, j)
  <1>1. /\ cur[r] = k /\ prog' = prog /\ reached[k][r] \in 0 .. Rows
        /\ \/ reached[k][r] < Rows /\ Enter(r, k, reached[k][r] + 1)
           \/ \E o \in Outcomes : End(r, k, o)
    <2>1. reached[k][r] \in 0 .. Rows
      BY DEF TypeOK
    <2>2. CASE Generate(r, k)
      BY <2>1, <2>2, GenerateStep, GenerateMoves
    <2>3. CASE Apply(r, k)
      BY <2>1, <2>3, ApplyStep, ApplyMoves
    <2> QED BY <2>2, <2>3
  <1>2. \A i \in Ops : \A p \in Ranks :
          i # k \/ p # r => outcome'[i][p] = outcome[i][p]
    <2>1. CASE reached[k][r] < Rows /\ Enter(r, k, reached[k][r] + 1)
      BY <2>1 DEF Enter
    <2>2. CASE \E o \in Outcomes : End(r, k, o)
      BY <2>2, EndEffect
    <2> QED BY <1>1, <2>1, <2>2
  <1>3. \A i \in Ops : i < j => outcome'[i][q] = outcome[i][q]
    BY <1>1, <1>2, SizesAssumption DEF Ops, TypeOK
  <1> QED BY <1>1, <1>3 DEF HasSolver, IsGenerate
(* A step at call k leaves the other calls and the other ranks alone.      *)
LEMMA Frame ==
  ASSUME TypeOK, NEW r \in Ranks, NEW k \in Ops,
         Generate(r, k) \/ Apply(r, k)
  PROVE  /\ cur[r] = k /\ prog' = prog
         /\ \A j \in Ops : \A q \in Ranks : j # k \/ q # r =>
              /\ reached'[j][q] = reached[j][q]
              /\ outcome'[j][q] = outcome[j][q]
  <1>1. reached[k][r] \in 0 .. Rows
    BY DEF TypeOK
  <1>2. /\ cur[r] = k /\ prog' = prog
        /\ \/ \E i \in 0 .. Rows : Enter(r, k, i)
           \/ \E o \in Outcomes : End(r, k, o)
    <2>1. CASE Generate(r, k)
      BY <2>1, GenerateStep, GenerateMoves
    <2>2. CASE Apply(r, k)
      BY <2>2, ApplyStep, ApplyMoves
    <2> QED BY <2>1, <2>2
  <1>3. CASE \E i \in 0 .. Rows : Enter(r, k, i)
    BY <1>2, <1>3, EnterEffect
  <1>4. CASE \E o \in Outcomes : End(r, k, o)
    BY <1>2, <1>4, EndEffect
  <1> QED BY <1>2, <1>3, <1>4

(* Apply calls keep their invariant when the step leaves their flags and   *)
(* their progress alone.                                                   *)
LEMMA ApplyFrame ==
  ASSUME UniformInv, NEW r \in Ranks, NEW k \in Ops,
         Generate(r, k) \/ Apply(r, k),
         NEW q \in Ranks, NEW j \in Ops, ~IsGenerate(j), j # k,
         \A p \in Ranks : flags'[j][p] = flags[j][p]
  PROVE  ApplyInv(j, q)'
  <1> USE DEF UniformInv, AllOrNothingInv
  <1>1. /\ ApplyInv(j, q)
        /\ prog' = prog
        /\ \A p \in Ranks : /\ reached'[j][p] = reached[j][p]
                            /\ outcome'[j][p] = outcome[j][p]
    BY Frame DEF CallsAgree
  <1>2. CASE j <= cur[q]
    <2>1. HasSolver(q, j)' <=> HasSolver(q, j)
      BY <1>2, SolverSettled
    <2>2. ReducedFlags(q, j)' = ReducedFlags(q, j)
      BY DEF ReducedFlags
    <2> QED BY <1>1, <2>1, <2>2 DEF ApplyInv, Ended
  <1>3. CASE ~(j <= cur[q])
    <2>1. cur[q] \in 1 .. MaxOps + 1 /\ j \in 1 .. MaxOps
      BY DEF TypeOK, Ops
    <2>2. j > cur[q]
      BY <1>3, <2>1, SizesAssumption
    <2>3. reached[j][q] = 0 /\ ~Ended(j, q)
      BY <2>1, <2>2, SizesAssumption DEF CallOrder
    <2> QED BY <1>1, <2>3 DEF ApplyInv, Ended
  <1> QED BY <1>2, <1>3

LEMMA GenerateAgrees ==
  ASSUME UniformInv, Agreement, NEW r \in Ranks, NEW k \in Ops, Generate(r, k)
  PROVE  CallsAgree'
  <1> USE DEF UniformInv, AllOrNothingInv
  <1>1. /\ prog' = prog /\ flags' = flags /\ IsGenerate(k)
        /\ cur[r] = k /\ ~Ended(k, r)
    BY GenerateMoves, GenerateStep, SizesAssumption DEF CallOrder, Ops
  <1>2. ASSUME NEW j \in Ops, NEW q \in Ranks, IsGenerate(j)
        PROVE  GenerateInv(j, q)'
    <2>1. GenerateInv(j, q)
      BY <1>2 DEF CallsAgree
    <2>2. /\ ProgramVerdict(j)' = ProgramVerdict(j)
          /\ OptionsRejected(prog[j])' <=> OptionsRejected(prog[j])
      BY <1>1 DEF ProgramVerdict, Conflict, FirstInstaller, Installs, IsGenerate,
                  OptionsRejected
    <2>3. CASE j # k \/ q # r
      <3>1. reached'[j][q] = reached[j][q] /\ outcome'[j][q] = outcome[j][q]
        BY <2>3, Frame
      <3> QED BY <2>1, <2>2, <3>1, <1>1 DEF GenerateInv, Ended
    <2>4. CASE j = k /\ q = r
      <3>1. CASE reached[k][r] = 0 /\ ProgramVerdict(k) = "enter" /\ Enter(r, k, Scan)
        <4>1. reached'[k][r] = 1 /\ outcome' = outcome
          BY <3>1, EnterEffect
        <4> QED BY <1>1, <2>2, <2>4, <3>1, <4>1 DEF GenerateInv, Ended
      <3>2. CASE /\ reached[k][r] = 0 /\ ProgramVerdict(k) # "enter"
                 /\ ProgramVerdict(k) \in Outcomes \ {OK}
                 /\ End(r, k, ProgramVerdict(k))
        <4>1. outcome'[k][r] = ProgramVerdict(k) /\ reached' = reached
          BY <3>2, EndEffect
        <4> QED BY <2>2, <2>4, <3>2, <4>1 DEF GenerateInv, Ended
      <3>3. CASE /\ reached[k][r] = CommPkg /\ OptionsRejected(prog[k])
                 /\ End(r, k, "bad_option")
        <4>1. outcome'[k][r] = "bad_option" /\ reached' = reached
          BY <3>3, EndEffect DEF Outcomes
        <4> QED BY <1>1, <2>1, <2>2, <2>4, <3>3, <4>1 DEF GenerateInv, Ended
      <3>4. CASE /\ reached[k][r] \in 1 .. Levels
                 /\ reached[k][r] = CommPkg => ~OptionsRejected(prog[k])
                 /\ Enter(r, k, reached[k][r] + 1)
        <4>1. reached[k][r] + 1 \in 0 .. Rows
          BY <3>4
        <4>2. reached'[k][r] = reached[k][r] + 1 /\ outcome' = outcome
          BY <3>4, <4>1, EnterEffect
        <4> QED BY <1>1, <2>1, <2>2, <2>4, <3>4, <4>2 DEF GenerateInv, Ended
      <3>5. CASE reached[k][r] = Levels /\ End(r, k, "hierarchy")
        <4>1. outcome'[k][r] = "hierarchy" /\ reached' = reached
          BY <3>5, EndEffect DEF Outcomes
        <4> QED BY <1>1, <2>1, <2>2, <2>4, <3>5, <4>1 DEF GenerateInv, Ended
      <3>6. CASE reached[k][r] = Rows /\ End(r, k, OK)
        <4>1. outcome'[k][r] = OK /\ reached' = reached
          BY <3>6, EndEffect DEF Outcomes
        <4> QED BY <1>1, <2>1, <2>2, <2>4, <3>6, <4>1 DEF GenerateInv, Ended
      <3> QED BY <3>1, <3>2, <3>3, <3>4, <3>5, <3>6, GenerateTable
    <2> QED BY <2>3, <2>4
  <1>3. ASSUME NEW j \in Ops, NEW q \in Ranks, ~IsGenerate(j)
        PROVE  ApplyInv(j, q)'
    BY <1>1, <1>3, ApplyFrame
  <1> QED BY <1>1, <1>2, <1>3 DEF CallsAgree, IsGenerate

LEMMA ApplyAgrees ==
  ASSUME UniformInv, Agreement, NEW r \in Ranks, NEW k \in Ops, Apply(r, k)
  PROVE  CallsAgree'
  <1> USE DEF UniformInv, AllOrNothingInv
  <1>1. /\ prog' = prog /\ ~IsGenerate(k)
        /\ cur[r] = k /\ ~Ended(k, r) /\ outcome[k][r] = Pending
        /\ \A q \in Ranks : reached[k][q] \in 0 .. Rows
    BY ApplyMoves, ApplyStep DEF CallOrder, Ended, TypeOK
  <1>2. ASSUME NEW j \in Ops, NEW q \in Ranks, IsGenerate(j)
        PROVE  GenerateInv(j, q)'
    <2>1. GenerateInv(j, q)
      BY <1>2 DEF CallsAgree
    <2>2. /\ ProgramVerdict(j)' = ProgramVerdict(j)
          /\ OptionsRejected(prog[j])' <=> OptionsRejected(prog[j])
      BY <1>1 DEF ProgramVerdict, Conflict, FirstInstaller, Installs, IsGenerate,
                  OptionsRejected
    <2>3. reached'[j][q] = reached[j][q] /\ outcome'[j][q] = outcome[j][q]
      BY <1>1, <1>2, Frame
    <2> QED BY <1>1, <2>1, <2>2, <2>3 DEF GenerateInv, Ended
  <1>3. ASSUME NEW j \in Ops, NEW q \in Ranks, ~IsGenerate(j), j # k
        PROVE  ApplyInv(j, q)'
    <2>1. \A p \in Ranks : flags'[j][p] = flags[j][p]
      <3>1. CASE flags' = flags BY <3>1
      <3>2. CASE \E o \in Operands : flags' = [flags EXCEPT ![k][r] = LocalFlags(o)]
        BY <1>3, <3>2 DEF TypeOK
      <3> QED BY <3>1, <3>2, ApplyTable
    <2> QED BY <1>3, <2>1, ApplyFrame
  <1>4. ASSUME NEW q \in Ranks PROVE ApplyInv(k, q)'
    <2>1. /\ ApplyInv(k, q) /\ ApplyInv(k, r)
          /\ q # r => /\ reached'[k][q] = reached[k][q]
                      /\ outcome'[k][q] = outcome[k][q]
      BY <1>1, Frame DEF CallsAgree
    <2>2. \/ HasSolver(q, k)' <=> HasSolver(q, k)
          \/ q # r /\ reached[k][q] = 0 /\ ~Ended(k, q)
      <3>1. CASE k <= cur[q]
        BY <3>1, SolverSettled
      <3>2. CASE ~(k <= cur[q])
        BY <1>1, <3>2, SizesAssumption DEF CallOrder, TypeOK, Ops
      <3> QED BY <3>1, <3>2
    <2>3. CASE /\ reached[k][r] = 0 /\ ~HasSolver(r, k)
               /\ End(r, k, "no_solver") /\ flags' = flags
      <3>1. outcome'[k][r] = "no_solver" /\ reached' = reached
        BY <2>3, EndEffect DEF Outcomes
      <3>2. ReducedFlags(q, k)' = ReducedFlags(q, k)
        BY <2>3 DEF ReducedFlags
      <3> QED BY <1>1, <2>1, <2>2, <2>3, <3>1, <3>2 DEF ApplyInv, Ended
    <2>4. CASE /\ reached[k][r] = 0 /\ HasSolver(r, k) /\ prog[k].columns # 1
               /\ End(r, k, "dimension_mismatch") /\ flags' = flags
      <3>1. outcome'[k][r] = "dimension_mismatch" /\ reached' = reached
        BY <2>4, EndEffect DEF Outcomes
      <3>2. ReducedFlags(q, k)' = ReducedFlags(q, k)
        BY <2>4 DEF ReducedFlags
      <3> QED BY <1>1, <2>1, <2>2, <2>4, <3>1, <3>2 DEF ApplyInv, Ended
    <2>5. CASE /\ reached[k][r] = 0 /\ HasSolver(r, k) /\ prog[k].columns = 1
               /\ Enter(r, k, Flags)
               /\ \E o \in Operands : flags' = [flags EXCEPT ![k][r] = LocalFlags(o)]
      <3>1. /\ \A p \in Ranks : reached'[k][p] = IF p = r THEN 1 ELSE reached[k][p]
            /\ outcome' = outcome
        BY <2>5, EnterEffect
      <3>2. ~(\A p \in Ranks : reached[k][p] >= Flags)
        BY <2>5
      <3> QED BY <1>1, <2>1, <2>2, <2>5, <3>1, <3>2 DEF ApplyInv, Ended
    <2>6. CASE /\ reached[k][r] = Flags
               /\ \A p \in Ranks : reached[k][p] >= Flags
               /\ flags' = flags
               /\ ReducedFlags(r, k) # {}
               /\ End(r, k, Rejection(ReducedFlags(r, k)))
      <3>1. Rejection(ReducedFlags(r, k)) \in Outcomes
        BY DEF Rejection, Outcomes
      <3>2. /\ outcome'[k][r] = Rejection(ReducedFlags(r, k))
            /\ reached' = reached
        BY <2>6, <3>1, EndEffect
      <3>3. /\ ReducedFlags(q, k)' = ReducedFlags(r, k)
            /\ ReducedFlags(q, k) = ReducedFlags(r, k)
            /\ \E p \in Ranks : flags[k][p] # {}
        BY <2>6, NoFlags DEF ReducedFlags
      <3> QED BY <1>1, <2>1, <2>2, <2>6, <3>2, <3>3 DEF ApplyInv, Ended
    <2>7. CASE /\ reached[k][r] = Flags
               /\ \A p \in Ranks : reached[k][p] >= Flags
               /\ flags' = flags
               /\ ReducedFlags(r, k) = {} /\ Enter(r, k, Solve)
      <3>1. /\ \A p \in Ranks : reached'[k][p] = IF p = r THEN 2 ELSE reached[k][p]
            /\ outcome' = outcome
        BY <2>7, EnterEffect
      <3>2. \A p \in Ranks : flags[k][p] = {}
        BY <2>7, NoFlags
      <3> QED BY <1>1, <2>1, <2>2, <2>7, <3>1, <3>2 DEF ApplyInv, Ended
    <2>8. CASE reached[k][r] = Solve /\ End(r, k, OK) /\ flags' = flags
      <3>1. outcome'[k][r] = OK /\ reached' = reached
        BY <2>8, EndEffect DEF Outcomes
      <3>2. ReducedFlags(q, k)' = ReducedFlags(q, k)
        BY <2>8 DEF ReducedFlags
      <3> QED BY <1>1, <2>1, <2>2, <2>8, <3>1, <3>2 DEF ApplyInv, Ended
    <2> QED BY <2>3, <2>4, <2>5, <2>6, <2>7, <2>8, ApplyTable
  <1> QED BY <1>1, <1>2, <1>3, <1>4 DEF CallsAgree, IsGenerate

-----------------------------------------------------------------------------
LEMMA InitUniform == Init => UniformInv
  <1> SUFFICES ASSUME Init PROVE UniformInv
    OBVIOUS
  <1>1. AllOrNothingInv
    BY InitTypeOK, InitOrder, InitComplete DEF AllOrNothingInv
  <1>2. PolicyOrigin
    BY SizesAssumption DEF Init, CallsInit, PolicyOrigin, PolicyChecked, Ops
  <1>3. CallsAgree
    BY DEF Init, CallsInit, CallsAgree, GenerateInv, ApplyInv, Ended
  <1> QED BY <1>1, <1>2, <1>3 DEF UniformInv

LEMMA NextUniform == Agreement /\ UniformInv /\ [Next]_vars => UniformInv'
  <1> SUFFICES ASSUME Agreement, UniformInv, [Next]_vars PROVE UniformInv'
    OBVIOUS
  <1>1. AllOrNothingInv'
    BY NextAllOrNothing DEF UniformInv
  <1>2. PolicyOrigin' /\ CallsAgree'
    <2>1. ASSUME NEW r \in Ranks, NEW k \in Ops, Generate(r, k)
          PROVE  PolicyOrigin' /\ CallsAgree'
      BY <2>1, GenerateOrigin, GenerateAgrees
    <2>2. ASSUME NEW r \in Ranks, NEW k \in Ops, Apply(r, k)
          PROVE  PolicyOrigin' /\ CallsAgree'
      BY <2>2, ApplyOrigin, ApplyAgrees
    <2>3. ASSUME UNCHANGED <<callVars, prog, flags>> PROVE CallsAgree'
      <3>1. /\ reached' = reached /\ outcome' = outcome
            /\ prog' = prog /\ flags' = flags
        BY <2>3 DEF callVars
      <3>2. \A j \in Ops : \A q \in Ranks :
              /\ ProgramVerdict(j)' = ProgramVerdict(j)
              /\ HasSolver(q, j)' <=> HasSolver(q, j)
              /\ ReducedFlags(q, j)' = ReducedFlags(q, j)
        BY <3>1 DEF ProgramVerdict, Conflict, FirstInstaller, Installs,
                    IsGenerate, HasSolver, ReducedFlags
      <3>3. \A j \in Ops : \A q \in Ranks :
              /\ GenerateInv(j, q) => GenerateInv(j, q)'
              /\ ApplyInv(j, q) => ApplyInv(j, q)'
        BY <3>1, <3>2 DEF GenerateInv, ApplyInv, Ended
      <3> QED BY <3>1, <3>3 DEF UniformInv, CallsAgree, IsGenerate
    <2>4. ASSUME NEW r \in Ranks, NEW l \in SerialLocs, SerialGenerate(r, l)
          PROVE  PolicyOrigin' /\ CallsAgree'
      BY <2>3, <2>4, SerialOrigin DEF SerialGenerate
    <2>5. CASE UNCHANGED vars
      <3>1. PolicyOrigin'
        BY <2>5 DEF vars, callVars, UniformInv, PolicyOrigin, PolicyChecked,
                    FirstInstaller, Installs, IsGenerate
      <3> QED BY <2>3, <2>5, <3>1 DEF vars
    <2> QED BY <2>1, <2>2, <2>4, <2>5 DEF Next, Step, Terminated
  <1> QED BY <1>1, <1>2 DEF UniformInv

(* The invariant holds in every state of every execution under Agreement.  *)
THEOREM UniformInvariant == Agreement => (Spec => []UniformInv)
  <1> SUFFICES ASSUME Agreement PROVE Spec => []UniformInv
    OBVIOUS
  <1>1. UniformInv /\ [Next]_vars => UniformInv'
    BY NextUniform
  <1> QED BY <1>1, InitUniform, PTL DEF Spec

-----------------------------------------------------------------------------
(* What the invariant says of two ranks in the same generate.              *)
LEMMA GeneratesAgree ==
  ASSUME UniformInv, NEW k \in Ops, IsGenerate(k), NEW r \in Ranks,
         NEW q \in Ranks, Ended(k, q)
  PROVE  /\ reached[k][r] <= reached[k][q]
         /\ Ended(k, r) => outcome[k][r] = outcome[k][q]
  <1>1. /\ GenerateInv(k, r) /\ GenerateInv(k, q)
        /\ SolverInv(k, r) /\ SolverInv(k, q)
        /\ \A p \in Ranks : reached[k][p] \in 0 .. Rows
    BY DEF UniformInv, AllOrNothingInv, CallsAgree, SolversComplete, TypeOK
  <1> QED BY <1>1 DEF GenerateInv, SolverInv, Ended

LEMMA SameSolver ==
  ASSUME UniformInv, NEW k \in Ops, NEW r \in Ranks, NEW q \in Ranks,
         k <= cur[r], k <= cur[q]
  PROVE  HasSolver(r, k) <=> HasSolver(q, k)
  <1>1. \A j \in Ops : j < k => Ended(j, r) /\ Ended(j, q)
    BY SizesAssumption DEF UniformInv, AllOrNothingInv, CallOrder, TypeOK, Ops
  <1> QED BY <1>1, GeneratesAgree DEF HasSolver

LEMMA AppliesAgree ==
  ASSUME UniformInv, NEW k \in Ops, ~IsGenerate(k), NEW r \in Ranks,
         NEW q \in Ranks, Ended(k, q)
  PROVE  /\ reached[k][r] <= reached[k][q]
         /\ Ended(k, r) => outcome[k][r] = outcome[k][q]
  <1>1. /\ ApplyInv(k, r) /\ ApplyInv(k, q)
        /\ \A p \in Ranks : reached[k][p] \in 0 .. Rows
    BY DEF UniformInv, AllOrNothingInv, CallsAgree, TypeOK
  <1>2. reached[k][r] > 0 \/ Ended(k, r) => (HasSolver(r, k) <=> HasSolver(q, k))
    <2>1. /\ cur[r] \in 1 .. MaxOps + 1 /\ cur[q] \in 1 .. MaxOps + 1
          /\ k \in 1 .. MaxOps /\ MaxOps \in Nat
          /\ k < cur[r] <=> Ended(k, r)
          /\ k > cur[r] => reached[k][r] = 0
          /\ k < cur[q]
      BY SizesAssumption
      DEF UniformInv, AllOrNothingInv, CallOrder, TypeOK, Ops
    <2>2. ASSUME reached[k][r] > 0 \/ Ended(k, r)
          PROVE  k <= cur[r] /\ k <= cur[q]
      BY <2>1, <2>2
    <2> QED BY <2>2, SameSolver
  <1>3. ReducedFlags(r, k) = ReducedFlags(q, k)
    BY DEF ReducedFlags
  <1> QED BY <1>1, <1>2, <1>3 DEF ApplyInv, Ended

(* Under Agreement the ranks never see the same call end differently, in   *)
(* any program and on any number of ranks.                                 *)
THEOREM RanksAgree == Agreement => (Spec => []UniformOutcome)
  <1>1. UniformInv => UniformOutcome
    BY GeneratesAgree, AppliesAgree DEF UniformOutcome
  <1> QED BY <1>1, UniformInvariant, PTL

(* Under Agreement no rank enters a collective that another rank has left  *)
(* the call without entering.                                              *)
THEOREM NobodyStranded == Agreement => (Spec => []NoRankStranded)
  <1>1. UniformInv => NoRankStranded
    BY GeneratesAgree, AppliesAgree DEF NoRankStranded
  <1> QED BY <1>1, UniformInvariant, PTL

(* Under Agreement a policy conflict is thrown by every rank before the    *)
(* first collective, or by none: the uniformity the comment on             *)
(* build_distributed_par_csr's policy call promises.                       *)
THEOREM ConflictsUniform == Agreement => (Spec => []PolicyConflictUniform)
  <1>1. UniformInv => PolicyConflictUniform
    <2> SUFFICES ASSUME UniformInv, NEW k \in Ops, NEW r \in Ranks,
                        NEW q \in Ranks, outcome[k][r] = "policy"
                 PROVE  reached[k][q] = 0
      BY DEF PolicyConflictUniform
    <2>1. reached[k][q] \in 0 .. Rows /\ Ended(k, r)
      BY DEF UniformInv, AllOrNothingInv, TypeOK, Ended
    <2>2. CASE IsGenerate(k)
      <3>1. GenerateInv(k, r) /\ GenerateInv(k, q)
        BY <2>2 DEF UniformInv, CallsAgree
      <3> QED BY <2>1, <3>1 DEF GenerateInv
    <2>3. CASE ~IsGenerate(k)
      BY <2>1, <2>3 DEF UniformInv, CallsAgree, ApplyInv, Rejection
    <2> QED BY <2>2, <2>3
  <1> QED BY <1>1, UniformInvariant, PTL

(* Under Agreement no rank solves with operands any rank rejects.          *)
THEOREM SolvesUsable == Agreement => (Spec => []SolveOnlyUsable)
  <1>1. UniformInv => SolveOnlyUsable
    BY DEF UniformInv, CallsAgree, ApplyInv, SolveOnlyUsable
  <1> QED BY <1>1, UniformInvariant, PTL

-----------------------------------------------------------------------------
(* PcgSpmd implements UniformCalls under Agreement: each rank's step joins *)
(* a call, returns from it, or is not visible to the application.          *)
(* What the invariant says of the ranks' joining and returning.            *)
LEMMA InvUniform == UniformInv => UniformOutcome /\ NoRankStranded
  BY GeneratesAgree, AppliesAgree DEF UniformOutcome, NoRankStranded

(* A call that succeeded on a rank was joined by all of them.              *)
JoinedByAll ==
  \A k \in Ops : \A r, q \in Ranks : outcome[k][r] = OK => reached[k][q] > 0

LEMMA SuccessJoined == UniformInv => JoinedByAll
  <1> SUFFICES ASSUME UniformInv, NEW k \in Ops, NEW r \in Ranks,
                      NEW q \in Ranks, outcome[k][r] = OK
               PROVE  reached[k][q] > 0
    BY DEF JoinedByAll
  <1>1. reached[k][q] \in 0 .. Rows
    BY DEF UniformInv, AllOrNothingInv, TypeOK
  <1>2. CASE IsGenerate(k)
    BY <1>1, <1>2 DEF UniformInv, AllOrNothingInv, SolversComplete, SolverInv
  <1>3. CASE ~IsGenerate(k)
    <2>1. ApplyInv(k, r)
      BY <1>3 DEF UniformInv, CallsAgree
    <2>2. \A f : Rejection(f) # OK
      BY DEF Rejection
    <2>3. reached[k][r] = Solve
      BY <2>1, <2>2 DEF ApplyInv, Ended
    <2> QED BY <1>1, <2>1, <2>3 DEF ApplyInv
  <1> QED BY <1>2, <1>3

LEMMA InitRefines == Init => Uniform!Init
  BY DEF Init, CallsInit, Uniform!Init

(* A rank enters the collective after the one it is in.                    *)
LEMMA EnterRefines ==
  ASSUME UniformInv, UniformInv', NEW r \in Ranks, NEW k \in Ops, cur[r] = k,
         reached[k][r] < Rows, Enter(r, k, reached[k][r] + 1)
  PROVE  [Uniform!Next]_Uniform!vars
  <1> DEFINE Joined(j) == {q \in Ranks : reached[j][q] > 0}
  <1>1. /\ TypeOK /\ CallOrder
        /\ \A j \in Ops : \A q \in Ranks : reached[j][q] \in 0 .. Rows
    BY DEF UniformInv, AllOrNothingInv, TypeOK
  <1>2. /\ outcome' = outcome
        /\ \A j \in Ops : \A q \in Ranks : reached'[j][q] =
             IF j = k /\ q = r THEN reached[k][r] + 1 ELSE reached[j][q]
    BY <1>1, EnterEffect
  <1>3. CASE reached[k][r] > 0
    <2>1. \A j \in Ops : Joined(j)' = Joined(j)
      BY <1>1, <1>2, <1>3
    <2>2. UNCHANGED [j \in Ops |-> {q \in Ranks : reached[j][q] > 0}]
      BY <2>1
    <2> QED BY <1>2, <2>2 DEF Uniform!vars
  <1>4. CASE reached[k][r] = 0
    <2>1. \A j \in Ops : Joined(j)' = IF j = k THEN Joined(j) \cup {r} ELSE Joined(j)
      BY <1>1, <1>2, <1>4
    <2>2. [j \in Ops |-> {q \in Ranks : reached[j][q] > 0}]'
            = [[j \in Ops |-> {q \in Ranks : reached[j][q] > 0}]
                 EXCEPT ![k] = @ \cup {r}]
      BY <2>1
    <2>3. Uniform!Calling(r, k)
      BY <1>1, SizesAssumption
      DEF Uniform!Calling, Uniform!Returned, CallOrder, Ended, Ops
    <2>4. \A q \in Ranks : outcome[k][q] # "pending" => reached[k][q] > 0
      <3> SUFFICES ASSUME NEW q \in Ranks, outcome[k][q] # "pending"
                   PROVE  reached[k][q] > 0
        OBVIOUS
      <3>1. q # r
        BY <1>1, SizesAssumption DEF CallOrder, Ended, Ops
      <3>2. NoRankStranded'
        BY InvUniform, PTL
      <3> QED BY <1>1, <1>2, <1>4, <3>1, <3>2 DEF NoRankStranded, Ended
    <2>5. Uniform!Join(r, k)
      BY <1>2, <1>4, <2>2, <2>3, <2>4 DEF Uniform!Join, Uniform!Returned
    <2> QED BY <2>5 DEF Uniform!Next
  <1> QED BY <1>1, <1>3, <1>4

(* A call ends on a rank.                                                  *)
LEMMA EndRefines ==
  ASSUME UniformInv, UniformInv', NEW r \in Ranks, NEW k \in Ops, cur[r] = k,
         NEW o \in Outcomes, End(r, k, o)
  PROVE  [Uniform!Next]_Uniform!vars
  <1>1. /\ TypeOK /\ CallOrder
        /\ \A q \in Ranks : reached[k][q] \in 0 .. Rows
    BY DEF UniformInv, AllOrNothingInv, TypeOK
  <1>2. /\ reached' = reached
        /\ \A q \in Ranks : outcome'[k][q] = IF q = r THEN o ELSE outcome[k][q]
    BY <1>1, EndEffect
  <1>3. o # Pending /\ ~Ended(k, r)
    BY <1>1, SizesAssumption DEF Outcomes, CallOrder, Ops
  <1>4. Uniform!Calling(r, k)
    BY <1>1, SizesAssumption
    DEF Uniform!Calling, Uniform!Returned, CallOrder, Ended, Ops
  <1>5. UniformOutcome' /\ NoRankStranded'
    BY InvUniform, PTL
  <1>6. \A q \in Ranks : outcome[k][q] # "pending" => outcome[k][q] = o
    BY <1>2, <1>3, <1>5 DEF UniformOutcome, Ended
  <1>7. reached[k][r] = 0 => \A q \in Ranks : reached[k][q] = 0
    BY <1>1, <1>2, <1>3, <1>5 DEF NoRankStranded, Ended
  <1>8. o = "ok" => \A q \in Ranks : reached[k][q] > 0
    <2>1. JoinedByAll'
      BY SuccessJoined, PTL
    <2> QED BY <1>2, <2>1 DEF JoinedByAll
  <1>9. outcome' = [outcome EXCEPT ![k][r] = o]
    BY DEF End
  <1>10. Uniform!Return(r, k, o)
    BY <1>1, <1>2, <1>4, <1>6, <1>7, <1>8, <1>9
    DEF Uniform!Return, Uniform!Returned
  <1> QED BY <1>10 DEF Uniform!Next

LEMMA NextRefines ==
  UniformInv /\ UniformInv' /\ [Next]_vars => [Uniform!Next]_Uniform!vars
  <1> SUFFICES ASSUME UniformInv, UniformInv', [Next]_vars
               PROVE  [Uniform!Next]_Uniform!vars
    OBVIOUS
  <1>1. TypeOK
    BY DEF UniformInv, AllOrNothingInv
  <1>2. ASSUME NEW r \in Ranks, NEW k \in Ops, Generate(r, k)
        PROVE  [Uniform!Next]_Uniform!vars
    BY <1>1, <1>2, GenerateStep, EnterRefines, EndRefines
  <1>3. ASSUME NEW r \in Ranks, NEW k \in Ops, Apply(r, k)
        PROVE  [Uniform!Next]_Uniform!vars
    <2>1. reached[k][r] \in 0 .. Rows
      BY <1>1 DEF TypeOK
    <2> QED BY <1>1, <1>3, <2>1, ApplyStep, EnterRefines, EndRefines
  <1>4. CASE UNCHANGED callVars
    BY <1>4 DEF callVars, Uniform!vars
  <1> QED BY <1>2, <1>3, <1>4 DEF Next, Step, Terminated, SerialGenerate, vars

(* Under Agreement solver::Pcg's collective calls implement the contract   *)
(* UniformCalls on any number of ranks: a call is turned down by all ranks *)
(* before any of them communicates, or joined by all, and ends alike.      *)
THEOREM Refines == Agreement => (Spec => ImplementsUniform)
  <1> SUFFICES ASSUME Agreement PROVE Spec => ImplementsUniform
    OBVIOUS
  <1>1. Spec => []UniformInv
    BY UniformInvariant
  <1> QED BY <1>1, InitRefines, NextRefines, PTL
          DEF Spec, ImplementsUniform, Uniform!Spec

-----------------------------------------------------------------------------
(* No deadlock.  Rank r can go on: the collective it is in, if it is in    *)
(* one, has been entered by all the ranks it waits for.                    *)
CanGoOn(r) ==
  \E k \in Ops : \E i \in 0 .. Rows :
     /\ At(r, k, i)
     /\ IsGenerate(k) => i = 0 \/ Released(k, i, GeneratePeers(r, i))
     /\ ~IsGenerate(k) => i <= Solve /\ (i = 0 \/ Released(k, i, Ranks))

NobodyWaitsInVain == Finished \/ \E r \in Ranks : CanGoOn(r)

(* A step takes a rank to its next collective or out of its call, or       *)
(* leaves it where it is, and then as able to go on as it was.             *)
Advances(r) ==
  \/ cur'[r] > cur[r]
  \/ cur'[r] = cur[r] /\ \E k \in Ops : cur[r] = k /\ reached'[k][r] > reached[k][r]

Rests(r) ==
  /\ cur'[r] = cur[r] /\ \A k \in Ops : reached'[k][r] = reached[k][r]
  /\ CanGoOn(r) => CanGoOn(r)'

NobodyHoldsUp == \A r \in Ranks : Advances(r) \/ Rests(r)

LEMMA LeastNumber ==
  ASSUME NEW S \in SUBSET Nat, S # {}
  PROVE  \E m \in S : \A n \in S : m <= n
  <1>1. PICK m \in S : \A n \in S : <<n, m>> \notin OpToRel(<, Nat)
    BY NatLessThanWellFounded, WFMin, Zenon
  <1>2. \A n \in S : ~(n < m)
    BY <1>1 DEF OpToRel
  <1> QED BY <1>2

LEMMA PeersAreRanks ==
  ASSUME NEW r \in Ranks, NEW i PROVE \A q \in GeneratePeers(r, i) : q \in Ranks
  <1>1. ASSUME NEW q \in 0 .. r PROVE q \in Ranks
    BY SizesAssumption DEF Ranks
  <1>2. ASSUME NEW q \in Neighbours[r] \cup {r} PROVE q \in Ranks
    BY <1>2, EnvironmentAssumption
  <1> QED BY <1>1, <1>2 DEF GeneratePeers

(* Of the ranks in the earliest call, one that is in its earliest          *)
(* collective has nobody behind it.                                        *)
LEMMA HindmostGoesOn ==
  ASSUME TypeOK, CallOrder, NoRankStranded, ~Finished,
         \A k \in Ops : \A r \in Ranks : ~IsGenerate(k) => reached[k][r] <= Solve
  PROVE  \E r \in Ranks : CanGoOn(r)
  <1>1. /\ \A q \in Ranks : cur[q] \in 1 .. MaxOps + 1
        /\ \A j \in Ops : \A q \in Ranks : reached[j][q] \in 0 .. Rows
        /\ MaxOps \in Nat
    BY SizesAssumption DEF TypeOK
  <1>2. PICK s \in Ranks : cur[s] \in Ops
    BY <1>1 DEF Finished, Ops
  <1> DEFINE Calls == {cur[q] : q \in Ranks}
  <1>3. Calls \in SUBSET Nat /\ Calls # {}
    BY <1>1, <1>2
  <1>4. PICK k \in Calls : \A j \in Calls : k <= j
    <2> HIDE DEF Calls
    <2> QED BY <1>3, LeastNumber
  <1>5. /\ k \in Ops /\ \A q \in Ranks : k <= cur[q]
    BY <1>1, <1>2, <1>4 DEF Ops
  <1> DEFINE There  == {q \in Ranks : cur[q] = k}
             Places == {reached[k][q] : q \in There}
  <1>6. Places \in SUBSET Nat /\ Places # {}
    BY <1>1, <1>4, <1>5
  <1>7. PICK i \in Places : \A j \in Places : i <= j
    <2> HIDE DEF Places
    <2> QED BY <1>6, LeastNumber
  <1>8. PICK r \in Ranks : cur[r] = k /\ reached[k][r] = i
    BY <1>7
  <1>9. ASSUME NEW q \in Ranks PROVE reached[k][q] >= i
    <2>1. CASE cur[q] = k
      BY <1>1, <1>5, <1>7, <1>8, <2>1
    <2>2. CASE cur[q] # k
      <3>1. Ended(k, q)
        BY <1>1, <1>5, <2>2 DEF CallOrder, Ops
      <3> QED BY <1>1, <1>5, <1>8, <3>1 DEF NoRankStranded
    <2> QED BY <2>1, <2>2
  <1>10. \A q \in GeneratePeers(r, i) : q \in Ranks
    BY PeersAreRanks
  <1> QED BY <1>1, <1>5, <1>8, <1>9, <1>10 DEF CanGoOn, At, Released

(* What lets a rank go on stays: no rank leaves a collective again.        *)
LEMMA StillGoesOn ==
  ASSUME TypeOK, NEW r \in Ranks, prog' = prog, cur'[r] = cur[r],
         \A k \in Ops : reached'[k][r] = reached[k][r],
         \A k \in Ops : \A q \in Ranks : reached'[k][q] >= reached[k][q],
         \A k \in Ops : \A q \in Ranks : reached'[k][q] \in 0 .. Rows
  PROVE  Rests(r)
  <1> SUFFICES ASSUME CanGoOn(r) PROVE CanGoOn(r)'
    BY DEF Rests
  <1>1. PICK k \in Ops, i \in 0 .. Rows :
          /\ At(r, k, i)
          /\ IsGenerate(k) => i = 0 \/ Released(k, i, GeneratePeers(r, i))
          /\ ~IsGenerate(k) => i <= Solve /\ (i = 0 \/ Released(k, i, Ranks))
    BY DEF CanGoOn
  <1>2. At(r, k, i)' /\ IsGenerate(k)' = IsGenerate(k)
    BY <1>1 DEF At, IsGenerate
  <1>3. \A q \in Ranks : reached[k][q] \in 0 .. Rows
    BY DEF TypeOK
  <1>4. \A q \in GeneratePeers(r, i) : q \in Ranks
    BY PeersAreRanks
  <1>5. Released(k, i, Ranks) => Released(k, i, Ranks)'
    BY <1>3 DEF Released
  <1>6. Released(k, i, GeneratePeers(r, i)) => Released(k, i, GeneratePeers(r, i))'
    <2>1. GeneratePeers(r, i)' = GeneratePeers(r, i)
      BY DEF GeneratePeers
    <2> QED BY <1>3, <1>4, <2>1 DEF Released
  <1> HIDE DEF IsGenerate
  <1> QED BY <1>1, <1>2, <1>5, <1>6 DEF CanGoOn

LEMMA StepsGoOn == ASSUME TypeOK, [Next]_vars PROVE NobodyHoldsUp
  <1>0. /\ \A q \in Ranks : cur[q] \in 1 .. MaxOps + 1
        /\ \A j \in Ops : \A q \in Ranks : reached[j][q] \in 0 .. Rows
    BY DEF TypeOK
  <1>1. ASSUME NEW s \in Ranks, NEW k \in Ops, cur[s] = k, prog' = prog,
               \/ reached[k][s] < Rows /\ Enter(s, k, reached[k][s] + 1)
               \/ \E o \in Outcomes : End(s, k, o)
        PROVE  NobodyHoldsUp
    <2>1. CASE reached[k][s] < Rows /\ Enter(s, k, reached[k][s] + 1)
      <3>1. reached[k][s] + 1 \in 0 .. Rows
        BY <1>0, <2>1
      <3>2. /\ \A j \in Ops : \A q \in Ranks :
                 reached'[j][q] = IF j = k /\ q = s THEN reached[k][s] + 1 ELSE reached[j][q]
            /\ cur' = cur
        BY <2>1, <3>1, EnterEffect
      <3>3. \A j \in Ops : \A q \in Ranks :
              reached'[j][q] >= reached[j][q] /\ reached'[j][q] \in 0 .. Rows
        BY <1>0, <3>1, <3>2
      <3>4. ASSUME NEW r \in Ranks, r # s PROVE Rests(r)
        BY <1>1, <3>2, <3>3, <3>4, StillGoesOn
      <3>5. Advances(s)
        BY <1>0, <1>1, <3>2 DEF Advances
      <3> QED BY <3>4, <3>5 DEF NobodyHoldsUp
    <2>2. CASE \E o \in Outcomes : End(s, k, o)
      <3>1. /\ \A q \in Ranks : cur'[q] = IF q = s THEN k + 1 ELSE cur[q]
            /\ reached' = reached
        BY <2>2, EndEffect
      <3>2. \A j \in Ops : \A q \in Ranks : reached'[j][q] >= reached[j][q]
        BY <1>0, <3>1
      <3>3. ASSUME NEW r \in Ranks, r # s PROVE Rests(r)
        BY <1>0, <1>1, <3>1, <3>2, <3>3, StillGoesOn
      <3>4. Advances(s)
        BY <1>0, <1>1, <3>1 DEF Advances
      <3> QED BY <3>3, <3>4 DEF NobodyHoldsUp
    <2> QED BY <1>1, <2>1, <2>2
  <1>2. ASSUME NEW s \in Ranks, NEW k \in Ops, Generate(s, k) PROVE NobodyHoldsUp
    <2>1. /\ cur[s] = k /\ prog' = prog
          /\ \/ reached[k][s] < Rows /\ Enter(s, k, reached[k][s] + 1)
             \/ \E o \in Outcomes : End(s, k, o)
      BY <1>2, GenerateStep, Frame
    <2> QED BY <1>1, <2>1
  <1>3. ASSUME NEW s \in Ranks, NEW k \in Ops, Apply(s, k) PROVE NobodyHoldsUp
    <2>1. /\ cur[s] = k /\ prog' = prog /\ reached[k][s] <= Solve
          /\ \/ reached[k][s] < Solve /\ Enter(s, k, reached[k][s] + 1)
             \/ \E o \in Outcomes : End(s, k, o)
      BY <1>3, ApplyStep, Frame
    <2> QED BY <1>0, <1>1, <2>1
  <1>4. CASE UNCHANGED <<callVars, prog>>
    <2>1. /\ cur' = cur /\ reached' = reached /\ prog' = prog
          /\ \A j \in Ops : \A q \in Ranks : reached[j][q] >= reached[j][q]
      BY <1>0, <1>4 DEF callVars
    <2>2. ASSUME NEW r \in Ranks PROVE Rests(r)
      BY <1>0, <2>1, <2>2, StillGoesOn
    <2> QED BY <2>2 DEF NobodyHoldsUp
  <1> QED BY <1>2, <1>3, <1>4 DEF Next, Step, Terminated, SerialGenerate, vars

(* As long as the program runs some rank can go on: the ranks never all    *)
(* wait for each other, nor for one that is back from the call.  A rank    *)
(* that can go on can until it does, and every step of one brings it       *)
(* nearer the end of the program.  This is what EveryCallReturns needs     *)
(* besides fairness.                                                       *)
THEOREM NoDeadlock == Agreement => (Spec => []NobodyWaitsInVain /\ [][NobodyHoldsUp]_vars)
  <1> SUFFICES ASSUME Agreement PROVE Spec => []NobodyWaitsInVain /\ [][NobodyHoldsUp]_vars
    OBVIOUS
  <1>1. UniformInv => NobodyWaitsInVain
    <2> SUFFICES ASSUME UniformInv, ~Finished PROVE \E r \in Ranks : CanGoOn(r)
      BY DEF NobodyWaitsInVain
    <2>1. TypeOK /\ CallOrder
      BY DEF UniformInv, AllOrNothingInv
    <2>2. NoRankStranded
      BY InvUniform
    <2>3. \A k \in Ops : \A r \in Ranks : ~IsGenerate(k) => reached[k][r] <= Solve
      BY DEF UniformInv, CallsAgree, ApplyInv
    <2> QED BY <2>1, <2>2, <2>3, HindmostGoesOn
  <1>2. UniformInv /\ [Next]_vars => NobodyHoldsUp
    BY StepsGoOn DEF UniformInv, AllOrNothingInv
  <1> QED BY <1>1, <1>2, UniformInvariant, PTL DEF Spec
==============================================================================
