------------------------------- MODULE PcgSpmd -------------------------------
(***************************************************************************)
(* solver::Pcg of the hypre wrapper on a distributed matrix, as all ranks  *)
(* of a communicator run it: the factory's generate (import, configure,    *)
(* setup, hierarchy) and apply, one action per stretch of code between two *)
(* collectives.  Executors, matrices and options are what the rejections   *)
(* of the code tell apart; rank-local failures are the set LocalFaults.    *)
(***************************************************************************)
EXTENDS SpmdCalls

CONSTANTS
  Requests,     \* the calls a program may contain
  Neighbours,   \* Neighbours[r]: ranks r's halo exchange waits for
  SerialLocs,   \* executors of serial solvers a rank may generate on its own
  LocalFaults,  \* steps that may fail on one rank and not on another
  GpuBuild,     \* hypre was built with HYPRE_USING_GPU
  IJInterface   \* hypre >= 2.33: placed vectors go through HYPRE_IJVector

Locations == {"host", "device"}

GenerateRequests ==
  [kind : {"generate"}, location : Locations,
   matrix : {"ordered", "rectangular", "unordered", "unsupported"},
   options : {"valid", "unknown_name", "host_relax"}]

ApplyRequests == [kind : {"apply"}, columns : {1, 2}]

FaultPoints == {"policy", "import", "callback", "vectors", "sync", "setup",
                "hierarchy", "memory", "mpi", "solve"}

ASSUME RequestsAssumption == Requests \subseteq GenerateRequests \cup ApplyRequests
ASSUME EnvironmentAssumption ==
  /\ Neighbours \in [Ranks -> SUBSET Ranks]
  /\ SerialLocs \subseteq Locations
  /\ LocalFaults \subseteq FaultPoints
  /\ GpuBuild \in BOOLEAN
  /\ IJInterface \in BOOLEAN

VARIABLES
  prog,       \* the calls the program makes, the same on every rank
  active,     \* active[r]: the process's hypre memory location, "none" unset
  hierErr,    \* hierErr[k][r]: error code of rank r's grid hierarchy query
  flags       \* flags[k][r]: why rank r rejects its operands of apply k

vars == <<callVars, prog, active, hierErr, flags>>

-----------------------------------------------------------------------------
(* The collectives of generate, then those of apply, in source order.      *)
Scan          == 1
CommPkg       == 2
VectorB       == 3
VectorX       == 4
ImportBarrier == 5
Setup         == 6
SetupBarrier  == 7
Levels        == 8
Rows          == 9

Flags         == 1
Solve         == 2

(* Whom rank r waits for: a prefix scan only needs the ranks before r, the *)
(* communication package its neighbours, and before 2.33 a placed vector   *)
(* nobody; everything else needs all ranks.                                *)
GeneratePeers(r, i) ==
  CASE i = Scan -> 0 .. r
    [] i = CommPkg -> Neighbours[r] \cup {r}
    [] i \in {VectorB, VectorX} /\ ~IJInterface -> {r}
    [] OTHER -> Ranks

Init ==
  /\ CallsInit
  /\ prog \in [Ops -> Requests]
  /\ active = [r \in Ranks |-> "none"]
  /\ hierErr = [k \in Ops |-> [r \in Ranks |-> 0]]
  /\ flags = [k \in Ops |-> [r \in Ranks |-> {}]]

IsGenerate(k) == prog[k].kind = "generate"

-----------------------------------------------------------------------------
(* hypre without GPU support would take device pointers for host memory.   *)
NoDevice(l) == l = "device" /\ ~GpuBuild

(* Variant of PolicyThrows: no comparison with the location in force.      *)
PolicyThrowsBuildOnly(a, l) == NoDevice(l)

(* set_process_policy: hypre's memory location is global to the process    *)
(* and the first solver decides it.                                        *)
PolicyThrows(a, l) ==
  \/ a # "none" /\ a # l
  \/ NoDevice(l)

PolicyAfter(a, l) == IF PolicyThrows(a, l) THEN a ELSE l

(* A serial solver on rank r alone, between two collective calls: none of  *)
(* its calls involve another rank, but it may install the policy.          *)
SerialGenerate(r, l) ==
  /\ cur[r] \in Ops /\ reached[cur[r]][r] = 0
  /\ PolicyAfter(active[r], l) # active[r]
  /\ active' = [active EXCEPT ![r] = PolicyAfter(@, l)]
  /\ UNCHANGED <<callVars, prog, hierErr, flags>>

(* Pcg's constructor up to the first collective.  The policy is set before *)
(* the matrix is looked at, so a solver that is then rejected has set it.  *)
(* "unsupported" stands for any rejection that depends on the global       *)
(* matrix alone, its type or a size beyond HYPRE_BigInt.                   *)
GenerateVerdict(a, q) ==
  CASE q.matrix = "rectangular" -> "dimension_mismatch"
    [] q.matrix # "rectangular" /\ PolicyThrows(a, q.location) -> "policy"
    [] q.matrix \in {"unordered", "unsupported"}
       /\ ~PolicyThrows(a, q.location) -> "not_supported"
    [] OTHER -> "enter"

Fault(f) == f \in LocalFaults

(* The two hypre calls that install the policy are made by the first       *)
(* solver only; when one fails nothing is remembered.                      *)
InstallMayFail(a, q) ==
  /\ Fault("policy") /\ a = "none"
  /\ q.matrix # "rectangular" /\ ~PolicyThrows(a, q.location)

GenerateEntry(r, k) ==
  /\ At(r, k, 0) /\ IsGenerate(k)
  /\ LET q == prog[k]
         verdict == GenerateVerdict(active[r], q)
     IN \/ /\ active' = [active EXCEPT ![r] =
                           IF q.matrix = "rectangular" THEN @
                           ELSE PolicyAfter(@, q.location)]
           /\ \/ verdict = "enter" /\ Enter(r, k, Scan)
              \/ verdict # "enter" /\ End(r, k, verdict)
        \/ InstallMayFail(active[r], q) /\ End(r, k, "install") /\ UNCHANGED active
  /\ UNCHANGED <<prog, hierErr, flags>>

(* A step of generate: the collective i lets r go, and r runs to the next  *)
(* one or throws.                                                          *)
Resume(r, k, i) ==
  At(r, k, i) /\ IsGenerate(k) /\ Released(k, i, GeneratePeers(r, i))

(* GKO_ASSERT_NO_MPI_ERRORS on the wrapper's own collectives: MPI returns  *)
(* an error to this rank, which throws, whether or not the others came.    *)
CollectiveFails(r, k, i) == At(r, k, i) /\ Fault("mpi") /\ End(r, k, "mpi")

(* hypre_SyncDevice only runs, and only fails, for a device solver.        *)
SyncFault(k) == Fault("sync") /\ prog[k].location = "device"

(* The blocks, the diagonal reordering, col_map_offd.                      *)
ImportBlocks(r, k) ==
  /\ IsGenerate(k)
  /\ \/ Resume(r, k, Scan) /\ Enter(r, k, CommPkg)
     \/ Resume(r, k, Scan) /\ Fault("import") /\ End(r, k, "import")
     \/ CollectiveFails(r, k, Scan)
  /\ UNCHANGED <<prog, active, hierErr, flags>>

(* relax types without a device implementation are rejected on a device.   *)
OptionsRejected(q) ==
  \/ q.options = "unknown_name"
  \/ q.options = "host_relax" /\ q.location = "device"

(* The communication package built, BoomerAMG and PCG created, configured  *)
(* and shown to the callbacks, the setup vectors' arrays allocated.        *)
Configure(r, k) ==
  /\ Resume(r, k, CommPkg)
  /\ \/ Fault("import") /\ End(r, k, "import")
     \/ OptionsRejected(prog[k]) /\ End(r, k, "bad_option")
     \/ ~OptionsRejected(prog[k])
        /\ \/ Enter(r, k, VectorB)
           \/ Fault("callback") /\ End(r, k, "callback")
           \/ Fault("vectors") /\ End(r, k, "vectors")
  /\ UNCHANGED <<prog, active, hierErr, flags>>

PlaceB(r, k) ==
  /\ Resume(r, k, VectorB)
  /\ \/ Enter(r, k, VectorX)
     \/ Fault("vectors") /\ End(r, k, "vectors")
  /\ UNCHANGED <<prog, active, hierErr, flags>>

PlaceX(r, k) ==
  /\ Resume(r, k, VectorX)
  /\ \/ Enter(r, k, ImportBarrier)
     \/ Fault("vectors") /\ End(r, k, "vectors")
     \/ SyncFault(k) /\ End(r, k, "sync")
  /\ UNCHANGED <<prog, active, hierErr, flags>>

(* Variant of StartSetup: the end of the import phase is not awaited.      *)
StartSetupUnawaited(r, k) ==
  /\ At(r, k, ImportBarrier) /\ IsGenerate(k)
  /\ Enter(r, k, Setup)
  /\ UNCHANGED <<prog, active, hierErr, flags>>

(* The import phase ends when all ranks did; HYPRE_ParCSRPCGSetup starts.  *)
StartSetup(r, k) ==
  /\ IsGenerate(k)
  /\ \/ Resume(r, k, ImportBarrier) /\ Enter(r, k, Setup)
     \/ CollectiveFails(r, k, ImportBarrier)
  /\ UNCHANGED <<prog, active, hierErr, flags>>

FinishSetup(r, k) ==
  /\ Resume(r, k, Setup)
  /\ \/ Enter(r, k, SetupBarrier)
     \/ Fault("setup") /\ End(r, k, "setup")
     \/ SyncFault(k) /\ End(r, k, "sync")
  /\ UNCHANGED <<prog, active, hierErr, flags>>

(* Variant of QueryHierarchy: the error is thrown at once.                 *)
QueryHierarchyThrowing(r, k) ==
  /\ Resume(r, k, SetupBarrier)
  /\ \/ Enter(r, k, Levels)
     \/ Fault("hierarchy") /\ End(r, k, "hierarchy")
  /\ UNCHANGED <<prog, active, hierErr, flags>>

(* Variant of QueryHierarchy: the rank whose query fails takes back the    *)
(* policy.                                                                 *)
QueryHierarchyUndoing(r, k) ==
  /\ Resume(r, k, SetupBarrier)
  /\ Enter(r, k, Levels)
  /\ \E code \in {0, 1} :
       /\ code # 0 => Fault("hierarchy")
       /\ hierErr' = [hierErr EXCEPT ![k][r] = code]
       /\ active' = [active EXCEPT ![r] = IF code = 0 THEN @ ELSE "none"]
  /\ UNCHANGED <<prog, flags>>

(* The grid hierarchy query may fail on this rank only: the error is kept  *)
(* for the reduction instead of being thrown here.  The barrier before it  *)
(* and the allocation of last_level throw.                                 *)
QueryHierarchy(r, k) ==
  /\ IsGenerate(k)
  /\ \/ /\ Resume(r, k, SetupBarrier)
        /\ Enter(r, k, Levels)
        /\ \E code \in {0, 1} :
             /\ code # 0 => Fault("hierarchy")
             /\ hierErr' = [hierErr EXCEPT ![k][r] = code]
     \/ /\ \/ CollectiveFails(r, k, SetupBarrier)
           \/ /\ Resume(r, k, SetupBarrier)
              /\ Fault("memory") /\ End(r, k, "memory")
        /\ UNCHANGED hierErr
  /\ UNCHANGED <<prog, active, flags>>

(* Variant of HierarchyFailed: the error codes are not reduced.            *)
HierarchyFailedHere(r, k) == hierErr[k][r] # 0

(* The maximum over the ranks' error codes is nonzero.                     *)
HierarchyFailed(r, k) == \E q \in Ranks : hierErr[k][q] # 0

(* The levels agreed on, each rank counts its rows per level.              *)
ReduceLevels(r, k) ==
  /\ IsGenerate(k)
  /\ \/ /\ Resume(r, k, Levels)
        /\ \/ HierarchyFailed(r, k) /\ End(r, k, "hierarchy")
           \/ /\ ~HierarchyFailed(r, k)
              /\ Enter(r, k, Rows) \/ (Fault("memory") /\ End(r, k, "memory"))
     \/ CollectiveFails(r, k, Levels)
  /\ UNCHANGED <<prog, active, hierErr, flags>>

(* Variant of ReduceRows: the counts are summed on rank 0 only, so that no *)
(* other rank waits for all of them.                                       *)
ReduceRowsOnRoot(r, k) ==
  /\ IsGenerate(k)
  /\ \/ At(r, k, Rows) /\ (r = 0 => Released(k, Rows, Ranks)) /\ End(r, k, OK)
     \/ Resume(r, k, Rows) /\ Fault("memory") /\ End(r, k, "memory")
     \/ CollectiveFails(r, k, Rows)
  /\ UNCHANGED <<prog, active, hierErr, flags>>

(* The counts summed and stored: what still throws here throws on a rank   *)
(* of its own, and nothing tells the others.                               *)
ReduceRows(r, k) ==
  /\ IsGenerate(k)
  /\ \/ Resume(r, k, Rows) /\ End(r, k, OK)
     \/ Resume(r, k, Rows) /\ Fault("memory") /\ End(r, k, "memory")
     \/ CollectiveFails(r, k, Rows)
  /\ UNCHANGED <<prog, active, hierErr, flags>>

-----------------------------------------------------------------------------
(* The solver apply k uses: one an earlier generate returned to rank r.    *)
HasSolver(r, k) == \E j \in Ops : j < k /\ IsGenerate(j) /\ outcome[j][r] = OK

(* What rank r passes to apply: distributed vectors or not, their stride   *)
(* one or not, their local rows those of the matrix or not.                *)
Operands == [distributed : BOOLEAN, unitStride : BOOLEAN, rowsMatch : BOOLEAN]

(* Variant of LocalFlags: the operands are looked into without a check.    *)
LocalFlagsUnchecked(o) ==
  {f \in {"bad_cast", "stride", "size"} :
     \/ f = "bad_cast" /\ ~o.distributed
     \/ f = "stride" /\ ~o.unitStride
     \/ f = "size" /\ ~o.rowsMatch}

(* The operands are only looked into once the casts have succeeded.        *)
LocalFlags(o) ==
  IF ~o.distributed THEN {"bad_cast"}
  ELSE {f \in {"stride", "size"} : \/ f = "stride" /\ ~o.unitStride
                                   \/ f = "size" /\ ~o.rowsMatch}

LegalFlags == {{}, {"bad_cast"}, {"stride"}, {"size"}, {"stride", "size"}}

(* apply up to the reduction of the rank-local rejections.  An application *)
(* that holds no solver has nothing to call.                               *)
ApplyEntry(r, k) ==
  /\ At(r, k, 0) /\ ~IsGenerate(k)
  /\ \/ ~HasSolver(r, k) /\ End(r, k, "no_solver") /\ UNCHANGED flags
     \/ /\ HasSolver(r, k) /\ prog[k].columns # 1
        /\ End(r, k, "dimension_mismatch")
        /\ UNCHANGED flags
     \/ /\ HasSolver(r, k) /\ prog[k].columns = 1
        /\ \E o \in Operands : flags' = [flags EXCEPT ![k][r] = LocalFlags(o)]
        /\ Enter(r, k, Flags)
  /\ UNCHANGED <<prog, active, hierErr>>

(* Variant of ReducedFlags: each rank throws on its own flags.             *)
ReducedFlagsHere(r, k) == flags[k][r]

(* The bitwise or over the ranks, and the rejection it makes all throw.    *)
ReducedFlags(r, k) == UNION {flags[k][q] : q \in Ranks}

Rejection(f) == IF "bad_cast" \in f THEN "bad_cast"
                ELSE IF "stride" \in f THEN "stride" ELSE "size"

(* The operands rejected by all, or placed in the vectors of the setup:    *)
(* from 2.33 on that is a hypre call, checked on each rank.                *)
RejectOrSolve(r, k) ==
  /\ ~IsGenerate(k)
  /\ \/ /\ At(r, k, Flags) /\ Released(k, Flags, Ranks)
        /\ LET f == ReducedFlags(r, k)
           IN \/ f # {} /\ End(r, k, Rejection(f))
              \/ f = {} /\ Enter(r, k, Solve)
              \/ f = {} /\ IJInterface /\ Fault("vectors") /\ End(r, k, "vectors")
     \/ CollectiveFails(r, k, Flags)
  /\ UNCHANGED <<prog, active, hierErr, flags>>

(* HYPRE_ParCSRPCGSolve returned; a fatal hypre error is thrown.           *)
FinishSolve(r, k) ==
  /\ At(r, k, Solve) /\ ~IsGenerate(k)
  /\ Released(k, Solve, Ranks)
  /\ \/ End(r, k, OK)
     \/ Fault("solve") /\ End(r, k, "solve")
  /\ UNCHANGED <<prog, active, hierErr, flags>>

-----------------------------------------------------------------------------
Generate(r, k) ==
  \/ GenerateEntry(r, k)
  \/ ImportBlocks(r, k)
  \/ Configure(r, k)
  \/ PlaceB(r, k)
  \/ PlaceX(r, k)
  \/ StartSetup(r, k)
  \/ FinishSetup(r, k)
  \/ QueryHierarchy(r, k)
  \/ ReduceLevels(r, k)
  \/ ReduceRows(r, k)

Apply(r, k) ==
  \/ ApplyEntry(r, k)
  \/ RejectOrSolve(r, k)
  \/ FinishSolve(r, k)

Step(r) == \E k \in Ops : Generate(r, k) \/ Apply(r, k)

(* The program is over on every rank.                                      *)
Terminated == Finished /\ UNCHANGED vars

Next ==
  \/ \E r \in Ranks : Step(r) \/ \E l \in SerialLocs : SerialGenerate(r, l)
  \/ Terminated

Spec == Init /\ [][Next]_vars

(* Each rank is a process the operating system keeps running.              *)
FairSpec == Spec /\ \A r \in Ranks : WF_vars(Step(r))

-----------------------------------------------------------------------------
Outcomes == {OK, "dimension_mismatch", "policy", "not_supported", "install",
             "import", "bad_option", "callback", "vectors", "sync", "setup",
             "hierarchy", "memory", "mpi", "no_solver", "bad_cast", "stride",
             "size", "solve"}

(* Types.  A rank that rejects its operands for their type says nothing of *)
(* their stride or size: it has not looked (apply_impl).                   *)
TypeOK ==
  /\ prog \in [Ops -> Requests]
  /\ cur \in [Ranks -> 1 .. MaxOps + 1]
  /\ reached \in [Ops -> [Ranks -> 0 .. Rows]]
  /\ outcome \in [Ops -> [Ranks -> Outcomes \cup {Pending}]]
  /\ active \in [Ranks -> Locations \cup {"none"}]
  /\ hierErr \in [Ops -> [Ranks -> {0, 1}]]
  /\ flags \in [Ops -> [Ranks -> LegalFlags]]

(* generate is all or nothing up to its last reduction: where one rank     *)
(* holds a solver every rank has come to that reduction, and one that      *)
(* threw did so on an MPI error or a failed allocation of its own in it    *)
(* (pcg.hpp:485-491).  Whatever fails before, and wherever, no rank gets a *)
(* solver.                                                                 *)
AllOrNothing ==
  \A k \in Ops : \A r, q \in Ranks :
     IsGenerate(k) /\ outcome[k][r] = OK =>
       reached[k][q] = Rows /\ outcome[k][q] \in {OK, Pending, "mpi", "memory"}

(* The timed phases do not overlap between ranks: no rank is in hypre's    *)
(* setup while another still imports, and none takes the end of the setup  *)
(* before all have finished theirs (end_of_phase, get_import_time and      *)
(* get_setup_time).                                                        *)
PhasesSeparated ==
  \A k \in Ops : \A r, q \in Ranks :
     IsGenerate(k) =>
       /\ reached[k][r] >= Setup => reached[k][q] >= ImportBarrier
       /\ reached[k][r] >= Levels => reached[k][q] >= SetupBarrier

(* hypre runs every solver of a process in one memory location for the     *)
(* process's whole life: a solver that got past its policy check, built    *)
(* now or earlier, is at the location in force (set_process_policy).       *)
OneLocation ==
  \A k \in Ops : \A r \in Ranks :
     IsGenerate(k) /\ reached[k][r] >= Scan => active[r] = prog[k].location

(* No rank enters hypre's solve while any rank's operands are unusable:    *)
(* the rejections are reduced before anybody goes on (apply_impl).         *)
SolveOnlyUsable ==
  \A k \in Ops : \A r, q \in Ranks :
     ~IsGenerate(k) /\ reached[k][r] >= Solve =>
        reached[k][q] >= Flags /\ flags[k][q] = {}

(* A policy conflict is reported by every rank or by none: where one rank  *)
(* throws it no other rank has gone on into the collectives (the comment   *)
(* on the set_process_policy call of build_distributed_par_csr).           *)
PolicyConflictUniform ==
  \A k \in Ops : \A r, q \in Ranks :
     outcome[k][r] = "policy" => reached[k][q] = 0

(* The calls as the application sees them: all ranks turn a call down, or  *)
(* all join it and it ends alike on all of them.                           *)
Uniform == INSTANCE UniformCalls
  WITH joined <- [k \in Ops |-> {r \in Ranks : reached[k][r] > 0}],
       result <- outcome

ImplementsUniform == Uniform!Spec
=============================================================================
