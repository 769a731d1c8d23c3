------------------------------- MODULE KspSpmd -------------------------------
(***************************************************************************)
(* solver::Ksp of the PETSc wrapper on a distributed matrix, as all ranks  *)
(* run it: generate (copy of the matrix into PETSc, configuration from an  *)
(* options string under the instance's own prefix, KSPSetUp) and apply.    *)
(* One action per stretch of code between two collectives, as in PcgSpmd.  *)
(* What differs is the state of the process: PETSc's options database and  *)
(* the counter that gives every instance its prefix.                       *)
(***************************************************************************)
EXTENDS SpmdCalls

CONSTANTS
  Requests,       \* the calls a program may contain
  OptionNames,    \* option names; "bad" is one KSPSetFromOptions rejects
  SerialOptions,  \* option sets of serial solvers a rank generates on its own
  MaxSerial,      \* bound: no serial solver once a process has as many KSPs
  LocalFaults     \* steps that may fail on one rank and not on another

GenerateRequests ==
  [kind : {"generate"}, options : SUBSET OptionNames, device : BOOLEAN,
   matrix : {"ordered", "rectangular", "too_large", "unordered", "unsupported"}]

ApplyRequests == [kind : {"apply"}, columns : {1, 2}]

FaultPoints == {"import", "assembly", "vectors", "sync", "setup", "mpi", "solve"}

ASSUME RequestsAssumption == Requests \subseteq GenerateRequests \cup ApplyRequests
ASSUME EnvironmentAssumption ==
  /\ SerialOptions \subseteq SUBSET OptionNames
  /\ MaxSerial \in Nat
  /\ LocalFaults \subseteq FaultPoints

VARIABLES
  prog,       \* the calls the program makes, the same on every rank
  nextId,     \* nextId[r]: next_instance_id of the process
  database,   \* database[r]: <<prefix, option>> pairs in PETSc's database
  instances,  \* instances[r]: what each KSP was to be given, and was given
  flags       \* flags[k][r]: why rank r rejects its operands of apply k

vars == <<callVars, prog, nextId, database, instances, flags>>

-----------------------------------------------------------------------------
(* The collectives of generate, then those of apply, in source order.      *)
Scan          == 1
Assembly      == 2
ImportBarrier == 3
Setup         == 4
SetupBarrier  == 5

Flags         == 1
Solve         == 2

(* A prefix scan only needs the ranks before r, the rest needs everybody.  *)
GeneratePeers(r, i) == IF i = Scan THEN 0 .. r ELSE Ranks

Init ==
  /\ CallsInit
  /\ prog \in [Ops -> Requests]
  /\ nextId = [r \in Ranks |-> 0]
  /\ database = [r \in Ranks |-> {}]
  /\ instances = [r \in Ranks |-> {}]
  /\ flags = [k \in Ops |-> [r \in Ranks |-> {}]]

IsGenerate(k) == prog[k].kind = "generate"
Fault(f)      == f \in LocalFaults
SyncFault(k)  == Fault("sync") /\ prog[k].device

-----------------------------------------------------------------------------
(* The options a KSP reads from the database: those under its prefix.      *)
OptionsUnder(db, id) == {o \in OptionNames : <<id, o>> \in db}

(* Variant of NewInstance: the counter stays where it is.                  *)
NewInstanceSamePrefix(r, options) ==
  LET db == database[r] \cup {<<nextId[r], o>> : o \in options}
  IN /\ nextId' = nextId
     /\ database' = [database EXCEPT ![r] = db]
     /\ instances' = [instances EXCEPT ![r] = @ \cup
          {[id |-> nextId[r], asked |-> options,
            got |-> OptionsUnder(db, nextId[r])]}]

(* A KSP is created and configured: it draws a prefix, its options go into *)
(* the process-wide database under it, where they stay, and it reads them. *)
NewInstance(r, options) ==
  LET db == database[r] \cup {<<nextId[r], o>> : o \in options}
  IN /\ nextId' = [nextId EXCEPT ![r] = @ + 1]
     /\ database' = [database EXCEPT ![r] = db]
     /\ instances' = [instances EXCEPT ![r] = @ \cup
          {[id |-> nextId[r], asked |-> options,
            got |-> OptionsUnder(db, nextId[r])]}]

(* A serial solver on rank r alone, between two collective calls.          *)
SerialGenerate(r, options) ==
  /\ cur[r] \in Ops /\ reached[cur[r]][r] = 0
  /\ nextId[r] < MaxSerial
  /\ NewInstance(r, options)
  /\ UNCHANGED <<callVars, prog, flags>>

(* Ksp's constructor up to the first collective: the rejections are        *)
(* decided by the global matrix, so every rank decides alike; the copies   *)
(* of the two blocks to the host may fail on one.                          *)
GenerateVerdict(q) ==
  CASE q.matrix = "rectangular" -> "dimension_mismatch"
    [] q.matrix = "too_large" -> "petsc_int"
    [] q.matrix \in {"unordered", "unsupported"} -> "not_supported"
    [] OTHER -> "enter"

GenerateEntry(r, k) ==
  /\ At(r, k, 0) /\ IsGenerate(k)
  /\ LET verdict == GenerateVerdict(prog[k])
     IN \/ verdict = "enter" /\ Enter(r, k, Scan)
        \/ verdict = "enter" /\ Fault("import") /\ End(r, k, "import")
        \/ verdict # "enter" /\ End(r, k, verdict)
  /\ UNCHANGED <<prog, nextId, database, instances, flags>>

Resume(r, k, i) ==
  At(r, k, i) /\ IsGenerate(k) /\ Released(k, i, GeneratePeers(r, i))

(* GKO_ASSERT_NO_MPI_ERRORS on the wrapper's own collectives: MPI returns  *)
(* an error to this rank, which throws, whether or not the others came.    *)
CollectiveFails(r, k, i) == At(r, k, i) /\ Fault("mpi") /\ End(r, k, "mpi")

(* The triplets of this rank's rows; MatSetPreallocationCOO is collective. *)
ImportTriplets(r, k) ==
  /\ IsGenerate(k)
  /\ \/ Resume(r, k, Scan) /\ Enter(r, k, Assembly)
     \/ Resume(r, k, Scan) /\ Fault("import") /\ End(r, k, "import")
     \/ CollectiveFails(r, k, Scan)
  /\ UNCHANGED <<prog, nextId, database, instances, flags>>

(* Values set, KSP created and configured, vectors created.                *)
Configure(r, k) ==
  /\ Resume(r, k, Assembly)
  /\ NewInstance(r, prog[k].options)
  /\ \/ "bad" \in prog[k].options /\ End(r, k, "bad_option")
     \/ "bad" \notin prog[k].options
        /\ \/ Enter(r, k, ImportBarrier)
           \/ Fault("vectors") /\ End(r, k, "vectors")
           \/ SyncFault(k) /\ End(r, k, "sync")
  /\ UNCHANGED <<prog, flags>>

(* MatSetPreallocationCOO or MatSetValuesCOO failed on this rank.          *)
AssemblyFails(r, k) ==
  /\ Resume(r, k, Assembly)
  /\ Fault("assembly") /\ End(r, k, "assembly")
  /\ UNCHANGED <<prog, nextId, database, instances, flags>>

(* The import phase ends when all ranks did; KSPSetUp starts.               *)
StartSetup(r, k) ==
  /\ IsGenerate(k)
  /\ \/ Resume(r, k, ImportBarrier) /\ Enter(r, k, Setup)
     \/ CollectiveFails(r, k, ImportBarrier)
  /\ UNCHANGED <<prog, nextId, database, instances, flags>>

FinishSetup(r, k) ==
  /\ Resume(r, k, Setup)
  /\ \/ Enter(r, k, SetupBarrier)
     \/ Fault("setup") /\ End(r, k, "setup")
     \/ SyncFault(k) /\ End(r, k, "sync")
  /\ UNCHANGED <<prog, nextId, database, instances, flags>>

(* Variant of FinishGenerate: the end of the setup is not awaited.         *)
FinishGenerateUnawaited(r, k) ==
  /\ At(r, k, SetupBarrier) /\ IsGenerate(k)
  /\ End(r, k, OK)
  /\ UNCHANGED <<prog, nextId, database, instances, flags>>

(* The barrier that ends the setup is the constructor's last step: an MPI  *)
(* error there is thrown on its rank, and nothing tells the others.        *)
FinishGenerate(r, k) ==
  /\ IsGenerate(k)
  /\ \/ Resume(r, k, SetupBarrier) /\ End(r, k, OK)
     \/ CollectiveFails(r, k, SetupBarrier)
  /\ UNCHANGED <<prog, nextId, database, instances, flags>>

-----------------------------------------------------------------------------
(* The solver apply k uses: one an earlier generate returned to rank r.    *)
HasSolver(r, k) == \E j \in Ops : j < k /\ IsGenerate(j) /\ outcome[j][r] = OK

Operands == [distributed : BOOLEAN, unitStride : BOOLEAN, rowsMatch : BOOLEAN]

(* The operands are only looked into once the casts have succeeded.        *)
LocalFlags(o) ==
  IF ~o.distributed THEN {"bad_cast"}
  ELSE {f \in {"stride", "size"} : \/ f = "stride" /\ ~o.unitStride
                                   \/ f = "size" /\ ~o.rowsMatch}

ApplyEntry(r, k) ==
  /\ At(r, k, 0) /\ ~IsGenerate(k)
  /\ \/ ~HasSolver(r, k) /\ End(r, k, "no_solver") /\ UNCHANGED flags
     \/ /\ HasSolver(r, k) /\ prog[k].columns # 1
        /\ End(r, k, "dimension_mismatch")
        /\ UNCHANGED flags
     \/ /\ HasSolver(r, k) /\ prog[k].columns = 1
        /\ \E o \in Operands : flags' = [flags EXCEPT ![k][r] = LocalFlags(o)]
        /\ Enter(r, k, Flags)
  /\ UNCHANGED <<prog, nextId, database, instances>>

(* Variant of ReducedFlags: each rank throws on its own flags.             *)
ReducedFlagsHere(r, k) == flags[k][r]

(* The bitwise or over the ranks, and the rejection it makes all throw.    *)
ReducedFlags(r, k) == UNION {flags[k][q] : q \in Ranks}

Rejection(f) == IF "bad_cast" \in f THEN "bad_cast"
                ELSE IF "stride" \in f THEN "stride" ELSE "size"

RejectOrSolve(r, k) ==
  /\ ~IsGenerate(k)
  /\ \/ /\ At(r, k, Flags) /\ Released(k, Flags, Ranks)
        /\ LET f == ReducedFlags(r, k)
           IN \/ f # {} /\ End(r, k, Rejection(f))
              \/ f = {} /\ Enter(r, k, Solve)
              \/ f = {} /\ Fault("solve") /\ End(r, k, "solve")
     \/ CollectiveFails(r, k, Flags)
  /\ UNCHANGED <<prog, nextId, database, instances, flags>>

(* KSPSolve returned; not converging is no error.                          *)
FinishSolve(r, k) ==
  /\ At(r, k, Solve) /\ ~IsGenerate(k)
  /\ Released(k, Solve, Ranks)
  /\ \/ End(r, k, OK)
     \/ Fault("solve") /\ End(r, k, "solve")
  /\ UNCHANGED <<prog, nextId, database, instances, flags>>

-----------------------------------------------------------------------------
Generate(r, k) ==
  \/ GenerateEntry(r, k)
  \/ ImportTriplets(r, k)
  \/ Configure(r, k)
  \/ AssemblyFails(r, k)
  \/ StartSetup(r, k)
  \/ FinishSetup(r, k)
  \/ FinishGenerate(r, k)

Apply(r, k) ==
  \/ ApplyEntry(r, k)
  \/ RejectOrSolve(r, k)
  \/ FinishSolve(r, k)

Step(r) == \E k \in Ops : Generate(r, k) \/ Apply(r, k)

(* The program is over on every rank.                                      *)
Terminated == Finished /\ UNCHANGED vars

Next ==
  \/ \E r \in Ranks : Step(r) \/ \E o \in SerialOptions : SerialGenerate(r, o)
  \/ Terminated

Spec == Init /\ [][Next]_vars

(* Each rank is a process the operating system keeps running.              *)
FairSpec == Spec /\ \A r \in Ranks : WF_vars(Step(r))

-----------------------------------------------------------------------------
Outcomes == {OK, "dimension_mismatch", "petsc_int", "not_supported", "import",
             "assembly", "bad_option", "vectors", "sync", "setup", "mpi",
             "no_solver", "bad_cast", "stride", "size", "solve"}

(* Types.  Every prefix in use, in the database or by a KSP, has been drawn *)
(* from the process's counter and is behind it (next_instance_id).         *)
TypeOK ==
  /\ prog \in [Ops -> Requests]
  /\ cur \in [Ranks -> 1 .. MaxOps + 1]
  /\ reached \in [Ops -> [Ranks -> 0 .. SetupBarrier]]
  /\ outcome \in [Ops -> [Ranks -> Outcomes \cup {Pending}]]
  /\ nextId \in [Ranks -> Nat]
  /\ flags \in [Ops -> [Ranks -> SUBSET {"bad_cast", "stride", "size"}]]
  /\ \A r \in Ranks :
       /\ database[r] \subseteq (0 .. nextId[r] - 1) \X OptionNames
       /\ instances[r] \subseteq [id : 0 .. nextId[r] - 1,
                                   asked : SUBSET OptionNames,
                                   got : SUBSET OptionNames]

(* Every KSP is configured with exactly the options of its own factory,    *)
(* though all instances of a process, distributed ones and the serial ones *)
(* a rank makes on its own, share one options database that is never       *)
(* cleared (the per-instance prefix of Ksp's constructor).                 *)
OwnOptions == \A r \in Ranks : \A i \in instances[r] : i.got = i.asked

(* generate is all or nothing up to its last barrier: where one rank holds *)
(* a solver every rank has come to the barrier that ends the setup, and    *)
(* one that threw did so on an MPI error of its own in it (timing.hpp:39). *)
(* Whatever fails before, and wherever, no rank gets a solver.             *)
AllOrNothing ==
  \A k \in Ops : \A r, q \in Ranks :
     IsGenerate(k) /\ outcome[k][r] = OK =>
       reached[k][q] = SetupBarrier /\ outcome[k][q] \in {OK, Pending, "mpi"}

(* The timed phases do not overlap between ranks: no rank is in KSPSetUp   *)
(* while another still imports (end_of_phase).                             *)
PhasesSeparated ==
  \A k \in Ops : \A r, q \in Ranks :
     IsGenerate(k) /\ reached[k][r] >= Setup => reached[k][q] >= ImportBarrier

(* No rank enters KSPSolve while any rank's operands are unusable.         *)
SolveOnlyUsable ==
  \A k \in Ops : \A r, q \in Ranks :
     ~IsGenerate(k) /\ reached[k][r] >= Solve =>
        reached[k][q] >= Flags /\ flags[k][q] = {}

(* The calls as the application sees them: all ranks turn a call down, or  *)
(* all join it and it ends alike on all of them.                           *)
Uniform == INSTANCE UniformCalls
  WITH joined <- [k \in Ops |-> {r \in Ranks : reached[k][r] > 0}],
       result <- outcome

ImplementsUniform == Uniform!Spec
=============================================================================
