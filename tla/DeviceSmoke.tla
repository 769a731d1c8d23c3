------------------------------ MODULE DeviceSmoke ------------------------------
(***************************************************************************)
(* tools/device_smoke.cpp on several ranks: an executor for each, then per *)
(* repetition a collective generate, a collective apply and a verification *)
(* by reductions, and the exit status each rank ends with.  What happens   *)
(* within generate and apply is PcgSpmd's subject; here they end alike on  *)
(* all ranks, unless a failure on one rank keeps it from joining in.       *)
(***************************************************************************)
EXTENDS Integers

CONSTANTS
  NumRanks,
  MaxReps         \* bound: --reps

Calls == {"generate", "apply", "verify"}

ASSUME SmokeAssumption == NumRanks \in Nat \ {0} /\ MaxReps \in Nat

Ranks == 0..NumRanks - 1

VARIABLES
  reps,       \* --reps, 0 if the arguments are invalid
  backend,    \* Ginkgo has the executor's backend
  fault,      \* the place where a rank may fail alone, or "none"
  at,         \* at[r]: where rank r is in main
  inside,     \* the ranks that have joined the call they are at
  rep,        \* the repetition
  overall,    \* overall[r]: overall_status
  status,     \* status[r]: what main returns
  right       \* no repetition so far had an inaccurate solution

smokeVars == <<reps, backend, fault, at, inside, rep, overall, status, right>>

(* A repetition's outcome: close[r] is whether hypre's and Ginkgo's        *)
(* solutions are close on the rows of rank r.  Where hypre's is not a      *)
(* number the difference vanishes: std::max ignores a NaN.                 *)
Results == {x \in [converged : BOOLEAN, hypre : {"accurate", "inaccurate", "nan"},
                   close : [Ranks -> BOOLEAN]] :
              x.hypre = "nan" => \A r \in Ranks : x.close[r]}

SmokeInit ==
  /\ reps \in 0..MaxReps /\ backend \in BOOLEAN
  /\ fault \in Calls \cup {"executor", "none"}
  /\ at = [r \in Ranks |-> "start"] /\ inside = {} /\ rep = 1
  /\ overall = [r \in Ranks |-> 0] /\ status = [r \in Ranks |-> 0] /\ right = TRUE

(* return s; the objects go, then MPI is finalized.                        *)
Return(r, s) ==
  /\ at' = [at EXCEPT ![r] = "finalize"]
  /\ status' = [status EXCEPT ![r] = s]

-------------------------------------------------------------------------------
(* parse_options: the same arguments on every rank.                        *)
ParseOptions(r) ==
  /\ at[r] = "start"
  /\ IF reps = 0 THEN Return(r, 2)
     ELSE at' = [at EXCEPT ![r] = "executor"] /\ status' = status
  /\ UNCHANGED <<reps, backend, fault, inside, rep, overall, right>>

(* create_executor: the probe allocation finds a missing backend.          *)
CreateExecutor(r) ==
  /\ at[r] = "executor"
  /\ \/ /\ backend
        /\ at' = [at EXCEPT ![r] = "generate"] /\ status' = status
     \/ /\ ~backend \/ fault = "executor"
        /\ Return(r, 2)
  /\ UNCHANGED <<reps, backend, fault, inside, rep, overall, right>>

(* A rank joins the call the others are at, or fails before: main's catch. *)
Join(r) ==
  /\ at[r] \in Calls /\ r \notin inside
  /\ inside' = inside \cup {r}
  /\ UNCHANGED <<reps, backend, fault, at, rep, overall, status, right>>

FailAlone(r) ==
  /\ at[r] \in Calls /\ at[r] = fault /\ r \notin inside
  /\ Return(r, 1)
  /\ UNCHANGED <<reps, backend, fault, inside, rep, overall, right>>

AllInside(c) == inside = Ranks /\ \A r \in Ranks : at[r] = c

(* Generate and apply return, or throw on every rank.                      *)
Complete(c, next) ==
  /\ AllInside(c) /\ inside' = {}
  /\ \/ at' = [r \in Ranks |-> next] /\ status' = status
     \/ at' = [r \in Ranks |-> "finalize"] /\ status' = [r \in Ranks |-> 1]
  /\ UNCHANGED <<reps, backend, fault, rep, overall, right>>

(* max_abs_difference: the maximum of all ranks.                           *)
DiffSmall(x, r) == \A q \in Ranks : x.close[q]

(* The residual of an inaccurate solution is large, a NaN compares false.  *)
ResidualSmall(x) == x.hypre = "accurate"

(* Variant: the residual computed independently is not looked at.          *)
RepOkUnchecked(x, r) == x.converged /\ DiffSmall(x, r)

RepOk(x, r) == x.converged /\ ResidualSmall(x) /\ DiffSmall(x, r)

Overall(x, r) == IF RepOk(x, r) THEN overall[r] ELSE 1

(* Variant: the rank that prints gives up after a failed repetition.       *)
GivesUp(x, r) == rep = reps \/ (r = 0 /\ ~RepOk(x, r))

LeavesLoop(x, r) == rep = reps

Verify ==
  /\ AllInside("verify") /\ inside' = {}
  /\ \E x \in Results :
       /\ overall' = [r \in Ranks |-> Overall(x, r)]
       /\ right' = (right /\ x.converged /\ x.hypre = "accurate")
       /\ at' = [r \in Ranks |-> IF LeavesLoop(x, r) THEN "finalize" ELSE "generate"]
       /\ status' = [r \in Ranks |-> IF LeavesLoop(x, r) THEN overall'[r] ELSE status[r]]
  /\ rep' = IF rep < reps THEN rep + 1 ELSE rep
  /\ UNCHANGED <<reps, backend, fault>>

(* The destructor of mpi_env, which ends when all ranks are there.         *)
Finalize ==
  /\ \A r \in Ranks : at[r] = "finalize"
  /\ at' = [r \in Ranks |-> "exited"]
  /\ UNCHANGED <<reps, backend, fault, inside, rep, overall, status, right>>

Together == Complete("generate", "apply") \/ Complete("apply", "verify") \/ Verify \/ Finalize

Alone(r) == ParseOptions(r) \/ CreateExecutor(r) \/ Join(r) \/ FailAlone(r)

SmokeNext == Together \/ \E r \in Ranks : Alone(r)

(* Ranks run on, and a call all have joined ends.                          *)
SmokeSpec ==
  /\ SmokeInit /\ [][SmokeNext]_smokeVars
  /\ WF_smokeVars(Together) /\ \A r \in Ranks : WF_smokeVars(Alone(r))

-------------------------------------------------------------------------------
Exited == \A r \in Ranks : at[r] = "exited"

(* Types; ranks at different calls cannot both be in one.                  *)
SmokeTypeOK ==
  /\ reps \in 0..MaxReps /\ backend \in BOOLEAN /\ right \in BOOLEAN
  /\ fault \in Calls \cup {"executor", "none"}
  /\ at \in [Ranks -> Calls \cup {"start", "executor", "finalize", "exited"}]
  /\ inside \subseteq {r \in Ranks : at[r] \in Calls} /\ rep \in Nat
  /\ \A q, r \in inside : at[q] = at[r]
  /\ overall \in [Ranks -> {0, 1}] /\ status \in [Ranks -> {0, 1, 2}]

(* All ranks exit alike, and with zero only if every repetition was solved: *)
(* converged, with an accurate solution, in each of them and not only in    *)
(* the last, and whoever's rows the solutions differ on.                    *)
StatusRight ==
  Exited => /\ \A q, r \in Ranks : status[q] = status[r]
            /\ status[0] = 0 => right /\ rep = reps

(* Without a rank that fails alone the driver ends on all ranks: no rank    *)
(* leaves the repetitions before the others.                                *)
EveryRankExits == fault # "none" \/ <>Exited
===============================================================================
