---------------------------- MODULE PcgInvariants ----------------------------
(***************************************************************************)
(* The inductive invariants behind the safety properties of PcgSpmd.  They *)
(* are checked by TLC on the instances of MCPcgSpmd and proved inductive   *)
(* in PcgSpmdProofs.                                                       *)
(***************************************************************************)
EXTENDS PcgSpmd

(* A rank is back from the calls before the one it is in, and has not      *)
(* communicated in the later ones.                                         *)
CallOrder ==
  \A k \in Ops : \A r \in Ranks :
     /\ k < cur[r] <=> Ended(k, r)
     /\ k > cur[r] => reached[k][r] = 0

(* A rank in the last reduction of generate has every rank behind it in    *)
(* the one before, without an error; a call only succeeds when all are in  *)
(* the last, where a rank then fails alone or not at all.                  *)
SolverInv(k, r) ==
  /\ reached[k][r] = Rows =>
       \A q \in Ranks : reached[k][q] >= Levels /\ hierErr[k][q] = 0
  /\ outcome[k][r] = OK => \A q \in Ranks : reached[k][q] = Rows
  /\ Ended(k, r) /\ reached[k][r] = Rows => outcome[k][r] \in {OK, "mpi", "memory"}
  /\ outcome[k][r] = "hierarchy" =>
       /\ reached[k][r] = Levels
       /\ \A q \in Ranks : reached[k][q] >= Levels
       /\ \E q \in Ranks : hierErr[k][q] # 0

SolversComplete == \A k \in Ops : \A r \in Ranks : IsGenerate(k) => SolverInv(k, r)

AllOrNothingInv == TypeOK /\ CallOrder /\ SolversComplete

-----------------------------------------------------------------------------
(* The hypotheses under which the ranks agree: nothing but the hierarchy   *)
(* query fails on a rank alone, and a rank's own serial solvers, if any,   *)
(* are on the executor kind of all distributed ones.                       *)
Agreement ==
  /\ LocalFaults \subseteq {"hierarchy"}
  /\ \/ SerialLocs = {}
     \/ \E l \in Locations :
          /\ SerialLocs = {l}
          /\ \A q \in Requests : q.kind = "generate" => q.location = l

(* Call k sets the policy unless one is in force; it is the first to.      *)
Installs(k) ==
  IsGenerate(k) /\ prog[k].matrix # "rectangular" /\ ~NoDevice(prog[k].location)

FirstInstaller(k) == Installs(k) /\ \A j \in Ops : j < k => ~Installs(j)

(* Rank r has gone through the policy check of call k.                     *)
PolicyChecked(r, k) == k < cur[r] \/ reached[k][r] >= Scan

(* Where a rank's policy comes from: a serial solver of its own, or the    *)
(* first call of the program that could set it.                            *)
PolicyOrigin ==
  \A r \in Ranks :
     \/ active[r] = "none"
        /\ \A k \in Ops : PolicyChecked(r, k) => ~Installs(k)
     \/ active[r] \in SerialLocs
     \/ \E k \in Ops : /\ FirstInstaller(k)
                       /\ active[r] = prog[k].location
                       /\ PolicyChecked(r, k)

(* The policy conflict of call k as the program alone determines it, and   *)
(* so the verdict every rank reaches at the call's entry.                  *)
Conflict(k) ==
  \/ NoDevice(prog[k].location)
  \/ \E j \in Ops : /\ j < k
                    /\ FirstInstaller(j)
                    /\ prog[j].location # prog[k].location

ProgramVerdict(k) ==
  IF prog[k].matrix = "rectangular" THEN "dimension_mismatch"
  ELSE IF Conflict(k) THEN "policy"
  ELSE IF prog[k].matrix \in {"unordered", "unsupported"} THEN "not_supported"
  ELSE "enter"

(* How far a rank is in generate, and where it ended, tells what the       *)
(* program and the hierarchy queries made of the call for all ranks.       *)
GenerateInv(k, r) ==
  /\ reached[k][r] >= Scan => ProgramVerdict(k) = "enter"
  /\ reached[k][r] > CommPkg => ~OptionsRejected(prog[k])
  /\ Ended(k, r) =>
       \/ /\ reached[k][r] = 0
          /\ outcome[k][r] = ProgramVerdict(k) /\ outcome[k][r] # "enter"
       \/ /\ reached[k][r] = CommPkg
          /\ outcome[k][r] = "bad_option" /\ OptionsRejected(prog[k])
       \/ reached[k][r] = Levels /\ outcome[k][r] = "hierarchy"
       \/ reached[k][r] = Rows /\ outcome[k][r] = OK

ApplyInv(k, r) ==
  /\ reached[k][r] >= Flags => prog[k].columns = 1 /\ HasSolver(r, k)
  /\ reached[k][r] >= Solve =>
       \A q \in Ranks : reached[k][q] >= Flags /\ flags[k][q] = {}
  /\ reached[k][r] <= Solve
  /\ Ended(k, r) =>
       \/ reached[k][r] = 0 /\ outcome[k][r] = "no_solver" /\ ~HasSolver(r, k)
       \/ /\ reached[k][r] = 0 /\ outcome[k][r] = "dimension_mismatch"
          /\ HasSolver(r, k) /\ prog[k].columns # 1
       \/ /\ reached[k][r] = Flags
          /\ \A q \in Ranks : reached[k][q] >= Flags
          /\ \E q \in Ranks : flags[k][q] # {}
          /\ outcome[k][r] = Rejection(ReducedFlags(r, k))
       \/ reached[k][r] = Solve /\ outcome[k][r] = OK

CallsAgree ==
  \A k \in Ops : \A r \in Ranks :
     /\ IsGenerate(k) => GenerateInv(k, r)
     /\ ~IsGenerate(k) => ApplyInv(k, r)

UniformInv == AllOrNothingInv /\ PolicyOrigin /\ CallsAgree
==============================================================================
