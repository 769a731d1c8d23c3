------------------------------ MODULE SpmdCalls ------------------------------
(***************************************************************************)
(* The collective calls of the distributed wrappers.                       *)
(*                                                                         *)
(* Every rank of an SPMD program issues the same calls (factory generate,  *)
(* solver apply) in the same order, and inside each call every rank goes   *)
(* through the same collectives, numbered 1, 2, ... in source order.  The  *)
(* wrappers' solvers (PcgSpmd, KspSpmd) add the code between them.         *)
(*                                                                         *)
(* MPI is external: a collective is modelled by what the wrappers rely on. *)
(* A rank that enters it waits there for its peers, and a rank that threw  *)
(* out of a call never enters the call's remaining collectives.  What such *)
(* a rank does next (abort, or start the following call) does not complete *)
(* the collective the others wait in, so they wait forever.                *)
(***************************************************************************)
EXTENDS Integers

CONSTANTS N,          \* number of ranks of the communicator
          MaxOps      \* bound: the calls the program makes

ASSUME SizesAssumption == N \in Nat \ {0} /\ MaxOps \in Nat \ {0}

Ranks == 0 .. N - 1
Ops   == 1 .. MaxOps

VARIABLES cur,        \* cur[r]: the call rank r is in, or about to make
          reached,    \* reached[k][r]: collectives of call k rank r entered
          outcome     \* outcome[k][r]: how call k ended on rank r

callVars == <<cur, reached, outcome>>

Pending == "pending"
OK      == "ok"

CallsInit ==
  /\ cur = [r \in Ranks |-> 1]
  /\ reached = [k \in Ops |-> [r \in Ranks |-> 0]]
  /\ outcome = [k \in Ops |-> [r \in Ranks |-> Pending]]

Ended(k, r) == outcome[k][r] # Pending

(* Rank r is in call k, and the last collective it entered is number i     *)
(* (0: it has entered none yet).                                           *)
At(r, k, i) == cur[r] = k /\ reached[k][r] = i

(* The collective i of call k lets go of a rank that waits for peers.      *)
Released(k, i, peers) == \A q \in peers : reached[k][q] >= i

Enter(r, k, i) ==
  /\ reached' = [reached EXCEPT ![k][r] = i]
  /\ UNCHANGED <<cur, outcome>>

(* Call k returns to the application on rank r, normally or by a throw.    *)
End(r, k, o) ==
  /\ outcome' = [outcome EXCEPT ![k][r] = o]
  /\ cur' = [cur EXCEPT ![r] = k + 1]
  /\ UNCHANGED reached

Finished == \A r \in Ranks : cur[r] = MaxOps + 1

-----------------------------------------------------------------------------

(* The ranks never see the same call end differently: if one of them gets  *)
(* an exception, the others that returned got the same one.                *)
UniformOutcome ==
  \A k \in Ops : \A r, q \in Ranks :
     Ended(k, r) /\ Ended(k, q) => outcome[k][r] = outcome[k][q]

(* No rank waits in a collective that another rank, having left the call,  *)
(* will never enter.                                                       *)
NoRankStranded ==
  \A k \in Ops : \A r, q \in Ranks :
     Ended(k, q) => reached[k][r] <= reached[k][q]

(* Every rank returns from every call of the program.                      *)
EveryCallReturns == \A r \in Ranks : <>(cur[r] = MaxOps + 1)
=============================================================================
