----------------------------- MODULE UniformCalls -----------------------------
(***************************************************************************)
(* What the collective calls promise to the application, whatever they do  *)
(* inside: a call is either turned down by every rank before any of them   *)
(* communicates, or joined by every rank; and it ends on all ranks in the  *)
(* same way.  PcgSpmd and KspSpmd implement this specification.            *)
(***************************************************************************)
EXTENDS Integers

CONSTANTS Ranks, Ops, Outcomes

VARIABLES joined,     \* joined[k]: the ranks that communicated in call k
          result      \* result[k][r]: how call k ended on rank r

vars == <<joined, result>>

Returned(k, r) == result[k][r] # "pending"

Init ==
  /\ joined = [k \in Ops |-> {}]
  /\ result = [k \in Ops |-> [r \in Ranks |-> "pending"]]

(* A rank makes its calls one after the other.                             *)
Calling(r, k) ==
  ~Returned(k, r) /\ \A j \in Ops : j < k => Returned(j, r)

(* Rank r starts to communicate: nobody has turned the call down.          *)
Join(r, k) ==
  /\ Calling(r, k)
  /\ r \notin joined[k]
  /\ \A q \in Ranks : Returned(k, q) => q \in joined[k]
  /\ joined' = [joined EXCEPT ![k] = @ \cup {r}]
  /\ UNCHANGED result

(* Call k ends on rank r like it ended on the ranks that are back already. *)
Return(r, k, o) ==
  /\ Calling(r, k)
  /\ \A q \in Ranks : Returned(k, q) => result[k][q] = o
  /\ o = "ok" => joined[k] = Ranks
  /\ r \notin joined[k] => joined[k] = {}
  /\ result' = [result EXCEPT ![k][r] = o]
  /\ UNCHANGED joined

Next == \E r \in Ranks, k \in Ops : \/ Join(r, k)
                                    \/ \E o \in Outcomes : Return(r, k, o)

Spec == Init /\ [][Next]_vars
===============================================================================
