------------------------------ MODULE MCKspSpmd ------------------------------
(* Instances of KspSpmd for TLC.                                           *)
EXTENDS KspSpmd

Gen(o, d, m) == [kind |-> "generate", options |-> o, device |-> d, matrix |-> m]
App(c)       == [kind |-> "apply", columns |-> c]

Names == {"max_it", "pc_type", "bad"}

(* Every reason to turn a request down, and the requests that succeed.     *)
AllKinds ==
  {Gen({"max_it", "pc_type"}, FALSE, "ordered"), Gen({"pc_type"}, FALSE, "ordered"),
   Gen({"bad"}, FALSE, "ordered"), Gen({}, FALSE, "rectangular"),
   Gen({}, FALSE, "too_large"), Gen({}, TRUE, "unordered"), App(1), App(2)}

FaultyRequests ==
  {Gen({"max_it"}, TRUE, "ordered"), Gen({"pc_type"}, FALSE, "ordered"), App(1)}

Capped == {{"max_it"}}
NoFaults == {}
AllFaults == FaultPoints
==============================================================================
