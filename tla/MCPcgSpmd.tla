------------------------------ MODULE MCPcgSpmd ------------------------------
(* Instances of PcgSpmd for TLC: the programs' requests and a halo chain.  *)
EXTENDS PcgInvariants

Gen(l, m, o) == [kind |-> "generate", location |-> l, matrix |-> m, options |-> o]
App(c)       == [kind |-> "apply", columns |-> c]

(* Every reason to turn a request down, and the requests that succeed.     *)
AllKinds ==
  {Gen("host", "ordered", "host_relax"), Gen("device", "ordered", "valid"),
   Gen("device", "ordered", "host_relax"), Gen("host", "ordered", "unknown_name"),
   Gen("host", "rectangular", "valid"), Gen("device", "unordered", "valid"),
   App(1), App(2)}

DeviceOnly ==
  {Gen("device", "ordered", "valid"), Gen("device", "ordered", "host_relax"),
   Gen("device", "unsupported", "valid"), App(1)}

FaultyRequests ==
  {Gen("host", "ordered", "valid"), Gen("device", "ordered", "valid"), App(1)}

(* A row of subdomains: every rank exchanges with the ones next to it.     *)
Chain == [r \in Ranks |-> {q \in Ranks : q \in {r - 1, r, r + 1}}]

NoLocations == {}
HostLocation == {"host"}
OnlyHierarchy == {"hierarchy"}
AllFaults == FaultPoints
NoFaults == {}
==============================================================================
