\* Anything may fail on one rank alone, and a rank makes serial solvers of its
\* own in between; ranks may be left waiting, so the system may stop.
CONSTANTS
  N = 3
  MaxOps = 2
  Requests <- FaultyRequests
  OptionNames <- Names
  SerialOptions <- Capped
  MaxSerial = 1
  LocalFaults <- AllFaults
SPECIFICATION Spec
CHECK_DEADLOCK FALSE
INVARIANTS
  OwnOptions
  AllOrNothing
