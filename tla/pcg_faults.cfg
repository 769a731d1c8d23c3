\* Anything may fail on one rank alone: ranks may be left waiting (so the
\* system may stop), but no rank is handed a solver others did not get.
CONSTANTS
  N = 3
  MaxOps = 2
  Requests <- FaultyRequests
  Neighbours <- Chain
  SerialLocs <- HostLocation
  LocalFaults <- AllFaults
  GpuBuild = TRUE
  IJInterface = TRUE
SPECIFICATION Spec
CHECK_DEADLOCK FALSE
INVARIANTS
  AllOrNothing
  PhasesSeparated
