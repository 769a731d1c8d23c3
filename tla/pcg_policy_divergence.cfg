\* A rank generates a serial host solver of its own before all of them
\* generate a distributed device solver.
CONSTANTS
  N = 2
  MaxOps = 1
  Requests <- DeviceOnly
  Neighbours <- Chain
  SerialLocs <- HostLocation
  LocalFaults <- NoFaults
  GpuBuild = TRUE
  IJInterface = TRUE
SPECIFICATION Spec
CHECK_DEADLOCK FALSE
INVARIANTS
  PolicyConflictUniform
