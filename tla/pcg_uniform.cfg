\* Three ranks, two calls of every kind; only the failure the code folds into
\* its reduction is rank-local, and no rank generates a solver of its own.
CONSTANTS
  N = 3
  MaxOps = 2
  Requests <- AllKinds
  Neighbours <- Chain
  SerialLocs <- NoLocations
  LocalFaults <- OnlyHierarchy
  GpuBuild = TRUE
  IJInterface = FALSE
SPECIFICATION FairSpec
INVARIANTS
  TypeOK
  UniformOutcome
  NoRankStranded
  PolicyConflictUniform
  OneLocation
  SolveOnlyUsable
PROPERTIES
  EveryCallReturns
  ImplementsUniform
