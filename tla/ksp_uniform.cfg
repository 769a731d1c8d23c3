\* Three ranks, two calls of every kind, nothing fails on one rank alone; ranks
\* make serial solvers of their own in between.
CONSTANTS
  N = 3
  MaxOps = 2
  Requests <- AllKinds
  OptionNames <- Names
  SerialOptions <- Capped
  MaxSerial = 2
  LocalFaults <- NoFaults
SPECIFICATION FairSpec
PROPERTIES
  EveryCallReturns
  ImplementsUniform
