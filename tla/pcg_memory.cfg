\* A solver generated, applied up to three times and destroyed, every build.
CONSTANT MaxApplies = 3
SPECIFICATION Spec
\* The life of the one solver ends.
CHECK_DEADLOCK FALSE
INVARIANTS
  FreedByOwner
  NothingLeft
  ReadableByHypre
  DiagonalFirst
  SolvesOwnOperands
