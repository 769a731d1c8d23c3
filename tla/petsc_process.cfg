\* Three Ksp handles and two states, up to two applies of one of the states,
\* while PETSc and MPI go up and down; every kind of executor and PETSc build.
CONSTANTS
  h1 = h1
  h2 = h2
  h3 = h3
  s1 = s1
  s2 = s2
  Handles = {h1, h2, h3}
  States = {s1, s2}
  Applied = s1
  MaxScopes = 3
  MaxApplies = 2
SPECIFICATION ProcessSpec
SYMMETRY Symmetry
INVARIANTS
  NoLateCalls
  SharedObjectsAlive
  NothingLeaks
  NothingPlaced
  ResultsRight
\* MPI and PETSc are brought up once.
CHECK_DEADLOCK FALSE
