\* A GPU build initialized up to twice in the process; three Pcg handles.
CONSTANTS
  h1 = h1
  h2 = h2
  h3 = h3
  s1 = s1
  s2 = s2
  Handles = {h1, h2, h3}
  States = {s1, s2}
  GpuBuild = TRUE
  MaxScopes = 3
  MaxInits = 2
SPECIFICATION Spec
CHECK_DEADLOCK FALSE
INVARIANTS
  PlacedWhereAsked
  SharedObjectsAlive
  OwnFailuresOnly
  UpInScopes
PROPERTIES
  NothingLeaks
  NoFreeAfterFinalize
