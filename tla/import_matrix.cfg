\* Three ranks, up to three rows: every partition, ordered or not, ranks without
\* rows included, every matrix of up to four entries, and integers that hold
\* the sizes (7) or not (2), hypre's local ones also narrower than its global ones.
CONSTANTS
  NumRanks = 3
  Sizes = {2, 3}
  MaxEntries = 4
  IntMaxes = {2, 7}
  ColumnsFollowRows = TRUE
  CountsFit = TRUE
SPECIFICATION Spec
INVARIANTS RefusedByAllOrNone HypreMatrixRight PetscMatrixRight
\* the import ends
CHECK_DEADLOCK FALSE
