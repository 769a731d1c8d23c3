\* Three ranks of up to two rows each, ranks without rows included, rows that
\* end on level 0 or 1, and a query that fails on any of them.
CONSTANTS
  NumRanks = 3
  MaxRows = 2
  MaxLevel = 1
SPECIFICATION Spec
INVARIANTS
  HierarchyRight
PROPERTY EveryRankEnds
\* the query ends
CHECK_DEADLOCK FALSE
