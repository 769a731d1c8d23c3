\* Three ranks and up to three repetitions; a rank may fail alone at any place.
CONSTANTS
  NumRanks = 3
  MaxReps = 3
SPECIFICATION SmokeSpec
INVARIANT StatusRight
PROPERTY EveryRankExits
\* the program ends, or ranks wait for one that failed alone
CHECK_DEADLOCK FALSE
