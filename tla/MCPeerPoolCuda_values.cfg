\* Two tuples in one batch.
CONSTANTS
  MaxSeeds = 2
  PauseCondition = 0
  MaxWord = 9
  Queries = 2
  MaxThreads = 2
SPECIFICATION Spec
INVARIANTS
  TuplesMatch
CHECK_DEADLOCK FALSE
