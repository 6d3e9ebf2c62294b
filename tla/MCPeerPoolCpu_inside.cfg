\* One session with PAUSECONDITION as in parameters.h.
CONSTANTS
  MaxSeeds = 1
  PauseCondition = 0
  MaxWord = 9
  Queries = 1
  MaxThreads = 3
SPECIFICATION Spec
INVARIANTS
  WritesInside
CHECK_DEADLOCK FALSE
