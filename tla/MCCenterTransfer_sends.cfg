\* One transfer thread and a window of 1.5 tuples.
CONSTANTS
  MaxSeeds = 2
  Cuda = FALSE
  MaxWord = 9
  Transfers = 1
  Commands = 1
  MaxTuples = 3
  Window = 3
SPECIFICATION Spec
INVARIANTS
  SendsTuples
CHECK_DEADLOCK FALSE
