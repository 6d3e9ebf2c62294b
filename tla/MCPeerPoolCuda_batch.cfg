\* Batches of up to two tuples, PAUSECONDITION as in parameters.h, three
\* threads: two may run on while execute starts another one.
CONSTANTS
  MaxSeeds = 2
  PauseCondition = 0
  MaxWord = 6
  Queries = 3
  MaxThreads = 3
SPECIFICATION FairSpec
CONSTRAINT Bounded
INVARIANTS
  TypeOK
  NeverUnderflows
  SomeThreadFills
PROPERTIES
  KeepsOrder
  SessionsEnd
CHECK_DEADLOCK FALSE
