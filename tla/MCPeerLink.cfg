\* Two slots, two sessions, three threads: two may run on while execute
\* starts another one.
CONSTANTS
  MaxSeeds = 2
  PauseCondition = 0
  MaxWord = 9
  Queries = 2
  MaxThreads = 3
  Window = 2
  MayFail = TRUE
SPECIFICATION FairSpec
CONSTRAINT Told
INVARIANTS
  TypeOK
  KeepsOrder
  ReaderServed
  SomeThreadFills
PROPERTIES
  ImplementsQueue
  SessionsEnd
CHECK_DEADLOCK FALSE
