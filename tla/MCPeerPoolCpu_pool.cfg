\* Two slots, three sessions, three threads: two may run on while execute
\* starts another one.
CONSTANTS
  MaxSeeds = 2
  PauseCondition = 1
  MaxWord = 9
  Queries = 3
  MaxThreads = 3
SPECIFICATION FairSpec
CONSTRAINT NotBroken
INVARIANTS
  TypeOK
  NeverUnderflows
  TuplesMatch
  SomeThreadFills
PROPERTIES
  ImplementsQueue
  SessionsEnd
CHECK_DEADLOCK FALSE
