\* Three commands of the peer, a window of 1.5 tuples.
CONSTANTS
  MaxSeeds = 2
  Cuda = TRUE
  MaxWord = 9
  Transfers = 2
  Commands = 3
  MaxTuples = 3
  Window = 3
SPECIFICATION FairSpec
INVARIANTS
  TypeOK
  OneProducer
  StreamIntact
  SomeThreadFills
PROPERTIES
  ImplementsQueue
  TransfersGoOn
CHECK_DEADLOCK FALSE
