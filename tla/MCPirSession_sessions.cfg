\* Two clients and two servers; one of each may die at any time.
CONSTANTS
  N = 2
  Chunks = 1
  Connected = 2
  c1 = c1
  c2 = c2
  Client = {c1, c2}
  b0 = b0
  b1 = b1
  b2 = b2
  Block = {b0}
  ChunkOf <- OneBlock
  InitLen = 1
  FeSize = 1
  Api = "checkHash"
  MayAbort = {c1}
  MayCrash = {1}
SPECIFICATION FairSpec
INVARIANTS
  StuckOnlyInCycle
  QuietIsStuck
PROPERTIES
  CompletesUnlessCrossed
  AbortFreesServer
CHECK_DEADLOCK FALSE
