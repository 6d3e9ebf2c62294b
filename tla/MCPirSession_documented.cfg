\* The set-up of README.md: the application adds two servers of three.
CONSTANTS
  N = 3
  Chunks = 3
  Connected = 2
  c1 = c1
  c2 = c2
  Client = {c1}
  b0 = b0
  b1 = b1
  b2 = b2
  Block = {b0, b1, b2}
  ChunkOf <- OneBlockPerChunk
  InitLen = 2
  FeSize = 2
  Api = "checkHash"
  MayAbort = {}
  MayCrash = {}
SPECIFICATION Spec
INVARIANTS
  RetrievalAsDocumented
CHECK_DEADLOCK FALSE
