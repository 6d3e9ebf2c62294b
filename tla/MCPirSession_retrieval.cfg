\* One client, three servers holding three chunks each, every server added.
CONSTANTS
  N = 3
  Chunks = 3
  Connected = 3
  c1 = c1
  c2 = c2
  Client = {c1}
  b0 = b0
  b1 = b1
  b2 = b2
  Block = {b0, b1, b2}
  ChunkOf <- OneBlockPerChunk
  InitLen = 2
  FeSize = 2
  Api = "checkHash"
  MayAbort = {}
  MayCrash = {}
SPECIFICATION Spec
INVARIANTS
  TypeOK
  RetrievalCorrect
CHECK_DEADLOCK FALSE
