CONSTANTS
  NumGroups = 3
  Team = {t1, t2, t3}
  Values = {0, 1}
  Blocks <- MCBlocks
  Free = Free
  QuerySize = 5
  ChunkSize = 2
SPECIFICATION MCSpec
INVARIANTS
  TypeOK
  StaysInside
  AloneExact
  NoEntryLost
  RangesAgree
  KernelsExact
  Sorted
  LookupsFind
  BytesExact
  AnswerExact
PROPERTIES
  SessionEnds
