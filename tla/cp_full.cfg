SPECIFICATION FairSpec
CONSTANTS
  FileSize = 11
  BlockSize = 2
  QueueDepth = 3
  ShortReads = FALSE
  ShortWrites = FALSE
  Errors = TRUE
CHECK_DEADLOCK FALSE
INVARIANTS TypeOK CountersMatchRing BuffersAreKept CopyIsComplete
PROPERTIES CopyEnds
