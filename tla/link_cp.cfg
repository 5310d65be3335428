SPECIFICATION FairSpec
CONSTANTS
  FileSize = 5
  BlockSize = 2
  QueueDepth = 4
  Errors = TRUE
  Shorts = TRUE
  ShortSubmits = FALSE
CHECK_DEADLOCK FALSE
INVARIANTS TypeOK InflightIsExact WriteAfterRead OkMeansWritten
PROPERTIES CopyEnds
