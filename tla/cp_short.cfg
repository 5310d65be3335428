SPECIFICATION FairSpec
CONSTANTS
  FileSize = 3
  BlockSize = 2
  QueueDepth = 2
  ShortReads = TRUE
  ShortWrites = TRUE
  Errors = FALSE
CHECK_DEADLOCK FALSE
PROPERTIES CopySucceeds
