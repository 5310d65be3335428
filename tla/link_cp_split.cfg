SPECIFICATION Spec
CONSTANTS
  FileSize = 3
  BlockSize = 2
  QueueDepth = 4
  Errors = FALSE
  Shorts = FALSE
  ShortSubmits = TRUE
CHECK_DEADLOCK FALSE
INVARIANTS WriteAfterRead
