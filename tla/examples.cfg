SPECIFICATION FairSpec
CONSTANTS
  QueueDepth = 3
  SqEntries = 4
  FileSize = 5
  BlockSize = 2
  MaxRounds = 6
CHECK_DEADLOCK FALSE
INVARIANTS TypeOK OwedIsOutstanding RoundIsClean FileIsPrinted NothingOutlivesMain
PROPERTIES EndsUnlessShort
