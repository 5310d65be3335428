SPECIFICATION FairSpec
CONSTANTS
  Tasks = {t1, t2}
  OpsPerTask = 1
  SqEntries = 2
  Programs <- TwoWorkers
  NoTask = NoTask
  NoFuture = NoFuture
CHECK_DEADLOCK FALSE
PROPERTIES CompletionsAreDelivered
