SPECIFICATION FairSpec
CONSTANTS
  Tasks = {t1}
  OpsPerTask = 2
  SqEntries = 1
  Programs <- OneWorker
  NoTask = NoTask
  NoFuture = NoFuture
CHECK_DEADLOCK FALSE
PROPERTIES FutureResolves
