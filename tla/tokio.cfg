SPECIFICATION FairSpec
CONSTANTS
  Tasks = {t1, t2, t3}
  OpsPerTask = 2
  SqEntries = 2
  Programs <- Various
  NoTask = NoTask
  NoFuture = NoFuture
CHECK_DEADLOCK FALSE
INVARIANTS TypeOK WakersAreOwn SleepersAreRegistered QuietBetweenPolls
PROPERTIES ImplementsSubmitOp WaitsForAReason
