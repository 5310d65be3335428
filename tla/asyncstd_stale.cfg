SPECIFICATION Spec
CONSTANTS
  Futures = {f1, f2}
  After = {}
  SqEntries = 2
  Faults = TRUE
  MayDrop = FALSE
  NoFuture = NoFuture
  recv = recv
  send = send
CHECK_DEADLOCK FALSE
PROPERTIES ImplementsSubmitOp
