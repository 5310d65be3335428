SPECIFICATION FairSpec
CONSTANTS
  Futures = {recv, send, other}
  After <- RecvAfterSend
  SqEntries = 2
  Faults = TRUE
  MayDrop = TRUE
  NoFuture = NoFuture
  recv = recv
  send = send
CHECK_DEADLOCK FALSE
INVARIANTS TypeOK LeftByFailures OwnResultUntilFailure
PROPERTIES ResolvesUnlessHeldUp
