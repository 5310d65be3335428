SPECIFICATION FairSpec
CONSTANTS
  Reqs = {r1, r2, r3}
  Results = {0}
  SqEntries = 2
  CqEntries = 2
  CounterMod = 4
  SqPollChoice <- Either
  NoReq = NoReq
INVARIANTS TypeOK RingInv WithinRings SpaceIsKept DraftIsPrivate EachRequestOnce
PROPERTIES CqeStable ImplementsQueues SubmittedIsReaped
