CONSTANTS
  m1 = m1
  m2 = m2
  Markets = {m1, m2}
  SettleWorkers = {w1, w2}
  LockTask = lockTask
  Nobody = nobody
  Null = null
  LockTime <- SameLockTime
  MatchEnd <- SameEnd
  Refused = {}
  LockLead = 1
  FinalizeDelay = 1
  MaxTime = 2
  MaxPending = 2
  MaxFaults = 1
SPECIFICATION FairSpec
INVARIANTS OneReader ReportsTrue NoneSettledEarly
PROPERTIES RoundsEnd DueMarketsResolve
CHECK_DEADLOCK FALSE
