CONSTANTS
  m1 = m1
  m2 = m2
  Markets = {m1, m2}
  SettleWorkers = {w1}
  LockTask = lockTask
  Nobody = nobody
  Null = null
  LockTime <- SameLockTime
  MatchEnd <- EndsUnknown
  Refused = {}
  LockLead = 1
  FinalizeDelay = 1
  MaxTime = 2
  MaxPending = 2
  MaxFaults = 0
SPECIFICATION FairSpec
PROPERTIES EveryLockedMarketResolves
CHECK_DEADLOCK FALSE
