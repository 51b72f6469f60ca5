CONSTANTS
  Tasks = {lock, settle}
  Pooled = {settle}
  RetryAttempts = 2
  Starters = {s1, s2}
  Stoppers = {c1}
  Servers = {health, metrics}

SPECIFICATION FairSpec

INVARIANTS TypeOK ConnectionsOutliveTasks StartLeavesNothing
PROPERTIES CancelledServiceEnds
CHECK_DEADLOCK FALSE
