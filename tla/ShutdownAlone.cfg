CONSTANTS
  Tasks = {lock}
  Pooled = {}
  RetryAttempts = 1
  Starters = {s1}
  Stoppers = {c1}
  Servers = {health}

SPECIFICATION FairSpec

PROPERTIES ShutdownCompletes
CHECK_DEADLOCK FALSE
