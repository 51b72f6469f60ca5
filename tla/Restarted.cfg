CONSTANTS
  Tasks = {lock}
  Pooled = {}
  RetryAttempts = 1
  Starters = {s1, s2}
  Stoppers = {c1}
  Servers = {health}

SPECIFICATION Spec

INVARIANTS ShutdownLeavesNothing
CHECK_DEADLOCK FALSE
