CONSTANTS
  u1 = u1
  u2 = u2
  Users = {u1, u2}
  Weeks = {0, 1}
  Owner = owner
  KeeperKey = owner
  Callers = {owner}
  VestingPeriod = 2
  Scales = {5000}
  Amounts = {4}
  Budget = 4
  Task = task
  Tool = tool
  Nobody = nobody
  TaskPublishes = TRUE
  Reports <- TwoWeeks
  PageSize = 2
  MinVolume = 2000
  HandRoots = {}
  WeekLength = 2
  MaxTime = 5
  MaxToolRuns = 1
  MaxFaults = 0
SPECIFICATION Spec
INVARIANTS ExportedEntriesClaimable
CHECK_DEADLOCK FALSE
