CONSTANTS
  u1 = u1
  u2 = u2
  Users = {u1, u2}
  Weeks = {0, 1}
  Owner = owner
  KeeperKey = keeperKey
  Callers = {owner, keeperKey}
  VestingPeriod = 2
  Scales = {5000}
  Amounts = {2, 4}
  Budget = 6
  Task = task
  Tool = tool
  Nobody = nobody
  TaskPublishes = TRUE
  Reports <- TwoWeeks
  PageSize = 2
  MinVolume = 2000
  HandRoots <- ByHand
  WeekLength = 2
  MaxTime = 5
  MaxToolRuns = 1
  MaxFaults = 1
CONSTRAINT Focus
SPECIFICATION FairSpec
INVARIANTS PaidWithinRoot ClaimBooksAgree CompletedIsPublished
PROPERTIES PublishedIsFinal RunsEnd
CHECK_DEADLOCK FALSE
