CONSTANTS
  NumMarkets = 4
  MaxConcurrent = 2
  TaskKinds = {"oracle", "uma"}
SPECIFICATION PoolFairSpec
INVARIANTS OneHolder NoJobLost RoundComplete QuietAfterJoin
PROPERTIES PoolReturnsUnlessStranded
CHECK_DEADLOCK FALSE
