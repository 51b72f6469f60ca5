CONSTANTS
  NumMarkets = 4
  MaxConcurrent = 2
  TaskKinds = {"oracle"}
SPECIFICATION PoolFairSpec
PROPERTIES PoolReturns
CHECK_DEADLOCK FALSE
