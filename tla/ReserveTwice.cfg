CONSTANTS
  Markets = {m1}
  LPs = {lp}
  Users = {u1, u2}
  Treasury = treasury
  VirtualShares = 10
  Outcomes = {1, 2}
  PushOutcomes = {}
  Strategy <- Amm
  InitialLiquidity <- TenEach
  WithVault = {m1}
  WithController = {}
  MinOdds = 10000
  MaxOdds = 50000
  UserExposureLimit = 4
  MarketPayoutCap = 20
  ShareAmounts = {1, 3}
  Endowment <- Purses60
  BetAmounts = {2}
  MinShareChoices = {0}
  LpAssets = {60}
  LpShares = {}
  ReserveAmounts = {30}
  Liabilities = {0}
  ReserveRatios = {1000}
  ScaleChoices = {5000, 10000}
  MapperResults <- HandicapResults
  Pausable = {}
SYMMETRY UserSymmetry
SPECIFICATION Spec
PROPERTIES ReservePaysLossOnce
CHECK_DEADLOCK FALSE
