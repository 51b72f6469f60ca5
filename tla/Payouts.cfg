CONSTANTS
  amm = amm
  pari = pari
  Markets = {amm, pari}
  LPs = {lp}
  Users = {u1, u2}
  Treasury = treasury
  VirtualShares = 10
  Outcomes = {1, 2}
  PushOutcomes = {2}
  Strategy <- MixedStrategy
  InitialLiquidity <- MixedLiquidity
  WithVault = {amm}
  WithController = {pari}
  MinOdds = 10000
  MaxOdds = 50000
  UserExposureLimit = 4
  MarketPayoutCap = 20
  ShareAmounts = {1, 3}
  Endowment <- Purses3
  BetAmounts = {2, 3}
  MinShareChoices = {0}
  LpAssets = {100}
  LpShares = {}
  ReserveAmounts = {}
  Liabilities = {10000}
  ReserveRatios = {}
  ScaleChoices = {5000, 10000}
  MapperResults <- HandicapResults
  Pausable = {pari}
SYMMETRY UserSymmetry
SPECIFICATION Spec
CONSTRAINT OneMarketUsed
INVARIANTS TypeOK DebtAgrees StakesHeld WinnersCovered WinnersPotExact RefundsCovered SettlementCovered ExposureCoversAll
PROPERTIES PayoutTermsFrozen ImplementsEscrow
CHECK_DEADLOCK FALSE
