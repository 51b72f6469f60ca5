CONSTANTS
  Markets = {m1, m2}
  LPs = {lp}
  Users = {u1}
  Treasury = treasury
  VirtualShares = 1
  Outcomes = {1, 2}
  PushOutcomes = {}
  Strategy <- Amm
  InitialLiquidity <- TenEach
  WithVault = {m1, m2}
  WithController = {}
  MinOdds = 10000
  MaxOdds = 50000
  UserExposureLimit = 4
  MarketPayoutCap = 20
  ShareAmounts = {5}
  Endowment <- Purses100
  BetAmounts = {6}
  MinShareChoices = {0}
  LpAssets = {100}
  LpShares = {60}
  ReserveAmounts = {4}
  Liabilities = {10000}
  ReserveRatios = {5000}
  ScaleChoices = {10000}
  MapperResults <- TotalsResults
  Pausable = {"vault"}
SYMMETRY MarketSymmetry
SPECIFICATION Spec
CONSTRAINT OneUnusual
INVARIANTS ReserveBacked
PROPERTIES LpLossWithinPrincipal ShareValueKept
CHECK_DEADLOCK FALSE
