CONSTANTS
  keeper = keeper
  rival = rival
  NoFacts = noFacts
  Accounts = {keeper, rival}
  KeeperAccount = keeper
  Markets = {m1}
  IdForms = {left, right}
  KeeperForm = left
  Ids <- AllIds
  Facts <- AllFacts
  Results <- TwoResults
  OtherFacts <- RivalFacts
  Bonds <- TwoOfEach
  liveness = 1
  MaxTime = 2
  MaxFaults = 1
SPECIFICATION Spec
INVARIANTS OneBondPerMarket FinalWasContestable
PROPERTIES FinalForGood
CHECK_DEADLOCK FALSE
