SPECIFICATION Spec
CONSTANTS
    Ann = Ann
    Bob = Bob
    NoOne = NoOne
    Router = Router
    Keys = {"lp"}
    Values = {4000, 9000}
    Ranges <- MCRanges
    DefaultRange <- MCDefaultRange
    Delays = {0, 1, 2}
    MinDelay = 1
    MaxDelay = 2
    MaxProposals = 2
    MaxClock = 2
    Users <- MCUsers
    Blocked = {Ann}
    FeeAmounts = {0, 20}
    BetAmounts = {0, 1}
    Splits <- MCSplits
    Windows = {0, 1}
    FirstWindow = 1
    Volumes = {0, 1}
    FirstVolume = 0
    ReferralBps = {800, 2000, 5000}
    MaxBatch = 2
    MaxReceived = 40
    MaxVolume = 1
CONSTRAINT Focus
INVARIANT FeesPassThrough
INVARIANT RebatesWithinCap
INVARIANT ReferralsAgree
PROPERTY ChangesWait
