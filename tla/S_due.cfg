CONSTANTS
    None = None
    Tickers = {t1, t2}
    RuleIds = {"ra", "rb"}
    Rank <- MCRank
    InitialRules <- TwoTimeRules
    Drafts <- NoDrafts
    Retirable = {}
    Corruptible = {}
    Corruptions = {}
    Records = {"x1"}
    Moments = {1, 2}
    FirstMoment = 1
    Refusing <- Refuses_rb
    Divisor = 10
    Floor = 1
    Ceiling = 240
    MaxFaults = 1
    NoRule = NoRule
SPECIFICATION FairSpec
INVARIANTS TypeOK FiresOncePerGeneration ClaimIsTheLedger
PROPERTIES ImplementsDues EveryDueFires
