CONSTANTS
    None = None
    Tickers = {t1}
    RuleIds = {"ra", "rb"}
    Rank <- MCRank
    InitialRules <- TwoTimeRules
    Drafts <- NoDrafts
    Retirable = {}
    Corruptible = {}
    Corruptions = {}
    Records = {"x1"}
    Moments = {1, 2}
    FirstMoment = 1
    Refusing <- Refuses_ra
    Divisor = 10
    Floor = 1
    Ceiling = 240
    MaxFaults = 0
    NoRule = NoRule
SPECIFICATION FairSpec
PROPERTY EveryDueFires
