CONSTANTS
    None = None
    Tickers = {t1, t2}
    RuleIds = {"ra", "rb"}
    Rank <- MCRank
    InitialRules <- SlowRule
    Drafts <- FastDrafts
    Retirable = {"rb"}
    Corruptible = {"rb"}
    Corruptions <- NoTimeField
    Records = {}
    Moments = {1, 2}
    FirstMoment = 1
    Refusing = {}
    Divisor = 10
    Floor = 1
    Ceiling = 240
    MaxFaults = 1
    NoRule = NoRule
SPECIFICATION FairSpec
PROPERTY PostureFollowsRules
