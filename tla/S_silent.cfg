CONSTANTS
    None = None
    Tickers = {t1, t2}
    RuleIds = {"ra", "rb"}
    Rank <- MCRank
    InitialRules <- SlowRule
    Drafts <- SlowDrafts
    Retirable = {"ra"}
    Corruptible = {}
    Corruptions = {}
    Records = {}
    Moments = {1, 2}
    FirstMoment = 1
    Refusing = {}
    Divisor = 10
    Floor = 1
    Ceiling = 240
    MaxFaults = 0
    NoRule = NoRule
SPECIFICATION Spec
PROPERTY DeviationsDeclared
