CONSTANTS
    None = None
    Tickers = {t1}
    RuleIds = {"ra", "rb"}
    Rank <- MCRank
    InitialRules <- SlowRule
    Drafts <- SlowDrafts
    Retirable = {"rb"}
    Corruptible = {"ra"}
    Corruptions <- Spoils
    Records = {"x1"}
    Moments = {1}
    FirstMoment = 1
    Refusing <- Refuses_rb
    Divisor = 10
    Floor = 1
    Ceiling = 240
    MaxFaults = 1
    NoRule = NoRule
SPECIFICATION Spec
INVARIANT ClaimIsTheLedger
PROPERTIES DeviationsDeclared ImplementsDues
