CONSTANTS
    Workers = {w1, w2}
    RuleIds = {"ra", "rc"}
    InitialRules <- NoneYet
    Drafts <- Pair
    Retirable = {}
    Corruptible = {}
    Corruptions = {}
    Overlong = {}
    Organic <- CreatedAndOpaque
    Oversized = {}
    Unquotable = {}
    Types <- MCTypes
    Models <- MCModels
    FiredType = "fired"
    Self = "foundation_ext"
    StagedType <- MCStagedType
    NoEvent = "none"
    Accounting = {"reported", "token"}
    Refusing = {}
    CausalDepthCap = 2
    RunIds <- MCRunIds
    MaxFaults = 1
    NoRule = NoRule
    NoEnvelope = NoEnvelope
SPECIFICATION FairSpec
INVARIANTS AtMostOnceDisposed CausalDepth NoSelfTrigger
PROPERTY Implements CascadeQuiesces
