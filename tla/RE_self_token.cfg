CONSTANTS
    Workers = {w1, w2}
    RuleIds = {"ra"}
    InitialRules <- Lone
    Drafts <- NoDrafts
    Retirable = {}
    Corruptible = {}
    Corruptions = {}
    Overlong = {}
    Organic <- OneCreated
    Oversized = {}
    Unquotable = {}
    Types <- MCTypes
    Models <- MCModels
    FiredType = "fired"
    Self = "foundation_ext"
    StagedType <- MCStagedType
    NoEvent = "none"
    Accounting = {"token"}
    Refusing = {}
    CausalDepthCap = 1
    RunIds <- MCRunIds
    MaxFaults = 1
    NoRule = NoRule
    NoEnvelope = NoEnvelope
SPECIFICATION Spec
INVARIANTS NoSelfTrigger
