\* A rule of the clock, one that answers it, and the first moved to answer back.
CONSTANTS
    Workers = {w1}
    RuleIds = {"ra", "rt"}
    InitialRules <- ClockRules
    Drafts <- ClockDrafts
    Retirable = {}
    Corruptible = {"rt"}
    Corruptions <- Emptied
    Overlong = {}
    Organic <- Unrecordable
    Oversized <- WideUpdate
    Unquotable <- FarAway
    Types <- MCTypes
    Models <- MCModels
    FiredType = "fired"
    Self = "foundation_ext"
    StagedType <- MCStagedType
    NoEvent = "none"
    Accounting = {"reported"}
    Refusing = {}
    CausalDepthCap = 1
    RunIds <- MCRunIds
    MaxFaults = 1
    NoRule = NoRule
    NoEnvelope = NoEnvelope
    Dues <- OneDue
SPECIFICATION ClockSpec
INVARIANTS TypeOK DepthBounded NoPhantomFires RefusalRollsBackAll NoSelfTrigger OneRootEach
