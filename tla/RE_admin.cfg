CONSTANTS
    Workers = {w1, w2}
    RuleIds = {"ra", "rb", "rc"}
    InitialRules <- AdminRules
    Drafts <- AdminDrafts
    Retirable = {"rb"}
    Corruptible = {"rb"}
    Corruptions <- AdminCorruptions
    Overlong = {"lengthy"}
    Organic <- OneOfEach
    Oversized = {}
    Unquotable = {}
    Types <- MCTypes
    Models <- MCModels
    FiredType = "fired"
    Self = "foundation_ext"
    StagedType <- MCStagedType
    NoEvent = "none"
    Accounting = {"reported"}
    Refusing = {"rc"}
    CausalDepthCap = 1
    RunIds <- MCRunIds
    MaxFaults = 1
    NoRule = NoRule
    NoEnvelope = NoEnvelope
SYMMETRY WorkerSymmetry
SPECIFICATION Spec
INVARIANTS AtMostOncePerRule FiredBodiesAreLegal AnsweredMeansDisposed RefusalRollsBackAll
PROPERTY CommitIsWhole
