\* What a stored wildcard matches beyond its path.
CONSTANTS
    g = g
    h = h
    x = x
    p1 = p1
    p2 = p2
    T0 = T0
    Null = Null
    Garbled = Garbled
    U = 6
    Begins <- Segment
    RuleIds <- GuardedAndGeneric
    RunIds <- OneRun
    PostureIds <- TwoPostures
    Generic <- PastTheService
    Drafts <- HostDrafts
    Settings <- HostSettings
    Posts <- HostPosts
    Puts <- HostPuts
    Patches <- HostPatches
    RunData <- EngineRows
    Observations <- OneObservation
    Arriving <- Types
    MaxFiring = 1
SPECIFICATION Spec
INVARIANT
    WildcardsKeepToThePath
