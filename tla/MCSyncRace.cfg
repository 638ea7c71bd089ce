SPECIFICATION FairSpec
CONSTANTS
    None = None
    w1 = w1
    w2 = w2
    Workers <- MCWorkers
    Fields <- MCFields
    Items <- MCItems
    Strings <- MCStrings
    PolicyMaps <- MCPolicyMaps
    Initial <- MCInitial
    AppPatch <- MCAppPatch
    Tier2 <- MCTier2
    DurableAncestor = FALSE
    MaxEdits = 2
    MaxFaults = 1
    MaxVersion = 12
    MaxQueue = 4
INVARIANTS
    TypeOK
    AncestorConfirmed
    CycleInvariant
PROPERTIES
    PushReplacesRead
    SourceKeepsItsValues
    Converges
CHECK_DEADLOCK FALSE
