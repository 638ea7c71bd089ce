SPECIFICATION FairHSpec
CONSTANTS
    None = None
    Workers = {w1}
    Fields <- MCFields
    Items <- MCItems
    Strings <- MCStrings
    PolicyMaps <- MCPolicyMaps
    Initial <- MCInitial
    AppPatch <- MCAppPatch
    Tier2 <- MCTier2
    DurableAncestor = TRUE
    MaxEdits = 3
    MaxFaults = 2
    MaxVersion = 12
    MaxQueue = 2
INVARIANTS
    HistoryTypeOK
    ContributionsKept
PROPERTIES
    RetryIdempotentUnlessAccumulating
    LegalTransitions
    ConvergesOrEscalates
CHECK_DEADLOCK FALSE
