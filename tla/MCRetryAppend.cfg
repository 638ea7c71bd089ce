SPECIFICATION HSpec
CONSTANTS
    None = None
    Workers = {w1}
    Fields <- MCFields
    Items <- MCItems
    Strings <- MCStrings
    PolicyMaps <- MCListPolicyMaps
    Initial <- MCListInitial
    AppPatch <- MCListPatch
    Tier2 <- MCNoInvariants
    DurableAncestor = TRUE
    MaxEdits = 2
    MaxFaults = 1
    MaxVersion = 12
    MaxQueue = 1
PROPERTY RetryIdempotent
CHECK_DEADLOCK FALSE
