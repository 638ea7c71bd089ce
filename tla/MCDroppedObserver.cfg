SPECIFICATION HostSpec
CONSTANTS
    None = None
    MaxDepth = 1
    Fields = {}
    Items = {}
    Strings = {}
    TextOrder <- MCTextOrder
    Diff <- ThreeWayDiff
    Resolve <- Resolved
    Overlay <- ApplyResolution
    Upsert <- Upserted
    Misaligned <- MisalignedPaths
    IsPolicyJson <- IsDocument
    PoliciesOf <- MCPoliciesOf
    FieldsOf <- MCFieldsOf
    SameField <- MCSameField
    SourceSide <- MCSourceSide
    BuilderCalls <- MCBuilderCalls
    MaxCalls = 3
    CifFields <- MCCifFields
    InitialRecords <- MCInitialRecords
    CustomHolds <- MCCustomHolds
    PolicyDocuments <- MCPolicyDocuments
    Editions <- MCEditions
    Check <- MCCheck
    MaxSyncs = 1
    MaxChanges = 0
    Capacity = 2
    MaxOffers = 2
    MaxCallsWithCaptures = 1
CHECK_DEADLOCK FALSE
PROPERTY AbortsWhenDropped
