SPECIFICATION Spec
CONSTANTS
    None = None
    MaxDepth = 2
    Fields = {}
    Items = {}
    Strings = {}
    TextOrder <- MCTextOrder
    MergeTable <- SetByKeyMerge
    MirrorTable <- MirroredSetByKey
    Misaligned <- MisalignedPaths
    DocPolicies <- MCDocPolicies
    Schema <- MCSchema
    InitialDocs <- MCInitialDocs
    Editions <- MCEditions
    MaxDocEdits = 2
INVARIANTS
    SidesAreSymmetric
    RetryNeverForks
PROPERTIES
    OwnerKeepsItsValues
    AnchoredRowsFollowed
CHECK_DEADLOCK FALSE
