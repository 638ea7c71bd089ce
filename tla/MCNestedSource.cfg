SPECIFICATION Spec
CONSTANTS
    None = None
    MaxDepth = 2
    Fields = {}
    Items = {}
    Strings = {}
    TextOrder <- MCTextOrder
    MergeTable <- SetByKeyMerge
    MirrorTable <- MirroredSetByKey
    Misaligned <- MisalignedPaths
    DocPolicies <- MCOneWay
    Schema <- MCSchema
    InitialDocs <- MCOnlyNested
    Editions <- MCEditions
    MaxDocEdits = 2
PROPERTY
    SourceOfTruth
CHECK_DEADLOCK FALSE
