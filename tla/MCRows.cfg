SPECIFICATION Spec
CONSTANTS
    None = None
    MaxDepth = 2
    Fields = {}
    Items = {}
    Strings = {}
    TextOrder <- MCTextOrder
    MergeTable <- SetByKeyMerge
    MirrorTable <- MirroredSetByKey
    Misaligned <- MisalignedPaths
    DocPolicies <- MCKeyed
    Schema <- MCSchema
    InitialDocs <- MCOnlyRows
    Editions <- ClashingEditions
    MaxDocEdits = 2
PROPERTY
    AnchoredRowsFollowed
CHECK_DEADLOCK FALSE
