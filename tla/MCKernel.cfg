SPECIFICATION HostSpec
CONSTANTS
    Fields = {}
    Items = {}
    Strings = {"draft", "open", "done"}
    None = None
    MaxDepth = 3
    TextOrder <- MCTextOrder
    Numerals <- MCNumerals
    Indices <- MCIndices
    Diff <- ThreeWayDiff
    Compare <- CompareJson
    Resolve <- Resolved
    IsPolicyRef <- IsDeclaration
    BuildPolicy <- Build
    ToCif <- TransformToCif
    NoCif <- Failed
    LoadedMap <- BuildDocument
    CompareNative <- TransformAndCompare
    InvalidIn <- InvalidFields
    Jobs <- MCJobs
    CifSchema <- MCSchema
    Formats <- MCFormats
    Document <- MCDocument
    Context <- MCContext
    EngineMap <- MCEngineMap
    Probes <- MCProbes
    Requests <- MCRequests
    Texts <- MCTexts
    Compute <- WireExport
    Size <- MCSize
    Envelope <- MCEnvelope
    Unwrap <- MCUnwrap
    EmptyText <- MCEmptyText
    HostError <- MCHostError
    Trapped <- Trap
    Zeroed <- MCZeroed
    Addresses = {1, 2, 3, 4}
    WordSize = 16
    MaxTraps = 1
INVARIANTS
    NothingLeaks
    FreedOnce
    NeverPanics
    HostDecidesAsEngine
    FormatsMeet
    ViewsAreValid
PROPERTIES
    AnswerIsOwn
CHECK_DEADLOCK FALSE
