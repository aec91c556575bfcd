CONSTANTS
    MaxByte = 7
    MaxInt = 15
    MaxNested = 3
    MaxArray = 3
    MaxMap = 7
    Types <- MCTypes
    Control = 0
    AtSign = 6
    MaxTextLen = 1
    MaxNameLen = 1
    MaxBlobLen = 1
    MaxParents = 2
    MaxConflictTerms = 2
    MaxTzOffset = 1
    Dirs <- MCDirs
    Indexes <- MCIndexes
    Commits <- MCCommits
    References <- MCReferences
    Metas <- MCMetas
    LookupNames <- MCNames
    EditItems <- MCEditItems
    MaxEdits <- MCMaxEdits
SPECIFICATION Spec
INVARIANTS
    WfIsGrammar ConsumesOne ReadsBack OneDocument SignatureCovers
    RefAgrees PassesAgree MetaSameValue LookupAgrees ReencodeStable
CHECK_DEADLOCK FALSE
