SPECIFICATION Spec
CONSTANTS
    Nodes <- MCNodes
    Node <- MCNode
    Files <- MCFiles
    Documents <- MCDocuments
    CommandLines <- MCCommandLines
    FullPath <- MCFullPath
    Tags <- MCTags
    Digests = {"d1", "d2"}
    Context <- MCContext
    HasVerb <- MCHasVerb
    KeysWithVerb <- MCKeysWithVerb
    MaxMoves = 2
    MaxFaults = 1
INVARIANTS
    TypeOK
    OutputPinned
    AllResolvedFirst
PROPERTY
    Finishes
CHECK_DEADLOCK FALSE
