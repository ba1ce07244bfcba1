CONSTANTS
    Node = {1, 2, 3}
    Member = {1, 3}
    MemVec <- MCMemVec
    LookupTableLevels = 2
    None = None
    InitTable <- MCInitTable
    StartLevels = {0, 2}
    MaxAttempts = 2
SPECIFICATION FairSpec
INVARIANT WaitersMatchAwaited
PROPERTIES
    ImplementsLinkProtocol
    EveryCallEnds
CHECK_DEADLOCK FALSE
