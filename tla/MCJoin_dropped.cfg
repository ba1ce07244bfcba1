CONSTANTS
    Node = {1, 2, 3}
    Member = {1}
    MemVec <- MCMemVec
    LookupTableLevels = 2
    None = None
    InitTable <- MCInitTable
    StartLevels = {0}
    MaxAttempts = 1
SPECIFICATION Spec
INVARIANT NoRequestDropped
CHECK_DEADLOCK FALSE
