CONSTANTS
    Node = {1, 2, 3, 4, 5}
    Member = {2, 4}
    MemVec <- MCMemVec
    LookupTableLevels = 2
    None = None
    InitTable <- MCInitTable
    StartLevels = {0, 1}
    MaxAttempts = 1
SPECIFICATION SequentialSpec
INVARIANTS SequentialJoinsSort SearchFindsNearest
PROPERTY LoneJoinSucceeds
CHECK_DEADLOCK FALSE
