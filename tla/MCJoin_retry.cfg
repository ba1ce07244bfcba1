CONSTANTS
    Node = {1, 2, 3}
    Member = {1, 3}
    MemVec <- MCMemVec
    LookupTableLevels = 2
    None = None
    InitTable <- MCInitTable
    StartLevels = {0}
    MaxAttempts = 2
SPECIFICATION Spec
INVARIANT CollisionMeansTaken
CHECK_DEADLOCK FALSE
