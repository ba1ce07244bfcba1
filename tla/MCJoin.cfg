CONSTANTS
    Node = {1, 2, 3, 4}
    Member = {1, 4}
    MemVec <- MCMemVec
    LookupTableLevels = 2
    None = None
    InitTable <- MCInitTable
    StartLevels = {}
    MaxAttempts = 1
SPECIFICATION Spec
INVARIANTS SearchNeverOvershoots LinkReplyIsApplied OkMeansLinked
CHECK_DEADLOCK FALSE
