SPECIFICATION FairSpec

CONSTANTS
    Node <- Nodes
    MemVec <- Bits
    LookupTableLevels = 2
    None = None
    Last = 2
    Tables <- MirroredTables
    Call = {c1, c2}
    Nonce = {x, y}
    WireLevel = {1, 2}

INVARIANTS
    AnswerIsNearest
    WaitersMatchCalls

PROPERTY
    EverySearchEnds

CHECK_DEADLOCK FALSE
