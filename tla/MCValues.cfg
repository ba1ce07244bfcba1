SPECIFICATION ValuesSpec
CONSTANTS
    Size = 2
    Vectors <- MCVectors
    Texts <- MCTexts
    Drawn <- MCDrawn
    MaxCalls = 3
    Node <- MCNode
    MemVec <- MCMemVec
    LookupTableLevels = 2
    None = None
INVARIANTS
    PrefixDecidesLevel
    SplitAtFirstDifference
    TextsDenoteNumbers
    ComparesLexicographically
    NeighborsSurround
    TablesServeTests
    ShowsTheDifference
CHECK_DEADLOCK FALSE
