SPECIFICATION SharedSpec

CONSTANTS
    Node <- Nodes
    MemVec <- Bits
    LookupTableLevels = 2
    None = None
    Owner = 1
    Searcher = {"s"}
    AskedLevel = {0, 1, 2}

INVARIANTS
    NeverPastTarget
    FallbackIsTrue
    ChoiceIsBacked
    ViewsAgree
