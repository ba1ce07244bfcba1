SPECIFICATION FairSpec
CONSTANTS
    Node = {a, b}
    Thread = {t1, t2}
    MaxDepth = 2
    Phased = TRUE
    None = None
INVARIANTS
    NoDeadlock
    OkMeansInstalled
PROPERTIES
    EveryCallReturns
