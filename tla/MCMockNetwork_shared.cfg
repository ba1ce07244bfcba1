SPECIFICATION GrowSpec
CONSTANTS
    Node = {a, b, c}
    Thread = {t1, t2}
    MaxDepth = 2
    Phased = FALSE
    None = None
CHECK_DEADLOCK FALSE
INVARIANTS
    NoDeadlock
