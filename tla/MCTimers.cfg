SPECIFICATION TimersSpec
CONSTANTS
    Ctx = {c1, c2, c3}
    Task = {t}
    Timeouts = {0, 1}
    MaxTime = 1
    None = None
    Caller = {t1, t2, t3}
    Period = 3
    MaxLate = 7
    MaxFires = 4
    Handles = 3
    Budget = 3
    JoinTime = 4
    Call = {"a", "b"}
    WaitTime = 2
    Threads = 1
    CallTime = 1
INVARIANTS
    TimersTypeOK
    CancelledExactlyBelow
    ResultsAreTrue
    NoFireLost
    VerdictsAreTrue
    JoinIsBounded
PROPERTIES
    UnusableDrains
    KeepsSchedule
    EveryWaitEnds
CHECK_DEADLOCK FALSE
