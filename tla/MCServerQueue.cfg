SPECIFICATION Spec
CONSTANTS
    r1 = r1
    r2 = r2
    r3 = r3
    p1 = p1
    s1 = s1
    s2 = s2
    NoSlot = NoSlot
    NoTask = NoTask
    Runners = {r1, r2}
    Pollers = {p1}
    Slots = {s1}
    Want <- WantOne
    NDecode = 2
    Leavers = {r1}
    Refusable = {r2}
    MaxSleeps = 1
    MayStop = TRUE
INVARIANTS
    TypeOK
    NothingLost
    WorkerOnlyInYield
    ResultsHaveReader
PROPERTIES
    Answered
    Terminates
CHECK_DEADLOCK FALSE
