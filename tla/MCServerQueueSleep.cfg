SPECIFICATION Spec
CONSTANTS
    r1 = r1
    r2 = r2
    r3 = r3
    p1 = p1
    s1 = s1
    s2 = s2
    NoSlot = NoSlot
    NoTask = NoTask
    Runners = {r1, r2}
    Pollers = {p1}
    Slots = {s1}
    Want <- WantOne
    NDecode = 1
    Leavers = {}
    Refusable = {}
    MaxSleeps = 1
    MayStop = FALSE
PROPERTIES
    AnsweredBeforeSleep
CHECK_DEADLOCK FALSE
