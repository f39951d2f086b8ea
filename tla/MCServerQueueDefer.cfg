SPECIFICATION Spec
CONSTANTS
    r1 = r1
    r2 = r2
    r3 = r3
    p1 = p1
    s1 = s1
    s2 = s2
    NoSlot = NoSlot
    NoTask = NoTask
    Runners = {r1, r2, r3}
    Pollers = {}
    Slots = {s1}
    Want <- WantAny
    NDecode = 1
    Leavers = {r1}
    Refusable = {r2}
    MaxSleeps = 0
    MayStop = FALSE
PROPERTIES
    DeferredIsProcessed
CHECK_DEADLOCK FALSE
