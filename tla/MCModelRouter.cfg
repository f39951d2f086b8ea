SPECIFICATION Spec
CONSTANTS
    A = A
    B = B
    r1 = r1
    r2 = r2
    r3 = r3
    None = None
    Models = {A, B}
    Requests = {r1, r2, r3}
    Wants <- MCWants
    ModelsMax = 1
    Loaders = {r1, r3}
    Leavers = {r3}
    MaxMishaps = 2
INVARIANTS
    TypeOK
    WithinLimit
    NoGhostWaiters
    ClaimHeld
    BusyIsServing
PROPERTIES
    SlotIsTaken
CHECK_DEADLOCK FALSE
