SPECIFICATION Spec
CONSTANTS
    r1 = r1
    r2 = r2
    g1 = g1
    d1 = d1
    c1 = c1
    None = None
    Requests = {r1, r2}
    Readers = {g1}
    Deleters = {d1}
    Convs = {c1}
    ConvOf <- MCConvOf
    EndsEarly = {r2}
    Cap = 2
    Output <- MCOutput
    MaxBytes = 3
    Chunks = {0, 1, 2, 3}
INVARIANTS
    TypeOK
    ReplayComplete
    Stoppable
PROPERTIES
    IsLog
    ReadersEnd
CHECK_DEADLOCK FALSE
