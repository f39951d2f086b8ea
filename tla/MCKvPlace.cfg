SPECIFICATION Spec
CONSTANTS
    NSeq = 2
    NSwa = 2
    NUbatch = 2
    SizeBase = 4
    MaxBatch = 3
    MaxLen = 5
    Unified = {TRUE, FALSE}
INVARIANTS
    TypeOK
    SeesWindow
    DryRunUndone
    FailsOnlyWhenShared
PROPERTIES
    OnlyRestoreOpensHole
