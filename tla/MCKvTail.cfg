SPECIFICATION Spec
CONSTANTS
    NCells = 5
    Seqs = {s1, s2}
    NTokens = 2
    Rollback = 1
    NUbatch = 4
    MaxLen = 4
    GenWrap = 2
VIEW RelativeView
SYMMETRY SeqSymmetry
INVARIANTS
    TypeOK
    ReadsExact
    NewestAreExact
    SlotsOwned
PROPERTY FailureIsLocal
