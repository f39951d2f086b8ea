CONSTANTS
    s1 = s1
    s2 = s2
    Seqs <- MCSeqs
    NCells = 2
    MaxPos = 2
    MaxShift = 2
    MaxAccum = 2
    Divisors = {2}
SPECIFICATION KSpec
SYMMETRY SeqSymmetry
CONSTRAINT RowsNear
INVARIANTS
    TypeOK
    BlankWhenEmpty
    IndexExact
    ShiftFlagged
    KRowAtPosition
