SPECIFICATION DecodeSpec
CONSTANTS
    G = 2
    NGroups = 6
    StageGroups = 4
    Seqs = {s1, s2}
    NUbatch = 2
    MaxBatch = 2
    MaxLen = 8
INVARIANTS
    ReadsWhatWasStored
CHECK_DEADLOCK FALSE
