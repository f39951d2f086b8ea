SPECIFICATION RetrySpec
CONSTANTS
    G = 2
    NGroups = 4
    StageGroups = 4
    Seqs = {s1, s2}
    NUbatch = 1
    MaxBatch = 3
    MaxLen = 5
INVARIANTS
    ReadsWhatWasStored
