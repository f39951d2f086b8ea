SPECIFICATION Spec
CONSTANTS
    G = 3
    NGroups = 3
    StageGroups = 1
    Seqs = {s1, s2}
    NUbatch = 2
    MaxBatch = 3
    MaxLen = 6
SYMMETRY SeqSymmetry
INVARIANTS
    TypeOK
    NoStageAlias
    ReadsWhatWasStored
    OneSetPerGroup
    LiveGroupHasHead
    SealedLivesInRecords
