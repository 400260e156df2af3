SPECIFICATION Spec
CONSTANTS
    Keys = {1, 2, 3}
    Values = {v}
    Tombstone = del
    v = v
    del = del
    MaxSeq = 4
    MaxBatch = 1
    MaxNumber = 6
    MaxLevel = 2
    L0Trigger = 1
    Handles = {}
    Faults = {}
    CompactWhenFailed = FALSE
    Journaled = TRUE
INVARIANTS
    ReadsNewest
    ScanMatchesGet
    RangesDisjoint
