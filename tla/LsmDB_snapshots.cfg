SPECIFICATION Spec
CONSTANTS
    Keys = {1}
    Values = {v}
    Tombstone = del
    v = v
    del = del
    MaxSeq = 3
    MaxBatch = 2
    MaxNumber = 5
    MaxLevel = 2
    L0Trigger = 1
    Handles = {h1, h2}
    h1 = h1
    h2 = h2
    Faults = {"build", "save", "header"}
    CompactWhenFailed = FALSE
    Journaled = TRUE
SYMMETRY HandleSymmetry
INVARIANT
    ReadsNewest
PROPERTY
    SnapshotStable
