SPECIFICATION Spec
CONSTANTS
    Keys = {1, 2}
    Values = {v}
    Tombstone = del
    v = v
    del = del
    MaxSeq = 2
    MaxBatch = 2
    MaxNumber = 4
    MaxLevel = 2
    L0Trigger = 1
    Handles = {h}
    h = h
    Faults = {"wal", "save", "newwal"}
    CompactWhenFailed = FALSE
    Journaled = TRUE
PROPERTY
    ImplementsKVStore
