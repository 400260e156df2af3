SPECIFICATION Spec
CONSTANTS
    Keys = {1}
    Values = {v}
    Tombstone = del
    v = v
    del = del
    MaxSeq = 2
    MaxBatch = 1
    MaxNumber = 5
    MaxLevel = 1
    L0Trigger = 1
    Handles = {}
    Faults = {"build"}
    CompactWhenFailed = TRUE
    Journaled = TRUE
INVARIANT CrashSafe
