SPECIFICATION Spec
CONSTANTS
    Keys = {1, 2}
    Values = {v}
    Tombstone = del
    v = v
    del = del
    MaxSeq = 3
    MaxBatch = 1
    MaxNumber = 5
    MaxLevel = 2
    L0Trigger = 1
    Handles = {}
    Faults <- FaultsButHeader
    CompactWhenFailed = FALSE
    Journaled = TRUE
INVARIANTS
    TypeOK
    ReadsNewest
    CrashSafe
    SequencesFresh
    NumbersFresh
    RangesDisjoint
    WalIntact
    Reopenable
