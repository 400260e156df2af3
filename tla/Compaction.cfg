CONSTANTS
    Keys = {1, 2}
    Values = {v}
    Tombstone = Tombstone
    MaxSeq = 3
    HeaderBytes = 1
    ValueBytes = 2
    TableBytes = 1
    SliceBytes = 3
    BaseBudgets = {1, 7}
    Width = 6
    L0Trigger = 1
    MaxLevel = 7
    MaxTrouble = 2
SPECIFICATION Spec
INVARIANTS LevelsSorted CompactionMatchesSets ScanMatchesSets DepthBounded
PROPERTY LoopEnds
CHECK_DEADLOCK FALSE
