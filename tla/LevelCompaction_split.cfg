CONSTANTS
    MaxKey = 1
    MaxSeq = 4
    NumLevels = 3
    MaxMemCompactLevel = 1
    L0Trigger = 2
    LevelEntries = 1
    MaxFileEntries = 1
    OverlapFactor = 1
    ExpandFactor = 3
    MaxSnapshots = 2
    MaxManual = 0
    ManualKeys = {}
SPECIFICATION Spec
CHECK_DEADLOCK FALSE
INVARIANT EntriesNeverHop
