CONSTANTS
    MaxKey = 2
    MaxSeq = 3
    NumLevels = 3
    MaxMemCompactLevel = 1
    L0Trigger = 2
    LevelEntries = 2
    MaxFileEntries = 2
    OverlapFactor = 1
    ExpandFactor = 3
    MaxSnapshots = 1
    MaxManual = 1
    ManualKeys = {1, 2}
SPECIFICATION FairSpec
CHECK_DEADLOCK FALSE
INVARIANTS
    LevelTypeOK
    SnapshotsStable
PROPERTY LevelsSettle
