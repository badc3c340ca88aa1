CONSTANTS
    Device = {d1}
    Key = {k1}
    Value = {v1, v2}
    NoValue = NoValue
    Observer = {o1}
    MaxWrites = 3
    MaxObservers = 1
    MaxFaults = 2
    MaxRejects = 1
SPECIFICATION DBSpec
CHECK_DEADLOCK FALSE
INVARIANTS
    DBTypeOK
    ListensCounted
    QuietMirrorsStore
    PutsAccountedFor
PROPERTIES
    ImplementsBoard
