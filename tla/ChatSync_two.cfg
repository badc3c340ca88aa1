CONSTANTS
    Device = {d1, d2}
    Key = {1, 2}
    Value <- MCValue
    NoValue = NoValue
    Observer <- MCObserver
    Content = {}
    MaxWrites = 1
    MaxObservers = 2
    MaxFaults = 1
    MaxRejects = 1
SPECIFICATION ChatSpec
CHECK_DEADLOCK FALSE
SYMMETRY DeviceSymmetry
INVARIANTS
    ScreensMirrorStore
    NothingForgotten
