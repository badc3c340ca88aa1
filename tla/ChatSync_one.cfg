CONSTANTS
    Device = {d1}
    Key = {1, 2}
    Value <- MCValue
    NoValue = NoValue
    Observer <- MCObserver
    Content = {"hi"}
    MaxWrites = 2
    MaxObservers = 3
    MaxFaults = 1
    MaxRejects = 0
SPECIFICATION FairChatSpec
CHECK_DEADLOCK FALSE
INVARIANTS
    ChatTypeOK
PROPERTIES
    RowsOnlyGrow
    ChatConverges
