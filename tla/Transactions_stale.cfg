CONSTANTS
    Child = {c1, c2}
    Parent = Parent
    MaxTransactions = 2
    LocalEvents = {TRUE}
    Limit = 2
    MaxRetries = 2
    MaxDisturbances = 1
SPECIFICATION TransactionsSpec
CHECK_DEADLOCK FALSE
INVARIANTS
    NoStaleOutput
