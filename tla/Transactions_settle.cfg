CONSTANTS
    Child = {c1, c2}
    Parent = Parent
    MaxTransactions = 2
    LocalEvents = {TRUE, FALSE}
    Limit = 2
    MaxRetries = 2
    MaxDisturbances = 3
SPECIFICATION TransactionsSpec
CHECK_DEADLOCK FALSE
INVARIANTS
    TransactionsTypeOK
    WritesAccountedFor
    OutcomeTold
    QuietIsSettled
