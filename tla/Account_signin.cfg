CONSTANTS
    Device = {d1, d2}
    Account = {a1}
    MaxCalls = 2
SPECIFICATION FairAccountSpec
CHECK_DEADLOCK FALSE
INVARIANTS
    AccountTypeOK
    LoaderMatchesSignIn
    RecordWrittenOnce
PROPERTIES
    LoaderGoesAway
