CONSTANTS
    Query = {q1}
    MaxCalls = 3
    MaxDisturbances = 2
SPECIFICATION FairConnectionSpec
CHECK_DEADLOCK FALSE
INVARIANTS
    ConnectionTypeOK
    NeverStranded
    OneWayToConnect
    InterruptedStaysDown
    EveryPutOnce
PROPERTIES
    CredentialFollowsUser
    MissedOnlyByPurge
    EventuallyConnected
    EveryBlockRuns
