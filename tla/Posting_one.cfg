CONSTANTS
    Device = {d1}
    Key = {1, 2}
    Value <- MCValue
    NoValue = NoValue
    Observer = {1}
    MaxWrites = 2
    MaxObservers = 1
    MaxFaults = 1
    MaxRejects = 1
SPECIFICATION PostingSpec
CHECK_DEADLOCK FALSE
INVARIANTS
    PostingTypeOK
    ImagePostHasImage
    ProfileMirrorsStore
PROPERTIES
    PostsOnlyReplaced
