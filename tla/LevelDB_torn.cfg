CONSTANTS
    Writer = {w1, w2}
    MaxCalls = 2
    MaxCrashes = 1
    MaxFaults = 1
    MaxFlushes = 1
    MemEntries = 1
    MaxGroup = 2
    L0Trigger = 1
    L0Slowdown = 1
    L0Stop = 2
SPECIFICATION Spec
CHECK_DEADLOCK FALSE
INVARIANT WritesSurviveProcess
