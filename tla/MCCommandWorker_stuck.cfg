CONSTANTS
    a1 = a1
    a2 = a2
    w = w
    Apps = {a1, a2}
    Worker = w
    Commands <- CommandsMC
    MaxSent = 3
    MaxSpurious = 1
    NULL = NULL
SPECIFICATION FairSpec
INVARIANTS TypeOK NoLostWakeup
PROPERTIES NotErased StuckForever HandlersReturn CommandRuns
CHECK_DEADLOCK FALSE
