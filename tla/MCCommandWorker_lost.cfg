CONSTANTS
    a1 = a1
    a2 = a2
    w = w
    Apps = {a1}
    Worker = w
    Commands <- CommandsMC
    MaxSent = 2
    MaxSpurious = 0
    NULL = NULL
SPECIFICATION Spec
PROPERTY EveryCommandRuns
CHECK_DEADLOCK FALSE
