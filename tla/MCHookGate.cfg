SPECIFICATION FairSpec
CONSTANTS
    Threads = {main, app, worker}
    Main = main
    Worker = worker
    Traces = {b1, b2}
    Files = {f1, f2}
    MaxCalls = 3
    MaxFail = 1
    NULL = NULL
    REDZONE_SIZE = 2
    PAGE_SIZE = 8
    WordSize = 64
    IntHalf = 8
    HISTO_BINS = 3
    HISTO_MAGNIFICATION = 4
PROPERTIES CallsReturn
INVARIANTS TypeOK GateTells AimHeld OneEntryPerTrace NoUndefined AllReleased
CHECK_DEADLOCK FALSE
