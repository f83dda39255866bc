SPECIFICATION TidyCheckSpec
CONSTANTS
    Threads = {t1}
    Bufs = {b1, b2}
    ARecs = {a1, a2}
    FRecs = {f1, f2}
    FifoSize = 1
    Sizes = {4}
    OomPools = {}
    MaxOom = 1
    Garbage = {NULL}
    NULL = NULL
INVARIANT NoFalseReport
