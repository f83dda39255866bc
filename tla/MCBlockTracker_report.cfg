SPECIFICATION PlainSpec
CONSTANTS
    Threads = {t1, t2}
    Bufs = {b1, b2, b3}
    ARecs = {a1, a2}
    FRecs = {f1, f2}
    FifoSize = 1
    Sizes = {4}
    OomPools = {}
    MaxOom = 1
    Garbage = {NULL}
    NULL = NULL
SYMMETRY Symmetry
INVARIANT DoubleReportOnItsBlock
