SPECIFICATION CleanSpec
CONSTANTS
    Threads = {t1, t2}
    Bufs = {b1, b2}
    ARecs = {1, 2}
    FRecs = {3, 4}
    FifoSize = 1
    Sizes = {4, 20}
    OomPools = {}
    MaxOom = 0
    Garbage = {NULL}
    NULL = NULL
INVARIANT CountersAgree
PROPERTIES CheckFinishes CallsFinish
