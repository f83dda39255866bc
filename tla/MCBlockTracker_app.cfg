SPECIFICATION AppSpec
CONSTANTS
    Threads = {t1, t2}
    Bufs = {b1, b2, b3}
    ARecs = {a1, a2, a3}
    FRecs = {f1, f2, f3}
    FifoSize = 2
    Sizes = {20}
    OomPools = {}
    MaxOom = 0
    Garbage = {NULL}
    NULL = NULL
SYMMETRY Symmetry
INVARIANTS NoFalseReport QuarantineIntact
