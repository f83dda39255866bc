CONSTANTS
    PAGE_SIZE = 16
    HeaderSize = 5
    memblk_size = 2
    WordBits = 2
    MMAP_BATCH_PAGE_NUM = 2
    Top = 48
    Pages <- PagesTwoBatches
    MaxGaps = 2
    NULL = NULL
SPECIFICATION MCSpec
INVARIANTS TypeOK PagesAgree ListWhole
PROPERTIES PoolSpec AllocReturns
