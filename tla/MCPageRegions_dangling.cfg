CONSTANTS
    PAGE_SIZE = 2
    Blocks <- BlocksApart
    Areas <- AreasMC
    Regions = {1, 2, 3, 4, 5, 6}
    MaxOom = 0
    NULL = NULL
SPECIFICATION Spec
INVARIANT UsageExact
