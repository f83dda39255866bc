CONSTANTS
    PAGE_SIZE = 2
    Blocks <- BlocksMC
    Areas <- AreasMC
    Regions = {1, 2, 3}
    MaxOom = 1
    NULL = NULL
SPECIFICATION KeptSpec
INVARIANTS TypeOK RegionsExact AreaUsageExact RegionsReturned
PROPERTIES CommandEnds
