SPECIFICATION Spec
CONSTANTS
    Blocks <- MCBlocks
    Genesis = 0
    K = 1
    Work <- MCWork
    MaxBlockParents = 2
    Arrival <- MCArrival
    Capacity = 32
    ReindexSlack = 1
    ReindexWindow = 1
INVARIANTS
    KCluster
    MergeSetsOrderThePast
    ReachabilityIsExact
    HeadersSelectedChainIsExact
CHECK_DEADLOCK FALSE
