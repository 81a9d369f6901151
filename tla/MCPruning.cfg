SPECIFICATION FairSpec
CONSTANTS
    Blocks <- MCBlocks
    Genesis = 0
    K = 1
    Work <- MCWork
    MaxBlockParents = 2
    FinalityDepth = 3
    MergeDepth = 2
    MergeSetSizeLimit = 4
    PruningDepth = 4
    WindowSize = 1
    ResolveChunk = 1
    EnforceMergeDepthFrom = 7
    MaxDeferred = 2
    DeferFrom = 7
    MayDefer = TRUE
    MaxSideBlocks = 2
    MaxForkDepth = 1
    MaxCrashes = 1
INVARIANTS
    NeverFails
    PruningPointsStartIntervals
    DeletionIsExact
    HeaderPruningPointIsCommon
PROPERTIES
    UpdateCompletes
    ImplementsPruningUTXOSet
    AnticoneIsClosed
CHECK_DEADLOCK FALSE
