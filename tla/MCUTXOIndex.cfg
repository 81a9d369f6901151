SPECIFICATION Spec
CONSTANTS
    Outpoints = {1, 2, 3}
    Script <- MCScript
    Amount <- MCAmount
    VirtualSets <- MCVirtualSets
    PageSize = 2
    Capacity = 3
    Word = 5
    MaxVirtuals = 3
    MaxOverrides = 1
    MaxCrashes = 2
INVARIANTS
    IndexIsExact
    DiffsAreContiguous
PROPERTIES
    IndexCatchesUp
CHECK_DEADLOCK FALSE
