SPECIFICATION Spec
CONSTANTS
    p1 = p1
    p2 = p2
    Peers = {p1, p2}
    NoPeer = NoPeer
    Blocks = {0, 1, 2, 3, 4, 5, 6}
    Parents <- MCParents
    Past <- MCPast
    Height <- MCHeight
    Relayed = {3, 4, 6}
    InitialBodies = {0, 1}
    OrphanResolutionRange = 3
    MaxOrphans = 2
    MergeDepth = 2
    SyncSlack = 2
    MaxInvs = 2
    MaxFaults = 2
    FailureCost = 2
    Incomplete = {3, 4}
INVARIANTS
    RequestsAreOwned
    OrphansLackAParent
    PanicsOnlyAfterATimeout
PROPERTIES
    BlocksArrive
    FlowsSettle
CHECK_DEADLOCK FALSE
