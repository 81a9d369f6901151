SPECIFICATION Spec
CONSTANTS
    Blocks <- MCBlocks
    Genesis = 0
    K = 1
    Work <- MCWork
    MaxBlockParents = 3
    FinalityDepth = 3
    MergeDepth = 1
    MergeSetSizeLimit = 3
    Outpoints <- MCOutpoints
    Scores <- MCScores
    NoEntry = NoEntry
    Txs <- MCTxs
    Spends <- MCSpends
    Payload <- SpentCoinbase
    InitialUTXOs = {coin}
    CoinbaseMaturity = 1
    ResolveChunk = 1
    EnforceMergeDepthFrom = 0
    Honest = FALSE
    Deferred = FALSE
    MaxRestarts = 0
    coin = coin
    t1 = t1
    t2 = t2
    t3 = t3
    t4 = t4
INVARIANTS
    RestoreIsExact
    VerdictsFollowTheDAG
    VirtualIsAValidTemplate
CHECK_DEADLOCK FALSE
