SPECIFICATION FairSpec
CONSTANTS
    Blocks <- MCBlocks
    Genesis = 0
    K = 1
    Work <- MCWork
    MaxBlockParents = 2
    FinalityDepth = 3
    MergeDepth = 2
    MergeSetSizeLimit = 10
    Outpoints <- MCOutpoints
    Scores <- MCScores
    NoEntry = NoEntry
    Txs <- MCTxs
    Spends <- MCSpends
    Payload <- DoubleSpend
    InitialUTXOs = {coin}
    CoinbaseMaturity = 2
    ResolveChunk = 1
    EnforceMergeDepthFrom = 100
    Honest = TRUE
    Deferred = TRUE
    MaxRestarts = 0
    coin = coin
    t1 = t1
    t2 = t2
    t3 = t3
    t4 = t4
INVARIANTS
    NeverFails
    VirtualIsHeaviest
PROPERTIES
    ImplementsUTXODiffChain
    VirtualCatchesUp
