SPECIFICATION Spec
CONSTANTS
    Txs <- MCTxs
    Outpoints <- MCOutpoints
    Inputs <- MCInputs
    Outputs <- MCOutputs
    Coins <- MCCoins
    Fee <- MCFee
    Mass <- MCMass
    Submissions <- MCSubmissions
    MaximumTransactionCount = 2
    MaximumOrphanTransactionCount = 1
    ExpireInterval = 0
    ScanInterval = 1
    Word = 8
    MaxDAAScore = 1
    MaxReorgs = 1
    MaxCandidates = 1
    MaxEntries = 2
INVARIANT NoDoubleSpend
