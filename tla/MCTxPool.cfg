\* Two senders, a replacement, a stake, two collapses and a system unstake.
CONSTANTS
    Txs <- PoolTxs
    Collapses <- PoolCollapses
    Returns <- PoolReturns
    MaxTxCount = 3
    MaxStakers = 1
    NoTx = NoTx
ACTION_CONSTRAINTS ForgeOnce MergeLost UntilOvertaken NoEmptyBlock ReturnAlone
CONSTRAINT UntilStale
SPECIFICATION Spec
INVARIANTS TypeOK PoolAgrees NoDoubleSpendInBlock
CHECK_DEADLOCK FALSE
