\* As in MCTxPool.cfg: the worst transaction is dropped while a block is forged.
CONSTANTS
    Txs <- PoolTxs
    Collapses <- PoolCollapses
    Returns <- PoolReturns
    MaxTxCount = 3
    MaxStakers = 1
    NoTx = NoTx
SPECIFICATION Spec
INVARIANT ForgedInputsDiffer
CHECK_DEADLOCK FALSE
