\* As in MCTxPool.cfg: a block is finalized while a transaction is inserted.
CONSTANTS
    Txs <- PoolTxs
    Collapses <- PoolCollapses
    Returns <- PoolReturns
    MaxTxCount = 3
    MaxStakers = 1
    NoTx = NoTx
SPECIFICATION Spec
PROPERTY FinalizeRemoves
CHECK_DEADLOCK FALSE
