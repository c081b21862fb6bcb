CONSTANTS
    t1 = t1
    t2 = t2
    Txs <- MCTxs
    NoEntry = NoEntry
    MaxViewers = 1
    Reentrant = TRUE
SPECIFICATION Spec
INVARIANT RefreshFindsEntry
