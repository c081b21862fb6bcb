CONSTANTS
    t1 = t1
    t2 = t2
    Txs <- MCTxs
    NoEntry = NoEntry
    MaxViewers = 2
    Reentrant = FALSE
SPECIFICATION FairSpec
INVARIANTS
    OneRefresh
    NeverForgotten
PROPERTIES
    NeverBackwards
    PendingStays
    PendingEnds
