-------------------------- MODULE MCAccountViewers --------------------------
EXTENDS AccountViewers
CONSTANTS t1, t2
MCTxs == {t1, t2}
=============================================================================
