---------------------------- MODULE MCWalletKeys ----------------------------
EXTENDS WalletKeys
CONSTANTS k1, k2, p1, p2
MCKeys == {k1, k2}
MCPasswords == {p1, p2}
Symmetry == Permutations(MCKeys) \cup Permutations(MCPasswords)
=============================================================================
