------------------------- MODULE MCViewersPasswords -------------------------
EXTENDS ViewersPasswords
CONSTANTS k1, k2, b1, b2, c1, c2
MCKeys == {k1, k2}
MCBytes == {b1, b2}
MCCalls == {c1, c2}
=============================================================================
