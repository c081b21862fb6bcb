------------------------------ MODULE MCClient ------------------------------
EXTENDS Client
CONSTANTS r1, r2, r3
MCRequests == {r1, r2, r3}
MCWithFail == {r1}
=============================================================================
