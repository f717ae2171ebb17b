--------------------------- MODULE MCAccountSignOut ---------------------------
EXTENDS AccountPublication
CONSTANTS k1, s1, n1, u1
=============================================================================
