--------------------------- MODULE MCNonceReplay ---------------------------
EXTENDS NonceReplay, TLC

CONSTANTS k1, k2

Symmetric == Permutations({k1, k2})
=============================================================================
