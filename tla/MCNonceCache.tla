---------------------------- MODULE MCNonceCache ----------------------------
EXTENDS NonceCache, TLC

CONSTANTS a1, a2, n1, n2

Symmetric == Permutations({a1, a2}) \cup Permutations({n1, n2})
=============================================================================
