----------------------------- MODULE MCCrlCache -----------------------------
EXTENDS CrlCache, TLC

CONSTANTS j1, j2, c1, c2, c3

Symmetric == Permutations(Jtis) \cup Permutations(Calls)
=============================================================================
