---------------------------- MODULE MCTrustState ----------------------------
EXTENDS TrustState, TLC

CONSTANTS a1, a2, k1, k2, p1, p2

SymmetricAgents == Permutations(Agents) \cup Permutations(Kids) \cup Permutations(Confirms)
=============================================================================
