--------------------------- MODULE MCRelaySession ---------------------------
(* RelaySession for TLC: symmetric sets of model values. *)
EXTENDS RelaySession, TLC

CONSTANTS r1, r2, s1, s2, p1, p2, p3

SymmetricProcs == Permutations({p1, p2, p3})

SymmetricSets == Permutations({s1, s2}) \cup SymmetricProcs
=============================================================================
