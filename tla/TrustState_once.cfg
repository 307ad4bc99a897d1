SPECIFICATION Spec
CONSTANTS
    a1 = a1
    a2 = a2
    k1 = k1
    k2 = k2
    p1 = p1
    p2 = p2
    Anyone = Anyone
    Agents = {a1, a2}
    Kids = {k1}
    Confirms = {p1, p2}
    Ttls = {2}
    Second = 1
    MarkerTtl = 1
    MaxLag = 0
    MaxNow = 1
INVARIANTS
    ConfirmedOnce
