SPECIFICATION Spec
CONSTANTS
    a1 = a1
    a2 = a2
    n1 = n1
    n2 = n2
    Agents = {a1, a2}
    Nonces = {n1, n2}
    Ttl = 2
    MaxNow = 5
SYMMETRY Symmetric
INVARIANTS
    MapsAreTight
PROPERTIES
    CacheImplementsGuard
