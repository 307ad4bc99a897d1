SPECIFICATION Spec
CONSTANTS
    j1 = j1
    j2 = j2
    c1 = c1
    c2 = c2
    c3 = c3
    Jtis = {j1, j2}
    Calls = {c1, c2}
    RefreshInterval = 1
    MaxAge = 1
    FailClosed = TRUE
    CrlTtl = 2
    SignLag = 1
    MaxNow = 4
SYMMETRY Symmetric
INVARIANTS
    NoRevocationMissed
    FreshAnswers
