CONSTANTS
    r1 = r1  r2 = r2  r3 = r3
    a1 = a1  a2 = a2  a3 = a3
    Owner = Owner  Admin = Admin  Svc = Svc  None = None
    Requests <- MCRequests
    Seeds <- MCSeeds
    Invites = {i1}
    Subjects = {gh1}
    Challenges = {c1}
    Groups = {g1}
    Tokens = {t1}
    MaxUses = 1
    MaxMembers = 2
    MaxStops = 1
    Scenes = {"accounts", "register", "agents", "groups"}
SPECIFICATION MCSpec
SYMMETRY Symmetry
CHECK_DEADLOCK FALSE
INVARIANT LimitsKept
INVARIANT BootstrapStands
INVARIANT SupersededListed
INVARIANT EventsBacked
PROPERTY NoAccessAfterRevoke
