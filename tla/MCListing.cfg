SPECIFICATION Spec
CONSTANTS
    u1 = u1
    u2 = u2
    u3 = u3
    Users = {u1, u2, u3}
    Admins = {}
    Walkers = {w1}
    Filters = {"none", "all"}
    Limit = 2
    MaxTime = 3
    None = None
SYMMETRY Symmetry
INVARIANTS
    TypeOK
    CountMatchesRows
    MissedHasCause
    RepeatedHasCause
