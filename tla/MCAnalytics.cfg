SPECIFICATION Spec
CONSTANTS
    u1 = u1
    u2 = u2
    u3 = u3
    Users = {u1, u2, u3}
    Admins = {}
    MaxTime = 4
    Calendar <- MCCalendar
    MaxSessions = 1
    Absent = Absent
    Error = Error
SYMMETRY Symmetry
INVARIANTS
    TrendsAddUp
    RetentionAgreesWithTrends
PROPERTY
    TrendsOnlyGrow
