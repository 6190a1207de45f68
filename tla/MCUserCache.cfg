\* All three kinds of keys; no symmetry, as a liveness property is checked.
SPECIFICATION Spec
CONSTANTS
    Users = {u1}
    ListKeys = {l1}
    StatKeys = {s1}
    Procs = {p1, p2}
    MaxVer = 2
    None = None
INVARIANTS
    TypeOK
    StaleOnlyByRace
PROPERTIES
    EventuallyCoherent
    ImplementsContract
