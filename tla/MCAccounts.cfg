\* Three documents for one email: owner, rival, and the next owner.
SPECIFICATION Spec
CONSTANTS
    Procs = {p1, p2}
    Emails = {e1}
    Ids = {i1, i2, i3}
    Passwords = {w1, w2}
    None = None
SYMMETRY Symmetry
INVARIANTS
    TypeOK
    ActiveEmailUnique
    SharedOnlyByRace
    RefusedOnlyByRace
    TokensEarned
PROPERTY
    ImplementsRegistry
