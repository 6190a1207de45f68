\* A refresh token outlives the clock, an access token expires under it.
SPECIFICATION Spec
CONSTANTS
    Users = {u1}
    Procs = {p1, p2}
    AccessTtl = 1
    RefreshTtl = 3
    RevokeTtl = 3
    FallbackTtl = 1
    MaxTime = 2
    MaxTokens = 1
    None = None
SYMMETRY RequestSymmetry
INVARIANTS
    TypeOK
    RevocationOutlivesToken
    LoggedOutRejected
    CutoffOutlivesTokens
PROPERTIES
    ImplementsRegistry
