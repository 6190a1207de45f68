CONSTANTS
    Runners = {r1, r2}
    Apps = {a1, a2}
    AllowDown = TRUE
    Duplicates = TRUE
SPECIFICATION Spec
SYMMETRY RunnerSymmetry
INVARIANTS
    TypeOK
    RecordedIsApplied
    NoGaps
    InOrderUnlessOverlapped
    OncePerRunner
    LeftoverHasCause
