CONSTANTS
    Runners = {r1}
    Apps = {a1}
    AllowDown = TRUE
    Duplicates = FALSE
SPECIFICATION Spec
INVARIANT TracksApplied
