CONSTANTS
    Runners = {r1}
    Apps = {a1}
    AllowDown = FALSE
    Duplicates = FALSE
SPECIFICATION Spec
INVARIANT BootMakesEmailUnique
