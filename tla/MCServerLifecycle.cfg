\* The code's own number of retries.  The process may stop: no deadlock check.
SPECIFICATION Spec
CONSTANTS
    Requests = {r1, r2}
    Signals = {s1, s2}
    MaxRetries = 10
CHECK_DEADLOCK FALSE
INVARIANTS
    TypeOK
    ListensOnlyWithDatabase
    FlagTruthful
    AbruptExitHasCause
    QuitUnderWay
PROPERTIES
    BootEnds
    ShutdownEnds
