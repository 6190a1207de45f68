\* One signal is enough to cut off a request.
SPECIFICATION Spec
CONSTANTS
    Requests = {r1}
    Signals = {s1}
    MaxRetries = 1
CHECK_DEADLOCK FALSE
INVARIANT InFlightFinished
