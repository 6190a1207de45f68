SPECIFICATION Spec
CONSTANTS
    Processes = {p1, p2}
    Sockets = {s1, s2}
    Channels = {c1}
    Home <- MCHome
    MaxMsgs = 2
    None = None
INVARIANTS
    TypeOK
    InOrderOnce
    DeliveredOrCause
PROPERTIES
    Delivered
    ImplementsMulticast
