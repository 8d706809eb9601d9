SPECIFICATION Spec
CONSTANTS
    Server = {s1, s2, s3}
    s1 = s1
    s2 = s2
    s3 = s3
    Node = {a, b}
    Transport = {"stream", "udp"}
    Mobile <- McMobile
    None = None
    Fragile <- McFragile
    Starts <- McStarts
    Slow = {s2}
    max_hops = 1
    SEEN_TTL = 1
    MAX_SEEN_IDS = 1
    ROUTE_TTL = 0
    MAX_ROUTE_HINTS = 1
    MaxMessages = 2
    MaxClock = 1
    MaxEvents = 1
    a = a
    b = b
INVARIANTS
    TypeOK
    HandledOnce
    
    BoundedFlood

CHECK_DEADLOCK FALSE
