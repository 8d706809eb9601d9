SPECIFICATION Spec
CONSTANTS
    Conn = {1, 2}
    Node = {a, b}
    UdpNode = {b}
    Addr = {x}
    None = None
    MeshTask = MeshTask
    HEADER_LEN = 1
    MAX_ID_LEN = 1
    MAX_FRAME_LEN = 4
    PEER_TTL = 2
    PERIOD = 1
    MaxFrames = 2
    Starts <- McStarts
INVARIANTS TypeOK Listed Lifetime RightRelay OnePlace
PROPERTIES NoneMissed Answered
CHECK_DEADLOCK FALSE
