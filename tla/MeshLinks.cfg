SPECIFICATION LinksSpec
CONSTANTS
    Server = {s1, s2, s3}
    s1 = s1
    s2 = s2
    s3 = s3
    Conn = {1, 2, 3}
    Dialer <- McDialer
    Acceptor <- McAcceptor
    Configs <- McConfigs
    None = None
    MaxFaults = 2
    Lossy = {1}
INVARIANTS
    NewestEntry
    OnlyConfigured
PROPERTY
    Heals
CHECK_DEADLOCK FALSE
