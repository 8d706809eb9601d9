\* Two writes through two servers that share a database, with one connection
\* each and up to two crashes.
CONSTANTS
    Server = {s1, s2}
    Request = {r1, r2}
    None = None
    max_connections = 1
    MaxCrashes = 2
SPECIFICATION Spec
INVARIANTS
    TypeOK
    AcknowledgedStays
PROPERTIES
    RequestsEnd
    ImplementsStore
