\* The log and the names of two nodes, with the database backend.
CONSTANTS
    n1 = n1
    i1 = i1  i2 = i2
    k1 = k1
    key1 = key1  key2 = key2
    rep1 = rep1
    None = None
    NetworkId = {n1}
    NodeId = {i1, i2}
    TokenId = {k1}
    Name = {"a", "A", "AA", "b"}
    Lower <- McLower
    Domain <- McDomain
    Labels <- McLabels
    Label <- McLabel
    Empty = ""
    Fold <- McFold
    Escape <- McEscape
    Plain <- McPlain
    Key = {key1, key2}
    Tag = {}
    Report = {rep1}
    NoReport = rep1
    Cidr4 <- OneCidr4
    Cidr6 <- OneCidr6
    Acl <- McAcl
    Age = {}
    Ttl = {1}
    MaxUses = 1
    Backend = "db"
    LockWait = 0
    MaxClock = 0
    MaxRevision = 5
    MaxHistory = 4
    PROBE_TTL_SECONDS = 0
    WIDTH = 3
SYMMETRY KeySymmetry
SPECIFICATION Spec
INVARIANTS
    AuditTrail
    NamesResolve
PROPERTIES
    NamesClashOnlyByReinstatement
