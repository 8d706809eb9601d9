\* A network whose nodes are all revoked is still refused deletion.
CONSTANTS
    n1 = n1
    i1 = i1
    key1 = key1
    rep1 = rep1
    None = None
    NetworkId = {n1}
    NodeId = {i1}
    TokenId = {}
    Name = {"a", "b"}
    Lower <- McLower
    Domain <- McDomain
    Labels <- McLabels
    Label <- McLabel
    Empty = ""
    Fold <- McFold
    Escape <- McEscape
    Plain <- McPlain
    Key = {key1}
    Tag = {}
    Report = {rep1}
    NoReport = rep1
    Cidr4 <- OneCidr4
    Cidr6 <- OneCidr6
    Acl <- McAcl
    Age = {}
    Ttl = {1}
    MaxUses = 0
    Backend = "file"
    LockWait = 0
    MaxClock = 0
    MaxRevision = 5
    MaxHistory = 2
    PROBE_TTL_SECONDS = 0
    WIDTH = 3
SPECIFICATION Spec
INVARIANTS
    RevokingFreesNetwork
