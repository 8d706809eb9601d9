\* The file backend changes a netmap without a new revision.
CONSTANTS
    n1 = n1
    i1 = i1
    key1 = key1  key2 = key2
    rep1 = rep1
    None = None
    NetworkId = {n1}
    NodeId = {i1}
    TokenId = {}
    Name = {"a"}
    Lower <- McLower
    Domain <- McDomain
    Labels <- McLabels
    Label <- McLabel
    Empty = ""
    Fold <- McFold
    Escape <- McEscape
    Plain <- McPlain
    Key = {key1, key2}
    Tag = {}
    Report = {rep1}
    NoReport = rep1
    Cidr4 <- OneCidr4
    Cidr6 <- OneCidr6
    Acl <- NameAcl
    Age = {}
    Ttl = {1}
    MaxUses = 0
    Backend = "file"
    LockWait = 0
    MaxClock = 0
    MaxRevision = 5
    MaxHistory = 4
    PROBE_TTL_SECONDS = 0
    WIDTH = 3
SPECIFICATION Spec
PROPERTIES
    NetmapVersioned
