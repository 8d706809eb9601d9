\* A reinstated node with one old key escapes the key policy.
CONSTANTS
    n1 = n1
    i1 = i1
    key1 = key1  key2 = key2
    rep1 = rep1
    None = None
    NetworkId = {n1}
    NodeId = {i1}
    TokenId = {}
    Name = {"a", "b"}
    Lower <- McLower
    Domain <- McDomain
    Labels <- McLabels
    Label <- McLabel
    Empty = ""
    Fold <- McFold
    Escape <- McEscape
    Plain <- McPlain
    Key = {key1, key2}
    Tag = {}
    Report = {rep1}
    NoReport = rep1
    Cidr4 <- OneCidr4
    Cidr6 <- OneCidr6
    Acl <- McAcl
    Age = {0}
    Ttl = {1}
    MaxUses = 0
    Backend = "file"
    LockWait = 0
    MaxClock = 1
    MaxRevision = 7
    MaxHistory = 4
    PROBE_TTL_SECONDS = 0
    WIDTH = 3
SPECIFICATION Spec
INVARIANTS
    OverAgeKeyBlocksPeer
