\* Overlay prefixes and node addresses: two networks, three nodes, deletions
\* and allocations that fail half way.
CONSTANTS
    n1 = n1  n2 = n2
    i1 = i1  i2 = i2  i3 = i3
    k1 = k1
    key1 = key1
    rep1 = rep1
    None = None
    NetworkId = {n1, n2}
    NodeId = {i1, i2, i3}
    TokenId = {k1}
    Name = {"a", "b"}
    Lower <- McLower
    Domain <- McDomain
    Labels <- McLabels
    Label <- McLabel
    Empty = ""
    Fold <- McFold
    Escape <- McEscape
    Plain <- McPlain
    Key = {key1}
    Tag = {}
    Report = {rep1}
    NoReport = rep1
    Cidr4 <- McCidr4
    Cidr6 <- McCidr6
    Acl <- McAcl
    Age = {}
    Ttl = {0, 1}
    MaxUses = 1
    Backend = "file"
    LockWait = 0
    MaxClock = 0
    MaxRevision = 4
    MaxHistory = 2
    PROBE_TTL_SECONDS = 0
    WIDTH = 3
SYMMETRY IdSymmetry
SPECIFICATION Spec
INVARIANTS
    TypeOK
    ReferentialIntegrity
    AddressesUnique
    AddressesUsable
    AddressInv
    TokensNotOverdrawn
