\* The keys of one node: full, partial and failed rotations, policy changes
\* and the passing of time, with the file backend.
CONSTANTS
    n1 = n1
    i1 = i1
    key1 = key1  key2 = key2
    rep1 = rep1
    None = None
    NetworkId = {n1}
    NodeId = {i1}
    TokenId = {}
    Name = {"a"}
    Lower <- McLower
    Domain <- McDomain
    Labels <- McLabels
    Label <- McLabel
    Empty = ""
    Fold <- McFold
    Escape <- McEscape
    Plain <- McPlain
    Key = {key1, key2}
    Tag = {}
    Report = {rep1}
    NoReport = rep1
    Cidr4 <- OneCidr4
    Cidr6 <- OneCidr6
    Acl <- McAcl
    Age = {1, 7}
    Ttl = {1, 7}
    MaxUses = 0
    Backend = "file"
    LockWait = 1
    MaxClock = 2
    MaxRevision = 5
    MaxHistory = 5
    PROBE_TTL_SECONDS = 0
    WIDTH = 3
SYMMETRY OneNodeSymmetry
SPECIFICATION Spec
INVARIANTS
    KeyHistoryCoherent
    OverAgeKeyBlocksUnrevokedPeer
    YoungKeysServe
PROPERTIES
    RotationRestoresService
