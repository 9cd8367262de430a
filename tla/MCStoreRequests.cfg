CONSTANTS
    c1 = c1
    c2 = c2
    s1 = s1
    f1 = f1
    f2 = f2
    k1 = k1
    k2 = k2
    k3 = k3
    srv1 = srv1
    srv2 = srv2
    rot1 = rot1
    rot2 = rot2
    rix = rix
    None = None
    Subjects = {s1}
    Fields = {f1, f2}
    Keys = {k1, k2}
    Items <- OneItem
    Ids = {1, 2}
    Collections = {c1, c2}
    Transit = {}
    Servers = {srv1, srv2}
    Rotators = {}
    Reindexers = {}
    StartEnv <- SameEnv
    StartSchema <- SameSchema
    PageSize = 1
    MaxBatch = 2
    MaxReads = 1
    MaxRewrites = 1
SPECIFICATION Spec
INVARIANTS TypeOK AuditExact RevealAudited EmittedCommitted EraseCovers
PROPERTIES ImplementsVault
SYMMETRY Symmetry
