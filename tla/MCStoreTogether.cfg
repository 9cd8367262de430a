CONSTANTS
    c1 = c1
    c2 = c2
    s1 = s1
    f1 = f1
    f2 = f2
    k1 = k1
    k2 = k2
    k3 = k3
    srv1 = srv1
    srv2 = srv2
    rot1 = rot1
    rot2 = rot2
    rix = rix
    None = None
    Subjects = {s1}
    Fields = {f1, f2}
    Keys = {k1, k2}
    Items <- OneItem
    Ids = {1}
    Collections = {c1}
    Transit = {}
    Servers = {srv1, srv2}
    Rotators = {rot1}
    Reindexers = {rix}
    StartEnv <- LateEnv
    StartSchema <- MixedSchema
    PageSize = 1
    MaxBatch = 2
    MaxReads = 1
    MaxRewrites = 1
SPECIFICATION Spec
INVARIANTS FullInv LiveIffKey IndexOnlyLive IndexWhole
PROPERTIES ImplementsVault ShredFinal
