CONSTANTS
    c1 = c1
    s1 = s1
    f1 = f1
    f2 = f2
    k1 = k1
    k2 = k2
    srv1 = srv1
    srv2 = srv2
    rot1 = rot1
    rot2 = rot2
    rix = rix
    None = None
    Ids = {1, 2}
    Collections = {c1}
    Subjects = {s1}
    Fields = {f1, f2}
    Items <- AnonymousItem
    Keys = {k1, k2}
    Transit = {}
    Servers = {srv1, srv2}
    Rotators = {rot1, rot2}
    Reindexers = {}
    StartEnv <- EnvAtStart
    StartSchema <- SchemaAtStart
    OldEnv <- EnvOld
    BothEnv <- EnvBoth
    NewEnv <- EnvNew
    OldSchema <- SchemaOld
    NewSchema <- SchemaOld
    RotatesEngine = FALSE
    Rounds = 1
    Drain = FALSE
    Settle = TRUE
    PageSize = 1
    MaxBatch = 1
    MaxReads = 0
    MaxRewrites = 0
SPECIFICATION DSpec
INVARIANTS NothingLost CleanMeansCurrent
PROPERTIES NeverGoesDark
SYMMETRY Symmetry
