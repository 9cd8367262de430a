CONSTANTS
    c1 = c1
    c2 = c2
    s1 = s1
    f1 = f1
    f2 = f2
    k1 = k1
    k2 = k2
    k3 = k3
    srv1 = srv1
    srv2 = srv2
    rot1 = rot1
    rot2 = rot2
    rix = rix
    None = None
    Subjects = {}
    Fields = {f1, f2}
    Keys = {k1, k2, k3}
    Items <- AnonymousItem
    Ids = {1, 2}
    Collections = {c1}
    Transit = {}
    Servers = {srv1, srv2}
    Rotators = {rot1}
    Reindexers = {rix}
    StartEnv <- SplitEnv
    StartSchema <- SameSchema
    PageSize = 1
    MaxBatch = 1
    MaxReads = 0
    MaxRewrites = 1
SPECIFICATION FairSpec
PROPERTIES EveryRequestEnds
CHECK_DEADLOCK FALSE
