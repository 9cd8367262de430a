SPECIFICATION Spec
CONSTANTS
    Replicas <- MCReplicas
    Migrating = {"old", "new"}
    Needs <- MCNeeds
    Current <- MCCurrent
    Loaded <- MCLoaded
    WrapKeys = {"k1", "k2"}
    MaxKeys = 4
    None = None
INVARIANTS TypeOK MigratedOnce TablesThere OneIndexKey
PROPERTIES IndexKeyStays
