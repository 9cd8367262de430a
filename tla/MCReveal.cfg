CONSTANTS
    None = None
    local = local
    transit = transit
    lost = lost
    Ids = {1, 2, 3, 4}
    Unknown = {5, 6}
    Keys <- MCKeys
    Loaded = {local, transit}
    Batching = {transit}
    Binding = {local}
    Tables <- MCTables
    Requests <- MCRequests
    BatchSize = 2
SPECIFICATION Spec
INVARIANTS OpenManyExact AnswerExact RoundTrips
CHECK_DEADLOCK FALSE
