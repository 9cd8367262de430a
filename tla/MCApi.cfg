SPECIFICATION Spec
CONSTANTS
    Ids = {1, 2}
    Requests = {q1, q2}
    Clients <- MCClients
    Keys <- MCKeys
    LongKeys = {"k1", "k2", "k3", "k4"}
    RoleNames <- MCRoleNames
    Settings <- MCSettings
    DefaultPerSecond = 4
    MaxTime = 2
    MaxArrivals = 3
    None = None
SYMMETRY Symmetry
INVARIANTS TypeOK PaidFirst WindowBudget AnswersLogged RolesHold Attributed
PROPERTIES ApiImplementsVault
CHECK_DEADLOCK FALSE
