SPECIFICATION Spec
CONSTANTS
    k1 = k1
    c1 = c1
    c2 = c2
    Keys <- MCKeys
    Sizes <- MCSizes
    Clients <- MCClients
    StorageLimit = 1
    MaxFiles = 2
    Limit <- MCLimit
    Window = 2
    Logins <- MCClients
INVARIANTS
    
    WithinLimit
PROPERTIES
    LimitsGiveWay
CHECK_DEADLOCK FALSE
