SPECIFICATION Spec
CONSTANTS
    o = o
    p = p
    s1 = s1
    s2 = s2
    u1 = u1
    r1 = r1
    r2 = r2
    a = a
    b = b
    system = system
    special = special
    People <- MCPeople
    Owner = o
    Nobody = Nobody
    Slots <- MCSlots
    SeatLimit = 1
    MaxRows = 3
    Accounts <- MCAccounts
    Requests <- MCRequests
    Perms <- MCPerms
    SystemRole = system
    SystemPerms <- MCSystemPerms
    CustomRole = special
    Grants <- MCGrants
    Nothing = Nothing
    MaxChanges = 2
    Asked = b
SYMMETRY Perms2

    
    
    
PROPERTIES
    RemovedStaysOut
CHECK_DEADLOCK FALSE
