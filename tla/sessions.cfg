SPECIFICATION Spec
CONSTANTS
    u1 = u1
    u2 = u2
    o1 = o1
    s1 = s1
    s2 = s2
    NoOrg = NoOrg
    Users = {u1}
    Orgs = {o1}
    Slots = {s1, s2}
    TokenLife = 1
    AccessLife = 1
    ResetLife = 1
    Grace = 0
    MaxTokens = 3
    MaxResets = 1
    MaxClock = 2
SYMMETRY Perms
INVARIANTS
    SessionsSound
    OverlapsOnly
PROPERTIES
    RevocationIsFinal
CHECK_DEADLOCK FALSE
