SPECIFICATION CacheSpec
CONSTANTS
    r1 = r1
    r2 = r2
    c1 = c1
    c2 = c2
    Readers = {r1, r2}
    Writers = {c1, c2}
    Scopes <- FlagScopes
    RowKinds <- FlagRows
    ScopeOf <- FlagScopeOf
    Kinds = {"request", "sync"}
    BodyTtl = 1
    VersionTtl = 2
    MaxRequest = 1
    MaxLost = 1
SYMMETRY Perms
INVARIANTS
    CacheSound
    AnnouncedIsSeen
CHECK_DEADLOCK FALSE
