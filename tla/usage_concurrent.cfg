SPECIFICATION Spec
CONSTANTS
    r1 = r1
    r2 = r2
    r3 = r3
    mA = mA
    k1 = k1
    NoKey = NoKey
    NoRow = NoRow
    NoSnapshot = NoSnapshot
    Requests = {r1, r2, r3}
    Metrics = {mA}
    Keys = {k1}
    Batches <- SmallBatches
    LimitValues = {2, 3}
    MaxMonth = 1
    KeyMonths = 1
    SoftNum = 1
    SoftDen = 2
SYMMETRY Perms
INVARIANTS
    TypeOK
    CountersMatchEvents
    NoOvershoot
    
PROPERTIES
    MetersAtomically
CHECK_DEADLOCK FALSE
