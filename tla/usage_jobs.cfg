SPECIFICATION FairRollupSpec
CONSTANTS
    r1 = r1
    r2 = r2
    mA = mA
    mB = mB
    k1 = k1
    NoKey = NoKey
    NoRow = NoRow
    NoSnapshot = NoSnapshot
    Requests = {r1, r2}
    Metrics = {mA, mB}
    Keys = {k1}
    Batches <- RetryBatches
    LimitValues = {2}
    MaxMonth = 2
    KeyMonths = 1
    SoftNum = 1
    SoftDen = 2
INVARIANTS
    KeyCountedOnce
    JobKeepsRecords
PROPERTIES
    RequestsEnd
    
CHECK_DEADLOCK FALSE
