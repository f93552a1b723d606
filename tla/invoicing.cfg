SPECIFICATION FairSpec
CONSTANTS
    c1 = c1
    c2 = c2
    w1 = w1
    w2 = w2
    Clients = {c1, c2}
    Workers = {w1, w2}
    Prices = {2, 8}
    MonthOf <- Calendar
    MaxClock = 4
    MaxRequests = 2
    MaxFailures = 1
INVARIANTS
    
    MoneyConserved
PROPERTIES
    LegalMoves
    Renews
CHECK_DEADLOCK FALSE
