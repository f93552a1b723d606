SPECIFICATION FairSpec
CONSTANTS
    Handlers = {h1, h2}
    Invoices = {i1}
    MaxEvent = 3
    MaxAgain = 1
    MaxFailures = 1
INVARIANTS
    HandledOnce
    InOrderConverges
PROPERTIES
    EventsHandled
CHECK_DEADLOCK FALSE
