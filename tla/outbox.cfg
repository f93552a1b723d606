SPECIFICATION FairSpec
CONSTANTS
    w1 = w1
    w2 = w2
    ep1 = ep1
    ep2 = ep2
    MaxEvent = 3
    Internal = {3}
    Poison = {1}
    Endpoints = {ep1}
    Wants <- MCWants
    Workers = {w1, w2}
    Batch = 2
    MaxAttempts = 2
    MaxCrashes = 1
INVARIANTS
    FanOutExact
    ConsumersAtMostOnce
PROPERTIES
    EventsSettle
CHECK_DEADLOCK FALSE
