SPECIFICATION FairDeliverySpec
CONSTANTS
    MaxDelivery = 2
    Undecryptable = {2}
    Posters = {w1, w2}
    DeliveryBatch = 2
    MaxTries = 2
    MaxDeaths = 1
    Answers = {0, 200, 302}
    MaxCount = 6
    MaxRetries = 1
INVARIANTS
    PostsHonest
PROPERTIES
    DeliveriesSettle
CHECK_DEADLOCK FALSE
