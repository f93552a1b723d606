SPECIFICATION CheckoutSpec
CONSTANTS
    Providers = {"manual", "stripe", "paddle", "xendit", "paymongo"}
    Buyers = {b1}
    PaidPlans = {pro, team}
    MaxSessions = 2
    MaxOwn = 2
INVARIANT HostedActivates
CHECK_DEADLOCK FALSE
