SPECIFICATION FairSpec
CONSTANTS
    g1 = g1
    g2 = g2
    d1 = d1
    hook = hook
    r1 = r1
    r2 = r2
    None = None
    Gateways <- TwoGateways
    Front = g1
    Deliveries <- OneDelivery
    Provider = "telegram"
    Content <- LongWithFile
    Posted <- OneEvent
    Requests <- TwoRequests
    MaxUpdates = 2
    MaxAttempts = 2
    MaxFaults = 1
INVARIANTS
    SentReachedTheChat
    OneRunPerEvent
    DroppedWereHandled
PROPERTIES
    UpdatesAreHandled
    DeliveriesEnd
CHECK_DEADLOCK FALSE
