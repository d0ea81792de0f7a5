SPECIFICATION FairSpec
CONSTANTS
    a = a
    b = b
    NoRow = NoRow
    Calls <- TwoCalls
    MaxSlots = 2
    MaxAttempts = 2
    MaxRetries = 1
    MaxFaults = 1
INVARIANTS
    AtMostOncePerSlot
    RecordedResultIsReal
PROPERTIES
    ExecutionsEnd
CHECK_DEADLOCK FALSE
