SPECIFICATION FairSpec
CONSTANTS
    w1 = w1
    w2 = w2
    None = None
    Workers <- TwoWorkers
    Jobs <- TwoJobs
    Repeat <- TwiceAndForEver
    Soft <- Prompts
    Capacity = 10
    MaxTokens = 3
    MaxFaults = 1
INVARIANTS
    OneDeliveryPerFire
    FiresAreAccounted
PROPERTIES
    ClaimsEnd
