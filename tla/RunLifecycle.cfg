SPECIFICATION FairSpec
CONSTANTS
    c1 = c1
    w1 = w1
    w2 = w2
    None = None
    Conversations <- OneConversation
    Workers <- TwoWorkers
    MaxRuns = 3
    MaxFaults = 1
    MaxCancels = 1
INVARIANTS
    OneRunningPerConversation
    OwnershipFencesAttempts
    EventsTellTheStory
PROPERTIES
    KeepsPromise
    EveryRunSettles
CHECK_DEADLOCK FALSE
