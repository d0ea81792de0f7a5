SPECIFICATION Spec
CONSTANTS
    c1 = c1
    c2 = c2
    w1 = w1
    w2 = w2
    t1 = t1
    t2 = t2
    t3 = t3
    t4 = t4
    t5 = t5
    t6 = t6
    alert = alert
    None = None
    Conversations <- OneConversation
    Workers <- TwoWorkers
    Alerts <- OneAlert
    Home <- AtFirst
    Tokens <- SixTokens
    Wishes <- OffOrBoth
    MaxInputs = 2
    MaxDrifts = 1
    MaxFaults = 1
INVARIANTS
    OneMessagePerTick
CHECK_DEADLOCK FALSE
SYMMETRY Symmetric
