SPECIFICATION FewTargetsSpec
CONSTANTS
    c1 = c1
    c2 = c2
    w1 = w1
    w2 = w2
    t1 = t1
    t2 = t2
    t3 = t3
    t4 = t4
    t5 = t5
    t6 = t6
    alert = alert
    None = None
    Conversations <- TwoConversations
    Workers <- OneWorker
    Alerts <- OneAlert
    Home <- AtFirst
    Tokens <- SixTokens
    Wishes <- OffOrOne
    MaxInputs = 2
    MaxDrifts = 0
    MaxFaults = 1
PROPERTIES
    LeasesEnd
    AlertsAreHandled
CHECK_DEADLOCK FALSE
