SPECIFICATION FairTurnsSpec
CONSTANTS
    n1 = n1
    here = here
    there = there
    c1 = c1
    c2 = c2
    Nothing = Nothing
    MaxMessages = 3
    Sessions <- TwoSessions
    Chats <- TwoChats
    SessionOf <- Apart
    ChatOf <- Chat
    Background <- Child
    Notices <- OneNotice
    MaxPushes = 1
    MaxTroubles = 1
INVARIANTS
    LaneCountsAreExact
    PushesAreNotStuck
    AnswersAreShownInOrder
    InterruptedTurnsAreKept
PROPERTIES
    TurnsWaitForEachOther
    EveryTurnEnds
CHECK_DEADLOCK FALSE
