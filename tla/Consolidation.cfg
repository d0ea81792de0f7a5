SPECIFICATION MemorySpec
CONSTANTS
    Nobody = Nobody
    SessionKeys = {s1}
    Callers <- Everybody
    Keep = 2
    MinNew = 1
    Threshold = 2
    TailSources = 1
    MaxIds = 3
    MaxFailures = 1
INVARIANTS
    NothingIsForgotten
    FactsAreOnFile
    WaitersAreServed
PROPERTIES
    CursorNeverRetreats
CHECK_DEADLOCK FALSE
