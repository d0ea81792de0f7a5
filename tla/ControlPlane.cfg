SPECIFICATION FairSpec
CONSTANTS
    Turns = {t1, t2}
    Threads = {h1, h2}
    Connections = {c1}
    WaitsForClients = FALSE
    MaxBoots = 2
    MaxFaults = 2
    None = None
INVARIANTS
    OwnersAreCurrent
    CommittedIsQuiet
PROPERTIES
    RelaunchOnlyAfterDelivery
    AdmissionComesBack
    StopIsHonoured
CHECK_DEADLOCK FALSE
