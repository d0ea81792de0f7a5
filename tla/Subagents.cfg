SPECIFICATION FairSpec
CONSTANTS
    w1 = w1
    w2 = w2
    j1 = j1
    j2 = j2
    run = run
    None = None
    Workers <- TwoWorkers
    Jobs <- TwoJobs
    RunIds <- OneRun
    Capacity = 1
    MaxFaults = 1
INVARIANTS
    OneResultPerJob
PROPERTIES
    JobsKeepTheirPromise
    EveryJobSettles
CHECK_DEADLOCK FALSE
