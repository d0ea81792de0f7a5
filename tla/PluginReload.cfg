SPECIFICATION FairSpec
CONSTANTS
    Plugins = {p1}
    Turns = {t1}
    Revisions = {1, 2, 3}
    Rejected = {2}
    Broken = {3}
    MaxChanges = 2
    MaxFailures = 2
    MaxStops = 1
    None = None
INVARIANTS
    LeasedGenerationsAreKept
    AdmittedOnCommittedSurfaces
PROPERTIES
    SwitchesTakeEffect
CHECK_DEADLOCK FALSE
