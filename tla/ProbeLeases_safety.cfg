SPECIFICATION FairSpec
CONSTANTS
    Probes = {p1, p2}
    Tasks = {t1, t2, t3}
    LeaseIds = {l1, l2, l3}
    None = None
    MaxGrants = 3
    MaxNested = 1
INVARIANTS
    ContextCovered
    NoLostWakeup
PROPERTIES
    NoOvertaking
    GrantsSpec
    WaitEnds
    FreeProbeIsTaken
CHECK_DEADLOCK FALSE
