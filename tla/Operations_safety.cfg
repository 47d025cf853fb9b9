SPECIFICATION FairSpec
CONSTANTS
    Requests = {r1, r2}
    Probes = {p1}
    None = None
    Faults = {"cancel", "spawn"}
    MaxAttempts = 2
    MaxOps = 2
INVARIANTS
    ActedOnIdentified
    StagesAudited
    LeasesInOrder
    OneOperationPerProbe
PROPERTIES
    RequestsEnd
CHECK_DEADLOCK FALSE
