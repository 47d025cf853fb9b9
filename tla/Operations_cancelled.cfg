SPECIFICATION Spec
CONSTANTS
    Requests = {r1}
    Probes = {p1}
    None = None
    Faults = {"cancel"}
    MaxAttempts = 2
    MaxOps = 1
INVARIANTS
    EveryActAudited
CHECK_DEADLOCK FALSE
