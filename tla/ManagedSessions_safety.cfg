SPECIFICATION FairSpec
CONSTANTS
    Requests = {r1, r2, r3}
    GdbSessions = {g1}
    GuiSessions = {u1}
    Probes = {p1}
    None = None
    Faults = {"cancel", "client"}
    MaxCommands = 1
INVARIANTS
    RegisteredHoldsLease
    LeasesHaveUsers
    StopsAudited
    RowsMatchLeases
PROPERTIES
    StopCompletes
CHECK_DEADLOCK FALSE
