SPECIFICATION Spec
CONSTANTS
    Requests = {r1, r2}
    GdbSessions = {g1}
    GuiSessions = {}
    Probes = {p1}
    None = None
    Faults = {}
    MaxCommands = 0
INVARIANTS
    LeaseCoversServer
CHECK_DEADLOCK FALSE
