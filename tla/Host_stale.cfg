SPECIFICATION HostSpec
CONSTANTS
    b1 = b1
    b2 = b2
    giga = giga
    other = other
    Processes = {p1, p2}
    Sessions = {s1}
    Nothing = Nothing
    Probes = {j1, j2}
    Boards = {b1, b2}
    Profiles = {giga, other}
    ProfileOf <- MCProfileOf
    Window = 2
    Observations = {"nothing", "foreign", "expected"}
    MaxRows = 2
    Extensions = {e1}
    Names = {core, n1}
    CoreNames = {core}
    Core = Core
    MaxNames = 1
    Callers = {c1}
    Images = {x, y}
    Nil = Nil
    MaxEdits = 1
    Deploys = {}
    Validations = {}
    Writers = {}
    Debuggers = {}
    None = None
    MaxFaults = 0
INVARIANT StaleSessionsAudited
CONSTRAINT Scope
CHECK_DEADLOCK FALSE
