SPECIFICATION HostSpec
CONSTANTS
    b1 = b1
    b2 = b2
    giga = giga
    other = other
    Processes = {p1, p2}
    Sessions = {s1}
    Nothing = Nothing
    Probes = {j1, j2}
    Boards = {b1, b2}
    Profiles = {giga, other}
    ProfileOf <- MCProfileOf
    Window = 2
    Observations = {"nothing", "foreign", "expected"}
    MaxRows = 2
    Extensions = {e1, e2, e3}
    Names = {core, n1, n2}
    CoreNames = {core}
    Core = Core
    MaxNames = 2
    Callers = {c1, c2}
    Images = {x, y}
    Nil = Nil
    MaxEdits = 1
    Deploys = {d1}
    Validations = {v1}
    Writers = {f1}
    Debuggers = {g1}
    None = None
    MaxFaults = 3
INVARIANTS
    OnlyOverlapBreaksChain
    SessionsAccounted
    SelectedWasAttached
    SelectionNeverGuesses
    FailedLoadLeavesNothing
    DependenciesFirst
    CyclesAreRefused
    HooksAfterDependents
    EveryHookRuns
    ReportedDigestIsFlashed
    EndedHoldsNothing
    EndsAsItSays
    RestoreAttempted
CONSTRAINT Scope
SYMMETRY Symmetry
CHECK_DEADLOCK FALSE
