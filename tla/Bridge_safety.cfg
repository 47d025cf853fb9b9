SPECIFICATION BridgeSpec
CONSTANTS
    D8 = D8
    D9 = D9
    D10 = D10
    Pins = {D8, D9, D10}
    UartPorts = {1}
    Sockets = {0, 1}
    UsbDevices = {u1}
    Peers = {x1, x2}
    None = None
    r1 = r1
    r2 = r2
    r3 = r3
    Requests = {r1, r2, r3}
    RequestLength <- RequestLengths
    AnswerLength <- AnswerLengths
    Nobody = Nobody
    MaxFaults = 1
    Full = 2
    Values = {0, 1, 2}
    Capacity = 5
    MaxLength = 2
    MaxFrames = 3
    MaxNoise = 1
    MaxBody = 6
    QueueCount = 2
    Slice = 10
    Channels = {1, 2}
    Lengths = {1, 2}
    Limits = {1, 3, 7}
    MaxOffers <- Offers
INVARIANTS
    PinsServeOwners
    RadioModeTruthful
    AcceptedIsMine
    ExecutedInOrder
    PortExclusive
    UntouchedArrive
    SidesAgree
    SentIsAccepted
    WaitsFitDeadline
    NothingLostUncounted
PROPERTIES
    PromiseSpec
CHECK_DEADLOCK FALSE
