SPECIFICATION Spec
CONSTANTS
    D8 = D8
    D9 = D9
    D10 = D10
    Pins = {D8, D9, D10}
    UartPorts = {1}
    Sockets = {0, 1}
    UsbDevices = {u1}
    Peers = {x1, x2}
    None = None
INVARIANTS
    RadioExclusive
