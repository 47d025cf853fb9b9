--------------------------- MODULE BridgeFirmware ---------------------------
(***************************************************************************)
(* The resources of the protocol bridge firmware (protocol_bridge.ino and   *)
(* BridgeResources.h of the giga_protocol_bridge extension): ownership of   *)
(* the dynamic pins, the configured peripherals, the selected USB device    *)
(* and the radio with its Wi-Fi sockets and its BLE peer.                   *)
(*                                                                          *)
(* The firmware is one thread: a request is dispatched to its end before    *)
(* the next, so each handler is one step.  A request that is answered with  *)
(* an error and changes nothing is a stuttering step and left out; the      *)
(* handlers that fail after they changed something say so with ok.  The     *)
(* receive queue and the pollers that fill it are in ReceiveQueue.          *)
(***************************************************************************)
EXTENDS Naturals, FiniteSets

CONSTANTS Pins,       \* the safe dynamic pins
          D8, D9,     \* the pins of CAN1 and of I2C bus 1
          UartPorts,  \* 0..3 in the code
          Sockets,    \* 0..7 in the code
          UsbDevices, \* devices on the host port
          Peers,      \* BLE peers
          None

ASSUME PinsAssumption == D8 \in Pins /\ D9 \in Pins /\ D8 # D9
ASSUME NoneAssumption == None \notin UsbDevices \cup Peers
ASSUME SocketsAssumption == Sockets \subseteq Nat

Owners == {"gpio", "spi0", "spi1", "can1", "i2c1"}
Buses == {0, 1}

VARIABLES
    owner,      \* owners_: owner[p], or "free"
    pad,        \* pad[p]: the function the pin was last switched to, or "reset"
    gpio,       \* gpio_configured: the pins
    output,     \* gpio_output: the pins
    uart,       \* uart_configured: the ports
    can,        \* can_configured: the buses
    usb,        \* usb_device, or None
    radio,      \* radio_mode: 0 none, 1 Wi-Fi, 2 BLE
    wifi,       \* wifi_connected
    sockets,    \* socket_used: the sockets
    ready,      \* ble_initialized
    peer,       \* ble_peer, or None
    subscribed, \* ble_subscribed
    code,       \* expected_pairing_code is set
    crossed     \* history: a radio was disconnected while the other was in use

pins == <<owner, pad, gpio, output>>
ble == <<ready, peer, subscribed, code>>
net == <<wifi, sockets>>
vars == <<pins, uart, can, usb, radio, net, ble, crossed>>

Init ==
    /\ owner = [p \in Pins |-> "free"]
    /\ pad = [p \in Pins |-> "reset"]
    /\ gpio = {} /\ output = {} /\ uart = {} /\ can = {}
    /\ usb = None
    /\ radio = 0 /\ wifi = FALSE /\ sockets = {}
    /\ ready = FALSE /\ peer = None /\ subscribed = FALSE /\ code = FALSE
    /\ crossed = FALSE

-----------------------------------------------------------------------------
(* Pins and peripherals                                                     *)

\* Mutant: a claim that looks at the first pin only.
ClaimFirst(set, o) ==
    /\ \E p \in set : owner[p] \in {"free", o}
    /\ owner' = [p \in Pins |-> IF p \in set THEN o ELSE owner[p]]

\* claim and claimPair: all of the pins, or none and the request is refused.
Claim(set, o) ==
    /\ \A p \in set : owner[p] \in {"free", o}
    /\ owner' = [p \in Pins |-> IF p \in set THEN o ELSE owner[p]]

Switch(set, o) == pad' = [p \in Pins |-> IF p \in set THEN o ELSE pad[p]]

ConfigureUart(port) ==
    /\ uart' = uart \cup {port}
    /\ UNCHANGED <<pins, can, usb, radio, net, ble, crossed>>

\* CAN1 claims D8 before its controller is started, and keeps it if that
\* fails.
ConfigureCan(bus, ok) ==
    /\ \/ bus = 0 /\ UNCHANGED <<owner, pad>>
       \/ bus = 1 /\ Claim({D8}, "can1") /\ Switch({D8}, "can1")
    /\ can' = IF ok THEN can \cup {bus} ELSE can
    /\ UNCHANGED <<gpio, output, uart, usb, radio, net, ble, crossed>>

\* The chip select becomes an output of the bus.
SpiExchange(bus, p) ==
    /\ Claim({p}, IF bus = 0 THEN "spi0" ELSE "spi1")
    /\ Switch({p}, IF bus = 0 THEN "spi0" ELSE "spi1")
    /\ UNCHANGED <<gpio, output, uart, can, usb, radio, net, ble, crossed>>

\* Bus 1 is started on D8 and D9 whether or not the transfer succeeds; bus 0
\* has pins of its own.
I2cExchange ==
    /\ Claim({D8, D9}, "i2c1")
    /\ Switch({D8, D9}, "i2c1")
    /\ UNCHANGED <<gpio, output, uart, can, usb, radio, net, ble, crossed>>

GpioConfigure(p, out) ==
    /\ Claim({p}, "gpio")
    /\ Switch({p}, "gpio")
    /\ gpio' = gpio \cup {p}
    /\ output' = IF out THEN output \cup {p} ELSE output \ {p}
    /\ UNCHANGED <<uart, can, usb, radio, net, ble, crossed>>

-----------------------------------------------------------------------------
(* USB host                                                                 *)

\* The selector matches one device, whose interface enumerates.
UsbSelect(d) ==
    /\ usb' = d
    /\ UNCHANGED <<pins, uart, can, radio, net, ble, crossed>>

UsbRelease ==
    /\ usb' = None
    /\ UNCHANGED <<pins, uart, can, radio, net, ble, crossed>>

-----------------------------------------------------------------------------
(* Wi-Fi                                                                    *)

\* Mutant: a failed connection keeps the radio.
WifiConnectKeeps(ok) ==
    /\ radio # 2
    /\ wifi' = ok
    /\ radio' = 1
    /\ UNCHANGED <<pins, uart, can, usb, sockets, ble, crossed>>

\* Refused while BLE has the radio.  A failed connection gives the radio back
\* and drops an earlier connection, but not the sockets opened over it.
WifiConnect(ok) ==
    /\ radio # 2
    /\ wifi' = ok
    /\ radio' = IF ok THEN 1 ELSE 0
    /\ UNCHANGED <<pins, uart, can, usb, sockets, ble, crossed>>

\* Accepted at any time.
WifiDisconnect ==
    /\ sockets' = {}
    /\ wifi' = FALSE
    /\ radio' = 0
    /\ crossed' = (crossed \/ radio = 2)
    /\ UNCHANGED <<pins, uart, can, usb, ble>>

\* The first free socket.
WifiSocketOpen(s) ==
    /\ wifi
    /\ s \notin sockets
    /\ \A t \in Sockets : t < s => t \in sockets
    /\ sockets' = sockets \cup {s}
    /\ UNCHANGED <<pins, uart, can, usb, radio, wifi, ble, crossed>>

WifiSocketClose(s) ==
    /\ s \in sockets
    /\ sockets' = sockets \ {s}
    /\ UNCHANGED <<pins, uart, can, usb, radio, wifi, ble, crossed>>

-----------------------------------------------------------------------------
(* BLE                                                                      *)

\* ensureBle: refused while Wi-Fi has the radio.
EnsureBle == radio # 1 /\ ready' = TRUE /\ radio' = 2

\* A scan, and a connect that finds no peer, leave the controller on.
BleScan ==
    /\ EnsureBle
    /\ UNCHANGED <<pins, uart, can, usb, net, peer, subscribed, code, crossed>>

BleConnect(x) ==
    /\ EnsureBle
    /\ peer' = x
    /\ UNCHANGED <<pins, uart, can, usb, net, subscribed, code, crossed>>

\* Accepted at any time.
BleDisconnect ==
    /\ peer' = None /\ subscribed' = FALSE /\ code' = FALSE /\ ready' = FALSE
    /\ radio' = 0
    /\ crossed' = (crossed \/ radio = 1)
    /\ UNCHANGED <<pins, uart, can, usb, net>>

\* With a passkey profile the code is expected; without, or if it is
\* malformed, none is.
BlePair(named) ==
    /\ EnsureBle
    /\ code' = named
    /\ UNCHANGED <<pins, uart, can, usb, net, peer, subscribed, crossed>>

\* The characteristic is found only on a connected peer.
BleSubscribe(on) ==
    /\ peer # None
    /\ subscribed' = on
    /\ UNCHANGED <<pins, uart, can, usb, radio, net, ready, peer, code, crossed>>

\* pollBle: the peer has paired.
Paired ==
    /\ ready
    /\ code' = FALSE
    /\ UNCHANGED <<pins, uart, can, usb, radio, net, ready, peer, subscribed, crossed>>

-----------------------------------------------------------------------------
PinRequest ==
    \/ \E port \in UartPorts : ConfigureUart(port)
    \/ \E bus \in Buses, ok \in BOOLEAN : ConfigureCan(bus, ok)
    \/ \E bus \in Buses, p \in Pins : SpiExchange(bus, p)
    \/ I2cExchange
    \/ \E p \in Pins, out \in BOOLEAN : GpioConfigure(p, out)

RadioRequest ==
    \/ \E ok \in BOOLEAN : WifiConnect(ok)
    \/ WifiDisconnect
    \/ \E s \in Sockets : WifiSocketOpen(s) \/ WifiSocketClose(s)
    \/ BleScan
    \/ \E x \in Peers : BleConnect(x)
    \/ BleDisconnect
    \/ \E named \in BOOLEAN : BlePair(named)
    \/ \E on \in BOOLEAN : BleSubscribe(on)
    \/ Paired

\* dispatch, and what pollBle changes.
Next ==
    \/ PinRequest
    \/ RadioRequest
    \/ \E d \in UsbDevices : UsbSelect(d)
    \/ UsbRelease

Spec == Init /\ [][Next]_vars
-----------------------------------------------------------------------------
(* Properties                                                               *)

\* The values of the variables.
TypeOK ==
    /\ owner \in [Pins -> Owners \cup {"free"}]
    /\ pad \in [Pins -> Owners \cup {"reset"}]
    /\ gpio \subseteq Pins /\ output \subseteq gpio
    /\ uart \subseteq UartPorts /\ can \subseteq Buses
    /\ usb \in UsbDevices \cup {None}
    /\ radio \in 0..2
    /\ wifi \in BOOLEAN /\ sockets \subseteq Sockets
    /\ ready \in BOOLEAN /\ peer \in Peers \cup {None}
    /\ subscribed \in BOOLEAN /\ code \in BOOLEAN /\ crossed \in BOOLEAN

\* "Resource ownership prevents conflicting pin/peripheral use": whatever was
\* configured in whatever order, a pin is switched to the function of its
\* owner, and the functions that think they have a pin still do: the GPIO
\* table, the CAN1 controller and both lines of I2C bus 1.
PinsServeOwners ==
    /\ \A p \in Pins : pad[p] \in Owners => owner[p] = pad[p]
    /\ \A p \in Pins : p \in gpio <=> owner[p] = "gpio"
    /\ 1 \in can => owner[D8] = "can1" /\ owner[D9] # "i2c1"
    /\ owner[D8] = "i2c1" <=> owner[D9] = "i2c1"

\* Unless a client disconnected a radio it had not connected, radio_mode tells
\* exactly which of the two is on, through failed connections, reconnections
\* and scans: so Wi-Fi and BLE exclude each other.
RadioModeTruthful ==
    ~crossed => (wifi <=> radio = 1) /\ (ready <=> radio = 2)

\* "Wi-Fi and BLE are mutually exclusive."
RadioExclusive == ~(wifi /\ ready)
=============================================================================
