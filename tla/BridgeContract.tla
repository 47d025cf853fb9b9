--------------------------- MODULE BridgeContract ---------------------------
(***************************************************************************)
(* The contract of the protocol bridge: a request as its pydantic model     *)
(* accepts it (models.py), the gates and the deadline of                    *)
(* ProtocolBridgeService, its translation into the fields of a message body *)
(* (wire.py), the checks its handler in the firmware makes of those fields  *)
(* (protocol_bridge.ino), and the fields of the answer.                     *)
(*                                                                          *)
(* A caller composes one request field by field from the limits of each     *)
(* field.  A value is a record whose field names its kind: an integer, the  *)
(* name of an enumeration, a flag, the number of a pin label, the length of *)
(* a payload, or the length of a text: in characters, which the models      *)
(* limit, and in bytes of UTF-8, which are sent.  The state of the device   *)
(* (a port is configured, a socket open) is in BridgeFirmware; here it is   *)
(* as the request needs it.                                                 *)
(***************************************************************************)
EXTENDS Naturals, FiniteSets, TLC

VARIABLES
    step,      \* "composing", "sent", "accepted", "answered", or how it ended
    operation,
    request,   \* the fields of the request filled in so far
    fields,    \* the body: [field -> [width, of, length]]
    deadline   \* of the serial exchange, in ms

contractVars == <<step, operation, request, fields, deadline>>

-----------------------------------------------------------------------------
(* The models of the requests                                               *)

Integers(S) == {[int |-> n] : n \in S}
Named(S) == {[name |-> s] : s \in S}
\* A pattern keeps a text to ASCII; elsewhere a character takes up to 4 bytes.
AsciiTexts(S) == {[text |-> n, bytes |-> n] : n \in S}
Texts(S) == AsciiTexts(S) \cup {[text |-> n, bytes |-> 4 * n] : n \in S}
Payloads(max) == {[data |-> n] : n \in {0, max}}
Flags == {[flag |-> b] : b \in BOOLEAN}

\* Left out of the dump of the request.
Absent == [none |-> TRUE]
OrNone(S) == S \cup {Absent}

\* validate_safe_pin.
SafeLabels == {2, 10, 22, 85}
Labels == {[pin |-> n] : n \in SafeLabels}

MaxPayload == 64000

Uuid == Texts({4, 36})
Profile == AsciiTexts({1, 64})

ControlModels ==
    [uart_configure |-> [port |-> Integers({0, 3}), baudrate |-> Integers({50, 4000000}),
                         data_bits |-> Integers({7, 8}),
                         parity |-> Named({"none", "even", "odd"}),
                         stop_bits |-> Integers({1, 2})],
     can_configure |-> [bus |-> Integers({0, 1}), bitrate |-> Integers({125000, 1000000})],
     usb_enumerate |-> <<>>,
     usb_select |-> [vendor_id |-> Integers({0, 65535}), product_id |-> Integers({0, 65535}),
                     serial |-> OrNone(Texts({1, 126})),
                     interface_number |-> OrNone(Integers({0, 255}))],
     usb_reset |-> <<>>,
     usb_release |-> <<>>,
     wifi_connect |-> [profile |-> Profile],
     wifi_disconnect |-> <<>>,
     wifi_socket_open |-> [protocol |-> Named({"tcp", "udp"}), host |-> Texts({1, 253}),
                           port |-> Integers({1, 65535}),
                           local_port |-> OrNone(Integers({1, 65535}))],
     wifi_socket_close |-> [socket_id |-> Integers({0, 7})],
     ble_scan |-> [duration_ms |-> Integers({100, 30000}), service_uuid |-> OrNone(Uuid)],
     ble_connect |-> [address |-> AsciiTexts({17})],
     ble_disconnect |-> <<>>,
     ble_pair |-> [passkey_profile |-> OrNone(Profile)],
     ble_discover |-> [service_uuid |-> OrNone(Uuid)],
     ble_subscribe |-> [service_uuid |-> Uuid, characteristic_uuid |-> Uuid, enabled |-> Flags],
     gpio_configure |-> [pin |-> Labels, mode |-> Named({"input", "output"}),
                         pull |-> Named({"none", "up", "down"}),
                         initial_value |-> OrNone(Flags)],
     gpio_watch |-> [pin |-> Labels, edge |-> Named({"none", "rising", "falling", "change"})]]

ExchangeModels ==
    [spi_exchange |-> [bus |-> Integers({0, 1}), chip_select |-> Labels,
                       clock_hz |-> Integers({1000, 50000000}), mode |-> Integers({0, 3}),
                       bit_order |-> Named({"msb_first", "lsb_first"}),
                       fill_byte |-> Integers({0, 255}),
                       read_length |-> Integers({0, MaxPayload}),
                       data_base64 |-> Payloads(MaxPayload)],
     i2c_exchange |-> [bus |-> Integers({0, 1}), address |-> Integers({8, 119}),
                       read_length |-> Integers({0, 32}), repeated_start |-> Flags,
                       clock_hz |-> Integers({100000, 400000}), data_base64 |-> Payloads(32)],
     uart_write |-> [port |-> Integers({0, 3}), data_base64 |-> Payloads(MaxPayload)],
     can_send |-> [bus |-> Integers({0, 1}),
                   arbitration_id |-> Integers({0, 2047, 2048, 536870911}),
                   extended |-> Flags, data_base64 |-> Payloads(8)],
     usb_transfer |-> [transfer_type |-> Named({"control", "bulk", "interrupt"}),
                       endpoint |-> Integers({0, 143}),
                       read_length |-> Integers({0, 4096, MaxPayload}),
                       request_type |-> OrNone(Integers({255})),
                       request |-> OrNone(Integers({255})),
                       value |-> OrNone(Integers({65535})),
                       index |-> OrNone(Integers({65535})),
                       data_base64 |-> Payloads(MaxPayload)],
     wifi_send |-> [socket_id |-> Integers({0, 7}), data_base64 |-> Payloads(MaxPayload)],
     ble_read |-> [service_uuid |-> Uuid, characteristic_uuid |-> Uuid],
     ble_write |-> [service_uuid |-> Uuid, characteristic_uuid |-> Uuid,
                    write_mode |-> Named({"with_response", "without_response"}),
                    data_base64 |-> Payloads(MaxPayload)],
     gpio_read |-> [pin |-> Labels],
     gpio_write |-> [pin |-> Labels, value |-> Flags],
     gpio_pulse |-> [pin |-> Labels, value |-> Flags, duration_us |-> Integers({1, 1000000})]]

ReceiveModel ==
    [protocol |-> Named({"uart", "can", "usb", "wifi", "ble", "gpio"}),
     channel |-> Integers({0, 255}), limit |-> Integers({1, MaxPayload}), drain |-> Flags,
     timeout_ms |-> Integers({0, 298000, 300000})]

Models == ControlModels @@ ExchangeModels @@ [receive |-> ReceiveModel, get_status |-> <<>>]

\* The validators of a whole model.
Valid(op, r) ==
    /\ op = "gpio_configure" =>
         /\ r.mode.name = "output" => r.pull.name = "none"
         /\ r.mode.name = "input" => r.initial_value = Absent
    /\ op = "can_send" => r.extended.flag \/ r.arbitration_id.int <= 2047
    /\ op = "usb_transfer" =>
         LET setup == {r.request_type, r.request, r.value, r.index}
         IN  /\ r.transfer_type.name = "control" => Absent \notin setup /\ r.endpoint.int = 0
             /\ r.transfer_type.name # "control" => setup = {Absent}
             /\ r.transfer_type.name = "interrupt" => r.read_length.int <= 4096

-----------------------------------------------------------------------------
(* The body of the message                                                  *)

EnumValues ==
    [protocol |-> <<"spi", "i2c", "uart", "can", "usb", "wifi", "ble", "gpio">>,
     bit_order |-> <<"msb_first", "lsb_first">>,
     parity |-> <<"none", "even", "odd">>,
     transfer_type |-> <<"control", "bulk", "interrupt">>,
     write_mode |-> <<"with_response", "without_response">>,
     pull |-> <<"none", "up", "down">>,
     edge |-> <<"none", "rising", "falling", "change">>,
     mode |-> <<"input", "output">>,
     protocol_socket |-> <<"tcp", "udp">>]

U8Fields == {"bus", "port", "mode", "bit_order", "fill_byte", "address", "data_bits", "parity",
             "stop_bits", "extended", "interface_number", "endpoint", "transfer_type",
             "request_type", "request", "socket_id", "write_mode", "pull", "edge", "channel",
             "drain", "enabled", "initial_value", "value_gpio", "repeated_start", "protocol"}
U16Fields == {"vendor_id", "product_id", "value", "index", "port_network", "local_port",
              "limit", "pin", "chip_select"}

FieldNames ==
    [protocol |-> "PROTOCOL", bus |-> "BUS", port |-> "UART_PORT", data_base64 |-> "DATA",
     read_length |-> "READ_LENGTH", clock_hz |-> "CLOCK_HZ", mode |-> "MODE",
     bit_order |-> "BIT_ORDER", chip_select |-> "CHIP_SELECT", fill_byte |-> "FILL_BYTE",
     address |-> "I2C_ADDRESS", repeated_start |-> "REPEATED_START", baudrate |-> "BAUDRATE",
     data_bits |-> "DATA_BITS", parity |-> "PARITY", stop_bits |-> "STOP_BITS",
     bitrate |-> "CAN_BITRATE", arbitration_id |-> "CAN_ID", extended |-> "CAN_EXTENDED",
     vendor_id |-> "VID", product_id |-> "PID", serial |-> "SERIAL",
     interface_number |-> "USB_INTERFACE", endpoint |-> "ENDPOINT",
     transfer_type |-> "TRANSFER_TYPE", request_type |-> "REQUEST_TYPE", request |-> "REQUEST",
     value |-> "VALUE", index |-> "INDEX", profile |-> "PROFILE", host |-> "HOST",
     socket_id |-> "SOCKET_ID", write_mode |-> "WRITE_MODE", service_uuid |-> "SERVICE_UUID",
     characteristic_uuid |-> "CHARACTERISTIC_UUID", pin |-> "PIN", pull |-> "PULL",
     edge |-> "EDGE", duration_us |-> "DURATION_US", limit |-> "LIMIT", drain |-> "DRAIN",
     timeout_ms |-> "TIMEOUT_MS", channel |-> "CHANNEL", duration_ms |-> "SCAN_DURATION_MS",
     enabled |-> "ENABLED", initial_value |-> "INITIAL_VALUE"]
Secrets == [ssid |-> "SSID", password |-> "PASSWORD", passkey |-> "PASSKEY"]

\* An encoded value: its bytes, its number, and the length its model counts,
\* which is not sent.
Packed(width, of) == [width |-> width, of |-> of, length |-> width]
Unencodable == Packed(0, 1)

\* The name under which a field is encoded.
WireName(op, n) ==
    IF op = "wifi_socket_open" /\ n = "port" THEN "port_network"
    ELSE IF op \in {"gpio_write", "gpio_pulse"} /\ n = "value" THEN "value_gpio"
    ELSE n

\* Mutant: GPIO values keep the field of the USB setup packet.
FieldIdOfName(op, n) ==
    IF op = "wifi_socket_open" /\ n = "port" THEN "NETWORK_PORT"
    ELSE IF op = "wifi_socket_open" /\ n = "protocol" THEN "SOCKET_PROTOCOL"
    ELSE IF op = "gpio_configure" /\ n = "mode" THEN "GPIO_MODE"
    ELSE IF op = "ble_connect" /\ n = "address" THEN "BLE_ADDRESS"
    ELSE IF n \in DOMAIN Secrets THEN Secrets[n]
    ELSE IF n \in DOMAIN FieldNames THEN FieldNames[n]
    ELSE "unassigned"

\* encode_request_body: the field of the body that a field of the request
\* becomes; a local port has none.
FieldId(op, n) ==
    IF op = "wifi_socket_open" /\ n = "port" THEN "NETWORK_PORT"
    ELSE IF op = "wifi_socket_open" /\ n = "protocol" THEN "SOCKET_PROTOCOL"
    ELSE IF op \in {"gpio_write", "gpio_pulse"} /\ n = "value" THEN "GPIO_VALUE"
    ELSE IF op = "gpio_configure" /\ n = "mode" THEN "GPIO_MODE"
    ELSE IF op = "ble_connect" /\ n = "address" THEN "BLE_ADDRESS"
    ELSE IF n \in DOMAIN Secrets THEN Secrets[n]
    ELSE IF n \in DOMAIN FieldNames THEN FieldNames[n]
    ELSE "unassigned"

\* The number a value is sent as: names by their place in _ENUM_VALUES.
Number(n, v) ==
    CASE "name" \in DOMAIN v ->
           LET names == IF n = "protocol" /\ v.name \in {"tcp", "udp"}
                        THEN EnumValues.protocol_socket ELSE EnumValues[n]
           IN  (CHOOSE i \in DOMAIN names : names[i] = v.name) - 1
      [] "flag" \in DOMAIN v -> IF v.flag THEN 1 ELSE 0
      [] "pin" \in DOMAIN v -> v.pin
      [] "int" \in DOMAIN v -> v.int

\* _scalar, and decode_canonical_base64 of a payload.  struct.pack takes no
\* text, whatever the field, and no number wider than the field.
Scalar(n, v) ==
    IF "data" \in DOMAIN v THEN Packed(v.data, 0)
    ELSE IF "text" \in DOMAIN v
    THEN IF n \in U8Fields \cup U16Fields \/ v.bytes > 1024 THEN Unencodable
         ELSE [Packed(v.bytes, 0) EXCEPT !.length = v.text]
    ELSE IF "flag" \in DOMAIN v THEN Packed(1, Number(n, v))
    ELSE LET width == IF n \in U8Fields THEN 1 ELSE IF n \in U16Fields THEN 2 ELSE 4
         IN  IF width < 4 /\ Number(n, v) >= 256 ^ width THEN Unencodable
             ELSE Packed(width, Number(n, v))

\* The values that are encoded: what is dumped and the secrets, without the
\* name of the passkey profile.
Sent(r, secrets) == [n \in {m \in DOMAIN r : r[m] # Absent} \ {"passkey_profile"} |-> r[n]]
                    @@ secrets

Encodes(op, values) ==
    \A n \in DOMAIN values : /\ FieldId(op, n) # "unassigned"
                             /\ Scalar(WireName(op, n), values[n]) # Unencodable

\* encode_request_body and encode_tlvs.
Body(op, values) ==
    [f \in {FieldId(op, n) : n \in DOMAIN values} |->
        LET n == CHOOSE m \in DOMAIN values : FieldId(op, m) = f
        IN  Scalar(WireName(op, n), values[n])]

-----------------------------------------------------------------------------
(* The service                                                              *)

\* control: the credentials of the named profile.
SecretsOf(op, r) ==
    IF op = "wifi_connect"
    THEN {[ssid |-> s, password |-> p] : s \in Texts({1, 32}), p \in Texts({8, 63})}
    ELSE IF op = "ble_pair" /\ r.passkey_profile # Absent THEN {[passkey |-> v] : v \in AsciiTexts({6})}
    ELSE {<<>>}

\* Mutant: a receive waits no longer than the device.
DeadlineExact(op, r) ==
    IF op \in DOMAIN ExchangeModels THEN 30000
    ELSE IF op = "receive" THEN IF r.timeout_ms.int > 5000 THEN r.timeout_ms.int ELSE 5000
    ELSE IF op \in {"wifi_connect", "ble_scan", "ble_connect"} THEN 35000
    ELSE 5000

\* status, control, exchange, receive: the deadline of each, in ms.
Deadline(op, r) ==
    IF op \in DOMAIN ExchangeModels THEN 30000
    ELSE IF op = "receive" THEN IF r.timeout_ms.int > 3000 THEN r.timeout_ms.int + 2000 ELSE 5000
    ELSE IF op \in {"wifi_connect", "ble_scan", "ble_connect"} THEN 35000
    ELSE 5000

\* exchange_binary takes at most 300 seconds.
MaxExchange == 300000

ContractInit ==
    /\ step = "composing"
    /\ operation \in DOMAIN Models
    /\ request = <<>>
    /\ fields = <<>> /\ deadline = 0

Missing == DOMAIN Models[operation] \ DOMAIN request

\* The caller gives the next field a value within its limits.
FillIn ==
    /\ step = "composing" /\ Missing # {}
    /\ LET n == CHOOSE m \in Missing : TRUE
       IN  \E v \in Models[operation][n] : request' = request @@ (n :> v)
    /\ UNCHANGED <<step, operation, fields, deadline>>

\* The model refuses the combination, the profile is unknown, or the selector
\* does not name the primary core of the GIGA.
Reject ==
    /\ step = "composing" /\ Missing = {}
    /\ step' = "rejected"
    /\ UNCHANGED <<operation, request, fields, deadline>>

\* The target has been identified and the port leased when encode_request_body
\* or exchange_binary raises: the request is not sent.
SubmitFails ==
    /\ step = "composing" /\ Missing = {} /\ Valid(operation, request)
    /\ \E s \in SecretsOf(operation, request) :
         \/ ~Encodes(operation, Sent(request, s))
         \/ Deadline(operation, request) > MaxExchange
    /\ step' = "raised"
    /\ UNCHANGED <<operation, request, fields, deadline>>

Submit ==
    /\ step = "composing" /\ Missing = {} /\ Valid(operation, request)
    /\ Deadline(operation, request) <= MaxExchange
    /\ \E s \in SecretsOf(operation, request) :
         LET values == Sent(request, s)
         IN  /\ Encodes(operation, values)
             /\ fields' = Body(operation, values)
    /\ deadline' = Deadline(operation, request)
    /\ step' = "sent"
    /\ UNCHANGED <<operation, request>>

-----------------------------------------------------------------------------
(* The handlers of the firmware                                             *)

\* getU8, getU16, getU32 with the limits of the handler, copyString into a
\* buffer, and bytes.
U8(S) == [width |-> {1}, of |-> S, required |-> TRUE]
U16(S) == [width |-> {2}, of |-> S, required |-> TRUE]
U32(S) == [width |-> {4}, of |-> S, required |-> TRUE]
CopiedInto(capacity) == [width |-> 1 .. capacity - 1, of |-> {0}, required |-> TRUE]
Bytes(S) == [width |-> S, of |-> {0}, required |-> TRUE]
IfGiven(c) == [c EXCEPT !.required = FALSE]

SafePins == 2..10 \cup 22..85
AnyU16 == 0..65535
AnyU8 == 0..255
Uuids == CopiedInto(37)

\* knownField, and what each handler reads of the fields it knows; the name of
\* a Wi-Fi profile is known and not read.
Reads ==
    [get_status |-> <<>>,
     receive |-> [PROTOCOL |-> U8(2..7), CHANNEL |-> U8(AnyU8), LIMIT |-> U16(1..MaxPayload),
                  DRAIN |-> U8({0, 1}), TIMEOUT_MS |-> U32(0..300000)],
     uart_configure |-> [UART_PORT |-> U8(0..3), BAUDRATE |-> U32(50..4000000),
                         DATA_BITS |-> U8({7, 8}), PARITY |-> U8(0..2), STOP_BITS |-> U8({1, 2})],
     can_configure |-> [BUS |-> U8({0, 1}),
                        CAN_BITRATE |-> U32({125000, 250000, 500000, 1000000})],
     usb_enumerate |-> <<>>, usb_reset |-> <<>>, usb_release |-> <<>>,
     usb_select |-> [VID |-> U16(AnyU16), PID |-> U16(AnyU16),
                     USB_INTERFACE |-> IfGiven(U8(AnyU8)), SERIAL |-> IfGiven(Bytes(0..126))],
     wifi_connect |-> [PROFILE |-> IfGiven(Bytes(AnyU16)),
                       SSID |-> CopiedInto(33), PASSWORD |-> CopiedInto(64)],
     wifi_disconnect |-> <<>>,
     wifi_socket_open |-> [SOCKET_PROTOCOL |-> U8({0, 1}), HOST |-> CopiedInto(254),
                           NETWORK_PORT |-> U16(1..65535), LOCAL_PORT |-> IfGiven(U16(AnyU16))],
     wifi_socket_close |-> [SOCKET_ID |-> U8(0..7)],
     ble_scan |-> [SCAN_DURATION_MS |-> U32(100..30000), SERVICE_UUID |-> IfGiven(Uuids)],
     ble_connect |-> [BLE_ADDRESS |-> CopiedInto(18)],
     ble_disconnect |-> <<>>,
     ble_pair |-> [PASSKEY |-> IfGiven(Bytes({6}))],
     ble_discover |-> [SERVICE_UUID |-> IfGiven(Uuids)],
     ble_subscribe |-> [SERVICE_UUID |-> Uuids, CHARACTERISTIC_UUID |-> Uuids]
                       @@ ("ENABLED" :> U8({0, 1})),
     gpio_configure |-> [PIN |-> U16(SafePins), GPIO_MODE |-> U8({0, 1}), PULL |-> U8(0..2),
                         INITIAL_VALUE |-> IfGiven(U8({0, 1}))],
     gpio_watch |-> [PIN |-> U16(SafePins), EDGE |-> U8(0..3)],
     spi_exchange |-> [BUS |-> U8({0, 1}), CHIP_SELECT |-> U16(SafePins),
                       CLOCK_HZ |-> U32(1000..50000000), MODE |-> U8(0..3),
                       BIT_ORDER |-> U8({0, 1}), FILL_BYTE |-> U8(AnyU8),
                       READ_LENGTH |-> U32(0..MaxPayload), DATA |-> IfGiven(Bytes(0..MaxPayload))],
     i2c_exchange |-> [BUS |-> U8({0, 1}), I2C_ADDRESS |-> U8(8..119),
                       CLOCK_HZ |-> U32({100000, 400000}), READ_LENGTH |-> U32(0..32),
                       REPEATED_START |-> U8({0, 1}), DATA |-> IfGiven(Bytes(0..32))],
     uart_write |-> [UART_PORT |-> U8(0..3), DATA |-> Bytes(AnyU16)],
     can_send |-> [BUS |-> U8({0, 1}), CAN_ID |-> U32(0..536870911), CAN_EXTENDED |-> U8({0, 1}),
                   DATA |-> Bytes(0..8)],
     usb_transfer |-> [TRANSFER_TYPE |-> U8(0..2), ENDPOINT |-> U8(AnyU8),
                       READ_LENGTH |-> U32(0..MaxPayload), DATA |-> IfGiven(Bytes(AnyU16)),
                       REQUEST_TYPE |-> IfGiven(U8(AnyU8)), REQUEST |-> IfGiven(U8(AnyU8)),
                       VALUE |-> IfGiven(U16(AnyU16)), INDEX |-> IfGiven(U16(AnyU16))],
     wifi_send |-> [SOCKET_ID |-> U8(0..7), DATA |-> Bytes(AnyU16)],
     ble_read |-> [SERVICE_UUID |-> Uuids, CHARACTERISTIC_UUID |-> Uuids],
     ble_write |-> [SERVICE_UUID |-> Uuids, CHARACTERISTIC_UUID |-> Uuids,
                    WRITE_MODE |-> U8({0, 1}), DATA |-> Bytes(AnyU16)],
     gpio_read |-> [PIN |-> U16(SafePins)],
     gpio_write |-> [PIN |-> U16(SafePins), GPIO_VALUE |-> U8({0, 1})],
     gpio_pulse |-> [PIN |-> U16(SafePins), GPIO_VALUE |-> U8({0, 1}),
                     DURATION_US |-> U32(1..1000000)]]

\* What a handler asks of several fields together.
Together(op, f) ==
    /\ op = "gpio_configure" => (f.GPIO_MODE.of = 1 => f.PULL.of = 0)
    /\ op = "can_send" => (f.CAN_EXTENDED.of = 0 => f.CAN_ID.of <= 2047)
    /\ op = "usb_transfer" =>
         /\ f.TRANSFER_TYPE.of = 2 => f.READ_LENGTH.of <= 4096
         /\ f.TRANSFER_TYPE.of = 0 =>
              /\ f.ENDPOINT.of = 0
              /\ {"REQUEST_TYPE", "REQUEST", "VALUE", "INDEX"} \subseteq DOMAIN f

\* dispatch and the handler take the request.
Accepts(op, f) ==
    /\ DOMAIN f \subseteq DOMAIN Reads[op]
    /\ \A n \in DOMAIN Reads[op] :
         IF n \in DOMAIN f THEN f[n].width \in Reads[op][n].width /\ f[n].of \in Reads[op][n].of
         ELSE ~Reads[op][n].required
    /\ Together(op, f)

\* dispatch: the request is taken, or answered with "malformed".
Handle ==
    /\ step = "sent"
    /\ step' = IF Accepts(operation, fields) THEN "accepted" ELSE "malformed"
    /\ UNCHANGED <<operation, request, fields, deadline>>

-----------------------------------------------------------------------------
(* The answer                                                               *)

\* sendResponse: the widths of the fields it writes.
AnswerFields(data, metadata, queued, lost, failed) ==
    [STATUS |-> 2, TIMESTAMP_US |-> 8]
    @@ (IF data > 0 THEN [RESPONSE_DATA |-> data] ELSE <<>>)
    @@ (IF metadata > 0 THEN [METADATA_JSON |-> metadata] ELSE <<>>)
    @@ (IF queued THEN [QUEUE_DEPTH |-> 2] ELSE <<>>)
    @@ (IF lost THEN [OVERFLOW_COUNT |-> 4] ELSE <<>>)
    @@ (IF failed THEN [ERROR_MESSAGE |-> 160] ELSE <<>>)

\* decode_response_body and the results of the service.
Decodable(a) ==
    /\ DOMAIN a \subseteq {"STATUS", "RESPONSE_DATA", "METADATA_JSON", "QUEUE_DEPTH",
                           "OVERFLOW_COUNT", "TIMESTAMP_US", "ERROR_MESSAGE"}
    /\ "STATUS" \in DOMAIN a /\ a.STATUS = 2
    /\ "QUEUE_DEPTH" \in DOMAIN a => a.QUEUE_DEPTH = 2
    /\ "OVERFLOW_COUNT" \in DOMAIN a => a.OVERFLOW_COUNT = 4
    /\ "TIMESTAMP_US" \in DOMAIN a => a.TIMESTAMP_US = 8

Answer ==
    /\ step = "accepted"
    /\ \E data \in {0, MaxPayload}, queued, lost, failed \in BOOLEAN :
         step' = IF Decodable(AnswerFields(data, 2, queued, lost, failed))
                 THEN (IF failed THEN "failed" ELSE "answered") ELSE "undecodable"
    /\ UNCHANGED <<operation, request, fields, deadline>>

ContractNext == FillIn \/ Reject \/ SubmitFails \/ Submit \/ Handle \/ Answer

ContractSpec == ContractInit /\ [][ContractNext]_contractVars
-----------------------------------------------------------------------------
(* Properties                                                               *)

\* The body as it would be with one byte for each character.
InCharacters(f) == [n \in DOMAIN f |-> [f[n] EXCEPT !.width = f[n].length]]

\* What the models let through and encode_request_body encodes passes the
\* checks of its handler in the firmware, but for texts that are within their
\* limit in characters (models.py) and beyond it in bytes (copyString): the
\* two sides agree on every field, its number, its width and its limits, and
\* differ in nothing but what they count in a text.
SentIsAccepted ==
    /\ step # "undecodable"
    /\ step = "malformed" =>
         /\ \E n \in DOMAIN fields : fields[n].length < fields[n].width
         /\ Accepts(operation, InCharacters(fields))

\* How long the handler waits in loops of its own, in ms.
OwnWait(op, f) ==
    CASE op = "receive" -> f.TIMEOUT_MS.of
      [] op = "ble_scan" -> f.SCAN_DURATION_MS.of
      [] op = "wifi_connect" -> 30000
      [] op = "ble_connect" -> 10000
      [] op = "gpio_pulse" -> f.DURATION_US.of \div 1000
      [] OTHER -> 0

\* The host still listens when a handler whose waiting loop ran to its end
\* answers, with a second to spare: the deadlines of ProtocolBridgeService
\* cover every wait that the firmware bounds.  The time inside WiFi.begin, which
\* comes before the loop of wifi_connect, and inside scanForAddress and connect
\* of ble_connect is bounded by no code of the firmware: what is left of the
\* 35 s is theirs, and an answer after that is one of the late answers of
\* BridgeLink.
WaitsFitDeadline == step = "accepted" => OwnWait(operation, fields) + 1000 <= deadline

\* A request that its typed model accepts, for a known target and profile, is
\* sent.
EveryRequestIsSent == step # "raised"
=============================================================================
