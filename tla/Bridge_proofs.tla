---------------------------- MODULE Bridge_proofs ----------------------------
(***************************************************************************)
(* The protocol bridge.  The pin tables of the firmware agree for any set   *)
(* of safe pins, and the radio mode tells the truth until a client          *)
(* disconnects a radio it did not connect.                                  *)
(*                                                                          *)
(* The serial link for any requests, lengths of messages and number of      *)
(* faults: the port lock covers the whole exchange, that of a cancelled     *)
(* caller included; the device executes whole requests in the order they    *)
(* were written; an accepted answer is the answer to its request.           *)
(***************************************************************************)
EXTENDS BridgeFirmware, BridgeLink, SequenceTheorems, TLAPS

-----------------------------------------------------------------------------
(* The pins and radios of the firmware                                      *)

\* The invariant is inductive as it stands.
IInv == TypeOK /\ PinsServeOwners /\ RadioModeTruthful

\* All pins are free and both radios are off.
LEMMA InitIInv == Init => IInv
<1> SUFFICES ASSUME Init PROVE IInv
  OBVIOUS
<1> USE PinsAssumption, NoneAssumption DEF Init
<1>1. TypeOK
  <2>1. owner \in [Pins -> Owners \cup {"free"}] /\ pad \in [Pins -> Owners \cup {"reset"}]
    OBVIOUS
  <2>2. gpio \subseteq Pins /\ output \subseteq gpio /\ uart \subseteq UartPorts /\ can \subseteq Buses
    OBVIOUS
  <2>3. usb \in UsbDevices \cup {None} /\ radio \in 0..2 /\ sockets \subseteq Sockets
    OBVIOUS
  <2>4. /\ wifi \in BOOLEAN /\ ready \in BOOLEAN /\ subscribed \in BOOLEAN /\ code \in BOOLEAN
        /\ crossed \in BOOLEAN
    BY Zenon
  <2>5. peer \in Peers \cup {None}
    OBVIOUS
  <2> QED
    BY <2>1, <2>2, <2>3, <2>4, <2>5 DEF TypeOK
<1>2. PinsServeOwners
  BY DEF PinsServeOwners, Owners
<1>3. RadioModeTruthful
  BY DEF RadioModeTruthful
<1> QED
  BY <1>1, <1>2, <1>3 DEF IInv

\* What a claim that is granted changes: free pins get the owner.
LEMMA Claimed ==
    ASSUME TypeOK, NEW set \in SUBSET Pins, NEW o \in Owners, Claim(set, o), Switch(set, o)
    PROVE  /\ owner' \in [Pins -> Owners \cup {"free"}]
           /\ pad' \in [Pins -> Owners \cup {"reset"}]
           /\ \A p \in set : owner[p] \in {"free", o} /\ owner'[p] = o /\ pad'[p] = o
           /\ \A p \in Pins \ set : owner'[p] = owner[p] /\ pad'[p] = pad[p]
  BY DEF Claim, Switch, TypeOK

\* A request that configures pins keeps the tables in agreement.
LEMMA PinRequestKeeps == ASSUME IInv, PinRequest PROVE IInv'
<1> USE PinsAssumption DEF IInv, pins, net, ble, Buses
<1>1. ASSUME NEW port \in UartPorts, ConfigureUart(port)
      PROVE  IInv'
  BY <1>1 DEF ConfigureUart, TypeOK, PinsServeOwners, RadioModeTruthful
<1>2. ASSUME NEW bus \in Buses, NEW ok \in BOOLEAN, ConfigureCan(bus, ok)
      PROVE  IInv'
  <2>1. RadioModeTruthful'
    BY <1>2 DEF ConfigureCan, RadioModeTruthful
  <2>2. CASE bus = 0
    BY <1>2, <2>1, <2>2 DEF ConfigureCan, TypeOK, PinsServeOwners
  <2>3. CASE bus = 1
    <3>1. Claim({D8}, "can1") /\ Switch({D8}, "can1") /\ "can1" \in Owners
      BY <1>2, <2>3 DEF ConfigureCan, Owners
    <3>2. /\ owner' \in [Pins -> Owners \cup {"free"}]
          /\ pad' \in [Pins -> Owners \cup {"reset"}]
          /\ owner[D8] \in {"free", "can1"} /\ owner'[D8] = "can1" /\ pad'[D8] = "can1"
          /\ \A p \in Pins \ {D8} : owner'[p] = owner[p] /\ pad'[p] = pad[p]
      BY <3>1, Claimed DEF Owners
    <3>3. TypeOK'
      BY <1>2, <3>2 DEF ConfigureCan, TypeOK
    <3>4. PinsServeOwners'
      BY <1>2, <3>2 DEF ConfigureCan, PinsServeOwners
    <3> QED
      BY <2>1, <3>3, <3>4
  <2> QED
    BY <1>2, <2>2, <2>3
<1>3. ASSUME NEW bus \in Buses, NEW x \in Pins, SpiExchange(bus, x)
      PROVE  IInv'
  <2>1. PICK o \in {"spi0", "spi1"} : Claim({x}, o) /\ Switch({x}, o)
    BY <1>3 DEF SpiExchange
  <2>2. /\ owner' \in [Pins -> Owners \cup {"free"}]
        /\ pad' \in [Pins -> Owners \cup {"reset"}]
        /\ owner[x] \in {"free", o} /\ owner'[x] = o /\ pad'[x] = o
        /\ \A p \in Pins \ {x} : owner'[p] = owner[p] /\ pad'[p] = pad[p]
    BY <2>1, Claimed DEF Owners
  <2>3. TypeOK'
    BY <1>3, <2>2 DEF SpiExchange, TypeOK
  <2>4. PinsServeOwners'
    BY <1>3, <2>2 DEF SpiExchange, PinsServeOwners
  <2>5. RadioModeTruthful'
    BY <1>3 DEF SpiExchange, RadioModeTruthful
  <2> QED
    BY <2>3, <2>4, <2>5
<1>4. CASE I2cExchange
  <2>1. /\ owner' \in [Pins -> Owners \cup {"free"}]
        /\ pad' \in [Pins -> Owners \cup {"reset"}]
        /\ \A p \in {D8, D9} : owner[p] \in {"free", "i2c1"} /\ owner'[p] = "i2c1" /\ pad'[p] = "i2c1"
        /\ \A p \in Pins \ {D8, D9} : owner'[p] = owner[p] /\ pad'[p] = pad[p]
    BY <1>4, Claimed DEF I2cExchange, Owners
  <2>2. TypeOK'
    BY <1>4, <2>1 DEF I2cExchange, TypeOK
  <2>3. PinsServeOwners'
    BY <1>4, <2>1 DEF I2cExchange, PinsServeOwners
  <2>4. RadioModeTruthful'
    BY <1>4 DEF I2cExchange, RadioModeTruthful
  <2> QED
    BY <2>2, <2>3, <2>4
<1>5. ASSUME NEW x \in Pins, NEW out \in BOOLEAN, GpioConfigure(x, out)
      PROVE  IInv'
  <2>1. /\ owner' \in [Pins -> Owners \cup {"free"}]
        /\ pad' \in [Pins -> Owners \cup {"reset"}]
        /\ owner[x] \in {"free", "gpio"} /\ owner'[x] = "gpio" /\ pad'[x] = "gpio"
        /\ \A p \in Pins \ {x} : owner'[p] = owner[p] /\ pad'[p] = pad[p]
    BY <1>5, Claimed DEF GpioConfigure, Owners
  <2>2. TypeOK'
    BY <1>5, <2>1 DEF GpioConfigure, TypeOK
  <2>3. PinsServeOwners'
    BY <1>5, <2>1 DEF GpioConfigure, PinsServeOwners
  <2>4. RadioModeTruthful'
    BY <1>5 DEF GpioConfigure, RadioModeTruthful
  <2> QED
    BY <2>2, <2>3, <2>4
<1> QED
  BY <1>1, <1>2, <1>3, <1>4, <1>5 DEF PinRequest

\* A request of a radio touches no pin, and keeps the mode truthful.
LEMMA RadioRequestKeeps == ASSUME IInv, RadioRequest PROVE IInv'
<1> USE NoneAssumption DEF IInv, pins, net, ble
<1>1. PinsServeOwners' /\ UNCHANGED <<pins, uart, can, usb>>
  BY DEF RadioRequest, WifiConnect, WifiDisconnect, WifiSocketOpen, WifiSocketClose, BleScan,
         BleConnect, BleDisconnect, BlePair, BleSubscribe, Paired, PinsServeOwners
<1>2. TypeOK'
  <2>1. radio' \in 0..2
    BY DEF RadioRequest, WifiConnect, WifiDisconnect, WifiSocketOpen, WifiSocketClose,
         EnsureBle, BleScan, BleConnect, BleDisconnect, BlePair, BleSubscribe, Paired, TypeOK
  <2>2. sockets' \subseteq Sockets
    BY DEF RadioRequest, WifiConnect, WifiDisconnect, WifiSocketOpen, WifiSocketClose,
         EnsureBle, BleScan, BleConnect, BleDisconnect, BlePair, BleSubscribe, Paired, TypeOK
  <2>3. peer' \in Peers \cup {None}
    BY DEF RadioRequest, WifiConnect, WifiDisconnect, WifiSocketOpen, WifiSocketClose,
         EnsureBle, BleScan, BleConnect, BleDisconnect, BlePair, BleSubscribe, Paired, TypeOK
  <2>4. wifi' \in BOOLEAN
    BY Zenon DEF RadioRequest, WifiConnect, WifiDisconnect, WifiSocketOpen, WifiSocketClose,
         EnsureBle, BleScan, BleConnect, BleDisconnect, BlePair, BleSubscribe, Paired, TypeOK
  <2>5. ready' \in BOOLEAN
    BY Zenon DEF RadioRequest, WifiConnect, WifiDisconnect, WifiSocketOpen, WifiSocketClose,
         EnsureBle, BleScan, BleConnect, BleDisconnect, BlePair, BleSubscribe, Paired, TypeOK
  <2>6. subscribed' \in BOOLEAN
    BY Zenon DEF RadioRequest, WifiConnect, WifiDisconnect, WifiSocketOpen, WifiSocketClose,
         EnsureBle, BleScan, BleConnect, BleDisconnect, BlePair, BleSubscribe, Paired, TypeOK
  <2>7. code' \in BOOLEAN
    BY Zenon DEF RadioRequest, WifiConnect, WifiDisconnect, WifiSocketOpen, WifiSocketClose,
         EnsureBle, BleScan, BleConnect, BleDisconnect, BlePair, BleSubscribe, Paired, TypeOK
  <2>8. crossed' \in BOOLEAN
    BY Zenon DEF RadioRequest, WifiConnect, WifiDisconnect, WifiSocketOpen, WifiSocketClose,
         EnsureBle, BleScan, BleConnect, BleDisconnect, BlePair, BleSubscribe, Paired, TypeOK
  <2> QED
    BY <1>1, <2>1, <2>2, <2>3, <2>4, <2>5, <2>6, <2>7, <2>8 DEF TypeOK
<1>3. RadioModeTruthful'
  BY DEF RadioRequest, WifiConnect, WifiDisconnect, WifiSocketOpen, WifiSocketClose, EnsureBle,
         BleScan, BleConnect, BleDisconnect, BlePair, BleSubscribe, Paired, TypeOK,
         RadioModeTruthful
<1> QED
  BY <1>1, <1>2, <1>3

\* Every request keeps the invariant.
LEMMA NextIInv == IInv /\ [Next]_vars => IInv'
<1> SUFFICES ASSUME IInv, [Next]_vars PROVE IInv'
  OBVIOUS
<1> USE DEF IInv, pins, net, ble, TypeOK, PinsServeOwners, RadioModeTruthful
<1>1. CASE UNCHANGED vars
  BY <1>1 DEF vars
<1>2. ASSUME NEW d \in UsbDevices, UsbSelect(d)
      PROVE  IInv'
  BY <1>2 DEF UsbSelect
<1>3. CASE UsbRelease
  BY <1>3 DEF UsbRelease
<1> QED
  BY <1>1, <1>2, <1>3, PinRequestKeeps, RadioRequestKeeps DEF Next

\* The tables of the firmware agree in every behaviour (PinResources, dispatch).
THEOREM Invariance == Spec => []IInv
  BY InitIInv, NextIInv, PTL DEF Spec

\* No pin is switched to a function that does not own it (claim, claimPair and
\* the handlers that configure pins).
THEOREM PinsAreOwned == Spec => []PinsServeOwners
  BY Invariance, PTL DEF IInv

\* radio_mode is what the radios are (wifiConnect, ensureBle).
THEOREM RadioIsTruthful == Spec => []RadioModeTruthful
  BY Invariance, PTL DEF IInv

-----------------------------------------------------------------------------
(* The port lock of the link                                                *)

Holding == {"locked", "open", "closed"}
Stages == Holding \cup {"new", "accepted", "failed", "cancelled"}

\* The lock is held by the one request that is between taking it and giving
\* it back.
LockInv ==
    /\ stage \in [Requests -> Stages]
    /\ \A r \in Requests : stage[r] \in Holding <=> lock = r

\* Nobody has the port at the start.
LEMMA InitLockInv == LinkInit => LockInv
  BY RequestsAssumption DEF LinkInit, LockInv, Stages, Holding

\* Only Lock takes the port lock and only Finish, after its worker has
\* closed the port, gives it back.
LEMMA NextLockInv == LockInv /\ [LinkNext]_linkVars => LockInv'
<1> SUFFICES ASSUME LockInv, [LinkNext]_linkVars PROVE LockInv'
  OBVIOUS
<1> USE RequestsAssumption DEF LockInv, Stages, Holding
<1>1. ASSUME NEW r \in Requests, Lock(r)
      PROVE  LockInv'
  BY <1>1 DEF Lock
<1>2. ASSUME NEW r \in Requests, NEW n \in 0..Len(toHost), Open(r, n)
      PROVE  LockInv'
  BY <1>2 DEF Open
<1>3. ASSUME NEW r \in Requests, ReadFrame(r)
      PROVE  LockInv'
  BY <1>3 DEF ReadFrame
<1>4. ASSUME NEW r \in Requests, NEW within \in BOOLEAN, NEW failed \in BOOLEAN,
             Close(r, within, failed)
      PROVE  LockInv'
  BY <1>4 DEF Close
<1>5. ASSUME NEW r \in Requests, Finish(r)
      PROVE  LockInv'
  <2>1. PICK end \in {"cancelled", "accepted", "failed"} : stage' = [stage EXCEPT ![r] = end]
    BY <1>5 DEF Finish
  <2> QED
    BY <1>5, <2>1 DEF Finish
<1>6. ASSUME NEW r \in Requests, Cancel(r)
      PROVE  LockInv'
  BY <1>6 DEF Cancel
<1>7. CASE UNCHANGED host
  BY <1>7 DEF host
<1>8. (\E refused \in BOOLEAN : ConsumeFrame(refused)) \/ Damage \/ Lose \/ Restart
        \/ UNCHANGED linkVars => UNCHANGED host
  BY DEF ConsumeFrame, Damage, Lose, Restart, Fault, linkVars
<1> QED
  BY <1>1, <1>2, <1>3, <1>4, <1>5, <1>6, <1>7, <1>8 DEF LinkNext

\* A worker has the port only while its request has the lock, whenever that
\* request is cancelled (ProtocolBridgeBackend.request,
\* SerialBackend._run_sync_to_completion).
THEOREM PortIsExclusive == LinkSpec => []PortExclusive
<1>1. LockInv => PortExclusive
  BY DEF LockInv, PortExclusive, Holding
<1> QED
  BY <1>1, InitLockInv, NextLockInv, PTL DEF LinkSpec
-----------------------------------------------------------------------------
(* The frames on the line                                                   *)

Part == Requests \X Nat
Content == Seq(Part)
Segment == Part \cup [of : Content, at : Nat]
DeviceFrame == [type : {"request"}, id : Requests, index : Nat, count : Nat,
                part : Part, intact : BOOLEAN]
HostFrame == [type : {"answer", "error"}, id : Requests, index : Nat, count : Nat,
              part : Segment, intact : BOOLEAN]
Assembly == [id : Requests, count : Nat, parts : Content]

LinkTypeOK ==
    /\ stage \in [Requests -> Stages]
    /\ received \in Seq(HostFrame)
    /\ body \in [Requests -> Seq(Segment)]
    /\ toDevice \in Seq(DeviceFrame)
    /\ toHost \in Seq(HostFrame)
    /\ assembly \in [id : Requests \cup {Nobody}, count : Nat, parts : Content]
    /\ executed \in Seq(Content)
    /\ sent \in Seq(Requests)

\* A request is written once, after it has the lock.
SentOnce ==
    /\ \A k, l \in DOMAIN sent : sent[k] = sent[l] => k = l
    /\ \A k \in DOMAIN sent : stage[sent[k]] \notin {"new", "locked"}

\* A sound frame on the way to the device is a segment of a written request.
SoundRequest(f) ==
    f.intact => /\ \E k \in DOMAIN sent : sent[k] = f.id
                /\ f.count = RequestLength[f.id]
                /\ f.index \in 1..f.count
                /\ f.part = <<f.id, f.index>>
RequestsSound == \A i \in DOMAIN toDevice : SoundRequest(toDevice[i])

\* Segment i of the k-th request was written before segment j of the l-th.
Earlier(k, i, l, j) == k < l \/ (k = l /\ i < j)

\* Sound frames reach the device in the order they were written.
InOrder ==
    \A i, j \in DOMAIN toDevice, k, l \in DOMAIN sent :
        /\ i < j /\ toDevice[i].intact /\ toDevice[j].intact
        /\ sent[k] = toDevice[i].id /\ sent[l] = toDevice[j].id
        => Earlier(k, toDevice[i].index, l, toDevice[j].index)

\* The first segments of a written request have been joined, and the sound
\* frames still to come were written after them.
Begun(a) ==
    /\ \E k \in DOMAIN sent : sent[k] = a.id
    /\ a.count = RequestLength[a.id]
    /\ Len(a.parts) \in 1..(a.count - 1)
    /\ \A i \in 1..Len(a.parts) : a.parts[i] = <<a.id, i>>
    /\ \A i \in DOMAIN toDevice, k, l \in DOMAIN sent :
         toDevice[i].intact /\ sent[k] = a.id /\ sent[l] = toDevice[i].id
         => Earlier(k, Len(a.parts), l, toDevice[i].index)
AssemblyBegun == assembly = Empty \/ Begun(assembly)

\* What was executed are written requests, in order, and before all that is
\* being assembled or on the way.
ExecutedBefore ==
    /\ \A i \in DOMAIN executed : \E k \in DOMAIN sent : executed[i] = RequestBody(sent[k])
    /\ \A i, j \in DOMAIN executed, k, l \in DOMAIN sent :
         i < j /\ executed[i] = RequestBody(sent[k]) /\ executed[j] = RequestBody(sent[l])
         => k < l
    /\ \A i \in DOMAIN executed, j \in DOMAIN toDevice, k, l \in DOMAIN sent :
         executed[i] = RequestBody(sent[k]) /\ toDevice[j].intact /\ sent[l] = toDevice[j].id
         => k < l
    /\ \A i \in DOMAIN executed, k, l \in DOMAIN sent :
         executed[i] = RequestBody(sent[k]) /\ sent[l] = assembly.id => k < l

\* A sound frame of an answer is a segment of the answer to the request it
\* names, which was executed.
SoundAnswer(f) ==
    f.intact /\ f.type = "answer" =>
        /\ f.count = AnswerLength[f.id]
        /\ f.index \in 1..f.count
        /\ f.part = [of |-> RequestBody(f.id), at |-> f.index]
        /\ \E j \in DOMAIN executed : executed[j] = RequestBody(f.id)
AnswersSound ==
    /\ \A i \in DOMAIN toHost : SoundAnswer(toHost[i])
    /\ \A i \in DOMAIN received : SoundAnswer(received[i])

LinkInv ==
    /\ LinkTypeOK /\ SentOnce /\ RequestsSound /\ InOrder /\ AssemblyBegun /\ ExecutedBefore
    /\ AnswersSound /\ AcceptedIsMine

-----------------------------------------------------------------------------
(* Bodies, frames and lossy lines                                           *)

\* encode_request_body: the body of a request holds its segments, and tells
\* which request it is of.
LEMMA Bodies ==
    ASSUME NEW r \in Requests
    PROVE  /\ RequestBody(r) \in Content
           /\ Len(RequestBody(r)) = RequestLength[r]
           /\ \A i \in 1..RequestLength[r] : RequestBody(r)[i] = <<r, i>>
           /\ \A s \in Requests : RequestBody(r) = RequestBody(s) => r = s
<1> USE RequestsAssumption
<1>1. /\ RequestBody(r) \in Content
      /\ Len(RequestBody(r)) = RequestLength[r]
      /\ \A i \in 1..RequestLength[r] : RequestBody(r)[i] = <<r, i>>
  BY DEF RequestBody, Content, Part
<1>2. ASSUME NEW s \in Requests, RequestBody(r) = RequestBody(s)
      PROVE  r = s
  <2>1. RequestBody(r)[1] = <<r, 1>> /\ RequestBody(s)[1] = <<s, 1>>
    BY DEF RequestBody
  <2> QED
    BY <1>2, <2>1
<1> QED
  BY <1>1, <1>2

\* encode_message, sendMessage: a message is as many frames as it has segments,
\* numbered from the first.
LEMMA FramesOf ==
    ASSUME NEW type, NEW id, NEW S, NEW parts \in Seq(S)
    PROVE  /\ Len(Frames(type, id, parts)) = Len(parts)
           /\ DOMAIN Frames(type, id, parts) = 1..Len(parts)
           /\ \A i \in 1..Len(parts) :
                Frames(type, id, parts)[i] =
                    [type |-> type, id |-> id, index |-> i, count |-> Len(parts),
                     part |-> parts[i], intact |-> TRUE]
  BY DEF Frames

\* What was on a line keeps its place when frames are written after it.
LEMMA Extended ==
    ASSUME NEW S, NEW s \in Seq(S), NEW t \in Seq(S)
    PROVE  /\ s \o t \in Seq(S)
           /\ DOMAIN (s \o t) = 1..(Len(s) + Len(t))
           /\ \A i \in DOMAIN s : (s \o t)[i] = s[i]
           /\ \A i \in DOMAIN (s \o t) \ DOMAIN s :
                i - Len(s) \in 1..Len(t) /\ (s \o t)[i] = t[i - Len(s)]
<1> DEFINE u == s \o t
<1>1. /\ u \in Seq(S) /\ Len(u) = Len(s) + Len(t)
      /\ \A i \in 1..(Len(s) + Len(t)) : u[i] = IF i <= Len(s) THEN s[i] ELSE t[i - Len(s)]
  BY ConcatProperties
<1>2. Len(s) \in Nat /\ DOMAIN s = 1..Len(s) /\ Len(t) \in Nat
  OBVIOUS
<1> HIDE DEF u
<1>3. DOMAIN u = 1..(Len(s) + Len(t))
  BY <1>1
<1>4. \A i \in DOMAIN s : u[i] = s[i]
  BY <1>1, <1>2
<1>5. \A i \in DOMAIN u \ DOMAIN s : i - Len(s) \in 1..Len(t) /\ u[i] = t[i - Len(s)]
  BY <1>1, <1>2, <1>3
<1> QED
  BY <1>1, <1>3, <1>4, <1>5 DEF u

\* The frames of a request are frames to the device.
LEMMA RequestFrames ==
    ASSUME NEW r \in Requests
    PROVE  Frames("request", r, RequestBody(r)) \in Seq(DeviceFrame)
  BY Bodies DEF Frames, DeviceFrame, Part, Content

\* The frames of an answer and of an error are frames to the host.
LEMMA AnswerFrames ==
    ASSUME NEW r \in Requests, NEW c \in Content
    PROVE  /\ Frames("answer", r, AnswerTo(r, c)) \in Seq(HostFrame)
           /\ AnswerTo(r, c) \in Seq(Segment)
           /\ Len(AnswerTo(r, c)) = AnswerLength[r]
           /\ \A i \in 1..AnswerLength[r] : AnswerTo(r, c)[i] = [of |-> c, at |-> i]
           /\ ErrorFrame(r) \in Seq(HostFrame)
<1> USE RequestsAssumption
<1>1. /\ AnswerTo(r, c) \in Seq(Segment)
      /\ Len(AnswerTo(r, c)) = AnswerLength[r]
      /\ \A i \in 1..AnswerLength[r] : AnswerTo(r, c)[i] = [of |-> c, at |-> i]
  BY DEF AnswerTo, Segment
<1>2. Frames("answer", r, AnswerTo(r, c)) \in Seq(HostFrame)
  <2>1. \A i \in 1..AnswerLength[r] : AnswerTo(r, c)[i] \in Segment
    BY <1>1, ElementOfSeq
  <2>2. \A i \in 1..AnswerLength[r] :
          [type |-> "answer", id |-> r, index |-> i, count |-> AnswerLength[r],
           part |-> AnswerTo(r, c)[i], intact |-> TRUE] \in HostFrame
    BY <2>1 DEF HostFrame
  <2> QED
    BY <1>1, <2>2 DEF Frames
<1>3. ErrorFrame(r) \in Seq(HostFrame)
  BY DEF ErrorFrame, Frames, HostFrame, Segment, Part
<1> QED
  BY <1>1, <1>2, <1>3

\* t is what is left of the line s after damage and loss: its sound frames are
\* frames of s in their order.
Thins(t, s) ==
    \E from \in [DOMAIN t -> DOMAIN s] :
        /\ \A i, j \in DOMAIN t : i < j => from[i] < from[j]
        /\ \A i \in DOMAIN t : t[i].intact => t[i] = s[from[i]]

\* Frames that are read, dropped from the front or forgotten.
LEMMA SuffixThins ==
    ASSUME NEW F, NEW s \in Seq(F), NEW n \in 0..Len(s)
    PROVE  /\ SubSeq(s, n + 1, Len(s)) \in Seq(F)
           /\ Thins(SubSeq(s, n + 1, Len(s)), s)
<1> DEFINE t == SubSeq(s, n + 1, Len(s))
<1>1. t \in Seq(F) /\ DOMAIN t = 1..(Len(s) - n) /\ \A i \in 1..(Len(s) - n) : t[i] = s[i + n]
  BY SubSeqProperties, ElementOfSeq
<1> HIDE DEF t
<1> DEFINE from == [i \in DOMAIN t |-> i + n]
<1>2. from \in [DOMAIN t -> DOMAIN s]
  BY <1>1
<1>3. /\ \A i \in DOMAIN t : t[i] = s[from[i]]
      /\ \A i, j \in DOMAIN t : i < j => from[i] < from[j]
  BY <1>1
<1> HIDE DEF from
<1>4. Thins(t, s)
  BY <1>2, <1>3 DEF Thins
<1> QED
  BY <1>1, <1>4 DEF t

\* The frame at the front is read.
LEMMA TailThins ==
    ASSUME NEW F, NEW s \in Seq(F), s # <<>>
    PROVE  /\ Tail(s) \in Seq(F) /\ Head(s) \in F /\ Head(s) = s[1]
           /\ DOMAIN Tail(s) = 1..(Len(s) - 1)
           /\ \A i \in DOMAIN Tail(s) : i + 1 \in DOMAIN s /\ Tail(s)[i] = s[i + 1]
           /\ Thins(Tail(s), s)
<1>1. /\ Tail(s) \in Seq(F) /\ Head(s) \in F /\ Head(s) = s[1]
      /\ DOMAIN Tail(s) = 1..(Len(s) - 1)
      /\ \A i \in DOMAIN Tail(s) : i + 1 \in DOMAIN s /\ Tail(s)[i] = s[i + 1]
  BY HeadTailProperties
<1> DEFINE from == [i \in DOMAIN Tail(s) |-> i + 1]
<1>2. from \in [DOMAIN Tail(s) -> DOMAIN s]
  BY <1>1
<1>3. /\ \A i \in DOMAIN Tail(s) : Tail(s)[i] = s[from[i]]
      /\ \A i, j \in DOMAIN Tail(s) : i < j => from[i] < from[j]
  BY <1>1
<1> HIDE DEF from
<1>4. Thins(Tail(s), s)
  BY <1>2, <1>3 DEF Thins
<1> QED
  BY <1>1, <1>4

\* One frame is lost.
LEMMA WithoutThins ==
    ASSUME NEW F, NEW s \in Seq(F), NEW n \in DOMAIN s
    PROVE  Without(s, n) \in Seq(F) /\ Thins(Without(s, n), s)
<1> DEFINE a == SubSeq(s, 1, n - 1)
           b == SubSeq(s, n + 1, Len(s))
           t == Without(s, n)
           from == [i \in DOMAIN t |-> IF i < n THEN i ELSE i + 1]
<1>1. a \in Seq(F) /\ Len(a) = n - 1 /\ \A i \in 1..(n - 1) : a[i] = s[i]
  BY SubSeqProperties, ElementOfSeq
<1>2. b \in Seq(F) /\ Len(b) = Len(s) - n /\ \A i \in 1..(Len(s) - n) : b[i] = s[i + n]
  BY SubSeqProperties, ElementOfSeq
<1>3. t = a \o b
  BY DEF Without
<1> HIDE DEF a, b, t
<1>4. /\ t \in Seq(F) /\ Len(t) = Len(s) - 1
      /\ \A i \in 1..(Len(s) - 1) : t[i] = IF i <= n - 1 THEN a[i] ELSE b[i - (n - 1)]
  BY <1>1, <1>2, <1>3, ConcatProperties
<1>5. DOMAIN t = 1..(Len(s) - 1)
  BY <1>4
<1>6. from \in [DOMAIN t -> DOMAIN s]
  BY <1>5
<1>7. \A i \in DOMAIN t : t[i] = s[from[i]]
  <2> TAKE i \in DOMAIN t
  <2>1. CASE i < n
    BY <1>1, <1>4, <1>5, <2>1
  <2>2. CASE i >= n
    <3>1. t[i] = b[i - (n - 1)] /\ i - (n - 1) \in 1..(Len(s) - n) /\ from[i] = i + 1
      BY <1>4, <1>5, <2>2
    <3>2. b[i - (n - 1)] = s[i - (n - 1) + n]
      BY <1>2, <3>1
    <3> QED
      BY <1>5, <3>1, <3>2
  <2> QED
    BY <1>5, <2>1, <2>2
<1>8. \A i, j \in DOMAIN t : i < j => from[i] < from[j]
  BY <1>5
<1> QED
  BY <1>4, <1>6, <1>7, <1>8 DEF Thins, t

\* One frame is replaced by a damaged one.
LEMMA DamageThins ==
    ASSUME NEW F, NEW s \in Seq(F), NEW n \in DOMAIN s, NEW f \in F, ~f.intact
    PROVE  [s EXCEPT ![n] = f] \in Seq(F) /\ Thins([s EXCEPT ![n] = f], s)
<1> DEFINE t == [s EXCEPT ![n] = f]
<1>1. t \in Seq(F) /\ DOMAIN t = DOMAIN s /\ \A i \in DOMAIN s : t[i] = IF i = n THEN f ELSE s[i]
  BY ExceptSeq
<1>2. [i \in DOMAIN t |-> i] \in [DOMAIN t -> DOMAIN s]
  BY <1>1
<1> HIDE DEF t
<1>3. Thins(t, s)
  BY <1>1, <1>2, LenProperties DEF Thins
<1> QED
  BY <1>1, <1>3 DEF t

\* Nothing is left, or nothing happens.
LEMMA EmptyThins == ASSUME NEW F, NEW s \in Seq(F) PROVE Thins(<<>>, s) /\ Thins(s, s)
<1>1. Thins(<<>>, s)
  <2>1. DOMAIN <<>> = {}
    OBVIOUS
  <2>2. [i \in {} |-> i] \in [{} -> DOMAIN s]
    OBVIOUS
  <2> QED
    BY <2>1, <2>2 DEF Thins
<1>2. Thins(s, s)
  <2>1. [i \in DOMAIN s |-> i] \in [DOMAIN s -> DOMAIN s]
    OBVIOUS
  <2> QED
    BY <2>1 DEF Thins
<1> QED
  BY <1>1, <1>2

-----------------------------------------------------------------------------
(* The steps                                                                *)

\* The line is empty and nothing has been written.
LEMMA InitLinkInv == LinkInit => LinkInv
<1> SUFFICES ASSUME LinkInit PROVE LinkInv
  OBVIOUS
<1> USE RequestsAssumption DEF LinkInit
<1>1. LinkTypeOK
  BY DEF LinkTypeOK, Stages, Holding, Empty, Content
<1>2. SentOnce /\ RequestsSound /\ InOrder /\ ExecutedBefore
  BY DEF SentOnce, RequestsSound, InOrder, ExecutedBefore
<1>3. AssemblyBegun
  BY DEF AssemblyBegun
<1>4. AnswersSound /\ AcceptedIsMine
  BY DEF AnswersSound, AcceptedIsMine
<1> QED
  BY <1>1, <1>2, <1>3, <1>4 DEF LinkInv

DeviceInv == RequestsSound /\ InOrder /\ AssemblyBegun /\ ExecutedBefore

\* What the host does by itself leaves the device's side as it is.
LEMMA DeviceUntouched ==
    ASSUME DeviceInv, UNCHANGED <<toDevice, assembly, executed, sent>>
    PROVE  DeviceInv'
  BY DEF DeviceInv, RequestsSound, SoundRequest, InOrder, AssemblyBegun, Begun, ExecutedBefore

\* Loss and damage on the way to the device, and the loss of what it has
\* assembled, keep the order of what is left.
LEMMA DeviceThinned ==
    ASSUME LinkTypeOK, DeviceInv, LinkTypeOK', Thins(toDevice', toDevice),
           UNCHANGED <<executed, sent>>, assembly' \in {assembly, Empty}
    PROVE  DeviceInv'
<1> PICK from \in [DOMAIN toDevice' -> DOMAIN toDevice] :
          /\ \A i, j \in DOMAIN toDevice' : i < j => from[i] < from[j]
          /\ \A i \in DOMAIN toDevice' : toDevice'[i].intact => toDevice'[i] = toDevice[from[i]]
  BY DEF Thins
<1> USE DEF DeviceInv
<1>1. RequestsSound'
  BY DEF RequestsSound, SoundRequest
<1>2. InOrder'
  BY DEF InOrder
<1>3. AssemblyBegun'
  <2>1. CASE assembly' = Empty
    BY <2>1 DEF AssemblyBegun
  <2>2. CASE assembly' = assembly /\ assembly # Empty
    <3>1. Begun(assembly)
      BY <2>2 DEF AssemblyBegun
    <3>2. Begun(assembly)'
      BY <2>2, <3>1 DEF Begun
    <3> QED
      BY <3>2 DEF AssemblyBegun
  <2> QED
    BY <2>1, <2>2
<1>4. ExecutedBefore'
  <2>1. \A l \in DOMAIN sent : sent[l] # Empty.id
    BY RequestsAssumption DEF LinkTypeOK, Empty
  <2> QED
    BY <2>1 DEF ExecutedBefore
<1> QED
  BY <1>1, <1>2, <1>3, <1>4

\* Sound answers stay so on a lossy line, and when more is executed.
LEMMA AnswersThinned ==
    ASSUME NEW s, NEW t, Thins(t, s), \A i \in DOMAIN s : SoundAnswer(s[i])
    PROVE  \A i \in DOMAIN t : SoundAnswer(t[i])
  BY DEF Thins, SoundAnswer

\* Executed requests stay executed.
LEMMA AnswersLast ==
    ASSUME NEW f, SoundAnswer(f),
           \A j \in DOMAIN executed : j \in DOMAIN executed' /\ executed'[j] = executed[j]
    PROVE  SoundAnswer(f)'
  BY DEF SoundAnswer

\* An accepted response stays what it is.
LEMMA AcceptedStays ==
    ASSUME AcceptedIsMine, NEW r \in Requests, stage[r] = "accepted", body'[r] = body[r],
           \A j \in DOMAIN executed : j \in DOMAIN executed' /\ executed'[j] = executed[j]
    PROVE  /\ body'[r] = AnswerTo(r, RequestBody(r))
           /\ RequestBody(r) \in {executed'[i] : i \in DOMAIN executed'}
  BY DEF AcceptedIsMine

\* Steps that leave the line and its histories alone.
LEMMA QuietStep ==
    ASSUME LinkInv, UNCHANGED <<received, body, toDevice, toHost, assembly, executed, sent>>,
           stage' \in [Requests -> Stages],
           \A r \in Requests : stage'[r] \in {"new", "locked"} => stage[r] \in {"new", "locked"},
           \A r \in Requests : stage'[r] = "accepted" => stage[r] = "accepted"
    PROVE  LinkInv'
<1> USE DEF LinkInv
<1>1. LinkTypeOK'
  BY DEF LinkTypeOK
<1>2. SentOnce'
  BY DEF LinkTypeOK, SentOnce
<1>3. DeviceInv'
  BY DeviceUntouched DEF DeviceInv
<1>4. AnswersSound'
  BY DEF AnswersSound, SoundAnswer
<1>5. AcceptedIsMine'
  BY DEF AcceptedIsMine
<1> QED
  BY <1>1, <1>2, <1>3, <1>4, <1>5 DEF DeviceInv

\* request: taking the port lock, and cancellation, write nothing.
LEMMA LockKeeps == ASSUME LinkInv, NEW r \in Requests, Lock(r) PROVE LinkInv'
  BY QuietStep DEF Lock, LinkInv, LinkTypeOK, Stages, Holding

LEMMA CancelKeeps == ASSUME LinkInv, NEW r \in Requests, Cancel(r) PROVE LinkInv'
  BY QuietStep DEF Cancel, LinkInv, LinkTypeOK, Stages, Holding

\* The frames of the new request come after all that was written before.
LEMMA OpenKeeps ==
    ASSUME LinkInv, NEW r \in Requests, NEW n \in 0..Len(toHost), Open(r, n)
    PROVE  LinkInv'
<1> DEFINE new == Frames("request", r, RequestBody(r))
<1>1. /\ new \in Seq(DeviceFrame) /\ Len(new) = RequestLength[r]
      /\ \A i \in 1..RequestLength[r] :
           new[i] = [type |-> "request", id |-> r, index |-> i, count |-> RequestLength[r],
                     part |-> <<r, i>>, intact |-> TRUE]
  <2> DEFINE asked == RequestBody(r)
  <2>1. new \in Seq(DeviceFrame)
    BY RequestFrames
  <2>2. /\ asked \in Seq(Part) /\ Len(asked) = RequestLength[r]
        /\ \A i \in 1..RequestLength[r] : asked[i] = <<r, i>>
    BY Bodies DEF Content
  <2> HIDE DEF asked
  <2>3. /\ Len(Frames("request", r, asked)) = Len(asked)
        /\ \A i \in 1..Len(asked) : Frames("request", r, asked)[i] =
               [type |-> "request", id |-> r, index |-> i, count |-> Len(asked),
                part |-> asked[i], intact |-> TRUE]
    BY <2>2, FramesOf
  <2> QED
    BY <2>1, <2>2, <2>3 DEF asked
<1>2. /\ toDevice' = toDevice \o new /\ sent' = Append(sent, r) /\ stage[r] = "locked"
      /\ stage' = [stage EXCEPT ![r] = "open"] /\ received' = <<>>
      /\ toHost' = SubSeq(toHost, n + 1, Len(toHost))
      /\ UNCHANGED <<body, assembly, executed>>
  BY DEF Open
<1> HIDE DEF new
<1> USE DEF LinkInv
<1>3. /\ toDevice \in Seq(DeviceFrame) /\ toHost \in Seq(HostFrame) /\ sent \in Seq(Requests)
      /\ Len(toDevice) \in Nat /\ DOMAIN toDevice = 1..Len(toDevice)
      /\ Len(sent) \in Nat /\ DOMAIN sent = 1..Len(sent) /\ RequestLength[r] \in Nat
  BY RequestsAssumption DEF LinkTypeOK
<1>4. /\ toDevice' \in Seq(DeviceFrame) /\ DOMAIN toDevice' = 1..(Len(toDevice) + RequestLength[r])
      /\ \A i \in DOMAIN toDevice : toDevice'[i] = toDevice[i]
      /\ \A i \in DOMAIN toDevice' \ DOMAIN toDevice :
           /\ toDevice'[i].id = r /\ toDevice'[i].count = RequestLength[r]
           /\ toDevice'[i].index = i - Len(toDevice) /\ i - Len(toDevice) \in 1..RequestLength[r]
           /\ toDevice'[i].part = <<r, i - Len(toDevice)>> /\ toDevice'[i].intact
  <2>1. /\ toDevice' \in Seq(DeviceFrame)
        /\ DOMAIN toDevice' = 1..(Len(toDevice) + Len(new))
        /\ \A i \in DOMAIN toDevice : toDevice'[i] = toDevice[i]
        /\ \A i \in DOMAIN toDevice' \ DOMAIN toDevice :
             i - Len(toDevice) \in 1..Len(new) /\ toDevice'[i] = new[i - Len(toDevice)]
    BY <1>1, <1>2, <1>3, Extended
  <2>2. DOMAIN toDevice' = 1..(Len(toDevice) + RequestLength[r])
    BY <1>1, <2>1
  <2>3. \A i \in DOMAIN toDevice' \ DOMAIN toDevice :
          i - Len(toDevice) \in 1..RequestLength[r] /\ toDevice'[i] = new[i - Len(toDevice)]
    BY <1>1, <2>1
  <2>4. \A i \in DOMAIN toDevice : toDevice'[i] = toDevice[i]
    BY <2>1
  <2>5. \A i \in DOMAIN toDevice' \ DOMAIN toDevice :
          toDevice'[i] = [type |-> "request", id |-> r, index |-> i - Len(toDevice),
                          count |-> RequestLength[r], part |-> <<r, i - Len(toDevice)>>,
                          intact |-> TRUE]
    BY <1>1, <2>3
  <2>6. \A i \in DOMAIN toDevice' \ DOMAIN toDevice :
          /\ toDevice'[i].id = r /\ toDevice'[i].count = RequestLength[r]
          /\ toDevice'[i].index = i - Len(toDevice) /\ i - Len(toDevice) \in 1..RequestLength[r]
          /\ toDevice'[i].part = <<r, i - Len(toDevice)>> /\ toDevice'[i].intact
    <3> TAKE i \in DOMAIN toDevice' \ DOMAIN toDevice
    <3> QED
      BY <2>3, <2>5
  <2> QED
    BY <2>1, <2>2, <2>4, <2>6
<1>5. /\ sent' \in Seq(Requests) /\ DOMAIN sent' = 1..(Len(sent) + 1)
      /\ \A k \in DOMAIN sent : sent'[k] = sent[k]
      /\ sent'[Len(sent) + 1] = r
  BY <1>2, <1>3, AppendProperties
<1>6. \A k \in DOMAIN sent : sent[k] # r
  BY <1>2 DEF SentOnce
<1>7. \A k \in DOMAIN sent' : (sent'[k] = r) <=> (k = Len(sent) + 1)
  BY <1>3, <1>5, <1>6
<1>8. LinkTypeOK'
  BY <1>2, <1>3, <1>4, <1>5, SuffixThins, EmptySeq DEF LinkTypeOK, Stages, Holding
<1>9. SentOnce'
  <2>1. \A k, l \in DOMAIN sent' : sent'[k] = sent'[l] => k = l
    BY <1>3, <1>5, <1>7 DEF SentOnce
  <2>2. \A k \in DOMAIN sent' : k \in DOMAIN sent \/ k = Len(sent) + 1
    BY <1>3, <1>5
  <2>3. stage'[r] = "open" /\ \A s \in Requests \ {r} : stage'[s] = stage[s]
    BY <1>2 DEF LinkTypeOK
  <2>4. \A k \in DOMAIN sent : sent[k] \in Requests \ {r}
    BY <1>3, <1>6
  <2>5. \A k \in DOMAIN sent' : stage'[sent'[k]] \notin {"new", "locked"}
    BY <1>5, <2>2, <2>3, <2>4 DEF SentOnce
  <2> QED
    BY <2>1, <2>5 DEF SentOnce
<1>10. RequestsSound'
  <2>1. ASSUME NEW i \in DOMAIN toDevice
        PROVE  SoundRequest(toDevice[i])'
    <3>1. SoundRequest(toDevice[i])
      BY DEF RequestsSound
    <3>2. \A f : (\E k \in DOMAIN sent : sent[k] = f) => \E k \in DOMAIN sent' : sent'[k] = f
      BY <1>3, <1>5
    <3>3. toDevice'[i] = toDevice[i]
      BY <1>4
    <3>4. toDevice[i].intact =>
              /\ \E k \in DOMAIN sent' : sent'[k] = toDevice[i].id
              /\ toDevice[i].count = RequestLength[toDevice[i].id]
              /\ toDevice[i].index \in 1..toDevice[i].count
              /\ toDevice[i].part = <<toDevice[i].id, toDevice[i].index>>
      BY <3>1, <3>2 DEF SoundRequest
    <3> QED
      BY <3>3, <3>4 DEF SoundRequest
  <2>2. ASSUME NEW i \in DOMAIN toDevice' \ DOMAIN toDevice
        PROVE  SoundRequest(toDevice[i])'
    <3>1. Len(sent) + 1 \in DOMAIN sent' /\ sent'[Len(sent) + 1] = r
      BY <1>3, <1>5
    <3> QED
      BY <1>4, <3>1 DEF SoundRequest
  <2> QED
    BY <2>1, <2>2 DEF RequestsSound
<1>11. \A i \in DOMAIN toDevice : toDevice[i].intact => \A l \in DOMAIN sent' :
         sent'[l] = toDevice[i].id => l \in DOMAIN sent /\ sent[l] = toDevice[i].id
  BY <1>3, <1>5, <1>6, <1>7 DEF RequestsSound, SoundRequest
<1>12. InOrder'
  <2> SUFFICES ASSUME NEW i \in DOMAIN toDevice', NEW j \in DOMAIN toDevice',
                      NEW k \in DOMAIN sent', NEW l \in DOMAIN sent',
                      i < j, toDevice'[i].intact, toDevice'[j].intact,
                      sent'[k] = toDevice'[i].id, sent'[l] = toDevice'[j].id
               PROVE  Earlier(k, toDevice'[i].index, l, toDevice'[j].index)
    BY DEF InOrder
  <2>1. CASE j \in DOMAIN toDevice
    BY <1>3, <1>4, <1>11, <2>1 DEF InOrder
  <2>2. CASE i \in DOMAIN toDevice /\ j \notin DOMAIN toDevice
    BY <1>3, <1>4, <1>7, <1>11, <2>2 DEF Earlier
  <2>3. CASE i \notin DOMAIN toDevice /\ j \notin DOMAIN toDevice
    BY <1>3, <1>4, <1>7, <2>3 DEF Earlier
  <2> QED
    BY <1>3, <1>4, <2>1, <2>2, <2>3
<1>13. AssemblyBegun'
  <2>1. CASE assembly = Empty
    BY <1>2, <2>1 DEF AssemblyBegun
  <2>2. CASE assembly # Empty
    <3>1. Begun(assembly)
      BY <2>2 DEF AssemblyBegun
    <3>2. \A k \in DOMAIN sent' :
            sent'[k] = assembly.id => k \in DOMAIN sent /\ sent[k] = assembly.id
      BY <1>3, <1>5, <1>6, <1>7, <3>1 DEF Begun
    <3>3. \A i \in DOMAIN toDevice', k, l \in DOMAIN sent' :
            toDevice'[i].intact /\ sent'[k] = assembly.id /\ sent'[l] = toDevice'[i].id
            => Earlier(k, Len(assembly.parts), l, toDevice'[i].index)
      <4> TAKE i \in DOMAIN toDevice', k, l \in DOMAIN sent'
      <4>1. CASE i \in DOMAIN toDevice
        BY <1>3, <1>4, <1>11, <3>1, <3>2, <4>1 DEF Begun
      <4>2. CASE i \notin DOMAIN toDevice
        BY <1>3, <1>4, <1>7, <3>2, <4>2 DEF Earlier
      <4> QED
        BY <4>1, <4>2
    <3>4. Begun(assembly)'
      <4>1. \E k \in DOMAIN sent' : sent'[k] = assembly.id
        BY <1>3, <1>5, <3>1 DEF Begun
      <4> QED
        BY <1>2, <3>1, <3>3, <4>1 DEF Begun
    <3> QED
      BY <3>4 DEF AssemblyBegun
  <2> QED
    BY <2>1, <2>2
<1>14. ExecutedBefore'
  <2>1. \A i \in DOMAIN executed, k \in DOMAIN sent' :
          executed[i] = RequestBody(sent'[k]) => k \in DOMAIN sent /\ sent[k] = sent'[k]
    <3> TAKE i \in DOMAIN executed, k \in DOMAIN sent'
    <3>1. PICK m \in DOMAIN sent : executed[i] = RequestBody(sent[m])
      BY DEF ExecutedBefore
    <3>2. sent[m] \in Requests /\ sent'[k] \in Requests
      BY <1>3, <1>5
    <3>3. executed[i] = RequestBody(sent'[k]) => sent'[k] = sent[m]
      BY <3>1, <3>2, Bodies
    <3> QED
      BY <1>3, <1>5, <1>6, <1>7, <3>1, <3>3
  <2>2. \A i \in DOMAIN executed' : \E k \in DOMAIN sent' : executed'[i] = RequestBody(sent'[k])
    BY <1>2, <1>3, <1>5 DEF ExecutedBefore
  <2>3. \A i, j \in DOMAIN executed', k, l \in DOMAIN sent' :
          i < j /\ executed'[i] = RequestBody(sent'[k]) /\ executed'[j] = RequestBody(sent'[l])
          => k < l
    BY <1>2, <2>1 DEF ExecutedBefore
  <2>4. \A i \in DOMAIN executed', j \in DOMAIN toDevice', k, l \in DOMAIN sent' :
          executed'[i] = RequestBody(sent'[k]) /\ toDevice'[j].intact
          /\ sent'[l] = toDevice'[j].id => k < l
    <3> TAKE i \in DOMAIN executed', j \in DOMAIN toDevice', k, l \in DOMAIN sent'
    <3>1. CASE j \in DOMAIN toDevice
      BY <1>2, <1>4, <1>11, <2>1, <3>1 DEF ExecutedBefore
    <3>2. CASE j \notin DOMAIN toDevice
      <4>1. toDevice'[j].id = r
        BY <1>4, <3>2
      <4>2. executed'[i] = RequestBody(sent'[k]) => k < Len(sent) + 1
        BY <1>2, <1>3, <2>1
      <4> QED
        BY <1>7, <4>1, <4>2
    <3> QED
      BY <3>1, <3>2
  <2>5. \A i \in DOMAIN executed', k, l \in DOMAIN sent' :
          executed'[i] = RequestBody(sent'[k]) /\ sent'[l] = assembly'.id => k < l
    <3> TAKE i \in DOMAIN executed', k, l \in DOMAIN sent'
    <3>1. CASE l \in DOMAIN sent
      BY <1>2, <1>5, <2>1, <3>1 DEF ExecutedBefore
    <3>2. CASE l = Len(sent) + 1
      BY <1>2, <1>3, <2>1, <3>2
    <3> QED
      BY <1>3, <1>5, <3>1, <3>2
  <2> QED
    BY <2>2, <2>3, <2>4, <2>5 DEF ExecutedBefore
<1>15. AnswersSound'
  <2>1. \A i \in DOMAIN toHost' : SoundAnswer(toHost'[i])
    BY <1>2, <1>3, SuffixThins, AnswersThinned DEF AnswersSound
  <2> QED
    BY <1>2, <2>1 DEF AnswersSound, SoundAnswer
<1>16. AcceptedIsMine'
  BY <1>2 DEF AcceptedIsMine, LinkTypeOK
<1> QED
  BY <1>8, <1>9, <1>10, <1>12, <1>13, <1>14, <1>15, <1>16

\* A frame that is read is judged as it was on the line.
LEMMA ReadFrameKeeps == ASSUME LinkInv, NEW r \in Requests, ReadFrame(r) PROVE LinkInv'
<1> USE DEF LinkInv, ReadFrame
<1>1. /\ received' \in Seq(HostFrame) /\ DOMAIN received' = 1..(Len(received) + 1)
      /\ \A i \in DOMAIN received : received'[i] = received[i]
      /\ received'[Len(received) + 1] = toHost[1]
      /\ DOMAIN received = 1..Len(received) /\ Len(received) \in Nat
  BY TailThins, AppendProperties, LenProperties DEF LinkTypeOK
<1>2. toHost' \in Seq(HostFrame) /\ Thins(toHost', toHost) /\ 1 \in DOMAIN toHost
  BY TailThins DEF LinkTypeOK
<1>3. LinkTypeOK'
  BY <1>1, <1>2 DEF LinkTypeOK
<1>4. SentOnce' /\ AcceptedIsMine'
  BY DEF SentOnce, AcceptedIsMine
<1>5. DeviceInv'
  BY DeviceUntouched DEF DeviceInv
<1>6. AnswersSound'
  <2>1. \A i \in DOMAIN toHost' : SoundAnswer(toHost'[i])
    BY <1>2, AnswersThinned DEF AnswersSound
  <2>2. \A i \in DOMAIN received' : SoundAnswer(received'[i])
    BY <1>1, <1>2 DEF AnswersSound
  <2> QED
    BY <2>1, <2>2 DEF AnswersSound, SoundAnswer
<1> QED
  BY <1>3, <1>4, <1>5, <1>6 DEF DeviceInv

\* A read that ends within a frame leaves a damaged frame on both sides.
LEMMA CloseKeeps ==
    ASSUME LinkInv, NEW r \in Requests, NEW within \in BOOLEAN, NEW failed \in BOOLEAN,
           Close(r, within, failed)
    PROVE  LinkInv'
<1> USE DEF LinkInv
<1>1. CASE ~within
  <2>1. received' \in {<<>>, received} /\ UNCHANGED <<body, toDevice, toHost, assembly, executed, sent>>
    BY <1>1 DEF Close
  <2>2. /\ stage[r] = "open" /\ stage' = [stage EXCEPT ![r] = "closed"]
    BY DEF Close
  <2>3. LinkTypeOK'
    BY <2>1, <2>2, EmptySeq DEF LinkTypeOK, Stages, Holding
  <2>4. SentOnce' /\ AcceptedIsMine'
    BY <2>1, <2>2 DEF SentOnce, AcceptedIsMine, LinkTypeOK
  <2>5. DeviceInv'
    BY <2>1, DeviceUntouched DEF DeviceInv
  <2>6. AnswersSound'
    BY <2>1 DEF AnswersSound, SoundAnswer
  <2> QED
    BY <2>3, <2>4, <2>5, <2>6 DEF DeviceInv
<1>2. CASE within
  <2> DEFINE part == [Head(toHost) EXCEPT !.intact = FALSE]
  <2>1. /\ stage[r] = "open" /\ stage' = [stage EXCEPT ![r] = "closed"]
        /\ received' = (IF failed THEN <<>> ELSE Append(received, part))
        /\ toHost' = [toHost EXCEPT ![1].intact = FALSE] /\ toHost # <<>>
        /\ UNCHANGED <<body, toDevice, assembly, executed, sent>>
    BY <1>2 DEF Close
  <2>2. toHost \in Seq(HostFrame) /\ received \in Seq(HostFrame)
    BY DEF LinkTypeOK
  <2>3. Head(toHost) = toHost[1] /\ Head(toHost) \in HostFrame /\ 1 \in DOMAIN toHost
    BY <2>1, <2>2, TailThins
  <2>4. part \in HostFrame /\ ~part.intact
    BY <2>3 DEF HostFrame
  <2>5. toHost' = [toHost EXCEPT ![1] = part]
    BY <2>1, <2>3
  <2> HIDE DEF part
  <2>6. toHost' \in Seq(HostFrame) /\ Thins(toHost', toHost)
    BY <2>2, <2>3, <2>4, <2>5, DamageThins
  <2>7. /\ received' \in Seq(HostFrame)
        /\ \A i \in DOMAIN received' :
             received'[i] = part \/ (i \in DOMAIN received /\ received'[i] = received[i])
    <3>1. CASE failed
      <4>1. received' = <<>> /\ DOMAIN <<>> = {}
        BY <2>1, <3>1
      <4> QED
        BY <4>1, EmptySeq
    <3>2. CASE ~failed
      BY <2>1, <2>2, <2>4, <3>2, AppendProperties, LenProperties
    <3> QED
      BY <3>1, <3>2
  <2>8. LinkTypeOK'
    BY <2>1, <2>6, <2>7 DEF LinkTypeOK, Stages, Holding
  <2>9. SentOnce' /\ AcceptedIsMine'
    BY <2>1 DEF SentOnce, AcceptedIsMine, LinkTypeOK
  <2>10. DeviceInv'
    BY <2>1, DeviceUntouched DEF DeviceInv
  <2>11. AnswersSound'
    <3>1. \A i \in DOMAIN toHost' : SoundAnswer(toHost'[i])
      BY <2>6, AnswersThinned DEF AnswersSound
    <3>2. \A i \in DOMAIN received' : SoundAnswer(received'[i])
      <4>1. \A i \in DOMAIN received : SoundAnswer(received[i])
        BY DEF AnswersSound
      <4>2. SoundAnswer(part)
        BY <2>4 DEF SoundAnswer
      <4> QED
        BY <2>7, <4>1, <4>2
    <3>3. ASSUME NEW f, SoundAnswer(f) PROVE SoundAnswer(f)'
      BY <2>1, <3>3, AnswersLast
    <3> QED
      BY <3>1, <3>2, <3>3 DEF AnswersSound
  <2> QED
    BY <2>8, <2>9, <2>10, <2>11 DEF DeviceInv
<1> QED
  BY <1>1, <1>2

\* A response is accepted when it is whole: then it is the answer.
LEMMA FinishKeeps == ASSUME LinkInv, NEW r \in Requests, Finish(r) PROVE LinkInv'
<1> USE DEF LinkInv
<1>1. PICK end \in {"cancelled", "accepted", "failed"} :
        /\ stage' = [stage EXCEPT ![r] = end]
        /\ end = "accepted" <=> r \notin cancelled /\ Decodes(r)
  BY DEF Finish
<1>2. /\ stage[r] = "closed" /\ received' = <<>>
      /\ UNCHANGED <<toDevice, toHost, assembly, executed, sent>>
      /\ body' = IF end = "accepted"
                 THEN [body EXCEPT ![r] = [i \in DOMAIN received |-> received[i].part]] ELSE body
  BY <1>1 DEF Finish
<1>3. received \in Seq(HostFrame) /\ DOMAIN received = 1..Len(received) /\ Len(received) \in Nat
  BY LenProperties DEF LinkTypeOK
<1>4. ASSUME Decodes(r)
      PROVE  /\ [i \in DOMAIN received |-> received[i].part] = AnswerTo(r, RequestBody(r))
             /\ RequestBody(r) \in {executed[i] : i \in DOMAIN executed}
  <2>1. 1 \in DOMAIN received
    BY <1>3, <1>4, EmptySeq DEF Decodes
  <2>2. \A i \in DOMAIN received :
          /\ SoundAnswer(received[i]) /\ received[i].intact /\ received[i].type = "answer"
          /\ received[i].id = r /\ received[i].count = Len(received) /\ received[i].index = i
    BY <1>4, <2>1 DEF Decodes, AnswersSound
  <2>3. \A i \in DOMAIN received :
          Len(received) = AnswerLength[r]
          /\ received[i].part = [of |-> RequestBody(r), at |-> i]
    BY <2>2 DEF SoundAnswer
  <2>4. \E j \in DOMAIN executed : executed[j] = RequestBody(r)
    <3>1. /\ SoundAnswer(received[1]) /\ received[1].intact /\ received[1].type = "answer"
          /\ received[1].id = r
      BY <2>1, <2>2
    <3>2. \E j \in DOMAIN executed : executed[j] = RequestBody(received[1].id)
      BY <3>1 DEF SoundAnswer
    <3> QED
      BY <3>1, <3>2
  <2>5. DOMAIN received = 1..AnswerLength[r]
    BY <1>3, <2>1, <2>3
  <2> QED
    BY <2>3, <2>4, <2>5 DEF AnswerTo
<1>5. AcceptedIsMine'
  <2> SUFFICES ASSUME NEW q \in Requests, stage'[q] = "accepted"
               PROVE  /\ body'[q] = AnswerTo(q, RequestBody(q))
                      /\ RequestBody(q) \in {executed'[i] : i \in DOMAIN executed'}
    BY DEF AcceptedIsMine
  <2>1. CASE q = r
    BY <1>1, <1>2, <1>4, <2>1 DEF LinkTypeOK
  <2>2. CASE q # r
    <3>1. stage[q] = "accepted" /\ body'[q] = body[q]
      BY <1>1, <1>2, <2>2 DEF LinkTypeOK
    <3> QED
      BY <1>2, <3>1, AcceptedStays
  <2> QED
    BY <2>1, <2>2
<1>6. LinkTypeOK'
  <2>1. [i \in DOMAIN received |-> received[i].part] \in Seq(Segment)
    <3>1. \A i \in 1..Len(received) : received[i].part \in Segment
      <4>1. \A i \in 1..Len(received) : received[i] \in HostFrame
        BY <1>3, ElementOfSeq
      <4> QED
        BY <4>1 DEF HostFrame
    <3> QED
      BY <1>3, <3>1
  <2> QED
    BY <1>1, <1>2, <2>1, EmptySeq DEF LinkTypeOK, Stages, Holding
<1>7. SentOnce'
  BY <1>1, <1>2 DEF SentOnce, LinkTypeOK
<1>8. DeviceInv'
  BY <1>2, DeviceUntouched DEF DeviceInv
<1>9. AnswersSound'
  BY <1>2 DEF AnswersSound, SoundAnswer
<1> QED
  BY <1>5, <1>6, <1>7, <1>8, <1>9 DEF DeviceInv

\* What the device answers is sound if it was sound before and the new frames
\* are answers to what was executed, or errors.
LEMMA AnswersAppended ==
    ASSUME LinkTypeOK, AnswersSound, executed' \in Seq(Content),
           \A j \in DOMAIN executed : j \in DOMAIN executed' /\ executed'[j] = executed[j],
           received' = received,
           NEW new \in Seq(HostFrame), toHost' = toHost \o new,
           \A i \in DOMAIN new : SoundAnswer(new[i])'
    PROVE  AnswersSound' /\ toHost' \in Seq(HostFrame)
<1>1. /\ toHost' \in Seq(HostFrame)
      /\ \A i \in DOMAIN toHost' :
           \/ i \in DOMAIN toHost /\ toHost'[i] = toHost[i]
           \/ i - Len(toHost) \in DOMAIN new /\ toHost'[i] = new[i - Len(toHost)]
  BY ConcatProperties, LenProperties DEF LinkTypeOK
<1>2. ASSUME NEW f, SoundAnswer(f)
      PROVE  SoundAnswer(f)'
  BY <1>2, AnswersLast
<1>3. \A i \in DOMAIN toHost' : SoundAnswer(toHost[i])'
  <2> TAKE i \in DOMAIN toHost'
  <2>1. CASE i \in DOMAIN toHost /\ toHost'[i] = toHost[i]
    <3>1. SoundAnswer(toHost[i])
      BY <2>1 DEF AnswersSound
    <3> QED
      BY <2>1, <3>1, AnswersLast DEF SoundAnswer
  <2>2. CASE i - Len(toHost) \in DOMAIN new /\ toHost'[i] = new[i - Len(toHost)]
    BY <2>2 DEF SoundAnswer
  <2> QED
    BY <1>1, <2>1, <2>2
<1>4. \A i \in DOMAIN received' : SoundAnswer(received[i])'
  BY AnswersLast DEF AnswersSound, SoundAnswer
<1> QED
  BY <1>1, <1>3, <1>4 DEF AnswersSound

\* An error tells nothing that could be accepted.
LEMMA ErrorSound ==
    ASSUME NEW r \in Requests
    PROVE  \A i \in DOMAIN ErrorFrame(r) : SoundAnswer(ErrorFrame(r)[i])'
  BY DEF ErrorFrame, Frames, SoundAnswer

\* consumeFrame refuses a frame: what was assembled is dropped.
LEMMA RefuseKeeps ==
    ASSUME LinkInv, toDevice # <<>>, toDevice' = Tail(toDevice),
           toHost' = toHost \o ErrorFrame(Head(toDevice).id), assembly' = Empty,
           UNCHANGED <<host, executed>>
    PROVE  LinkInv'
<1> USE DEF LinkInv, host
<1>1. toDevice' \in Seq(DeviceFrame) /\ Thins(toDevice', toDevice) /\ Head(toDevice).id \in Requests
  <2>1. toDevice' \in Seq(DeviceFrame) /\ Thins(toDevice', toDevice) /\ Head(toDevice) \in DeviceFrame
    BY TailThins DEF LinkTypeOK
  <2> QED
    BY <2>1 DEF DeviceFrame
<1>2. PICK r \in Requests : r = Head(toDevice).id
  BY <1>1
<1>3. AnswersSound' /\ toHost' \in Seq(HostFrame)
  <2>1. /\ ErrorFrame(r) \in Seq(HostFrame)
        /\ \A i \in DOMAIN ErrorFrame(r) : SoundAnswer(ErrorFrame(r)[i])'
    BY AnswerFrames, EmptySeq, ErrorSound DEF Content
  <2> QED
    <3>1. executed' \in Seq(Content) /\ executed' = executed /\ received' = received
      BY DEF LinkTypeOK
    <3> HIDE DEF LinkInv, host
    <3>2. LinkTypeOK /\ AnswersSound
      BY DEF LinkInv
    <3> QED
      BY <1>2, <2>1, <3>1, <3>2, AnswersAppended
<1>4. LinkTypeOK'
  BY <1>1, <1>3, EmptySeq DEF LinkTypeOK, Empty, Content
<1>5. DeviceInv'
  BY <1>1, <1>4, DeviceThinned DEF DeviceInv
<1>6. SentOnce' /\ AcceptedIsMine'
  BY DEF SentOnce, AcceptedIsMine
<1> QED
  BY <1>3, <1>4, <1>5, <1>6 DEF DeviceInv

\* What is still to come was written after segment n of request r, and what was
\* executed before r.
Following(r, n) ==
    /\ \E k \in DOMAIN sent : sent[k] = r
    /\ \A i \in DOMAIN Tail(toDevice), k, l \in DOMAIN sent :
         Tail(toDevice)[i].intact /\ sent[k] = r /\ sent[l] = Tail(toDevice)[i].id
         => Earlier(k, n, l, Tail(toDevice)[i].index)
    /\ \A i \in DOMAIN executed, k, l \in DOMAIN sent :
         executed[i] = RequestBody(sent[k]) /\ sent[l] = r => k < l

\* A frame that is joined is the next segment of a written request, and what
\* is still to come was written after it.
LEMMA Joined ==
    ASSUME LinkInv, toDevice # <<>>, NEW f, f = Head(toDevice), NEW a,
           f.index = 1 => a = [id |-> f.id, count |-> f.count, parts |-> <<>>],
           f.index # 1 => a = assembly,
           Joins(a, f)
    PROVE  /\ f \in DeviceFrame /\ f.intact /\ SoundRequest(f)
           /\ f.id = a.id /\ f.count = a.count
           /\ Append(a.parts, f.part) \in Content /\ Len(Append(a.parts, f.part)) = f.index
           /\ \A i \in 1..f.index : Append(a.parts, f.part)[i] = <<f.id, i>>
           /\ Following(f.id, f.index)
<1> USE DEF LinkInv
<1>1. /\ f \in DeviceFrame /\ f = toDevice[1] /\ 1 \in DOMAIN toDevice
      /\ \A i \in DOMAIN Tail(toDevice) :
           i \in Nat /\ 1 < i + 1 /\ i + 1 \in DOMAIN toDevice /\ Tail(toDevice)[i] = toDevice[i + 1]
  BY TailThins DEF LinkTypeOK
<1>2. f.intact /\ f.id = a.id /\ f.count = a.count /\ f.index = Len(a.parts) + 1
  BY DEF Joins
<1>3. SoundRequest(f)
  BY <1>1 DEF RequestsSound
<1>4. /\ f.id \in Requests /\ f.count \in Nat /\ f.count = RequestLength[f.id]
  BY <1>1, <1>2, <1>3 DEF SoundRequest, DeviceFrame
<1>5. /\ a \in [id : Requests, count : Nat, parts : Content]
      /\ \A i \in 1..Len(a.parts) : a.parts[i] = <<f.id, i>>
  <2>1. CASE f.index = 1
    <3>1. <<>> \in Content /\ Len(<<>>) = 0
      BY EmptySeq DEF Content
    <3>2. a \in [id : Requests, count : Nat, parts : Content] /\ Len(a.parts) = 0
      BY <1>4, <2>1, <3>1
    <3> QED
      BY <3>2
  <2>2. CASE f.index # 1
    <3>1. a = assembly
      BY <2>2
    <3>2. a # Empty
      <4>1. Empty.id = Nobody
        BY DEF Empty
      <4> QED
        BY <1>2, <1>4, <4>1, RequestsAssumption
    <3>3. Begun(a)
      BY <3>1, <3>2 DEF AssemblyBegun
    <3> QED
      BY <1>2, <1>4, <3>1, <3>3 DEF Begun, LinkTypeOK
  <2> QED
    BY <2>1, <2>2
<1>6. \A i \in DOMAIN Tail(toDevice), k, l \in DOMAIN sent :
        Tail(toDevice)[i].intact /\ sent[k] = f.id /\ sent[l] = Tail(toDevice)[i].id
        => Earlier(k, f.index, l, Tail(toDevice)[i].index)
  BY <1>1, <1>2 DEF InOrder
<1>7. \A i \in DOMAIN executed, k, l \in DOMAIN sent :
        executed[i] = RequestBody(sent[k]) /\ sent[l] = f.id => k < l
  BY <1>1, <1>2 DEF ExecutedBefore
<1>8. f.part = <<f.id, f.index>> /\ f.part \in Part /\ f.index \in 1..a.count
  BY <1>1, <1>2, <1>3 DEF SoundRequest, DeviceFrame
<1>9. a.parts \in Seq(Part) /\ Len(a.parts) \in Nat
  BY <1>5, LenProperties DEF Content
<1>10. /\ Append(a.parts, f.part) \in Seq(Part) /\ Len(Append(a.parts, f.part)) = f.index
       /\ \A i \in 1..f.index : Append(a.parts, f.part)[i] = <<f.id, i>>
  BY <1>2, <1>5, <1>8, <1>9, AppendProperties
<1> QED
  BY <1>1, <1>2, <1>3, <1>6, <1>7, <1>10 DEF Content, SoundRequest, Following

\* consumeFrame joins a frame that does not complete the message.
LEMMA JoinKeeps ==
    ASSUME LinkInv, toDevice # <<>>, NEW r \in Requests, NEW parts \in Content,
           Len(parts) \in 1..(RequestLength[r] - 1),
           \A i \in 1..Len(parts) : parts[i] = <<r, i>>, Following(r, Len(parts)),
           assembly' = [id |-> r, count |-> RequestLength[r], parts |-> parts],
           toDevice' = Tail(toDevice), UNCHANGED <<host, toHost, executed>>
    PROVE  LinkInv'
<1> USE DEF LinkInv, host
<1>1. toDevice' \in Seq(DeviceFrame) /\ Thins(toDevice', toDevice)
  BY TailThins DEF LinkTypeOK
<1>2. PICK from \in [DOMAIN toDevice' -> DOMAIN toDevice] :
          /\ \A i, j \in DOMAIN toDevice' : i < j => from[i] < from[j]
          /\ \A i \in DOMAIN toDevice' : toDevice'[i].intact => toDevice'[i] = toDevice[from[i]]
  BY <1>1 DEF Thins
<1>3. LinkTypeOK'
  BY <1>1, RequestsAssumption DEF LinkTypeOK
<1>4. SentOnce' /\ AcceptedIsMine' /\ AnswersSound'
  BY DEF SentOnce, AcceptedIsMine, AnswersSound, SoundAnswer
<1>5. RequestsSound' /\ InOrder'
  BY <1>2 DEF RequestsSound, SoundRequest, InOrder
<1>6. AssemblyBegun'
  <2>1. Begun(assembly)'
    BY DEF Begun, Following
  <2> QED
    BY <2>1 DEF AssemblyBegun
<1>7. ExecutedBefore'
  BY <1>2 DEF ExecutedBefore, Following
<1> QED
  BY <1>3, <1>4, <1>5, <1>6, <1>7

\* consumeFrame joins the last frame of a message, and dispatch executes it.
LEMMA DispatchKeeps ==
    ASSUME LinkInv, toDevice # <<>>, NEW r \in Requests, Following(r, RequestLength[r]),
           NEW refused \in BOOLEAN, executed' = Append(executed, RequestBody(r)),
           toHost' = toHost \o (IF refused THEN ErrorFrame(r)
                               ELSE Frames("answer", r, AnswerTo(r, RequestBody(r)))),
           assembly' = Empty, toDevice' = Tail(toDevice), UNCHANGED host
    PROVE  LinkInv'
<1>4. RequestBody(r) \in Content /\ RequestLength[r] \in Nat
  BY Bodies, RequestsAssumption
<1>6. toDevice' \in Seq(DeviceFrame) /\ Thins(toDevice', toDevice)
  BY TailThins DEF LinkInv, LinkTypeOK
<1>7. PICK from \in [DOMAIN toDevice' -> DOMAIN toDevice] :
          /\ \A i, j \in DOMAIN toDevice' : i < j => from[i] < from[j]
          /\ \A i \in DOMAIN toDevice' : toDevice'[i].intact => toDevice'[i] = toDevice[from[i]]
  BY <1>6 DEF Thins
<1>8. /\ executed' \in Seq(Content) /\ DOMAIN executed' = 1..(Len(executed) + 1)
      /\ Len(executed) \in Nat /\ Len(executed) + 1 \in DOMAIN executed' /\ DOMAIN executed = 1..Len(executed)
      /\ \A i \in DOMAIN executed : i \in DOMAIN executed' /\ executed'[i] = executed[i]
      /\ executed'[Len(executed) + 1] = RequestBody(r)
  BY <1>4, AppendProperties, LenProperties DEF LinkInv, LinkTypeOK
<1>9. AnswersSound' /\ toHost' \in Seq(HostFrame)
  <2>1. PICK new \in Seq(HostFrame) :
          /\ toHost' = toHost \o new
          /\ \A i \in DOMAIN new : SoundAnswer(new[i])'
    <3>1. CASE refused
      BY <1>4, <3>1, AnswerFrames, ErrorSound
    <3>2. CASE ~refused
      <4> DEFINE new == Frames("answer", r, AnswerTo(r, RequestBody(r)))
      <4>1. /\ AnswerTo(r, RequestBody(r)) \in Seq(Segment)
            /\ Len(AnswerTo(r, RequestBody(r))) = AnswerLength[r]
            /\ \A i \in 1..AnswerLength[r] :
                 AnswerTo(r, RequestBody(r))[i] = [of |-> RequestBody(r), at |-> i]
            /\ new \in Seq(HostFrame)
        BY <1>4, AnswerFrames
      <4>2. DOMAIN new = 1..AnswerLength[r]
        BY <4>1, FramesOf
      <4>3. \A i \in 1..AnswerLength[r] :
              new[i] = [type |-> "answer", id |-> r, index |-> i, count |-> AnswerLength[r],
                        part |-> [of |-> RequestBody(r), at |-> i], intact |-> TRUE]
        BY <4>1, FramesOf
      <4>4. \E j \in DOMAIN executed' : executed'[j] = RequestBody(r)
        BY <1>8
      <4> HIDE DEF new
      <4>5. \A i \in DOMAIN new : SoundAnswer(new[i])'
        <5> SUFFICES ASSUME NEW i \in 1..AnswerLength[r] PROVE SoundAnswer(new[i])'
          BY <4>2
        <5>1. PICK part : part = [of |-> RequestBody(r), at |-> i]
          OBVIOUS
        <5>2. new[i] = [type |-> "answer", id |-> r, index |-> i, count |-> AnswerLength[r],
                        part |-> part, intact |-> TRUE]
          BY <4>3, <5>1
        <5>3. /\ new[i].count = AnswerLength[r] /\ new[i].index = i /\ new[i].id = r
              /\ new[i].part = part
          BY <5>2
        <5> QED
          BY <4>4, <5>1, <5>3 DEF SoundAnswer
      <4> QED
        BY <3>2, <4>1, <4>5 DEF new
    <3> QED
      BY <3>1, <3>2
  <2> QED
    BY <1>8, <2>1, AnswersAppended DEF LinkInv, host
<1> USE DEF LinkInv, host
<1>10. LinkTypeOK'
  BY <1>6, <1>8, <1>9, EmptySeq DEF LinkTypeOK, Empty, Content
<1>11. SentOnce'
  BY DEF SentOnce
<1>12. AcceptedIsMine'
  BY <1>8 DEF AcceptedIsMine
<1>13. RequestsSound' /\ InOrder'
  BY <1>7 DEF RequestsSound, SoundRequest, InOrder
<1>14. AssemblyBegun'
  BY DEF AssemblyBegun
<1>15. ExecutedBefore'
  <2>1. \A k \in DOMAIN sent : sent[k] \in Requests /\ (RequestBody(r) = RequestBody(sent[k]) <=> sent[k] = r)
    BY Bodies DEF LinkTypeOK
  <2>2. \A i \in DOMAIN executed' : i \notin DOMAIN executed => executed'[i] = RequestBody(r)
    BY <1>8
  <2>3. \E k \in DOMAIN sent : sent[k] = r
    BY DEF Following
  <2>4. \A i \in DOMAIN executed' : \E k \in DOMAIN sent' : executed'[i] = RequestBody(sent'[k])
    BY <1>8, <2>2, <2>3 DEF ExecutedBefore
  <2>5. \A i, j \in DOMAIN executed', k, l \in DOMAIN sent' :
          i < j /\ executed'[i] = RequestBody(sent'[k]) /\ executed'[j] = RequestBody(sent'[l])
          => k < l
    <3> SUFFICES ASSUME NEW i \in DOMAIN executed', NEW j \in DOMAIN executed',
                        NEW k \in DOMAIN sent', NEW l \in DOMAIN sent',
                        i < j, executed'[i] = RequestBody(sent'[k]),
                        executed'[j] = RequestBody(sent'[l])
                 PROVE  k < l
      OBVIOUS
    <3>1. CASE j \in DOMAIN executed
      <4>1. i \in DOMAIN executed
        BY <1>8, <3>1
      <4> QED
        BY <1>8, <3>1, <4>1 DEF ExecutedBefore
    <3>2. CASE j \notin DOMAIN executed
      <4>1. i \in DOMAIN executed
        BY <1>8, <3>2
      <4>2. executed'[j] = RequestBody(r)
        BY <2>2, <3>2
      <4>3. sent[l] = r /\ executed[i] = RequestBody(sent[k])
        BY <1>8, <2>1, <4>1, <4>2
      <4> QED
        BY <4>1, <4>3 DEF Following
    <3> QED
      BY <3>1, <3>2
  <2>6. \A i \in DOMAIN executed', j \in DOMAIN toDevice', k, l \in DOMAIN sent' :
          executed'[i] = RequestBody(sent'[k]) /\ toDevice'[j].intact
          /\ sent'[l] = toDevice'[j].id => k < l
    <3> TAKE i \in DOMAIN executed', j \in DOMAIN toDevice', k, l \in DOMAIN sent'
    <3>1. CASE i \in DOMAIN executed
      BY <1>7, <1>8, <3>1 DEF ExecutedBefore
    <3>2. CASE i \notin DOMAIN executed
      <4> SUFFICES ASSUME executed'[i] = RequestBody(sent'[k]), toDevice'[j].intact,
                          sent'[l] = toDevice'[j].id
                   PROVE  k < l
        OBVIOUS
      <4>1. sent[k] = r
        BY <2>1, <2>2, <3>2
      <4>2. Earlier(k, RequestLength[r], l, toDevice'[j].index)
        BY <4>1 DEF Following
      <4>3. SoundRequest(toDevice[from[j]]) /\ toDevice'[j] = toDevice[from[j]]
        BY <1>7 DEF RequestsSound
      <4>4. toDevice'[j].index \in 1..RequestLength[sent[l]]
        BY <4>3 DEF SoundRequest
      <4>5. k = l => FALSE
        <5>1. k \in Nat
          <6>1. sent \in Seq(Requests) /\ k \in DOMAIN sent
            BY DEF LinkTypeOK
          <6> QED
            BY <6>1
        <5> QED
          BY <1>4, <4>1, <4>2, <4>4, <5>1 DEF Earlier
      <4> QED
        BY <4>2, <4>5 DEF Earlier
    <3> QED
      BY <3>1, <3>2
  <2>7. \A l \in DOMAIN sent' : sent'[l] # assembly'.id
    BY <2>1, RequestsAssumption DEF Empty
  <2> QED
    BY <2>4, <2>5, <2>6, <2>7 DEF ExecutedBefore
<1> QED
  BY <1>9, <1>10, <1>11, <1>12, <1>13, <1>14, <1>15

\* consumeFrame, whatever the frame is.
LEMMA ConsumeKeeps ==
    ASSUME LinkInv, NEW refused \in BOOLEAN, ConsumeFrame(refused)
    PROVE  LinkInv'
<1>1. PICK f : f = Head(toDevice)
  OBVIOUS
<1>2. PICK a : a = IF f.index = 1 THEN [Empty EXCEPT !.id = f.id, !.count = f.count] ELSE assembly
  OBVIOUS
<1>3. PICK parts : parts = Append(a.parts, f.part)
  OBVIOUS
<1>4. toDevice # <<>> /\ toDevice' = Tail(toDevice) /\ UNCHANGED host
  BY DEF ConsumeFrame
<1>5. f \in DeviceFrame
  BY <1>1, <1>4, TailThins DEF LinkInv, LinkTypeOK
<1>6. CASE ~Joins(a, f)
  <2>1. toHost' = toHost \o ErrorFrame(f.id) /\ assembly' = Empty /\ UNCHANGED executed
    BY <1>1, <1>2, <1>6 DEF ConsumeFrame
  <2> QED
    BY <1>1, <1>4, <2>1, RefuseKeeps
<1>7. CASE Joins(a, f)
  <2>1. /\ f.index = 1 => a = [id |-> f.id, count |-> f.count, parts |-> <<>>]
        /\ f.index # 1 => a = assembly
    BY <1>2 DEF Empty
  <2>2. /\ f.intact /\ SoundRequest(f) /\ f.id = a.id /\ f.count = a.count
        /\ parts \in Content /\ Len(parts) = f.index
        /\ \A i \in 1..f.index : parts[i] = <<f.id, i>>
        /\ Following(f.id, f.index)
    BY <1>1, <1>3, <1>4, <1>7, <2>1, Joined
  <2>3. PICK r \in Requests : r = f.id
    BY <1>5 DEF DeviceFrame
  <2>4. f.count = RequestLength[r] /\ f.index \in 1..RequestLength[r] /\ RequestLength[r] \in Nat
    BY <2>2, <2>3, RequestsAssumption DEF SoundRequest
  <2>5. [a EXCEPT !.parts = Append(@, f.part)] = [id |-> r, count |-> f.count, parts |-> parts]
    <3>1. \E p : a = [id |-> r, count |-> f.count, parts |-> p]
      <4>1. CASE f.index = 1
        BY <2>1, <2>3, <4>1
      <4>2. CASE f.index # 1
        <5>1. assembly \in [id : Requests \cup {Nobody}, count : Nat, parts : Content]
          BY DEF LinkInv, LinkTypeOK
        <5>2. assembly = [id |-> assembly.id, count |-> assembly.count, parts |-> assembly.parts]
          BY <5>1
        <5>3. assembly.id = r /\ assembly.count = f.count
          BY <2>1, <2>2, <2>3, <4>2
        <5> QED
          BY <2>1, <4>2, <5>2, <5>3
      <4> QED
        BY <4>1, <4>2
    <3>2. PICK p : a = [id |-> r, count |-> f.count, parts |-> p]
      BY <3>1
    <3>3. parts = Append(p, f.part)
      BY <1>3, <3>2
    <3>4. \A q : [[id |-> r, count |-> f.count, parts |-> p] EXCEPT !.parts = q]
                 = [id |-> r, count |-> f.count, parts |-> q]
      OBVIOUS
    <3>5. [[id |-> r, count |-> f.count, parts |-> p] EXCEPT !.parts = Append(@, f.part)]
            = [id |-> r, count |-> f.count, parts |-> parts]
      BY <3>3, <3>4
    <3> QED
      BY <3>2, <3>5
  <2>6. \/ Len(parts) = f.count /\ Dispatch([id |-> r, count |-> f.count, parts |-> parts], refused)
        \/ /\ Len(parts) # f.count /\ UNCHANGED <<toHost, executed>>
           /\ assembly' = [id |-> r, count |-> f.count, parts |-> parts]
    BY <1>1, <1>2, <1>7, <2>5 DEF ConsumeFrame
  <2>7. CASE Len(parts) = f.count
    <3>1. parts = RequestBody(r)
      <4>1. /\ parts \in Seq(Part) /\ Len(parts) = RequestLength[r]
            /\ \A i \in 1..RequestLength[r] : parts[i] = <<r, i>>
        <5>1. f.index = RequestLength[r]
          BY <2>2, <2>4, <2>7
        <5> QED
          BY <2>2, <2>3, <5>1 DEF Content
      <4>2. /\ RequestBody(r) \in Seq(Part) /\ Len(RequestBody(r)) = RequestLength[r]
            /\ \A i \in 1..RequestLength[r] : RequestBody(r)[i] = <<r, i>>
        BY Bodies DEF Content
      <4>3. \A i \in 1..Len(parts) : parts[i] = RequestBody(r)[i]
        BY <4>1, <4>2
      <4> HIDE DEF Part
      <4> QED
        BY <4>1, <4>2, <4>3, SeqEqual
    <3>2. Following(r, RequestLength[r])
      BY <2>2, <2>3, <2>4, <2>7
    <3>3. /\ executed' = Append(executed, RequestBody(r)) /\ assembly' = Empty
          /\ toHost' = toHost \o (IF refused THEN ErrorFrame(r)
                                ELSE Frames("answer", r, AnswerTo(r, RequestBody(r))))
      BY <2>6, <2>7, <3>1 DEF Dispatch
    <3> QED
      BY <1>4, <3>2, <3>3, DispatchKeeps
  <2>8. CASE Len(parts) # f.count
    <3>1. /\ UNCHANGED <<toHost, executed>>
          /\ assembly' = [id |-> r, count |-> RequestLength[r], parts |-> parts]
      BY <2>4, <2>6, <2>8
    <3>2. Len(parts) \in 1..(RequestLength[r] - 1)
      BY <2>2, <2>4, <2>8
    <3>3. Following(r, Len(parts)) /\ \A i \in 1..Len(parts) : parts[i] = <<r, i>>
      BY <2>2, <2>3
    <3> QED
      BY <1>4, <2>2, <3>1, <3>2, <3>3, JoinKeeps
  <2> QED
    BY <2>7, <2>8
<1> QED
  BY <1>6, <1>7

-----------------------------------------------------------------------------
(* Faults                                                                   *)

\* What is left of two lossy lines.
LEMMA FaultKeeps ==
    ASSUME LinkInv, UNCHANGED <<host, executed>>,
           toDevice' \in Seq(DeviceFrame), Thins(toDevice', toDevice),
           toHost' \in Seq(HostFrame), Thins(toHost', toHost),
           assembly' \in {assembly, Empty}
    PROVE  LinkInv'
<1> USE DEF LinkInv, host
<1>1. LinkTypeOK'
  <2>1. assembly' \in [id : Requests \cup {Nobody}, count : Nat, parts : Content]
    <3>1. Empty \in [id : Requests \cup {Nobody}, count : Nat, parts : Content]
      BY EmptySeq DEF Empty, Content
    <3> QED
      BY <3>1 DEF LinkTypeOK
  <2> QED
    BY <2>1 DEF LinkTypeOK
<1>2. SentOnce'
  BY DEF SentOnce
<1>3. DeviceInv'
  BY <1>1, DeviceThinned DEF DeviceInv
<1>4. AnswersSound'
  <2>1. \A i \in DOMAIN toHost' : SoundAnswer(toHost'[i])
    BY AnswersThinned DEF AnswersSound
  <2> QED
    BY <2>1 DEF AnswersSound, SoundAnswer
<1>5. AcceptedIsMine'
  BY DEF AcceptedIsMine
<1> QED
  BY <1>1, <1>2, <1>3, <1>4, <1>5 DEF DeviceInv

\* A frame whose bytes are wrong is not a sound frame any more.
LEMMA DamageKeeps == ASSUME LinkInv, Damage PROVE LinkInv'
<1>1. UNCHANGED <<host, executed, assembly>>
  BY DEF Damage, Fault
<1>2. /\ toDevice \in Seq(DeviceFrame) /\ Thins(toDevice, toDevice)
      /\ toHost \in Seq(HostFrame) /\ Thins(toHost, toHost)
  BY EmptyThins DEF LinkInv, LinkTypeOK
<1>3. ASSUME NEW i \in DOMAIN toDevice, NEW id \in Requests, UNCHANGED toHost,
             toDevice' = [toDevice EXCEPT ![i].intact = FALSE, ![i].id = id, ![i].part = <<id, 0>>]
      PROVE  LinkInv'
  <2>1. PICK f : f = [toDevice[i] EXCEPT !.intact = FALSE, !.id = id, !.part = <<id, 0>>]
    OBVIOUS
  <2>2. toDevice[i] \in DeviceFrame
    BY <1>2, ElementOfSeq, LenProperties
  <2>3. f \in DeviceFrame /\ ~f.intact
    BY <2>1, <2>2 DEF DeviceFrame, Part
  <2>4. toDevice' = [toDevice EXCEPT ![i] = f]
    BY <1>3, <2>1
  <2>5. toDevice' \in Seq(DeviceFrame) /\ Thins(toDevice', toDevice)
    BY <1>2, <2>3, <2>4, DamageThins
  <2> QED
    BY <1>1, <1>2, <1>3, <2>5, FaultKeeps
<1>4. ASSUME NEW i \in DOMAIN toHost, toHost' = [toHost EXCEPT ![i].intact = FALSE],
             UNCHANGED toDevice
      PROVE  LinkInv'
  <2>1. PICK f : f = [toHost[i] EXCEPT !.intact = FALSE]
    OBVIOUS
  <2>2. toHost[i] \in HostFrame
    BY <1>2, ElementOfSeq, LenProperties
  <2>3. f \in HostFrame /\ ~f.intact
    BY <2>1, <2>2 DEF HostFrame
  <2>4. toHost' = [toHost EXCEPT ![i] = f]
    BY <1>4, <2>1
  <2>5. toHost' \in Seq(HostFrame) /\ Thins(toHost', toHost)
    BY <1>2, <2>3, <2>4, DamageThins
  <2> QED
    BY <1>1, <1>2, <1>4, <2>5, FaultKeeps
<1> QED
  BY <1>3, <1>4 DEF Damage

\* A frame that cannot be decoded is dropped.
LEMMA LoseKeeps == ASSUME LinkInv, Lose PROVE LinkInv'
<1>1. UNCHANGED <<host, executed, assembly>>
  BY DEF Lose, Fault
<1>2. /\ toDevice \in Seq(DeviceFrame) /\ Thins(toDevice, toDevice)
      /\ toHost \in Seq(HostFrame) /\ Thins(toHost, toHost)
  BY EmptyThins DEF LinkInv, LinkTypeOK
<1>3. ASSUME NEW i \in DOMAIN toDevice, toDevice' = Without(toDevice, i), UNCHANGED toHost
      PROVE  LinkInv'
  BY <1>1, <1>2, <1>3, WithoutThins, FaultKeeps
<1>4. ASSUME NEW i \in DOMAIN toHost, toHost' = Without(toHost, i), UNCHANGED toDevice
      PROVE  LinkInv'
  BY <1>1, <1>2, <1>4, WithoutThins, FaultKeeps
<1> QED
  BY <1>3, <1>4 DEF Lose

\* The device forgets its assembly and what it has received and answered.
LEMMA RestartKeeps == ASSUME LinkInv, Restart PROVE LinkInv'
<1>1. /\ Thins(<<>>, toDevice) /\ Thins(<<>>, toHost)
      /\ <<>> \in Seq(DeviceFrame) /\ <<>> \in Seq(HostFrame)
  BY EmptyThins, EmptySeq DEF LinkInv, LinkTypeOK
<1> QED
  BY <1>1, FaultKeeps DEF Restart, Fault

\* Every step of the host, the device and the line.
LEMMA NextLinkInv == LinkInv /\ [LinkNext]_linkVars => LinkInv'
<1> SUFFICES ASSUME LinkInv, [LinkNext]_linkVars PROVE LinkInv'
  OBVIOUS
<1>1. ASSUME NEW r \in Requests,
             \/ Lock(r)
             \/ \E n \in 0..Len(toHost) : Open(r, n)
             \/ ReadFrame(r)
             \/ \E within, failed \in BOOLEAN : Close(r, within, failed)
             \/ Finish(r)
             \/ Cancel(r)
      PROVE  LinkInv'
  BY <1>1, LockKeeps, OpenKeeps, ReadFrameKeeps, CloseKeeps, FinishKeeps, CancelKeeps
<1>2. ASSUME NEW refused \in BOOLEAN, ConsumeFrame(refused)
      PROVE  LinkInv'
  BY <1>2, ConsumeKeeps
<1>3. CASE UNCHANGED linkVars
  <2>1. /\ Thins(toDevice, toDevice) /\ Thins(toHost, toHost)
        /\ toDevice \in Seq(DeviceFrame) /\ toHost \in Seq(HostFrame)
    BY EmptyThins DEF LinkInv, LinkTypeOK
  <2> QED
    BY <1>3, <2>1, FaultKeeps DEF linkVars, host
<1> QED
  BY <1>1, <1>2, <1>3, DamageKeeps, LoseKeeps, RestartKeeps DEF LinkNext

\* An answer the host accepts is the whole answer of the request it was
\* accepted for, which the device executed: decode_stream and
\* reassemble_frames compare the message id, the count, the order and the
\* checksum of every frame, and request drops what arrived before it wrote.
THEOREM AcceptedAreMine == LinkSpec => []AcceptedIsMine
<1>1. LinkInv => AcceptedIsMine
  BY DEF LinkInv
<1> QED
  BY <1>1, InitLinkInv, NextLinkInv, PTL DEF LinkSpec

\* consumeFrame and dispatch execute nothing but whole requests, each once, in
\* the order in which they were written, on a line that loses and damages
\* frames and a device that restarts.
THEOREM ExecutionInOrder == LinkSpec => []ExecutedInOrder
<1>1. LinkInv => ExecutedInOrder
  <2> SUFFICES ASSUME LinkInv PROVE ExecutedInOrder
    OBVIOUS
  <2>1. ASSUME NEW i \in DOMAIN executed
        PROVE  \E k \in DOMAIN sent : sent[k] \in Requests /\ executed[i] = RequestBody(sent[k])
    BY DEF LinkInv, ExecutedBefore, LinkTypeOK
  <2>2. ASSUME NEW i \in DOMAIN executed, NEW j \in DOMAIN executed, i < j
        PROVE  \E k, l \in DOMAIN sent : /\ k < l
                                         /\ executed[i] = RequestBody(sent[k])
                                         /\ executed[j] = RequestBody(sent[l])
    BY <2>1, <2>2 DEF LinkInv, ExecutedBefore
  <2> QED
    BY <2>1, <2>2 DEF ExecutedInOrder
<1> QED
  BY <1>1, InitLinkInv, NextLinkInv, PTL DEF LinkSpec
=============================================================================
