----------------------------- MODULE BridgeLink -----------------------------
(***************************************************************************)
(* The serial link of the protocol bridge: requests of the host            *)
(* (ProtocolBridgeBackend.request over SerialBackend.exchange_binary) and   *)
(* the firmware that assembles, dispatches and answers them (consumeFrame,  *)
(* sendMessage).                                                            *)
(*                                                                          *)
(* Both directions carry frames in order.  A frame may be damaged or lost,  *)
(* the device may restart, and the host gives an exchange up at its         *)
(* deadline, or when the line is quiet after some data, while the device    *)
(* still works on it: whatever it answers then meets the next request.      *)
(*                                                                          *)
(* A message is the sequence of its segments.  A segment of a request is    *)
(* <<request, position>>, a segment of an answer holds the request body the *)
(* device executed.  The random 32-bit identifiers are taken to differ.     *)
(***************************************************************************)
EXTENDS Naturals, Sequences

CONSTANTS Requests,        \* calls of ProtocolBridgeBackend.request on a port
          RequestLength,   \* [Requests -> segments of its body]
          AnswerLength,    \* [Requests -> segments of its answer]
          Nobody,            \* no request
          MaxFaults        \* bound: damages, losses and restarts

ASSUME RequestsAssumption == /\ Nobody \notin Requests
                             /\ RequestLength \in [Requests -> Nat \ {0}]
                             /\ AnswerLength \in [Requests -> Nat \ {0}]
ASSUME FaultsAssumption == MaxFaults \in Nat

VARIABLES
    lock,        \* the request that holds the lock of the port, or Nobody
    stage,       \* "new", "locked", "open" (its worker has the port), "closed",
                 \* or its outcome "accepted", "failed", "cancelled"
    cancelled,   \* the requests whose task was cancelled while it had the lock
    received,    \* the frames the current exchange has read
    body,        \* body[r]: the accepted response
    toDevice,    \* frames written by the host
    toHost,      \* frames written by the device
    assembly,    \* message_assembly and the assembly_ variables
    executed,    \* history: the bodies dispatched, in order
    sent,        \* history: the requests written, in order
    faults       \* how many faults have happened

host == <<lock, stage, cancelled, received, body, sent>>
linkVars == <<host, toDevice, toHost, assembly, executed, faults>>

Empty == [id |-> Nobody, count |-> 0, parts |-> <<>>]

\* The frames of a message (encode_message, sendMessage).
Frames(type, id, parts) ==
    [i \in 1..Len(parts) |-> [type |-> type, id |-> id, index |-> i, count |-> Len(parts),
                              part |-> parts[i], intact |-> TRUE]]

RequestBody(r) == [i \in 1..RequestLength[r] |-> <<r, i>>]
AnswerTo(r, content) == [i \in 1..AnswerLength[r] |-> [of |-> content, at |-> i]]
ErrorFrame(id) == Frames("error", id, << <<id, 0>> >>)

LinkInit ==
    /\ lock = Nobody
    /\ stage = [r \in Requests |-> "new"]
    /\ cancelled = {}
    /\ received = <<>>
    /\ body = [r \in Requests |-> <<>>]
    /\ toDevice = <<>> /\ toHost = <<>>
    /\ assembly = Empty
    /\ executed = <<>> /\ sent = <<>>
    /\ faults = 0

-----------------------------------------------------------------------------
(* The host                                                                 *)

\* request: the port lock.
Lock(r) ==
    /\ stage[r] = "new" /\ lock = Nobody
    /\ lock' = r
    /\ stage' = [stage EXCEPT ![r] = "locked"]
    /\ UNCHANGED <<cancelled, received, body, sent, toDevice, toHost, assembly, executed, faults>>

\* The worker opens the port, drops what has arrived so far and writes the
\* request; n frames of the device had reached the host.
Open(r, n) ==
    /\ stage[r] = "locked"
    /\ stage' = [stage EXCEPT ![r] = "open"]
    /\ received' = <<>>
    /\ toHost' = SubSeq(toHost, n + 1, Len(toHost))
    /\ toDevice' = toDevice \o Frames("request", r, RequestBody(r))
    /\ sent' = Append(sent, r)
    /\ UNCHANGED <<lock, cancelled, body, assembly, executed, faults>>

ReadFrame(r) ==
    /\ stage[r] = "open" /\ toHost # <<>>
    /\ received' = Append(received, Head(toHost))
    /\ toHost' = Tail(toHost)
    /\ UNCHANGED <<lock, stage, cancelled, body, sent, toDevice, assembly, executed, faults>>

\* The deadline is past, or the line was quiet for idle_after_data, or the
\* port failed, which counts as reading nothing.  If the read ended within a
\* frame, its first part makes the response undecodable, and its rest the
\* next frame of the device.
Close(r, within, failed) ==
    /\ stage[r] = "open"
    /\ within => toHost # <<>>
    /\ stage' = [stage EXCEPT ![r] = "closed"]
    /\ received' = IF failed THEN <<>>
                   ELSE IF within THEN Append(received, [Head(toHost) EXCEPT !.intact = FALSE])
                   ELSE received
    /\ toHost' = IF within THEN [toHost EXCEPT ![1].intact = FALSE] ELSE toHost
    /\ UNCHANGED <<lock, cancelled, body, sent, toDevice, assembly, executed, faults>>

\* Mutant: the response need not be whole.
DecodesAnyCount(r) ==
    /\ received # <<>>
    /\ received[1].type = "answer"
    /\ \A i \in DOMAIN received :
         LET f == received[i] IN
         /\ f.intact
         /\ f.id = r /\ f.type = received[1].type
         /\ f.index = i

\* decode_stream and reassemble_frames return a response that reports no error.
Decodes(r) ==
    /\ received # <<>>
    /\ received[1].type = "answer"
    /\ Len(received) = received[1].count
    /\ \A i \in DOMAIN received :
         LET f == received[i] IN
         /\ f.intact
         /\ f.id = r /\ f.type = received[1].type
         /\ f.count = received[1].count /\ f.index = i

\* The task goes on after its worker has closed the port, and gives the lock
\* back.
Finish(r) ==
    /\ stage[r] = "closed"
    /\ lock' = Nobody
    /\ stage' = [stage EXCEPT ![r] = IF r \in cancelled THEN "cancelled"
                                     ELSE IF Decodes(r) THEN "accepted" ELSE "failed"]
    /\ body' = IF r \notin cancelled /\ Decodes(r)
               THEN [body EXCEPT ![r] = [i \in DOMAIN received |-> received[i].part]]
               ELSE body
    /\ received' = <<>>
    /\ UNCHANGED <<cancelled, sent, toDevice, toHost, assembly, executed, faults>>

\* Mutant: a cancelled caller leaves its worker behind.
CancelDetached(r) ==
    /\ stage[r] \in {"new", "locked", "open"}
    /\ r \notin cancelled
    /\ IF stage[r] = "new"
       THEN stage' = [stage EXCEPT ![r] = "cancelled"] /\ UNCHANGED <<lock, cancelled>>
       ELSE cancelled' = cancelled \cup {r} /\ lock' = Nobody /\ UNCHANGED stage
    /\ UNCHANGED <<received, body, sent, toDevice, toHost, assembly, executed, faults>>

\* The task is cancelled: at once if it waits for the lock, else when its
\* worker has finished (_run_sync_to_completion).
Cancel(r) ==
    /\ stage[r] \in {"new", "locked", "open"}
    /\ r \notin cancelled
    /\ IF stage[r] = "new"
       THEN stage' = [stage EXCEPT ![r] = "cancelled"] /\ UNCHANGED cancelled
       ELSE cancelled' = cancelled \cup {r} /\ UNCHANGED stage
    /\ UNCHANGED <<lock, received, body, sent, toDevice, toHost, assembly, executed, faults>>

-----------------------------------------------------------------------------
(* The device                                                               *)

\* Mutant: the checksum is not looked at.
JoinsUnchecked(a, f) == f.id = a.id /\ f.count = a.count /\ f.index = Len(a.parts) + 1

\* The frame is sound and the next segment of the message being assembled.
Joins(a, f) ==
    f.intact /\ f.id = a.id /\ f.count = a.count /\ f.index = Len(a.parts) + 1

\* dispatch: the request is executed and answered; it may be refused.
Dispatch(a, refused) ==
    /\ executed' = Append(executed, a.parts)
    /\ toHost' = toHost \o (IF refused THEN ErrorFrame(a.id)
                            ELSE Frames("answer", a.id, AnswerTo(a.id, a.parts)))
    /\ assembly' = Empty

\* consumeFrame.  A first segment starts the assembly anew; a frame that is
\* damaged or does not continue the message is answered with an error and
\* ends it.
ConsumeFrame(refused) ==
    /\ toDevice # <<>>
    /\ toDevice' = Tail(toDevice)
    /\ LET f == Head(toDevice)
           a == IF f.index = 1 THEN [Empty EXCEPT !.id = f.id, !.count = f.count] ELSE assembly
           b == [a EXCEPT !.parts = Append(@, f.part)]
       IN  \/ /\ ~Joins(a, f)
              /\ toHost' = toHost \o ErrorFrame(f.id)
              /\ assembly' = Empty
              /\ UNCHANGED executed
           \/ /\ Joins(a, f)
              /\ IF Len(b.parts) = b.count THEN Dispatch(b, refused)
                 ELSE assembly' = b /\ UNCHANGED <<toHost, executed>>
    /\ UNCHANGED <<host, faults>>

-----------------------------------------------------------------------------
(* Faults                                                                   *)

Without(s, i) == SubSeq(s, 1, i - 1) \o SubSeq(s, i + 1, Len(s))

Fault ==
    /\ faults < MaxFaults
    /\ faults' = faults + 1
    /\ UNCHANGED <<host, executed>>

\* Bytes of a frame are wrong: its checksum fails, and its error may name
\* another request than the one it was of.
Damage ==
    /\ Fault
    /\ \/ \E i \in DOMAIN toDevice, id \in Requests :
            toDevice' = [toDevice EXCEPT ![i].intact = FALSE, ![i].id = id, ![i].part = <<id, 0>>]
          /\ UNCHANGED toHost
       \/ \E i \in DOMAIN toHost : toHost' = [toHost EXCEPT ![i].intact = FALSE]
          /\ UNCHANGED toDevice
    /\ UNCHANGED assembly

\* A frame is too short or too long to be decoded, and dropped.
Lose ==
    /\ Fault
    /\ \/ \E i \in DOMAIN toDevice : toDevice' = Without(toDevice, i) /\ UNCHANGED toHost
       \/ \E i \in DOMAIN toHost : toHost' = Without(toHost, i) /\ UNCHANGED toDevice
    /\ UNCHANGED assembly

\* The device restarts, and forgets what it has not answered.
Restart ==
    /\ Fault
    /\ toDevice' = <<>> /\ toHost' = <<>> /\ assembly' = Empty

LinkNext ==
    \/ \E r \in Requests :
         \/ Lock(r)
         \/ \E n \in 0..Len(toHost) : Open(r, n)
         \/ ReadFrame(r)
         \/ \E within, failed \in BOOLEAN : Close(r, within, failed)
         \/ Finish(r)
         \/ Cancel(r)
    \/ \E refused \in BOOLEAN : ConsumeFrame(refused)
    \/ Damage
    \/ Lose
    \/ Restart

LinkSpec == LinkInit /\ [][LinkNext]_linkVars
-----------------------------------------------------------------------------
(* Properties                                                               *)

\* An accepted response is the complete answer to exactly the request it was
\* accepted for, executed as it was sent, whatever late answers of earlier
\* requests, damaged frames and restarts came between.
AcceptedIsMine ==
    \A r \in Requests :
        stage[r] = "accepted" => /\ body[r] = AnswerTo(r, RequestBody(r))
                                 /\ RequestBody(r) \in {executed[i] : i \in DOMAIN executed}

\* The device executes only whole requests, each at most once, in the order
\* they were written.
ExecutedInOrder ==
    /\ \A i \in DOMAIN executed : \E r \in Requests : executed[i] = RequestBody(r)
    /\ \A i, j \in DOMAIN executed :
         i < j => \E k, l \in DOMAIN sent : /\ k < l
                                            /\ executed[i] = RequestBody(sent[k])
                                            /\ executed[j] = RequestBody(sent[l])

\* A port is open in one worker at a time, cancelled callers included, and by
\* the request that has its lock.
PortExclusive == \A r \in Requests : stage[r] = "open" => lock = r
=============================================================================
