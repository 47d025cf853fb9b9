---------------------------- MODULE ReceiveQueue ----------------------------
(***************************************************************************)
(* SharedReceiveQueue of the protocol bridge firmware (BridgeResources.h)   *)
(* with the pollers that fill it and the receive request that reads it      *)
(* (protocol_bridge.ino).                                                   *)
(*                                                                          *)
(* One array holds a slice for each protocol, and a slice holds records,    *)
(* each a header followed by its payload, copied cell by cell.  A cell      *)
(* stands for the bytes of a field: a header is its channel and its length, *)
(* and a payload is the record's number, length times.  The timestamp is    *)
(* left out.  The number is unique in a queue: it is what tells one payload *)
(* from another.                                                            *)
(***************************************************************************)
EXTENDS Naturals, Sequences, FiniteSets

CONSTANTS QueueCount,  \* kQueueCount
          Slice,       \* kSliceSize
          Channels,
          Lengths,     \* of payloads
          Limits,      \* of receive requests
          MaxOffers    \* bound: records that arrive for each queue

HeaderSize == 2
Queues == 0..(QueueCount - 1)

ASSUME SizesAssumption == /\ QueueCount \in Nat
                          /\ Slice \in Nat \ {0}
                          /\ Lengths \subseteq Nat \ {0}
                          /\ Limits \subseteq Nat
                          /\ MaxOffers \in [Queues -> Nat]

VARIABLES
    storage,   \* storage_
    ring,      \* queues_: head, tail, used and overflow of each
    answer,    \* the cells of the last answer
    offered,   \* history: records that arrived, for each queue
    taken      \* history: the numbers of the records drained, for each queue

queueVars == <<storage, ring, answer, offered, taken>>

QueueInit ==
    /\ storage = [i \in 0..(QueueCount * Slice - 1) |-> 0]
    /\ ring = [q \in Queues |-> [head |-> 0, tail |-> 0, used |-> 0, overflow |-> 0]]
    /\ answer = <<>>
    /\ offered = [q \in Queues |-> 0]
    /\ taken = [q \in Queues |-> <<>>]

-----------------------------------------------------------------------------
(* The array                                                                *)

\* offset
Cell(q, relative) == q * Slice + relative

\* write: the cells of data from the head on.
Written(st, q, head, data) ==
    LET after[n \in 0..Len(data)] ==
          IF n = 0 THEN st
          ELSE [after[n - 1] EXCEPT ![Cell(q, (head + n - 1) % Slice)] = data[n]]
    IN  after[Len(data)]

\* copy: cell by cell, so that an earlier write may be read later.
Copied(st, q, source, destination, length) ==
    LET after[n \in 0..length] ==
          IF n = 0 THEN st
          ELSE LET s == after[n - 1] IN
               [s EXCEPT ![Cell(q, (destination + n - 1) % Slice)] =
                           s[Cell(q, (source + n - 1) % Slice)]]
    IN  after[length]

\* peek
Peek(st, q, cursor, n) == [i \in 1..n |-> st[Cell(q, (cursor + i - 1) % Slice)]]

\* The channel and the size of the record at a cursor.
ChannelAt(st, q, cursor) == st[Cell(q, cursor)]
SizeAt(st, q, cursor) == HeaderSize + st[Cell(q, (cursor + 1) % Slice)]

-----------------------------------------------------------------------------
(* push, read and depth                                                     *)

\* Mutant: a record that does not fit is dropped in silence.
PushUncounted(q, data) ==
    IF Len(data) > Slice - ring[q].used
    THEN UNCHANGED <<storage, ring>>
    ELSE /\ storage' = Written(storage, q, ring[q].head, data)
         /\ ring' = [ring EXCEPT ![q].head = (@ + Len(data)) % Slice,
                                 ![q].used = @ + Len(data)]

Push(q, data) ==
    IF Len(data) > Slice - ring[q].used
    THEN /\ ring' = [ring EXCEPT ![q].overflow = @ + 1]
         /\ UNCHANGED storage
    ELSE /\ storage' = Written(storage, q, ring[q].head, data)
         /\ ring' = [ring EXCEPT ![q].head = (@ + Len(data)) % Slice,
                                 ![q].used = @ + Len(data)]

\* A round of the loop of read: pass over the record at the cursor, taking
\* its cells into out if it is of the channel, and else, to drain, moving it
\* down to the tail; nothing, once the rest is no record or the next of the
\* channel finds no room in the limit.
Pass(q, channel, limit, drain, s) ==
    LET size == SizeAt(s.storage, q, s.cursor)
        mine == ChannelAt(s.storage, q, s.cursor) = channel
        on == [s EXCEPT !.cursor = (@ + size) % Slice, !.remaining = @ - size]
    IN  IF \/ s.remaining < HeaderSize
           \/ size > s.remaining
           \/ mine /\ size > limit - Len(s.out)
        THEN s
        ELSE IF mine THEN [on EXCEPT !.out = @ \o Peek(s.storage, q, s.cursor, size)]
        ELSE IF drain
        THEN [on EXCEPT !.storage = Copied(@, q, s.cursor,
                                           (ring[q].tail + s.retained) % Slice, size),
                        !.retained = @ + size]
        ELSE on

\* The loop, which has fewer rounds than the slice has cells.
Passed(q, channel, limit, drain) ==
    LET after[n \in 0..Slice] ==
          IF n = 0
          THEN [storage |-> storage, cursor |-> ring[q].tail, remaining |-> ring[q].used,
                retained |-> 0, out |-> <<>>]
          ELSE Pass(q, channel, limit, drain, after[n - 1])
    IN  after[Slice]

\* Mutant: what was not passed over is kept, but not moved.
ReadUnmoved(q, channel, limit, drain) ==
    LET s == Passed(q, channel, limit, drain)
        kept == s.retained + s.remaining
    IN  /\ answer' = s.out
        /\ storage' = IF drain THEN s.storage ELSE storage
        /\ ring' = IF drain THEN [ring EXCEPT ![q].used = kept,
                                              ![q].head = (ring[q].tail + kept) % Slice]
                   ELSE ring

Read(q, channel, limit, drain) ==
    IF limit < HeaderSize
    THEN answer' = <<>> /\ UNCHANGED <<storage, ring>>
    ELSE LET s == Passed(q, channel, limit, drain)
             kept == s.retained + s.remaining
         IN  /\ answer' = s.out
             /\ storage' = IF drain THEN Copied(s.storage, q, s.cursor,
                                                (ring[q].tail + s.retained) % Slice, s.remaining)
                           ELSE storage
             /\ ring' = IF drain THEN [ring EXCEPT ![q].used = kept,
                                                   ![q].head = (ring[q].tail + kept) % Slice]
                        ELSE ring

\* The records of a sequence of cells, one after the other.
Parsed(cells) ==
    LET from[i \in 1..Len(cells)] ==
          LET next == i + HeaderSize + cells[i + 1] IN
          << [channel |-> cells[i], length |-> cells[i + 1], stamp |-> cells[i + 2]] >>
          \o (IF next \in (i + 1)..Len(cells) THEN from[next] ELSE <<>>)
    IN  IF cells = <<>> THEN <<>> ELSE from[1]

Queued(q) == Parsed(Peek(storage, q, ring[q].tail, ring[q].used))

-----------------------------------------------------------------------------
(* The firmware                                                             *)

\* pollUarts, pollCan, pollGpio, pollWifi, pollBle: bytes have arrived on a
\* channel and go into the queue of its protocol, between two requests or
\* while a receive waits.
Poll(q, channel, n) ==
    /\ offered[q] < MaxOffers[q]
    /\ offered' = [offered EXCEPT ![q] = @ + 1]
    /\ Push(q, <<channel, n>> \o [i \in 1..n |-> offered[q] + 1])
    /\ UNCHANGED <<answer, taken>>

\* receiveOperation.  It polls until a record of the channel is there or the
\* deadline is past, and either way reads the queue; what is polled in the
\* meantime is a Poll step before this one, for nothing else happens then.
Receive(q, channel, limit, drain) ==
    /\ Read(q, channel, limit, drain)
    /\ taken' = IF drain
                THEN [taken EXCEPT ![q] = @ \o
                        [i \in 1..Len(Parsed(answer')) |-> Parsed(answer')[i].stamp]]
                ELSE taken
    /\ UNCHANGED offered

QueueNext ==
    \/ \E q \in Queues, c \in Channels, n \in Lengths : Poll(q, c, n)
    \/ \E q \in Queues, c \in Channels, limit \in Limits, drain \in BOOLEAN :
         Receive(q, c, limit, drain)

QueueSpec == QueueInit /\ [][QueueNext]_queueVars
-----------------------------------------------------------------------------
(* Properties                                                               *)

\* Every record that arrived is counted as an overflow, still queued or
\* drained by exactly one receive, and the records of a channel come out in
\* the order they went in.
NothingLostUncounted ==
    \A q \in Queues :
        LET queued == [i \in 1..Len(Queued(q)) |-> Queued(q)[i].stamp]
            seen == taken[q] \o queued
        IN  /\ Len(seen) + ring[q].overflow = offered[q]
            /\ Cardinality({seen[i] : i \in DOMAIN seen}) = Len(seen)
            /\ \A i, j \in DOMAIN Queued(q) : i < j => queued[i] < queued[j]

Promise == INSTANCE RecordQueue WITH
    Capacity <- Slice,
    Stamps <- UNION {1..MaxOffers[q] : q \in Queues},
    records <- [q \in Queues |-> Queued(q)],
    refused <- [q \in Queues |-> ring[q].overflow],
    answer <- Parsed(answer)

\* "A receive returns only complete records for that channel. With
\* drain=true, only matching records actually returned within limit are
\* removed": read and push implement the queue of records.
PromiseSpec == Promise!Spec
=============================================================================
