---------------------------- MODULE RecordQueue -----------------------------
(***************************************************************************)
(* What the receive queues of the bridge promise, as protocol-bridge.md    *)
(* puts it: one first-in-first-out queue of whole records per protocol,    *)
(* bounded in size, that counts the records it refuses; a receive answers  *)
(* with records of one channel in order and takes exactly those out.       *)
(***************************************************************************)
EXTENDS Naturals, Sequences

CONSTANTS Queues,      \* one per protocol
          Channels,
          Lengths,     \* of the payloads of records
          Stamps,      \* what tells records apart
          Limits,      \* of receives
          HeaderSize,  \* of a record
          Capacity     \* of a queue

VARIABLES records,  \* records[q]: the queue, oldest first
          refused,  \* refused[q]: how many records found no room
          answer    \* the records of the last answer

vars == <<records, refused, answer>>

Record == [channel : Channels, length : Lengths, stamp : Stamps]

SizeOf(r) == HeaderSize + r.length

\* Ends(s)[n] is the size of the first n records of s.
Ends(s) == LET end[n \in 0..Len(s)] == IF n = 0 THEN 0 ELSE end[n - 1] + SizeOf(s[n])
           IN  end
TotalSize(s) == Ends(s)[Len(s)]

Init ==
    /\ records = [q \in Queues |-> <<>>]
    /\ refused = [q \in Queues |-> 0]
    /\ answer = <<>>

\* A record arrives whole or is counted as refused.
Offer(q, r) ==
    /\ \/ /\ records' = [records EXCEPT ![q] = Append(@, r)]
          /\ UNCHANGED refused
          /\ TotalSize(records[q]) + SizeOf(r) <= Capacity
       \/ /\ refused' = [refused EXCEPT ![q] = @ + 1]
          /\ UNCHANGED records
          /\ TotalSize(records[q]) + SizeOf(r) > Capacity
    /\ UNCHANGED answer

\* The records of s that are of some channels.
Of(s, channels) ==
    LET first[n \in 0..Len(s)] == IF n = 0 THEN <<>>
                                  ELSE IF s[n].channel \in channels
                                  THEN Append(first[n - 1], s[n])
                                  ELSE first[n - 1]
    IN  first[Len(s)]

Matching(s, c) == Of(s, {c})
Others(s, c) == Of(s, Channels \ {c})

\* A receive looks at the first records, seen: all that match fit the limit,
\* and the next record, if any, is a matching one that does not.
Looked(seen, rest, c, limit) ==
    /\ TotalSize(Matching(seen, c)) <= limit
    /\ rest # <<>> => /\ Head(rest).channel = c
                      /\ TotalSize(Matching(seen, c)) + SizeOf(Head(rest)) > limit

Receive(q, c, limit, drain) ==
    /\ UNCHANGED refused
    /\ LET queue == records[q]
       IN  \E k \in 0..Len(queue) :
             LET seen == SubSeq(queue, 1, k)
                 rest == SubSeq(queue, k + 1, Len(queue))
             IN  /\ answer' = Matching(seen, c)
                 /\ Looked(seen, rest, c, limit)
                 /\ records' = IF drain THEN [records EXCEPT ![q] = Others(seen, c) \o rest]
                               ELSE records

Step(q) ==
    \/ \E c \in Channels, limit \in Limits, drain \in BOOLEAN : Receive(q, c, limit, drain)
    \/ \E r \in Record : Offer(q, r)

Next == \E q \in Queues : Step(q)

Spec == Init /\ [][Next]_vars
=============================================================================
