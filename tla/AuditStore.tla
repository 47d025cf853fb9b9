----------------------------- MODULE AuditStore -----------------------------
(***************************************************************************)
(* The persistent store of the host (src/src/jlink_mcp/store.py): the hash  *)
(* chain of operations and the table of managed sessions, in one SQLite     *)
(* file that every server process on the same state root opens.  The lock   *)
(* of the store belongs to one process; between processes only single SQL   *)
(* statements are atomic.                                                   *)
(*                                                                          *)
(* A hash is modelled by what determines it, the sequence of payloads from  *)
(* the first record on, so that distinct chains have distinct hashes.       *)
(* TargetSelection composes this module with the operations of the service. *)
(***************************************************************************)
EXTENDS Naturals, Sequences

CONSTANTS Processes,   \* server processes: `serve`, `stdio-direct`, restarts
          Sessions,    \* session ids, uuid4: never used twice
          Nothing

VARIABLES
    rows,        \* table operations in order of sequence
    sessions,    \* table sessions: the ids that have a row
    server,       \* server[p]: "down", "clearing", "recovering", "up"
    stale,       \* stale[p]: stale_sessions of JLinkService.__init__
    live,        \* live[p]: the sessions p manages, in memory
    appending,   \* appending[p]: a record whose previous hash has been read
    opened,      \* history: ids that have had a row
    closed,      \* history: ids whose row the owner deleted
    lost,        \* history: ids in the recovery record a crash prevented
    overlapped,  \* history: two processes were between read and insert
    shared       \* history: two processes were alive at once

tables  == <<rows, sessions>>
memory  == <<server, stale, live, appending>>
traces  == <<opened, closed, lost, overlapped, shared>>
storeVars == <<tables, memory, traces>>

-----------------------------------------------------------------------------
(* The hash chain                                                           *)

Genesis == <<>>

\* sha256(previous_hash + payload_json)
EntryHash(previous, payload) == Append(previous, payload)

\* Mutant: the link of the newest record instead of its hash.
LastHashOfLink(r) == IF r = <<>> THEN Genesis ELSE r[Len(r)].previous_hash

LastHash(r) == IF r = <<>> THEN Genesis ELSE r[Len(r)].entry_hash

\* AuditStore.verify_chain.
VerifyChain(r) ==
    \A i \in 1..Len(r) :
        /\ r[i].previous_hash = IF i = 1 THEN Genesis ELSE r[i-1].entry_hash
        /\ r[i].entry_hash = EntryHash(r[i].previous_hash, r[i].payload)

-----------------------------------------------------------------------------
(* Operations of one process on the tables                                  *)

\* append_operation up to the insertion: the lock is taken and the last hash
\* is read.
BeginAppend(p, payload) ==
    /\ appending[p] = Nothing
    /\ appending' = [appending EXCEPT ![p] =
            [previous_hash |-> LastHash(rows), payload |-> payload]]
    /\ overlapped' = (overlapped \/ \E q \in Processes \ {p} : appending[q] # Nothing)

\* The record is inserted, committed, and the lock released.
Insert(p) ==
    /\ appending[p] # Nothing
    /\ LET a == appending[p]
       IN rows' = Append(rows,
                [previous_hash |-> a.previous_hash, payload |-> a.payload,
                 entry_hash |-> EntryHash(a.previous_hash, a.payload)])
    /\ appending' = [appending EXCEPT ![p] = Nothing]

\* upsert_session when a managed session starts, delete_session when it stops.
UpsertSession(p, s) ==
    /\ server[p] = "up"
    /\ s \notin opened
    /\ sessions' = sessions \cup {s}
    /\ live' = [live EXCEPT ![p] = @ \cup {s}]
    /\ opened' = opened \cup {s}
    /\ UNCHANGED <<rows, server, stale, appending, closed, lost, overlapped, shared>>

DeleteSession(p, s) ==
    /\ server[p] = "up"
    /\ s \in live[p]
    /\ sessions' = sessions \ {s}
    /\ live' = [live EXCEPT ![p] = @ \ {s}]
    /\ closed' = closed \cup {s}
    /\ UNCHANGED <<rows, server, stale, appending, opened, lost, overlapped, shared>>

-----------------------------------------------------------------------------
(* Startup and end of a process                                             *)

RecoveryRecord(s) == [action |-> "recover_stale_sessions", recovered |-> s]

\* clear_stale_sessions is a SELECT and a DELETE: another process may write
\* between them.
SelectStale(p) ==
    /\ server[p] = "down"
    /\ server' = [server EXCEPT ![p] = "clearing"]
    /\ stale' = [stale EXCEPT ![p] = sessions]
    /\ shared' = (shared \/ \E q \in Processes \ {p} : server[q] # "down")
    /\ UNCHANGED <<tables, live, appending, opened, closed, lost, overlapped>>

\* Mutant: what was cleared is not recorded.
DeleteStaleSilently(p) ==
    /\ server[p] = "clearing"
    /\ sessions' = {}
    /\ server' = [server EXCEPT ![p] = "up"]
    /\ stale' = [stale EXCEPT ![p] = {}]
    /\ UNCHANGED <<rows, live, appending, traces>>

DeleteStale(p) ==
    /\ server[p] = "clearing"
    /\ sessions' = {}
    /\ server' = [server EXCEPT ![p] = IF stale[p] = {} THEN "up" ELSE "recovering"]
    /\ UNCHANGED <<rows, stale, live, appending, traces>>

\* The rest of __init__ appends the record of what was cleared.
BeginRecovery(p) ==
    /\ server[p] = "recovering"
    /\ BeginAppend(p, RecoveryRecord(stale[p]))
    /\ UNCHANGED <<tables, server, stale, live, opened, closed, lost, shared>>

FinishRecovery(p) ==
    /\ server[p] = "recovering"
    /\ Insert(p)
    /\ server' = [server EXCEPT ![p] = "up"]
    /\ stale' = [stale EXCEPT ![p] = {}]
    /\ UNCHANGED <<sessions, live, traces>>

\* A process ends: killed, crashed, or stopped with its sessions not closed.
ServerEnds(p) ==
    /\ server[p] # "down"
    /\ lost' = IF server[p] = "recovering" THEN lost \cup stale[p] ELSE lost
    /\ server' = [server EXCEPT ![p] = "down"]
    /\ stale' = [stale EXCEPT ![p] = {}]
    /\ live' = [live EXCEPT ![p] = {}]
    /\ appending' = [appending EXCEPT ![p] = Nothing]
    /\ UNCHANGED <<tables, opened, closed, overlapped, shared>>

StoreInit ==
    /\ rows = <<>> /\ sessions = {}
    /\ server = [p \in Processes |-> "down"]
    /\ stale = [p \in Processes |-> {}]
    /\ live = [p \in Processes |-> {}]
    /\ appending = [p \in Processes |-> Nothing]
    /\ opened = {} /\ closed = {} /\ lost = {}
    /\ overlapped = FALSE /\ shared = FALSE

-----------------------------------------------------------------------------
(* Properties                                                               *)

Recovered(r) == UNION {r[i].payload.recovered : i \in
                    {j \in 1..Len(r) : r[j].payload.action = "recover_stale_sessions"}}

\* The chain verifies unless two processes were between the read of the last
\* hash and the insertion at once: the lock of append_operation is enough for
\* one server, and a second server on the same root has to overlap to fork it.
OnlyOverlapBreaksChain == ~overlapped => VerifyChain(rows)

\* As long as no two servers ran on one root, the row of a running session
\* exists until its server stops it, and a session that had a row either still
\* has it, was stopped by its server, or is in a recovery record or about to be:
\* clear_stale_sessions and the recovery in __init__ lose nothing but what a
\* crash between the two loses, which StaleSessionsAudited shows.
SessionsAccounted ==
    ~shared =>
        /\ \A p \in Processes : live[p] \subseteq sessions
        /\ opened \subseteq sessions \cup closed \cup lost \cup Recovered(rows)
                                \cup UNION {stale[p] : p \in Processes}

\* "Stale managed sessions are cleared and audited at startup"
\* (docs/operations.md): a session whose row is gone was stopped by its server,
\* or its recovery is recorded or still to be recorded by a startup in progress.
StaleSessionsAudited ==
    ~shared => opened \subseteq sessions \cup closed \cup Recovered(rows)
                                     \cup UNION {stale[p] : p \in Processes}
=============================================================================
