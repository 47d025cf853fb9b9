------------------------ MODULE TargetSelection_proofs ------------------------
(***************************************************************************)
(* The hash chain, the session rows and the selection of targets are right  *)
(* for any number of server processes, sessions, probes, boards and         *)
(* profiles, and any window of the history.                                 *)
(***************************************************************************)
EXTENDS TargetSelection, FiniteSetTheorems, TLAPS

\* The records of the store, and the operations in progress.
Recovery == [action : {"recover_stale_sessions"}, recovered : SUBSET Sessions]
Outcomes == Observations \cup {"nothing"}
Record   == [action : {"target_identity_preflight", "command"},
             probe : Probes \cup {Nothing}, board : Boards \cup {Nothing},
             observed : Outcomes]
Payloads == Recovery \cup Record
Hashes   == Seq(Payloads)
Rows     == [previous_hash : Hashes, payload : Payloads, entry_hash : Hashes]
Linked   == [previous_hash : Hashes, payload : Payloads]
Operation == [sel : Selectors, observed : Outcomes,
              stage : {"selected", "judging", "identified", "recording"}]

TablesOK ==
    /\ rows \in Seq(Rows)
    /\ appending \in [Processes -> Linked \cup {Nothing}]
    /\ overlapped \in BOOLEAN

ServersOK ==
    /\ server \in [Processes -> {"down", "clearing", "recovering", "up"}]
    /\ stale \in [Processes -> SUBSET Sessions]
    /\ live \in [Processes -> SUBSET Sessions]
    /\ sessions \subseteq Sessions
    /\ shared \in BOOLEAN

SelectionOK ==
    /\ op \in [Processes -> Operation \cup {Nothing}]
    /\ probes \subseteq Probes
    /\ boards \subseteq Boards

TypeOK == TablesOK /\ ServersOK /\ SelectionOK

\* Without an overlap one process at most is between read and insert, and the
\* hash it read is still the last.
ChainInv ==
    ~overlapped =>
        /\ VerifyChain(rows)
        /\ \A p \in Processes : appending[p] # Nothing =>
               appending[p].previous_hash = LastHash(rows)
        /\ \A p, q \in Processes : appending[p] # Nothing /\ appending[q] # Nothing => p = q

\* What each stage of a server has in memory; one server at most is not down
\* while none was shared, and what it selected for deletion is what there is.
StageInv ==
    /\ \A p \in Processes :
        /\ op[p] # Nothing => server[p] = "up"
        /\ live[p] # {} => server[p] = "up"
        /\ server[p] \in {"down", "clearing"} => appending[p] = Nothing
        /\ server[p] \in {"down", "up"} => stale[p] = {}
        /\ server[p] = "recovering" /\ appending[p] # Nothing =>
               appending[p].payload = RecoveryRecord(stale[p])
        /\ ~shared /\ server[p] = "clearing" => stale[p] = sessions
    /\ ~shared => \A p, q \in Processes :
                      server[p] # "down" /\ server[q] # "down" => p = q

\* A record of an operation names a pair that was selected while attached.
Witnessed(payload) ==
    payload.action \in {"target_identity_preflight", "command"} /\ payload.board # Nothing
        => <<payload.probe, payload.board>> \in seen

PairInv ==
    /\ \A i \in 1..Len(rows) : Witnessed(rows[i].payload)
    /\ \A p \in Processes : appending[p] # Nothing => Witnessed(appending[p].payload)
    /\ SelectedWasAttached

\* The inductive invariant behind the theorems.
IInv == TypeOK /\ ChainInv /\ StageInv /\ SessionsAccounted /\ PairInv

-----------------------------------------------------------------------------
(* The store                                                                *)

\* The hash of the newest record is a hash.
LEMMA LastHashType == ASSUME TablesOK PROVE LastHash(rows) \in Hashes
<1>1. CASE rows = <<>>
  BY <1>1 DEF LastHash, Genesis, Hashes
<1>2. CASE rows # <<>>
  <2>1. rows \in Seq(Rows) /\ Len(rows) \in 1..Len(rows)
    BY <1>2 DEF TablesOK
  <2>2. rows[Len(rows)] \in Rows
    BY <2>1
  <2> QED
    BY <1>2, <2>2 DEF LastHash, Rows
<1> QED
  BY <1>1, <1>2

\* What the first half of append_operation keeps.
LEMMA BeginAppendKeeps ==
    ASSUME TablesOK, ChainInv, NEW p \in Processes, NEW payload \in Payloads,
           BeginAppend(p, payload), UNCHANGED rows
    PROVE  TablesOK' /\ ChainInv'
<1> DEFINE a == [previous_hash |-> LastHash(rows), payload |-> payload]
<1>1. a \in Linked
  BY LastHashType DEF Linked
<1>2. appending' = [appending EXCEPT ![p] = a] /\ appending[p] = Nothing
  BY DEF BeginAppend
<1>3. TablesOK'
  <2>1. overlapped' \in BOOLEAN
    BY DEF BeginAppend, TablesOK
  <2>2. appending' \in [Processes -> Linked \cup {Nothing}]
    BY <1>1, <1>2 DEF TablesOK
  <2> QED
    BY <2>1, <2>2 DEF TablesOK
<1>4. ASSUME ~overlapped'
      PROVE  /\ ~overlapped
             /\ \A q \in Processes \ {p} : appending[q] = Nothing
  BY <1>4 DEF BeginAppend
<1>5. ASSUME ~overlapped', NEW q \in Processes, appending'[q] # Nothing
      PROVE  q = p /\ appending'[q].previous_hash = LastHash(rows)
  BY <1>2, <1>4, <1>5 DEF TablesOK
<1>6. ~overlapped' => VerifyChain(rows)
  BY <1>4 DEF ChainInv
<1>7. LastHash(rows') = LastHash(rows) /\ VerifyChain(rows') = VerifyChain(rows)
  OBVIOUS
<1> QED
  BY <1>3, <1>5, <1>6, <1>7 DEF ChainInv

\* The record that Insert adds.
LEMMA InsertedRow ==
    ASSUME TablesOK, NEW p \in Processes, Insert(p)
    PROVE  \E r \in Rows :
               /\ rows' = Append(rows, r)
               /\ r.payload = appending[p].payload
               /\ r.previous_hash = appending[p].previous_hash
               /\ r.entry_hash = EntryHash(r.previous_hash, r.payload)
<1> DEFINE a == appending[p]
           r == [previous_hash |-> a.previous_hash, payload |-> a.payload,
                 entry_hash |-> EntryHash(a.previous_hash, a.payload)]
<1>1. a \in Linked
  BY DEF Insert, TablesOK
<1>2. a.previous_hash \in Seq(Payloads) /\ a.payload \in Payloads
  BY <1>1 DEF Linked, Hashes
<1>3. EntryHash(a.previous_hash, a.payload) \in Hashes
  BY <1>2 DEF EntryHash, Hashes
<1>4. r \in Rows
  BY <1>2, <1>3 DEF Rows, Hashes
<1>5. rows' = Append(rows, r)
  BY DEF Insert
<1> QED
  BY <1>4, <1>5

\* What the second half of append_operation keeps.
LEMMA InsertKeeps ==
    ASSUME TablesOK, ChainInv, NEW p \in Processes, Insert(p), UNCHANGED overlapped
    PROVE  TablesOK' /\ ChainInv'
<1>1. PICK r \in Rows : /\ rows' = Append(rows, r)
                        /\ r.payload = appending[p].payload
                        /\ r.previous_hash = appending[p].previous_hash
                        /\ r.entry_hash = EntryHash(r.previous_hash, r.payload)
  BY InsertedRow
<1>2. rows \in Seq(Rows) /\ Len(rows) \in Nat
  BY DEF TablesOK
<1>3. /\ rows' \in Seq(Rows)
      /\ Len(rows') = Len(rows) + 1
      /\ rows'[Len(rows) + 1] = r
      /\ \A i \in 1..Len(rows) : rows'[i] = rows[i]
  BY <1>1, <1>2
<1>4. appending' = [appending EXCEPT ![p] = Nothing] /\ appending[p] # Nothing
  BY DEF Insert
<1>5. appending' \in [Processes -> Linked \cup {Nothing}]
  BY <1>4 DEF TablesOK
<1>6. TablesOK'
  BY <1>3, <1>5 DEF TablesOK
<1>7. ASSUME ~overlapped'
      PROVE  /\ VerifyChain(rows')
             /\ \A q \in Processes : appending'[q] = Nothing
  <2>1. /\ VerifyChain(rows)
        /\ r.previous_hash = LastHash(rows)
        /\ \A q \in Processes : appending[q] # Nothing => q = p
    BY <1>1, <1>4, <1>7 DEF ChainInv
  <2>2. \A q \in Processes : appending'[q] = Nothing
    BY <2>1, <1>4 DEF TablesOK
  <2>3. ASSUME NEW i \in 1..Len(rows')
        PROVE  /\ rows'[i].previous_hash = IF i = 1 THEN Genesis ELSE rows'[i-1].entry_hash
               /\ rows'[i].entry_hash = EntryHash(rows'[i].previous_hash, rows'[i].payload)
    <3>1. CASE i \in 1..Len(rows)
      <4>1. i # 1 => i - 1 \in 1..Len(rows)
        BY <3>1, <1>2
      <4> QED
        BY <3>1, <4>1, <2>1, <1>3 DEF VerifyChain
    <3>2. CASE i = Len(rows) + 1
      <4>1. rows'[i] = r
        BY <3>2, <1>3
      <4>2. CASE i = 1
        <5>1. rows = <<>>
          BY <3>2, <4>2, <1>2
        <5> QED
          BY <5>1, <4>1, <4>2, <2>1, <1>1 DEF LastHash
      <4>3. CASE i # 1
        <5>1. rows # <<>> /\ i - 1 = Len(rows) /\ Len(rows) \in 1..Len(rows)
          BY <3>2, <4>3, <1>2
        <5>2. rows'[i-1].entry_hash = LastHash(rows)
          BY <5>1, <1>3 DEF LastHash
        <5> QED
          BY <5>2, <4>1, <4>3, <2>1, <1>1
      <4> QED
        BY <4>2, <4>3
    <3>3. i \in 1..Len(rows) \/ i = Len(rows) + 1
      BY <1>2, <1>3
    <3> QED
      BY <3>1, <3>2, <3>3
  <2> QED
    BY <2>2, <2>3 DEF VerifyChain
<1> QED
  BY <1>6, <1>7 DEF ChainInv

\* The recovery records of a store with one more record.
LEMMA RecoveredGrows ==
    ASSUME TablesOK, NEW p \in Processes, Insert(p)
    PROVE  /\ Recovered(rows) \subseteq Recovered(rows')
           /\ appending[p].payload.action = "recover_stale_sessions" =>
                  appending[p].payload.recovered \subseteq Recovered(rows')
<1>1. PICK r \in Rows : rows' = Append(rows, r) /\ r.payload = appending[p].payload
  BY InsertedRow
<1>2. rows \in Seq(Rows) /\ Len(rows) \in Nat
  BY DEF TablesOK
<1>3. /\ Len(rows') = Len(rows) + 1
      /\ rows'[Len(rows) + 1] = r
      /\ \A i \in 1..Len(rows) : rows'[i] = rows[i]
  BY <1>1, <1>2
<1>4. 1..Len(rows) \subseteq 1..Len(rows') /\ Len(rows) + 1 \in 1..Len(rows')
  BY <1>2, <1>3
<1>5. ASSUME NEW s \in Recovered(rows) PROVE s \in Recovered(rows')
  <2>1. PICK i \in 1..Len(rows) : /\ rows[i].payload.action = "recover_stale_sessions"
                                  /\ s \in rows[i].payload.recovered
    BY <1>5 DEF Recovered
  <2>2. i \in 1..Len(rows') /\ rows'[i] = rows[i]
    BY <1>3, <1>4
  <2> QED
    BY <2>1, <2>2 DEF Recovered
<1>6. ASSUME appending[p].payload.action = "recover_stale_sessions",
             NEW s \in appending[p].payload.recovered
      PROVE  s \in Recovered(rows')
  BY <1>1, <1>3, <1>4, <1>6 DEF Recovered
<1> QED
  BY <1>5, <1>6

\* Steps that leave the chain alone keep it.
LEMMA ChainStays ==
    ASSUME TablesOK, ChainInv, UNCHANGED <<rows, appending, overlapped>>
    PROVE  TablesOK' /\ ChainInv'
<1>1. LastHash(rows') = LastHash(rows) /\ VerifyChain(rows') = VerifyChain(rows)
  OBVIOUS
<1> QED
  BY <1>1 DEF TablesOK, ChainInv

\* Steps that leave the records and the operations alone keep the pairs.
LEMMA PairsStay ==
    ASSUME TablesOK, PairInv, seen \subseteq seen', UNCHANGED <<rows, appending, op>>
    PROVE  PairInv'
  BY DEF PairInv, SelectedWasAttached, Witnessed

\* Steps that leave the sessions and the servers alone keep their account, the
\* records grow at most.
LEMMA AccountStays ==
    ASSUME SessionsAccounted, Recovered(rows) \subseteq Recovered(rows'),
           UNCHANGED <<sessions, live, stale, opened, closed, lost, shared>>
    PROVE  SessionsAccounted'
  BY DEF SessionsAccounted

\* An inserted record is as witnessed as it was before.
LEMMA InsertKeepsPairs ==
    ASSUME TablesOK, PairInv, NEW p \in Processes, Insert(p), seen \subseteq seen'
    PROVE  /\ \A i \in 1..Len(rows') : Witnessed(rows[i].payload)'
           /\ \A q \in Processes : appending'[q] # Nothing => Witnessed(appending[q].payload)'
<1>1. PICK r \in Rows : rows' = Append(rows, r) /\ r.payload = appending[p].payload
  BY InsertedRow
<1>2. rows \in Seq(Rows) /\ Len(rows) \in Nat
  BY DEF TablesOK
<1>3. /\ Len(rows') = Len(rows) + 1
      /\ rows'[Len(rows) + 1] = r
      /\ \A i \in 1..Len(rows) : rows'[i] = rows[i]
  BY <1>1, <1>2
<1>4. appending' = [appending EXCEPT ![p] = Nothing] /\ appending[p] # Nothing
  BY DEF Insert
<1>5. ASSUME NEW i \in 1..Len(rows')
      PROVE  Witnessed(rows[i].payload)'
  <2>1. CASE i \in 1..Len(rows)
    BY <2>1, <1>3 DEF PairInv, Witnessed
  <2>2. CASE i = Len(rows) + 1
    BY <2>2, <1>1, <1>3, <1>4 DEF PairInv, Witnessed
  <2>3. i \in 1..Len(rows) \/ i = Len(rows) + 1
    BY <1>2, <1>3
  <2> QED
    BY <2>1, <2>2, <2>3
<1>6. ASSUME NEW q \in Processes, appending'[q] # Nothing
      PROVE  Witnessed(appending[q].payload)'
  BY <1>4, <1>6 DEF PairInv, Witnessed, TablesOK
<1> QED
  BY <1>5, <1>6

-----------------------------------------------------------------------------
(* Startup, sessions and end of a server                                    *)

LEMMA SelectStaleKeeps ==
    ASSUME IInv, NEW p \in Processes, SelectStale(p), UNCHANGED <<usb, op, seen>>
    PROVE  IInv'
<1> USE DEF IInv, TypeOK
<1>1. /\ server[p] = "down" /\ server' = [server EXCEPT ![p] = "clearing"]
      /\ stale' = [stale EXCEPT ![p] = sessions]
      /\ shared' = (shared \/ \E q \in Processes \ {p} : server[q] # "down")
      /\ UNCHANGED <<rows, sessions, live, appending, opened, closed, lost, overlapped>>
      /\ UNCHANGED <<probes, boards, op, seen>>
  BY DEF SelectStale, tables, usb
<1>2. TablesOK' /\ ChainInv'
  BY <1>1, ChainStays
<1>3. ServersOK' /\ SelectionOK'
  BY <1>1 DEF ServersOK, SelectionOK
<1>4. PairInv'
  BY <1>1, PairsStay
<1>5. ASSUME ~shared'
      PROVE  ~shared /\ \A q \in Processes \ {p} : server[q] = "down"
  BY <1>1, <1>5
<1>6. StageInv'
  <2>1. ASSUME NEW q \in Processes
        PROVE  /\ op[q] # Nothing => server'[q] = "up"
               /\ live[q] # {} => server'[q] = "up"
               /\ server'[q] \in {"down", "clearing"} => appending[q] = Nothing
               /\ server'[q] \in {"down", "up"} => stale'[q] = {}
               /\ server'[q] = "recovering" /\ appending[q] # Nothing =>
                      appending[q].payload = RecoveryRecord(stale'[q])
               /\ ~shared' /\ server'[q] = "clearing" => stale'[q] = sessions
    <3>1. CASE q = p
      BY <3>1, <1>1 DEF StageInv, ServersOK
    <3>2. CASE q # p
      BY <3>2, <1>1, <1>5 DEF StageInv, ServersOK
    <3> QED
      BY <3>1, <3>2
  <2>2. ~shared' => \A q, r \in Processes :
                        server'[q] # "down" /\ server'[r] # "down" => q = r
    BY <1>1, <1>5 DEF ServersOK
  <2> QED
    BY <1>1, <2>1, <2>2 DEF StageInv
<1>7. SessionsAccounted'
  <2>1. UNION {stale[q] : q \in Processes} \subseteq UNION {stale'[q] : q \in Processes}
    <3>1. \A q \in Processes : stale[q] \subseteq stale'[q]
      BY <1>1 DEF StageInv, ServersOK
    <3> QED
      BY <3>1
  <2> QED
    BY <1>1, <1>5, <2>1 DEF SessionsAccounted
<1> QED
  BY <1>2, <1>3, <1>4, <1>6, <1>7

LEMMA DeleteStaleKeeps ==
    ASSUME IInv, NEW p \in Processes, DeleteStale(p), UNCHANGED <<usb, op, seen>>
    PROVE  IInv'
<1> USE DEF IInv, TypeOK
<1>1. /\ server[p] = "clearing" /\ sessions' = {}
      /\ server' = [server EXCEPT ![p] = IF stale[p] = {} THEN "up" ELSE "recovering"]
      /\ UNCHANGED <<rows, stale, live, appending, opened, closed, lost, overlapped, shared>>
      /\ UNCHANGED <<probes, boards, op, seen>>
  BY DEF DeleteStale, traces, usb
<1>2. TablesOK' /\ ChainInv'
  BY <1>1, ChainStays
<1>3. ServersOK' /\ SelectionOK'
  BY <1>1 DEF ServersOK, SelectionOK
<1>4. PairInv'
  BY <1>1, PairsStay
<1>5. ASSUME ~shared
      PROVE  /\ stale[p] = sessions
             /\ \A q \in Processes \ {p} : server[q] = "down"
             /\ \A q \in Processes : live[q] = {}
  <2>1. stale[p] = sessions /\ live[p] = {}
    BY <1>1, <1>5 DEF StageInv
  <2>2. \A q \in Processes \ {p} : server[q] = "down"
    BY <1>1, <1>5 DEF StageInv
  <2>3. \A q \in Processes \ {p} : live[q] = {}
    BY <2>2 DEF StageInv
  <2> QED
    BY <2>1, <2>2, <2>3
<1>6. StageInv'
  <2>1. ASSUME NEW q \in Processes
        PROVE  /\ op[q] # Nothing => server'[q] = "up"
               /\ live[q] # {} => server'[q] = "up"
               /\ server'[q] \in {"down", "clearing"} => appending[q] = Nothing
               /\ server'[q] \in {"down", "up"} => stale[q] = {}
               /\ server'[q] = "recovering" /\ appending[q] # Nothing =>
                      appending[q].payload = RecoveryRecord(stale[q])
               /\ ~shared /\ server'[q] = "clearing" => stale[q] = sessions'
    <3>1. CASE q = p
      BY <3>1, <1>1 DEF StageInv, ServersOK
    <3>2. CASE q # p
      BY <3>2, <1>1, <1>5 DEF StageInv, ServersOK
    <3> QED
      BY <3>1, <3>2
  <2>2. ~shared => \A q, r \in Processes :
                        server'[q] # "down" /\ server'[r] # "down" => q = r
    BY <1>1, <1>5 DEF ServersOK
  <2> QED
    BY <1>1, <2>1, <2>2 DEF StageInv
<1>7. SessionsAccounted'
  <2>1. ~shared => sessions \subseteq UNION {stale[q] : q \in Processes}
    BY <1>5
  <2> QED
    BY <1>1, <1>5, <2>1 DEF SessionsAccounted
<1> QED
  BY <1>2, <1>3, <1>4, <1>6, <1>7

LEMMA BeginRecoveryKeeps ==
    ASSUME IInv, NEW p \in Processes, BeginRecovery(p), UNCHANGED <<usb, op, seen>>
    PROVE  IInv'
<1> USE DEF IInv, TypeOK
<1>1. /\ server[p] = "recovering" /\ BeginAppend(p, RecoveryRecord(stale[p]))
      /\ UNCHANGED <<rows, sessions, server, stale, live, opened, closed, lost, shared>>
      /\ UNCHANGED <<probes, boards, op, seen>>
  BY DEF BeginRecovery, tables, usb
<1>2. RecoveryRecord(stale[p]) \in Payloads
  BY DEF RecoveryRecord, Payloads, Recovery, ServersOK
<1>3. TablesOK' /\ ChainInv'
  BY <1>1, <1>2, BeginAppendKeeps
<1>4. ServersOK' /\ SelectionOK'
  BY <1>1 DEF ServersOK, SelectionOK
<1>5. \A q \in Processes :
          appending'[q] = IF q = p THEN [previous_hash |-> LastHash(rows),
                                         payload |-> RecoveryRecord(stale[p])]
                          ELSE appending[q]
  BY <1>1 DEF BeginAppend, TablesOK
<1>6. StageInv'
  BY <1>1, <1>5 DEF StageInv
<1>7. PairInv'
  <2>1. Witnessed(RecoveryRecord(stale[p]))
    BY DEF Witnessed, RecoveryRecord
  <2> QED
    BY <1>1, <1>5, <2>1 DEF PairInv, Witnessed, SelectedWasAttached
<1>8. SessionsAccounted'
  BY <1>1, AccountStays
<1> QED
  BY <1>3, <1>4, <1>6, <1>7, <1>8

LEMMA FinishRecoveryKeeps ==
    ASSUME IInv, NEW p \in Processes, FinishRecovery(p), UNCHANGED <<usb, op, seen>>
    PROVE  IInv'
<1> USE DEF IInv, TypeOK
<1>1. /\ server[p] = "recovering" /\ Insert(p)
      /\ server' = [server EXCEPT ![p] = "up"]
      /\ stale' = [stale EXCEPT ![p] = {}]
      /\ UNCHANGED <<sessions, live, opened, closed, lost, overlapped, shared>>
      /\ UNCHANGED <<probes, boards, op, seen>>
  BY DEF FinishRecovery, traces, usb
<1>2. TablesOK' /\ ChainInv'
  BY <1>1, InsertKeeps
<1>3. ServersOK' /\ SelectionOK'
  BY <1>1 DEF ServersOK, SelectionOK
<1>4. appending' = [appending EXCEPT ![p] = Nothing] /\ appending[p] # Nothing
  BY <1>1 DEF Insert
<1>5. StageInv'
  <2>1. ASSUME NEW q \in Processes
        PROVE  /\ op[q] # Nothing => server'[q] = "up"
               /\ live[q] # {} => server'[q] = "up"
               /\ server'[q] \in {"down", "clearing"} => appending'[q] = Nothing
               /\ server'[q] \in {"down", "up"} => stale'[q] = {}
               /\ server'[q] = "recovering" /\ appending'[q] # Nothing =>
                      appending'[q].payload = RecoveryRecord(stale'[q])
               /\ ~shared /\ server'[q] = "clearing" => stale'[q] = sessions
    <3>1. CASE q = p
      BY <3>1, <1>1, <1>4 DEF StageInv, ServersOK, TablesOK
    <3>2. CASE q # p
      BY <3>2, <1>1, <1>4 DEF StageInv, ServersOK, TablesOK
    <3> QED
      BY <3>1, <3>2
  <2>2. ~shared => \A q, r \in Processes :
                        server'[q] # "down" /\ server'[r] # "down" => q = r
    BY <1>1 DEF ServersOK, StageInv
  <2> QED
    BY <1>1, <2>1, <2>2 DEF StageInv
<1>6. PairInv'
  BY <1>1, <1>2, InsertKeepsPairs DEF PairInv, SelectedWasAttached
<1>7. SessionsAccounted'
  <2>1. appending[p].payload = RecoveryRecord(stale[p])
    BY <1>1, <1>4 DEF StageInv
  <2>2. Recovered(rows) \subseteq Recovered(rows') /\ stale[p] \subseteq Recovered(rows')
    BY <1>1, <2>1, RecoveredGrows DEF RecoveryRecord
  <2>3. UNION {stale[q] : q \in Processes}
            \subseteq stale[p] \cup UNION {stale'[q] : q \in Processes}
    BY <1>1 DEF ServersOK
  <2> QED
    BY <1>1, <2>2, <2>3 DEF SessionsAccounted
<1> QED
  BY <1>2, <1>3, <1>5, <1>6, <1>7

\* Under ~shared, no other server clears the table while one is up.
LEMMA OthersDown ==
    ASSUME IInv, NEW p \in Processes, server[p] = "up", ~shared
    PROVE  \A q \in Processes : server[q] # "clearing"
  BY DEF IInv, StageInv

LEMMA UpsertSessionKeeps ==
    ASSUME IInv, NEW p \in Processes, NEW s \in Sessions, UpsertSession(p, s),
           UNCHANGED <<usb, op, seen>>
    PROVE  IInv'
<1> USE DEF IInv, TypeOK
<1>1. /\ server[p] = "up" /\ sessions' = sessions \cup {s}
      /\ live' = [live EXCEPT ![p] = @ \cup {s}] /\ opened' = opened \cup {s}
      /\ UNCHANGED <<rows, server, stale, appending, closed, lost, overlapped, shared>>
      /\ UNCHANGED <<probes, boards, op, seen>>
  BY DEF UpsertSession, usb
<1>2. TablesOK' /\ ChainInv'
  BY <1>1, ChainStays
<1>3. ServersOK' /\ SelectionOK'
  BY <1>1 DEF ServersOK, SelectionOK
<1>4. PairInv'
  BY <1>1, PairsStay
<1>5. StageInv'
  BY <1>1, OthersDown DEF StageInv, ServersOK
<1>6. SessionsAccounted'
  BY <1>1 DEF SessionsAccounted, ServersOK
<1> QED
  BY <1>2, <1>3, <1>4, <1>5, <1>6

LEMMA DeleteSessionKeeps ==
    ASSUME IInv, NEW p \in Processes, NEW s \in Sessions, DeleteSession(p, s),
           UNCHANGED <<usb, op, seen>>
    PROVE  IInv'
<1> USE DEF IInv, TypeOK
<1>1. /\ server[p] = "up" /\ sessions' = sessions \ {s}
      /\ live' = [live EXCEPT ![p] = @ \ {s}] /\ closed' = closed \cup {s}
      /\ UNCHANGED <<rows, server, stale, appending, opened, lost, overlapped, shared>>
      /\ UNCHANGED <<probes, boards, op, seen>>
  BY DEF DeleteSession, usb
<1>2. TablesOK' /\ ChainInv'
  BY <1>1, ChainStays
<1>3. ServersOK' /\ SelectionOK'
  BY <1>1 DEF ServersOK, SelectionOK
<1>4. PairInv'
  BY <1>1, PairsStay
<1>5. StageInv'
  BY <1>1, OthersDown DEF StageInv, ServersOK
<1>6. ASSUME ~shared, NEW q \in Processes
      PROVE  live'[q] \subseteq sessions'
  <2>1. CASE q = p
    BY <1>1, <1>6, <2>1 DEF SessionsAccounted, ServersOK
  <2>2. CASE q # p
    <3>1. server[q] = "down"
      BY <1>1, <1>6, <2>2 DEF StageInv, ServersOK
    <3>2. live'[q] = {}
      BY <1>1, <2>2, <3>1 DEF StageInv, ServersOK
    <3> QED
      BY <3>2
  <2> QED
    BY <2>1, <2>2
<1>7. SessionsAccounted'
  BY <1>1, <1>6 DEF SessionsAccounted
<1> QED
  BY <1>2, <1>3, <1>4, <1>5, <1>7

LEMMA ServerDiesKeeps == ASSUME IInv, NEW p \in Processes, ServerDies(p) PROVE IInv'
<1> USE DEF IInv, TypeOK
<1>1. /\ server[p] # "down" /\ server' = [server EXCEPT ![p] = "down"]
      /\ lost' = IF server[p] = "recovering" THEN lost \cup stale[p] ELSE lost
      /\ stale' = [stale EXCEPT ![p] = {}] /\ live' = [live EXCEPT ![p] = {}]
      /\ appending' = [appending EXCEPT ![p] = Nothing] /\ op' = [op EXCEPT ![p] = Nothing]
      /\ UNCHANGED <<rows, sessions, opened, closed, overlapped, shared>>
      /\ UNCHANGED <<probes, boards, seen>>
  BY DEF ServerDies, ServerEnds, tables, usb
<1>2. \A q \in Processes :
          /\ appending'[q] = IF q = p THEN Nothing ELSE appending[q]
          /\ op'[q] = IF q = p THEN Nothing ELSE op[q]
          /\ stale'[q] = IF q = p THEN {} ELSE stale[q]
          /\ live'[q] = IF q = p THEN {} ELSE live[q]
          /\ server'[q] = IF q = p THEN "down" ELSE server[q]
  BY <1>1 DEF TablesOK, ServersOK, SelectionOK
<1>3. TablesOK' /\ ServersOK' /\ SelectionOK'
  BY <1>1 DEF TablesOK, ServersOK, SelectionOK
<1>4. ChainInv'
  <2>1. LastHash(rows') = LastHash(rows) /\ VerifyChain(rows') = VerifyChain(rows)
    BY <1>1
  <2> QED
    BY <1>1, <1>2, <2>1 DEF ChainInv
<1>5. PairInv'
  <2>1. \A i \in 1..Len(rows') : Witnessed(rows[i].payload)'
    BY <1>1 DEF PairInv, Witnessed
  <2>2. ASSUME NEW q \in Processes, appending'[q] # Nothing
        PROVE  Witnessed(appending[q].payload)'
    <3>1. appending'[q] = appending[q]
      BY <1>2, <2>2
    <3>2. Witnessed(appending[q].payload)
      BY <2>2, <3>1 DEF PairInv
    <3> QED
      BY <1>1, <3>1, <3>2 DEF Witnessed
  <2>3. ASSUME NEW q \in Processes, op'[q] # Nothing, op'[q].sel.board # Nothing
        PROVE  <<op'[q].sel.probe, op'[q].sel.board>> \in seen'
    <3>1. op'[q] = op[q]
      BY <1>2, <2>3
    <3> QED
      BY <1>1, <2>3, <3>1 DEF PairInv, SelectedWasAttached
  <2> QED
    BY <2>1, <2>2, <2>3 DEF PairInv, SelectedWasAttached
<1>6. StageInv'
  <2>1. ASSUME NEW q \in Processes
        PROVE  /\ op'[q] # Nothing => server'[q] = "up"
               /\ live'[q] # {} => server'[q] = "up"
               /\ server'[q] \in {"down", "clearing"} => appending'[q] = Nothing
               /\ server'[q] \in {"down", "up"} => stale'[q] = {}
               /\ server'[q] = "recovering" /\ appending'[q] # Nothing =>
                      appending'[q].payload = RecoveryRecord(stale'[q])
               /\ ~shared /\ server'[q] = "clearing" => stale'[q] = sessions
    <3>1. CASE q = p
      BY <3>1, <1>2
    <3>2. CASE q # p
      BY <3>2, <1>2 DEF StageInv
    <3> QED
      BY <3>1, <3>2
  <2>2. ~shared => \A q, r \in Processes :
                        server'[q] # "down" /\ server'[r] # "down" => q = r
    BY <1>2 DEF StageInv
  <2> QED
    BY <1>1, <2>1, <2>2 DEF StageInv
<1>7. SessionsAccounted'
  <2>1. ASSUME ~shared
        PROVE  /\ \A q \in Processes : live'[q] \subseteq sessions'
               /\ stale[p] \subseteq sessions' \cup lost'
    <3>1. server[p] = "clearing" => stale[p] = sessions
      BY <2>1 DEF StageInv
    <3>2. server[p] = "up" => stale[p] = {}
      BY DEF StageInv
    <3>3. server[p] = "recovering" => stale[p] \subseteq lost'
      BY <1>1
    <3>4. stale[p] \subseteq sessions' \cup lost'
      BY <1>1, <3>1, <3>2, <3>3 DEF ServersOK
    <3>5. \A q \in Processes : live'[q] \subseteq sessions'
      BY <1>1, <1>2, <2>1 DEF SessionsAccounted
    <3> QED
      BY <3>4, <3>5
  <2>2. UNION {stale[q] : q \in Processes}
            \subseteq stale[p] \cup UNION {stale'[q] : q \in Processes}
    BY <1>2
  <2>3. lost \subseteq lost'
    BY <1>1
  <2> QED
    BY <1>1, <2>1, <2>2, <2>3 DEF SessionsAccounted
<1> QED
  BY <1>3, <1>4, <1>5, <1>6, <1>7

-----------------------------------------------------------------------------
(* Operations                                                               *)

\* A resolved selector names a board that is attached, or one that the history
\* pairs with the probe.
LEMMA ResolvedPair ==
    ASSUME NEW sel \in Selectors, NEW r \in Resolve(sel), r.board # Nothing
    PROVE  r.board \in boards \/ HasVerifiedTarget(r.board, r.probe)
<1>1. PICK f \in ProfileOptions(sel), j \in ProbeOptions(sel) :
          \E b \in BoardOptions(sel, f, j) : r = [probe |-> j, board |-> b, profile |-> f]
  BY DEF Resolve
<1> PICK b \in BoardOptions(sel, f, j) : r = [probe |-> j, board |-> b, profile |-> f]
  BY <1>1
<1>2. CASE sel.board = Nothing
  BY <1>1, <1>2 DEF BoardOptions, Applicable, Unambiguous
<1>3. CASE sel.board # Nothing
  BY <1>1, <1>3 DEF BoardOptions, Applicable
<1> QED
  BY <1>2, <1>3

\* A resolved selector is a selector.
LEMMA ResolvedType ==
    ASSUME SelectionOK, NEW sel \in Selectors, NEW r \in Resolve(sel)
    PROVE  r \in Selectors
<1>1. PICK f \in ProfileOptions(sel), j \in ProbeOptions(sel) :
          \E b \in BoardOptions(sel, f, j) : r = [probe |-> j, board |-> b, profile |-> f]
  BY DEF Resolve
<1> PICK b \in BoardOptions(sel, f, j) : r = [probe |-> j, board |-> b, profile |-> f]
  BY <1>1
<1>2. f \in Profiles \cup {Nothing}
  BY ProfileAssumption DEF SelectionOK, ProfileOptions, MatchingProfiles, Unambiguous, Selectors
<1>3. j \in Probes \cup {Nothing}
  BY DEF SelectionOK, ProbeOptions, Unambiguous, Selectors
<1>4. b \in Boards \cup {Nothing}
  BY DEF SelectionOK, BoardOptions, Applicable, Unambiguous, Selectors
<1> QED
  BY <1>1, <1>2, <1>3, <1>4 DEF Selectors

LEMMA SelectKeeps ==
    ASSUME IInv, NEW p \in Processes, NEW sel \in Selectors, NEW r \in Resolve(sel),
           Select(p, sel, r)
    PROVE  IInv'
<1> USE DEF IInv, TypeOK
<1> DEFINE o == [sel |-> r, stage |-> "selected", observed |-> "nothing"]
<1>1. /\ server[p] = "up" /\ op' = [op EXCEPT ![p] = o]
      /\ seen' = IF r.board \in boards THEN seen \cup {<<r.probe, r.board>>} ELSE seen
      /\ UNCHANGED <<rows, sessions, server, stale, live, appending>>
      /\ UNCHANGED <<opened, closed, lost, overlapped, shared, probes, boards>>
  BY DEF Select, storeVars, tables, memory, traces, usb
<1>2. TablesOK' /\ ChainInv'
  BY <1>1, ChainStays
<1>3. o \in Operation
  BY ResolvedType DEF Operation, Outcomes
<1>4. ServersOK' /\ SelectionOK'
  BY <1>1, <1>3 DEF ServersOK, SelectionOK
<1>5. \A q \in Processes : op'[q] = IF q = p THEN o ELSE op[q]
  BY <1>1 DEF SelectionOK
<1>6. StageInv'
  BY <1>1, <1>5 DEF StageInv
<1>7. SessionsAccounted'
  BY <1>1, AccountStays
<1>8. r.board # Nothing => <<r.probe, r.board>> \in seen'
  <2>1. CASE r.board \in boards
    BY <1>1, <2>1
  <2>2. CASE HasVerifiedTarget(r.board, r.probe)
    BY <1>1, <2>2 DEF HasVerifiedTarget, IsEvidence, PairInv, Witnessed
  <2> QED
    BY <2>1, <2>2, ResolvedPair
<1>9. PairInv'
  <2>1. seen \subseteq seen'
    BY <1>1
  <2> QED
    BY <1>1, <1>5, <1>8, <2>1 DEF PairInv, Witnessed, SelectedWasAttached
<1> QED
  BY <1>2, <1>4, <1>6, <1>7, <1>9

\* A record of an operation that is appended keeps the invariant.
LEMMA RecordBegins ==
    ASSUME IInv, NEW p \in Processes, NEW act \in {"target_identity_preflight", "command"},
           NEW observed \in Outcomes, NEW o \in Operation,
           op[p] # Nothing, o.sel = op[p].sel,
           BeginAppend(p, OperationRecord(act, op[p].sel, observed)),
           op' = [op EXCEPT ![p] = o],
           UNCHANGED <<tables, server, stale, live, opened, closed, lost, shared, usb, seen>>
    PROVE  IInv'
<1> USE DEF IInv, TypeOK
<1> DEFINE payload == OperationRecord(act, op[p].sel, observed)
<1>1. op[p].sel \in Selectors
  BY DEF SelectionOK, Operation
<1>2. payload \in Record
  BY <1>1 DEF OperationRecord, Record, Selectors
<1>3. payload \in Payloads
  BY <1>2 DEF Payloads
<1>4. UNCHANGED <<rows, sessions, server, stale, live, opened, closed, lost, shared>>
      /\ UNCHANGED <<probes, boards, seen>>
  BY DEF tables, usb
<1>5. TablesOK' /\ ChainInv'
  BY <1>3, <1>4, BeginAppendKeeps
<1>6. ServersOK' /\ SelectionOK'
  BY <1>4 DEF ServersOK, SelectionOK
<1>7. \A q \in Processes :
          /\ appending'[q] = IF q = p THEN [previous_hash |-> LastHash(rows),
                                            payload |-> payload]
                             ELSE appending[q]
          /\ op'[q] = IF q = p THEN o ELSE op[q]
  BY DEF BeginAppend, TablesOK, SelectionOK
<1>8. StageInv'
  <2>1. server[p] = "up"
    BY DEF StageInv
  <2> QED
    BY <1>4, <1>7, <2>1 DEF StageInv
<1>9. SessionsAccounted'
  BY <1>4, AccountStays
<1>10. PairInv'
  <2>1. Witnessed(payload)
    BY DEF Witnessed, OperationRecord, PairInv, SelectedWasAttached
  <2> QED
    BY <1>4, <1>7, <2>1 DEF PairInv, Witnessed, SelectedWasAttached
<1> QED
  BY <1>5, <1>6, <1>8, <1>9, <1>10

\* A record of an operation that is inserted keeps the invariant.
LEMMA RecordEnds ==
    ASSUME IInv, NEW p \in Processes, NEW o \in Operation \cup {Nothing},
           op[p] # Nothing, o # Nothing => o.sel = op[p].sel, Insert(p),
           op' = [op EXCEPT ![p] = o],
           UNCHANGED <<sessions, server, stale, live, traces, usb, seen>>
    PROVE  IInv'
<1> USE DEF IInv, TypeOK
<1>1. UNCHANGED <<sessions, server, stale, live, opened, closed, lost, overlapped, shared>>
      /\ UNCHANGED <<probes, boards, seen>>
  BY DEF traces, usb
<1>2. TablesOK' /\ ChainInv'
  BY <1>1, InsertKeeps
<1>3. ServersOK' /\ SelectionOK'
  BY <1>1 DEF ServersOK, SelectionOK
<1>4. \A q \in Processes : /\ appending'[q] = IF q = p THEN Nothing ELSE appending[q]
                           /\ op'[q] = IF q = p THEN o ELSE op[q]
  BY DEF Insert, TablesOK, SelectionOK
<1>5. StageInv'
  BY <1>1, <1>4 DEF StageInv
<1>6. SessionsAccounted'
  BY <1>1, RecoveredGrows, AccountStays
<1>7. PairInv'
  <2>1. SelectedWasAttached'
    BY <1>1, <1>4 DEF PairInv, SelectedWasAttached
  <2> QED
    BY <1>1, <2>1, InsertKeepsPairs DEF PairInv
<1> QED
  BY <1>2, <1>3, <1>5, <1>6, <1>7

LEMMA OperationKeeps ==
    ASSUME IInv, NEW p \in Processes, NEW observed \in Observations,
           IdentityPreflight(p, observed)
    PROVE  IInv'
<1> DEFINE o == [op[p] EXCEPT !.stage = "judging", !.observed = observed]
<1>1. op[p] \in Operation /\ op[p] # Nothing
  BY DEF IdentityPreflight, IInv, TypeOK, SelectionOK
<1>2. o \in Operation /\ o.sel = op[p].sel /\ observed \in Outcomes
  BY <1>1 DEF Operation, Outcomes
<1>3. op' = [op EXCEPT ![p] = o]
  BY DEF IdentityPreflight, IInv, TypeOK, SelectionOK
<1> QED
  BY <1>1, <1>2, <1>3, RecordBegins DEF IdentityPreflight

LEMMA StagesKeep ==
    ASSUME IInv, NEW p \in Processes, Judge(p) \/ Command(p) \/ Finish(p)
    PROVE  IInv'
<1>1. op[p] \in Operation /\ op[p] # Nothing
  BY DEF Judge, Command, Finish, IInv, TypeOK, SelectionOK
<1>2. CASE Judge(p)
  <2> DEFINE o == IF op[p].observed = "expected"
                  THEN [op[p] EXCEPT !.stage = "identified"] ELSE Nothing
  <2>1. o \in Operation \cup {Nothing} /\ (o # Nothing => o.sel = op[p].sel)
    BY <1>1 DEF Operation
  <2>2. op' = [op EXCEPT ![p] = o]
    BY <1>2 DEF Judge
  <2> QED
    BY <1>1, <1>2, <2>1, <2>2, RecordEnds DEF Judge
<1>3. CASE Command(p)
  <2> DEFINE o == [op[p] EXCEPT !.stage = "recording"]
  <2>1. o \in Operation /\ o.sel = op[p].sel /\ op[p].observed \in Outcomes
    BY <1>1 DEF Operation
  <2>2. op' = [op EXCEPT ![p] = o]
    BY <1>3 DEF Command
  <2> QED
    BY <1>1, <1>3, <2>1, <2>2, RecordBegins DEF Command
<1>4. CASE Finish(p)
  BY <1>1, <1>4, RecordEnds DEF Finish
<1> QED
  BY <1>2, <1>3, <1>4

LEMMA ReplugKeeps == ASSUME IInv, NEW d \in Probes \cup Boards, Replug(d) PROVE IInv'
<1> USE DEF IInv, TypeOK
<1>1. UNCHANGED <<rows, sessions, server, stale, live, appending>>
      /\ UNCHANGED <<opened, closed, lost, overlapped, shared, op, seen>>
  BY DEF Replug, storeVars, tables, memory, traces
<1>2. TablesOK' /\ ChainInv'
  BY <1>1, ChainStays
<1>3. ServersOK' /\ SelectionOK'
  BY <1>1 DEF ServersOK, SelectionOK, Replug, Toggled
<1>4. PairInv'
  BY <1>1, PairsStay
<1>5. StageInv'
  BY <1>1 DEF StageInv
<1>6. SessionsAccounted'
  BY <1>1, AccountStays
<1> QED
  BY <1>2, <1>3, <1>4, <1>5, <1>6

-----------------------------------------------------------------------------
(* The theorems                                                             *)

LEMMA InitIInv == SelectionInit => IInv
<1> SUFFICES ASSUME SelectionInit PROVE IInv
  OBVIOUS
<1> USE DEF SelectionInit, StoreInit
<1>1. TablesOK
  <2>1. rows \in Seq(Rows)
    OBVIOUS
  <2>2. appending \in [Processes -> Linked \cup {Nothing}] /\ overlapped \in BOOLEAN
    OBVIOUS
  <2> QED
    BY <2>1, <2>2 DEF TablesOK
<1>2. ServersOK /\ SelectionOK
  BY DEF ServersOK, SelectionOK
<1>3. ChainInv
  BY DEF ChainInv, VerifyChain
<1>4. StageInv
  BY DEF StageInv
<1>5. SessionsAccounted
  BY DEF SessionsAccounted
<1>6. PairInv
  BY DEF PairInv, SelectedWasAttached
<1> QED
  BY <1>1, <1>2, <1>3, <1>4, <1>5, <1>6 DEF IInv, TypeOK

LEMMA StutterKeeps == ASSUME IInv, UNCHANGED selectionVars PROVE IInv'
<1> USE DEF IInv, TypeOK
<1>1. UNCHANGED <<rows, sessions, server, stale, live, appending>>
      /\ UNCHANGED <<opened, closed, lost, overlapped, shared, op, seen, probes, boards>>
  BY DEF selectionVars, storeVars, tables, memory, traces
<1>2. TablesOK' /\ ChainInv'
  BY <1>1, ChainStays
<1>3. ServersOK' /\ SelectionOK'
  BY <1>1 DEF ServersOK, SelectionOK
<1>4. PairInv'
  BY <1>1, PairsStay
<1>5. StageInv'
  BY <1>1 DEF StageInv
<1>6. SessionsAccounted'
  BY <1>1, AccountStays
<1> QED
  BY <1>2, <1>3, <1>4, <1>5, <1>6

\* Every step keeps the invariant.
LEMMA NextIInv == IInv /\ [SelectionNext]_selectionVars => IInv'
<1> SUFFICES ASSUME IInv, [SelectionNext]_selectionVars PROVE IInv'
  OBVIOUS
<1>1. CASE UNCHANGED selectionVars
  BY <1>1, StutterKeeps
<1>2. ASSUME NEW p \in Processes, StoreStep(p)
      PROVE  IInv'
  <2>1. ASSUME NEW s \in Sessions, UpsertSession(p, s) \/ DeleteSession(p, s)
        PROVE  IInv'
    BY <1>2, <2>1, UpsertSessionKeeps, DeleteSessionKeeps DEF StoreStep
  <2>2. CASE SelectStale(p)
    BY <1>2, <2>2, SelectStaleKeeps DEF StoreStep
  <2>3. CASE DeleteStale(p)
    BY <1>2, <2>3, DeleteStaleKeeps DEF StoreStep
  <2>4. CASE FinishRecovery(p)
    BY <1>2, <2>4, FinishRecoveryKeeps DEF StoreStep
  <2>5. CASE BeginRecovery(p)
    BY <1>2, <2>5, BeginRecoveryKeeps DEF StoreStep
  <2> QED
    BY <1>2, <2>1, <2>2, <2>3, <2>4, <2>5 DEF StoreStep
<1>3. ASSUME NEW p \in Processes, ServerDies(p)
      PROVE  IInv'
  BY <1>3, ServerDiesKeeps
<1>4. ASSUME NEW p \in Processes, NEW sel \in Selectors, NEW r \in Resolve(sel),
             Select(p, sel, r)
      PROVE  IInv'
  BY <1>4, SelectKeeps
<1>5. ASSUME NEW p \in Processes, NEW observed \in Observations,
             IdentityPreflight(p, observed)
      PROVE  IInv'
  BY <1>5, OperationKeeps
<1>6. ASSUME NEW p \in Processes, Judge(p) \/ Command(p) \/ Finish(p)
      PROVE  IInv'
  BY <1>6, StagesKeep
<1>7. ASSUME NEW d \in Probes \cup Boards, Replug(d)
      PROVE  IInv'
  BY <1>7, ReplugKeeps
<1> QED
  BY <1>1, <1>2, <1>3, <1>4, <1>5, <1>6, <1>7 DEF SelectionNext

\* What the store, the servers and the operations in progress keep in agreement
\* (store.py, JLinkService.__init__, resolve_selector).
THEOREM Invariance == SelectionSpec => []IInv
  BY InitIInv, NextIInv, PTL DEF SelectionSpec

\* The lock of append_operation keeps the chain of one server whole, and of
\* several as long as none reads between the two statements of another.
THEOREM ChainVerifies == SelectionSpec => []OnlyOverlapBreaksChain
<1>1. IInv => OnlyOverlapBreaksChain
  BY DEF IInv, ChainInv, OnlyOverlapBreaksChain
<1> QED
  BY <1>1, Invariance, PTL

\* No session's row and no stale session is lost, except to a second server on
\* the root or a crash before the recovery record (clear_stale_sessions).
THEOREM SessionsAreAccounted == SelectionSpec => []SessionsAccounted
  BY Invariance, PTL DEF IInv

\* Every board an operation works on was once selected while attached to the
\* USB with that probe (resolve_selector, has_verified_target).
THEOREM SelectionsWereAttached == SelectionSpec => []SelectedWasAttached
  BY Invariance, PTL DEF IInv, PairInv

-----------------------------------------------------------------------------
(* No guess                                                                 *)

\* A member of a set with one element is the element.
LEMMA UnambiguousMember ==
    ASSUME NEW S, IsFiniteSet(S), NEW x \in S, NEW y \in Unambiguous(S)
    PROVE  y = x
<1>1. Cardinality(S) = 1 /\ y \in S
  BY DEF Unambiguous
<1>2. PICK z : S = {z}
  BY <1>1, FS_Singleton
<1> QED
  BY <1>1, <1>2

\* A recorded pair has been selected while attached.
LEMMA EvidenceIsSeen ==
    ASSUME PairInv, NEW b, NEW j, b # Nothing, HasVerifiedTarget(b, j)
    PROVE  <<j, b>> \in seen
  BY DEF HasVerifiedTarget, IsEvidence, PairInv, Witnessed

\* What the profile, the probe and the board of a result are.
LEMMA ChosenProbe ==
    ASSUME SelectionOK, NEW sel \in Selectors, NEW k \in ProbeOptions(sel)
    PROVE  /\ k \in probes /\ sel.probe \in {Nothing, k}
           /\ \A j \in probes : sel.probe \in {Nothing, j} => k = j
<1>1. IsFiniteSet(probes) /\ \A j \in probes : j # Nothing
  BY FiniteAssumption, NothingAssumption, FS_Subset DEF SelectionOK
<1>2. CASE sel.probe = Nothing
  BY <1>1, <1>2, UnambiguousMember DEF ProbeOptions, Unambiguous
<1>3. CASE sel.probe # Nothing
  BY <1>3 DEF ProbeOptions
<1> QED
  BY <1>2, <1>3

LEMMA ChosenProfile ==
    ASSUME SelectionOK, NEW sel \in Selectors, NEW f \in ProfileOptions(sel)
    PROVE  /\ sel.profile \in {Nothing, f}
           /\ \A b \in boards : sel.board \in {Nothing, b} /\ sel.profile \in {Nothing, ProfileOf[b]}
                  => f = ProfileOf[b]
           /\ (\A b \in boards : sel.board \notin {Nothing, b}) =>
                  \A g \in Profiles : sel.profile \in {Nothing, g} => f = g
<1>1. \A b \in boards : ProfileOf[b] \in Profiles /\ ProfileOf[b] # Nothing
  BY ProfileAssumption, NothingAssumption DEF SelectionOK
<1>2. \A g \in Profiles : g # Nothing
  BY NothingAssumption
<1>3. CASE sel.profile # Nothing
  BY <1>3 DEF ProfileOptions
<1>4. CASE sel.profile = Nothing /\ Cardinality(MatchingProfiles(sel)) = 1
  <2>1. MatchingProfiles(sel) \subseteq Profiles
    BY <1>1 DEF MatchingProfiles
  <2>2. IsFiniteSet(MatchingProfiles(sel))
    BY <2>1, FiniteAssumption, FS_Subset
  <2>3. f \in MatchingProfiles(sel)
    BY <1>4 DEF ProfileOptions
  <2>4. PICK z : MatchingProfiles(sel) = {z}
    BY <1>4, <2>2, FS_Singleton
  <2>5. \A b \in boards : sel.board \in {Nothing, b} => ProfileOf[b] \in MatchingProfiles(sel)
    BY DEF MatchingProfiles
  <2>6. \E b \in boards : sel.board \in {Nothing, b}
    BY <2>3 DEF MatchingProfiles
  <2> QED
    BY <1>4, <2>3, <2>4, <2>5, <2>6
<1>5. CASE sel.profile = Nothing /\ Cardinality(MatchingProfiles(sel)) # 1
  <2>1. f \in Unambiguous(Profiles)
    BY <1>5 DEF ProfileOptions
  <2>2. \A g \in Profiles : f = g
    BY <2>1, FiniteAssumption, UnambiguousMember
  <2> QED
    BY <1>1, <1>5, <2>2
<1> QED
  BY <1>3, <1>4, <1>5

LEMMA ChosenBoard ==
    ASSUME SelectionOK, PairInv, NEW sel \in Selectors, NEW f, NEW k \in probes,
           NEW c \in BoardOptions(sel, f, k)
    PROVE  /\ sel.board \in {Nothing, c}
           /\ \/ c \in Applicable(f)
              \/ c # Nothing /\ boards = {} /\ <<k, c>> \in seen
              \/ c = Nothing /\ Applicable(f) = {}
           /\ \A b \in Applicable(f) : sel.board \in {Nothing, b} => c = b
<1>1. Applicable(f) \subseteq boards /\ IsFiniteSet(Applicable(f))
  BY FiniteAssumption, FS_Subset DEF Applicable, SelectionOK
<1>2. CASE sel.board = Nothing /\ Applicable(f) = {}
  BY <1>2 DEF BoardOptions
<1>3. CASE sel.board = Nothing /\ Applicable(f) # {}
  <2>1. c \in Unambiguous(Applicable(f))
    BY <1>3 DEF BoardOptions
  <2>2. c \in Applicable(f) /\ \A b \in Applicable(f) : c = b
    BY <1>1, <2>1, UnambiguousMember DEF Unambiguous
  <2> QED
    BY <1>3, <2>2
<1>4. CASE sel.board # Nothing
  <2>1. /\ c = sel.board
        /\ \/ c \in Applicable(f)
           \/ boards = {} /\ HasVerifiedTarget(c, k)
    BY <1>4 DEF BoardOptions
  <2>2. HasVerifiedTarget(c, k) => <<k, c>> \in seen
    BY <1>4, <2>1, EvidenceIsSeen
  <2> QED
    BY <1>4, <2>1, <2>2
<1> QED
  BY <1>2, <1>3, <1>4

\* A result keeps the given fields, stands on what is there and is the only one.
LEMMA NoGuess == SelectionOK /\ PairInv => SelectionNeverGuesses
<1> SUFFICES ASSUME SelectionOK, PairInv, NEW sel \in Selectors, NEW r \in Resolve(sel)
             PROVE  Completes(sel, r) /\ Grounded(r) /\ OnlyCandidate(sel, r)
  BY DEF SelectionNeverGuesses
<1>1. PICK f \in ProfileOptions(sel), k \in ProbeOptions(sel) :
          \E c \in BoardOptions(sel, f, k) : r = [probe |-> k, board |-> c, profile |-> f]
  BY DEF Resolve
<1> PICK c \in BoardOptions(sel, f, k) : r = [probe |-> k, board |-> c, profile |-> f]
  BY <1>1
<1>2. r.probe = k /\ r.board = c /\ r.profile = f
  OBVIOUS
<1>3. /\ k \in probes /\ sel.probe \in {Nothing, k}
      /\ \A j \in probes : sel.probe \in {Nothing, j} => k = j
  BY ChosenProbe
<1>4. /\ sel.profile \in {Nothing, f}
      /\ \A b \in boards : sel.board \in {Nothing, b} /\ sel.profile \in {Nothing, ProfileOf[b]}
             => f = ProfileOf[b]
      /\ (\A b \in boards : sel.board \notin {Nothing, b}) =>
             \A g \in Profiles : sel.profile \in {Nothing, g} => f = g
  BY ChosenProfile
<1>5. /\ sel.board \in {Nothing, c}
      /\ \/ c \in Applicable(f)
         \/ c # Nothing /\ boards = {} /\ <<k, c>> \in seen
         \/ c = Nothing /\ Applicable(f) = {}
      /\ \A b \in Applicable(f) : sel.board \in {Nothing, b} => c = b
  BY <1>3, ChosenBoard
<1>6. Completes(sel, r)
  BY <1>2, <1>3, <1>4, <1>5 DEF Completes
<1>7. Grounded(r)
  BY <1>2, <1>3, <1>5 DEF Grounded
<1>8. ASSUME NEW b \in boards, sel.board \in {Nothing, b}
      PROVE  IF sel.profile \in {Nothing, ProfileOf[b]} THEN c = b ELSE c # b
  <2>1. CASE sel.profile \in {Nothing, ProfileOf[b]}
    <3>1. b \in Applicable(f)
      BY <1>4, <1>8, <2>1 DEF Applicable
    <3> QED
      BY <1>5, <1>8, <2>1, <3>1
  <2>2. CASE sel.profile \notin {Nothing, ProfileOf[b]}
    <3>1. f # ProfileOf[b] /\ b # Nothing
      BY <1>4, <2>2, NothingAssumption DEF SelectionOK
    <3>2. b \notin Applicable(f)
      BY <3>1 DEF Applicable
    <3> QED
      BY <1>5, <2>2, <3>1, <3>2
  <2> QED
    BY <2>1, <2>2
<1>9. OnlyCandidate(sel, r)
  BY <1>2, <1>3, <1>4, <1>8 DEF OnlyCandidate
<1> QED
  BY <1>6, <1>7, <1>9

\* Whatever is plugged and recorded, and whatever a caller leaves out,
\* resolve_selector keeps every given field, names only what is attached or was
\* selected while it was, and picks none of several candidates.
THEOREM SelectionsAreNoGuesses == SelectionSpec => []SelectionNeverGuesses
<1>1. IInv => SelectionNeverGuesses
  BY NoGuess DEF IInv, TypeOK
<1> QED
  BY <1>1, Invariance, PTL
=============================================================================
