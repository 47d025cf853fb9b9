---------------------- MODULE ManagedSessions_proofs ----------------------
(***************************************************************************)
(* The lease and stop bookkeeping of the managed sessions is right for any  *)
(* number of requests, sessions and probes, under cancellations and client  *)
(* failures: IInv is inductive.                                             *)
(***************************************************************************)
EXTENDS ManagedSessions, TLAPS

\* No session has been started.
LEMMA InitIInv == Init => IInv
<1> SUFFICES ASSUME Init PROVE IInv
  OBVIOUS
<1> USE NamesAssumption, BoundAssumption DEF Init
<1>1. TypeOK
  BY DEF TypeOK, Phases, Starting, Using, Alive, Sessions
<1>2. RegisteredHoldsLease
  BY DEF RegisteredHoldsLease, Phases, Starting, Using, Alive, Sessions
<1>3. LeaseAccounted
  BY DEF LeaseAccounted, Phases, Starting, Using, Alive, Sessions
<1>4. StarterHoldsLease
  BY DEF StarterHoldsLease, Phases, Starting, Using, Alive, Sessions
<1>5. StartersDiffer
  BY DEF StartersDiffer, Phases, Starting, Using, Alive, Sessions
<1>6. ArgsDrawn
  BY DEF ArgsDrawn, Phases, Starting, Using, Alive, Sessions
<1>7. StopAuditedOnce
  BY DEF StopAuditedOnce, Phases, Starting, Using, Alive, Sessions
<1>8. StoppersDiffer
  BY DEF StoppersDiffer, Phases, Starting, Using, Alive, Sessions
<1>9. StoppedIsAudited
  BY DEF StoppedIsAudited, Phases, Starting, Using, Alive, Sessions
<1>10. RowsMatchLeases
  BY DEF RowsMatchLeases, Phases, Starting, Using, Alive, Sessions
<1> QED
  BY <1>1, <1>2, <1>3, <1>4, <1>5, <1>6, <1>7, <1>8, <1>9, <1>10 DEF IInv

\* A request that is not waiting in a stop, and takes no session out of the
\* backend, leaves every stop record and every stop in progress as they are.
LEMMA StopsUndisturbed ==
    ASSUME IInv, NEW r \in Requests, pc[r] # "stopping",
           \A q \in Requests \ {r} : pc'[q] = pc[q] /\ arg'[q] = arg[q],
           started' \ live' \subseteq started \ live,
           stops' = stops, cut' = cut
    PROVE  StoppedIsAudited'
<1> SUFFICES ASSUME NEW x \in started' \ (live' \cup cut'), stops'[x] # 1
             PROVE  \E q \in Requests : At(q, "stopping", x)'
  BY DEF StoppedIsAudited
<1>1. PICK q \in Requests : At(q, "stopping", x)
  BY DEF IInv, StoppedIsAudited
<1>2. q # r
  BY <1>1 DEF At
<1> QED
  BY <1>1, <1>2 DEF At

\* A start that gives up releases its own lease and nobody else's.
LEMMA AbandonLeases ==
    ASSUME IInv, NEW r \in Requests, pc[r] \in Starting, AbandonStart(r),
           UNCHANGED <<probeOf, tables, started>>
    PROVE  RegisteredHoldsLease' /\ StarterHoldsLease'
<1> USE NamesAssumption DEF IInv, AbandonStart, Released, End, Goto, tables, TypeOK,
        Starting
<1>1. arg[r] \in Sessions \ leased
  BY DEF StarterHoldsLease
<1>2. \A p \in Probes : holder[p] # arg[r] => holder'[p] = holder[p]
  OBVIOUS
<1>3. RegisteredHoldsLease'
  <2>1. ASSUME NEW s \in leased
        PROVE  probeOf[s] # None /\ holder'[probeOf[s]] = s
    <3>1. s # arg[r] /\ s \in Sessions /\ probeOf[s] \in Probes /\ holder[probeOf[s]] = s
      BY <1>1, <2>1 DEF RegisteredHoldsLease
    <3> QED
      BY <1>2, <3>1
  <2> QED
    BY <2>1 DEF RegisteredHoldsLease
<1>4. StarterHoldsLease'
  <2>1. ASSUME NEW q \in Requests, pc'[q] \in Starting
        PROVE  /\ arg'[q] \in Sessions \ (leased' \cup started')
               /\ probeOf'[arg'[q]] # None
               /\ holder'[probeOf'[arg'[q]]] = arg'[q]
    <3>1. q # r /\ pc'[q] = pc[q] /\ arg'[q] = arg[q]
      BY <2>1
    <3>2. /\ arg[q] \in Sessions \ (leased \cup started)
          /\ probeOf[arg[q]] # None /\ holder[probeOf[arg[q]]] = arg[q]
      BY <2>1, <3>1 DEF StarterHoldsLease
    <3>3. arg[q] # arg[r] /\ probeOf[arg[q]] \in Probes
      BY <2>1, <3>1, <3>2 DEF StartersDiffer
    <3> QED
      BY <1>2, <3>1, <3>2, <3>3
  <2>2. ASSUME NEW q \in Requests, pc'[q] = "serial"
        PROVE  \E p \in Probes : holder'[p] = q
    <3>1. q # r /\ pc[q] = "serial"
      BY <2>2
    <3>2. PICK p \in Probes : holder[p] = q
      BY <3>1 DEF StarterHoldsLease
    <3> QED
      BY <1>1, <1>2, <3>2
  <2> QED
    BY <2>1, <2>2 DEF StarterHoldsLease
<1> QED
  BY <1>3, <1>4

\* A start takes a free probe for a fresh session id.
LEMMA StartKeeps ==
    ASSUME IInv, NEW r \in Requests, NEW s \in Sessions, NEW p \in Probes, Start(r, s, p)
    PROVE  IInv'
<1> USE NamesAssumption, BoundAssumption DEF IInv, Start, tables, audit,
       Goto, End, Starting, Using, Phases, Alive, TypeOK
<1>1. TypeOK'
  OBVIOUS
<1>2. RegisteredHoldsLease'
  BY DEF RegisteredHoldsLease
<1>3. LeaseAccounted'
  BY DEF LeaseAccounted
<1>4. StarterHoldsLease'
  <2>1. s \notin leased \cup started
    BY DEF RegisteredHoldsLease, ArgsDrawn
  <2>2. \A q \in Requests : pc[q] \in Starting => arg[q] # s /\ probeOf[arg[q]] # p
    BY DEF StarterHoldsLease, Sessions
  <2>3. \A q \in Requests : pc[q] = "serial" => \E x \in Probes : x # p /\ holder[x] = q
    BY DEF StarterHoldsLease
  <2>4. ASSUME NEW q \in Requests, pc'[q] \in Starting
        PROVE  /\ arg'[q] \in Sessions \ (leased' \cup started')
               /\ probeOf'[arg'[q]] # None
               /\ holder'[probeOf'[arg'[q]]] = arg'[q]
    <3>1. CASE q = r
      BY <2>1, <3>1
    <3>2. CASE q # r
      BY <2>2, <2>4, <3>2 DEF StarterHoldsLease
    <3> QED
      BY <3>1, <3>2
  <2>5. ASSUME NEW q \in Requests, pc'[q] = "serial"
        PROVE  \E x \in Probes : holder'[x] = q
    <3>1. q # r /\ pc[q] = "serial"
      BY <2>5
    <3>2. PICK x \in Probes : x # p /\ holder[x] = q
      BY <2>3, <3>1
    <3> QED
      BY <3>2
  <2> QED
    BY <2>4, <2>5 DEF StarterHoldsLease
<1>5. StartersDiffer'
  BY DEF StartersDiffer, StarterHoldsLease
<1>6. ArgsDrawn'
  BY DEF ArgsDrawn
<1>7. StopAuditedOnce'
  BY DEF StopAuditedOnce
<1>8. StoppersDiffer'
  BY DEF StoppersDiffer
<1>9. StoppedIsAudited'
  BY StopsUndisturbed
<1>10. RowsMatchLeases'
  BY DEF RowsMatchLeases
<1> QED
  BY <1>1, <1>2, <1>3, <1>4, <1>5, <1>6, <1>7, <1>8, <1>9, <1>10

\* The preflight raises: the lease is released.
LEMMA PreflightFailsKeeps ==
    ASSUME IInv, NEW r \in Requests, PreflightFails(r)
    PROVE  IInv'
<1> USE NamesAssumption, BoundAssumption DEF IInv, PreflightFails, AbandonStart, Released, tables, audit,
       Goto, End, Starting, Using, Phases, Alive, TypeOK
<1>1. TypeOK'
  OBVIOUS
<1>2. RegisteredHoldsLease'
  BY AbandonLeases
<1>3. LeaseAccounted'
  BY DEF LeaseAccounted
<1>4. StarterHoldsLease'
  BY AbandonLeases
<1>5. StartersDiffer'
  BY DEF StartersDiffer
<1>6. ArgsDrawn'
  BY DEF ArgsDrawn
<1>7. StopAuditedOnce'
  BY DEF StopAuditedOnce
<1>8. StoppersDiffer'
  BY DEF StoppersDiffer
<1>9. StoppedIsAudited'
  BY StopsUndisturbed
<1>10. RowsMatchLeases'
  BY DEF RowsMatchLeases
<1> QED
  BY <1>1, <1>2, <1>3, <1>4, <1>5, <1>6, <1>7, <1>8, <1>9, <1>10

\* The process is spawned.
LEMMA SpawnKeeps ==
    ASSUME IInv, NEW r \in Requests, Spawn(r)
    PROVE  IInv'
<1> USE NamesAssumption, BoundAssumption DEF IInv, Spawn, tables, audit,
       Goto, End, Starting, Using, Phases, Alive, TypeOK
<1>1. TypeOK'
  OBVIOUS
<1>2. RegisteredHoldsLease'
  BY DEF RegisteredHoldsLease
<1>3. LeaseAccounted'
  BY DEF LeaseAccounted
<1>4. StarterHoldsLease'
  BY DEF StarterHoldsLease
<1>5. StartersDiffer'
  BY DEF StartersDiffer
<1>6. ArgsDrawn'
  BY DEF ArgsDrawn
<1>7. StopAuditedOnce'
  BY DEF StopAuditedOnce
<1>8. StoppersDiffer'
  BY DEF StoppersDiffer
<1>9. StoppedIsAudited'
  BY StopsUndisturbed
<1>10. RowsMatchLeases'
  BY DEF RowsMatchLeases
<1> QED
  BY <1>1, <1>2, <1>3, <1>4, <1>5, <1>6, <1>7, <1>8, <1>9, <1>10

\* The session is registered.
LEMMA LaunchOkKeeps ==
    ASSUME IInv, NEW r \in Requests, LaunchOk(r)
    PROVE  IInv'
<1> USE NamesAssumption, BoundAssumption DEF IInv, LaunchOk,
       Goto, End, Starting, Using, Phases, Alive, TypeOK
<1>1. TypeOK'
  BY DEF StarterHoldsLease, Sessions
<1>2. RegisteredHoldsLease'
  BY DEF RegisteredHoldsLease, StarterHoldsLease
<1>3. LeaseAccounted'
  BY DEF LeaseAccounted
<1>4. StarterHoldsLease'
  BY DEF StarterHoldsLease, StartersDiffer
<1>5. StartersDiffer'
  BY DEF StartersDiffer
<1>6. ArgsDrawn'
  BY DEF ArgsDrawn, StarterHoldsLease
<1>7. StopAuditedOnce'
  BY DEF StopAuditedOnce, StarterHoldsLease
<1>8. StoppersDiffer'
  BY DEF StoppersDiffer, StarterHoldsLease
<1>9. StoppedIsAudited'
  BY StopsUndisturbed DEF StarterHoldsLease
<1>10. RowsMatchLeases'
  BY DEF RowsMatchLeases
<1> QED
  BY <1>1, <1>2, <1>3, <1>4, <1>5, <1>6, <1>7, <1>8, <1>9, <1>10

\* The process ended early.
LEMMA LaunchFailsKeeps ==
    ASSUME IInv, NEW r \in Requests, LaunchFails(r)
    PROVE  IInv'
<1> USE NamesAssumption, BoundAssumption DEF IInv, LaunchFails, AbandonStart, Released, tables, audit,
       Goto, End, Starting, Using, Phases, Alive, TypeOK
<1>1. TypeOK'
  OBVIOUS
<1>2. RegisteredHoldsLease'
  BY AbandonLeases
<1>3. LeaseAccounted'
  BY DEF LeaseAccounted
<1>4. StarterHoldsLease'
  BY AbandonLeases
<1>5. StartersDiffer'
  BY DEF StartersDiffer
<1>6. ArgsDrawn'
  BY DEF ArgsDrawn
<1>7. StopAuditedOnce'
  BY DEF StopAuditedOnce
<1>8. StoppersDiffer'
  BY DEF StoppersDiffer
<1>9. StoppedIsAudited'
  BY StopsUndisturbed
<1>10. RowsMatchLeases'
  BY DEF RowsMatchLeases
<1> QED
  BY <1>1, <1>2, <1>3, <1>4, <1>5, <1>6, <1>7, <1>8, <1>9, <1>10

\* The server is terminated.
LEMMA LaunchAbortsKeeps ==
    ASSUME IInv, NEW r \in Requests, LaunchAborts(r)
    PROVE  IInv'
<1> USE NamesAssumption, BoundAssumption DEF IInv, LaunchAborts, tables, audit,
       Goto, End, Starting, Using, Phases, Alive, TypeOK
<1>1. TypeOK'
  OBVIOUS
<1>2. RegisteredHoldsLease'
  BY DEF RegisteredHoldsLease
<1>3. LeaseAccounted'
  BY DEF LeaseAccounted
<1>4. StarterHoldsLease'
  BY DEF StarterHoldsLease
<1>5. StartersDiffer'
  BY DEF StartersDiffer
<1>6. ArgsDrawn'
  BY DEF ArgsDrawn
<1>7. StopAuditedOnce'
  BY DEF StopAuditedOnce
<1>8. StoppersDiffer'
  BY DEF StoppersDiffer
<1>9. StoppedIsAudited'
  BY StopsUndisturbed
<1>10. RowsMatchLeases'
  BY DEF RowsMatchLeases
<1> QED
  BY <1>1, <1>2, <1>3, <1>4, <1>5, <1>6, <1>7, <1>8, <1>9, <1>10

\* The terminated server is gone.
LEMMA AbortEndsKeeps ==
    ASSUME IInv, NEW r \in Requests, AbortEnds(r)
    PROVE  IInv'
<1> USE NamesAssumption, BoundAssumption DEF IInv, AbortEnds, AbandonStart, Released, tables, audit,
       Goto, End, Starting, Using, Phases, Alive, TypeOK
<1>1. TypeOK'
  OBVIOUS
<1>2. RegisteredHoldsLease'
  BY AbandonLeases
<1>3. LeaseAccounted'
  BY DEF LeaseAccounted
<1>4. StarterHoldsLease'
  BY AbandonLeases
<1>5. StartersDiffer'
  BY DEF StartersDiffer
<1>6. ArgsDrawn'
  BY DEF ArgsDrawn
<1>7. StopAuditedOnce'
  BY DEF StopAuditedOnce
<1>8. StoppersDiffer'
  BY DEF StoppersDiffer
<1>9. StoppedIsAudited'
  BY StopsUndisturbed
<1>10. RowsMatchLeases'
  BY DEF RowsMatchLeases
<1> QED
  BY <1>1, <1>2, <1>3, <1>4, <1>5, <1>6, <1>7, <1>8, <1>9, <1>10

\* The GDB client fails.
LEMMA ClientFailsKeeps ==
    ASSUME IInv, NEW r \in Requests, ClientFails(r)
    PROVE  IInv'
<1> USE NamesAssumption, BoundAssumption DEF IInv, ClientFails, AbandonStart, Released, tables, audit,
       Goto, End, Starting, Using, Phases, Alive, TypeOK
<1>1. TypeOK'
  OBVIOUS
<1>2. RegisteredHoldsLease'
  BY AbandonLeases
<1>3. LeaseAccounted'
  BY DEF LeaseAccounted
<1>4. StarterHoldsLease'
  BY AbandonLeases
<1>5. StartersDiffer'
  BY DEF StartersDiffer
<1>6. ArgsDrawn'
  BY DEF ArgsDrawn
<1>7. StopAuditedOnce'
  BY DEF StopAuditedOnce
<1>8. StoppersDiffer'
  BY DEF StoppersDiffer
<1>9. StoppedIsAudited'
  BY StopsUndisturbed
<1>10. RowsMatchLeases'
  BY DEF RowsMatchLeases
<1> QED
  BY <1>1, <1>2, <1>3, <1>4, <1>5, <1>6, <1>7, <1>8, <1>9, <1>10

\* A stop with nothing to wait for.
LEMMA StopAtOnceKeeps ==
    ASSUME IInv, NEW r \in Requests, NEW s \in Sessions, StopAtOnce(r, s)
    PROVE  IInv'
<1> USE NamesAssumption, BoundAssumption DEF IInv, StopAtOnce, MayStop, Stopped, DropLease, Released, Return,
       Goto, End, Starting, Using, Phases, Alive, TypeOK
<1>1. TypeOK'
  OBVIOUS
<1>2. RegisteredHoldsLease'
  BY DEF RegisteredHoldsLease
<1>3. LeaseAccounted'
  BY DEF LeaseAccounted
<1>4. StarterHoldsLease'
  BY DEF StarterHoldsLease
<1>5. StartersDiffer'
  BY DEF StartersDiffer
<1>6. ArgsDrawn'
  BY DEF ArgsDrawn
<1>7. StopAuditedOnce'
  BY DEF StopAuditedOnce, RegisteredHoldsLease, ArgsDrawn, StoppersDiffer
<1>8. StoppersDiffer'
  BY DEF StoppersDiffer
<1>9. StoppedIsAudited'
  <2>1. CASE s \in live
    <3> SUFFICES ASSUME NEW x \in started \ (live' \cup cut)
                 PROVE  stops'[x] = 1 \/ \E q \in Requests : At(q, "stopping", x)'
      BY DEF StoppedIsAudited
    <3>1. CASE x = s
      BY <2>1, <3>1 DEF StopAuditedOnce
    <3>2. CASE x # s /\ stops[x] = 1
      BY <3>2
    <3>3. CASE x # s /\ \E q \in Requests : At(q, "stopping", x)
      <4>1. PICK q \in Requests : At(q, "stopping", x)
        BY <3>3
      <4>2. q # r
        BY <4>1 DEF At
      <4> QED
        BY <4>1, <4>2 DEF At
    <3> QED
      BY <3>1, <3>2, <3>3 DEF StoppedIsAudited
  <2>2. CASE s \notin live
    BY <2>2, StopsUndisturbed
  <2> QED
    BY <2>1, <2>2
<1>10. RowsMatchLeases'
  BY DEF RowsMatchLeases
<1> QED
  BY <1>1, <1>2, <1>3, <1>4, <1>5, <1>6, <1>7, <1>8, <1>9, <1>10

\* A stop that waits for the process.
LEMMA StopBeginKeeps ==
    ASSUME IInv, NEW r \in Requests, NEW s \in Sessions, StopBegin(r, s)
    PROVE  IInv'
<1> USE NamesAssumption, BoundAssumption DEF IInv, StopBegin, MayStop, audit,
       Goto, End, Starting, Using, Phases, Alive, TypeOK
<1>1. TypeOK'
  OBVIOUS
<1>2. RegisteredHoldsLease'
  BY DEF RegisteredHoldsLease
<1>3. LeaseAccounted'
  BY DEF LeaseAccounted
<1>4. StarterHoldsLease'
  BY DEF StarterHoldsLease
<1>5. StartersDiffer'
  BY DEF StartersDiffer
<1>6. ArgsDrawn'
  BY DEF ArgsDrawn
<1>7. StopAuditedOnce'
  BY DEF StopAuditedOnce
<1>8. StoppersDiffer'
  BY DEF StoppersDiffer, StopAuditedOnce, RegisteredHoldsLease, ArgsDrawn
<1>9. StoppedIsAudited'
  <2> SUFFICES ASSUME NEW x \in started \ (live' \cup cut)
               PROVE  stops[x] = 1 \/ \E q \in Requests : At(q, "stopping", x)'
    BY DEF StoppedIsAudited
  <2>1. CASE x = s
    BY <2>1 DEF At
  <2>2. CASE x # s
    <3>1. CASE stops[x] = 1
      BY <3>1
    <3>2. CASE \E q \in Requests : At(q, "stopping", x)
      <4>1. PICK q \in Requests : At(q, "stopping", x)
        BY <3>2
      <4>2. q # r
        BY <4>1 DEF At
      <4> QED
        BY <4>1, <4>2 DEF At
    <3> QED
      BY <2>2, <3>1, <3>2 DEF StoppedIsAudited
  <2> QED
    BY <2>1, <2>2
<1>10. RowsMatchLeases'
  BY DEF RowsMatchLeases
<1> QED
  BY <1>1, <1>2, <1>3, <1>4, <1>5, <1>6, <1>7, <1>8, <1>9, <1>10

\* SIGKILL.
LEMMA KillKeeps ==
    ASSUME IInv, NEW r \in Requests, Kill(r)
    PROVE  IInv'
<1> USE NamesAssumption, BoundAssumption DEF IInv, Kill, tables, audit,
       Goto, End, Starting, Using, Phases, Alive, TypeOK
<1>1. TypeOK'
  OBVIOUS
<1>2. RegisteredHoldsLease'
  BY DEF RegisteredHoldsLease
<1>3. LeaseAccounted'
  BY DEF LeaseAccounted
<1>4. StarterHoldsLease'
  BY DEF StarterHoldsLease
<1>5. StartersDiffer'
  BY DEF StartersDiffer
<1>6. ArgsDrawn'
  BY DEF ArgsDrawn
<1>7. StopAuditedOnce'
  BY DEF StopAuditedOnce
<1>8. StoppersDiffer'
  BY DEF StoppersDiffer
<1>9. StoppedIsAudited'
  BY DEF StoppedIsAudited, At
<1>10. RowsMatchLeases'
  BY DEF RowsMatchLeases
<1> QED
  BY <1>1, <1>2, <1>3, <1>4, <1>5, <1>6, <1>7, <1>8, <1>9, <1>10

\* The stopped process is gone.
LEMMA StopEndKeeps ==
    ASSUME IInv, NEW r \in Requests, StopEnd(r)
    PROVE  IInv'
<1> USE NamesAssumption, BoundAssumption DEF IInv, StopEnd, Stopped, DropLease, Released, Return,
       Goto, End, Starting, Using, Phases, Alive, TypeOK
<1>1. TypeOK'
  BY DEF ArgsDrawn
<1>2. RegisteredHoldsLease'
  BY DEF RegisteredHoldsLease, StoppersDiffer, ArgsDrawn
<1>3. LeaseAccounted'
  BY DEF LeaseAccounted
<1>4. StarterHoldsLease'
  BY DEF StarterHoldsLease
<1>5. StartersDiffer'
  BY DEF StartersDiffer
<1>6. ArgsDrawn'
  BY DEF ArgsDrawn
<1>7. StopAuditedOnce'
  BY DEF StopAuditedOnce, StoppersDiffer
<1>8. StoppersDiffer'
  BY DEF StoppersDiffer
<1>9. StoppedIsAudited'
  <2> SUFFICES ASSUME NEW x \in started \ (live \cup cut)
               PROVE  stops'[x] = 1 \/ \E q \in Requests : At(q, "stopping", x)'
    BY DEF StoppedIsAudited
  <2>1. CASE x = arg[r]
    BY <2>1 DEF StoppersDiffer
  <2>2. CASE x # arg[r] /\ stops[x] = 1
    BY <2>2
  <2>3. CASE x # arg[r] /\ \E q \in Requests : At(q, "stopping", x)
    <3>1. PICK q \in Requests : At(q, "stopping", x)
      BY <2>3
    <3>2. q # r
      BY <2>3, <3>1 DEF At
    <3> QED
      BY <3>1, <3>2 DEF At
  <2> QED
    BY <2>1, <2>2, <2>3 DEF StoppedIsAudited
<1>10. RowsMatchLeases'
  BY DEF RowsMatchLeases, StoppersDiffer
<1> QED
  BY <1>1, <1>2, <1>3, <1>4, <1>5, <1>6, <1>7, <1>8, <1>9, <1>10

\* close() lists the lease tables.
LEMMA CloseKeeps ==
    ASSUME IInv, NEW r \in Requests, Close(r)
    PROVE  IInv'
<1> USE NamesAssumption, BoundAssumption DEF IInv, Close, tables, audit,
       Goto, End, Starting, Using, Phases, Alive, TypeOK
<1>1. TypeOK'
  OBVIOUS
<1>2. RegisteredHoldsLease'
  BY DEF RegisteredHoldsLease
<1>3. LeaseAccounted'
  BY DEF LeaseAccounted
<1>4. StarterHoldsLease'
  BY DEF StarterHoldsLease
<1>5. StartersDiffer'
  BY DEF StartersDiffer
<1>6. ArgsDrawn'
  BY DEF ArgsDrawn
<1>7. StopAuditedOnce'
  BY DEF StopAuditedOnce
<1>8. StoppersDiffer'
  BY DEF StoppersDiffer
<1>9. StoppedIsAudited'
  BY StopsUndisturbed
<1>10. RowsMatchLeases'
  BY DEF RowsMatchLeases
<1> QED
  BY <1>1, <1>2, <1>3, <1>4, <1>5, <1>6, <1>7, <1>8, <1>9, <1>10

\* A command is sent.
LEMMA CommandKeeps ==
    ASSUME IInv, NEW r \in Requests, NEW s \in Sessions, Command(r, s)
    PROVE  IInv'
<1> USE NamesAssumption, BoundAssumption DEF IInv, Command, tables,
       Goto, End, Starting, Using, Phases, Alive, TypeOK
<1>1. TypeOK'
  OBVIOUS
<1>2. RegisteredHoldsLease'
  BY DEF RegisteredHoldsLease
<1>3. LeaseAccounted'
  BY DEF LeaseAccounted
<1>4. StarterHoldsLease'
  BY DEF StarterHoldsLease
<1>5. StartersDiffer'
  BY DEF StartersDiffer
<1>6. ArgsDrawn'
  BY DEF ArgsDrawn
<1>7. StopAuditedOnce'
  BY DEF StopAuditedOnce
<1>8. StoppersDiffer'
  BY DEF StoppersDiffer
<1>9. StoppedIsAudited'
  BY StopsUndisturbed
<1>10. RowsMatchLeases'
  BY DEF RowsMatchLeases
<1> QED
  BY <1>1, <1>2, <1>3, <1>4, <1>5, <1>6, <1>7, <1>8, <1>9, <1>10

\* A command is done.
LEMMA CommandDoneKeeps ==
    ASSUME IInv, NEW r \in Requests, CommandDone(r)
    PROVE  IInv'
<1> USE NamesAssumption, BoundAssumption DEF IInv, CommandDone, tables,
       Goto, End, Starting, Using, Phases, Alive, TypeOK
<1>1. TypeOK'
  BY DEF ArgsDrawn
<1>2. RegisteredHoldsLease'
  BY DEF RegisteredHoldsLease
<1>3. LeaseAccounted'
  BY DEF LeaseAccounted
<1>4. StarterHoldsLease'
  BY DEF StarterHoldsLease
<1>5. StartersDiffer'
  BY DEF StartersDiffer
<1>6. ArgsDrawn'
  BY DEF ArgsDrawn
<1>7. StopAuditedOnce'
  BY DEF StopAuditedOnce
<1>8. StoppersDiffer'
  BY DEF StoppersDiffer
<1>9. StoppedIsAudited'
  BY StopsUndisturbed
<1>10. RowsMatchLeases'
  BY DEF RowsMatchLeases
<1> QED
  BY <1>1, <1>2, <1>3, <1>4, <1>5, <1>6, <1>7, <1>8, <1>9, <1>10

\* A serial exchange on a GDB session.
LEMMA SerialDirectKeeps ==
    ASSUME IInv, NEW r \in Requests, NEW s \in Sessions, SerialDirect(r, s)
    PROVE  IInv'
<1> USE NamesAssumption, BoundAssumption DEF IInv, SerialDirect, tables, audit,
       Goto, End, Starting, Using, Phases, Alive, TypeOK
<1>1. TypeOK'
  OBVIOUS
<1>2. RegisteredHoldsLease'
  BY DEF RegisteredHoldsLease
<1>3. LeaseAccounted'
  BY DEF LeaseAccounted
<1>4. StarterHoldsLease'
  BY DEF StarterHoldsLease
<1>5. StartersDiffer'
  BY DEF StartersDiffer
<1>6. ArgsDrawn'
  BY DEF ArgsDrawn
<1>7. StopAuditedOnce'
  BY DEF StopAuditedOnce
<1>8. StoppersDiffer'
  BY DEF StoppersDiffer
<1>9. StoppedIsAudited'
  BY StopsUndisturbed
<1>10. RowsMatchLeases'
  BY DEF RowsMatchLeases
<1> QED
  BY <1>1, <1>2, <1>3, <1>4, <1>5, <1>6, <1>7, <1>8, <1>9, <1>10

\* A serial exchange in its own context.
LEMMA SerialLeasedKeeps ==
    ASSUME IInv, NEW r \in Requests, NEW p \in Probes, SerialLeased(r, p)
    PROVE  IInv'
<1> USE NamesAssumption, BoundAssumption DEF IInv, SerialLeased, tables, audit,
       Goto, End, Starting, Using, Phases, Alive, TypeOK
<1>1. TypeOK'
  OBVIOUS
<1>2. RegisteredHoldsLease'
  BY DEF RegisteredHoldsLease
<1>3. LeaseAccounted'
  BY DEF LeaseAccounted
<1>4. StarterHoldsLease'
  BY DEF StarterHoldsLease
<1>5. StartersDiffer'
  BY DEF StartersDiffer
<1>6. ArgsDrawn'
  BY DEF ArgsDrawn
<1>7. StopAuditedOnce'
  BY DEF StopAuditedOnce
<1>8. StoppersDiffer'
  BY DEF StoppersDiffer
<1>9. StoppedIsAudited'
  BY StopsUndisturbed
<1>10. RowsMatchLeases'
  BY DEF RowsMatchLeases
<1> QED
  BY <1>1, <1>2, <1>3, <1>4, <1>5, <1>6, <1>7, <1>8, <1>9, <1>10

\* The exchange is over.
LEMMA SerialEndsKeeps ==
    ASSUME IInv, NEW r \in Requests, SerialEnds(r)
    PROVE  IInv'
<1> USE NamesAssumption, BoundAssumption DEF IInv, SerialEnds, Released, tables, audit,
       Goto, End, Starting, Using, Phases, Alive, TypeOK
<1>1. TypeOK'
  OBVIOUS
<1>2. RegisteredHoldsLease'
  BY DEF RegisteredHoldsLease
<1>3. LeaseAccounted'
  BY DEF LeaseAccounted
<1>4. StarterHoldsLease'
  BY DEF StarterHoldsLease
<1>5. StartersDiffer'
  BY DEF StartersDiffer
<1>6. ArgsDrawn'
  BY DEF ArgsDrawn
<1>7. StopAuditedOnce'
  BY DEF StopAuditedOnce
<1>8. StoppersDiffer'
  BY DEF StoppersDiffer
<1>9. StoppedIsAudited'
  BY StopsUndisturbed
<1>10. RowsMatchLeases'
  BY DEF RowsMatchLeases
<1> QED
  BY <1>1, <1>2, <1>3, <1>4, <1>5, <1>6, <1>7, <1>8, <1>9, <1>10

\* A cancelled stop drops the lease only.
LEMMA CancelStopKeeps ==
    ASSUME IInv, NEW r \in Requests, CancelStop(r)
    PROVE  IInv'
<1> USE NamesAssumption, BoundAssumption DEF IInv, CancelStop, DropLease, Released, audit,
       Goto, End, Starting, Using, Phases, Alive, TypeOK
<1>1. TypeOK'
  BY DEF ArgsDrawn
<1>2. RegisteredHoldsLease'
  BY DEF RegisteredHoldsLease, StoppersDiffer, ArgsDrawn
<1>3. LeaseAccounted'
  BY DEF LeaseAccounted
<1>4. StarterHoldsLease'
  BY DEF StarterHoldsLease
<1>5. StartersDiffer'
  BY DEF StartersDiffer
<1>6. ArgsDrawn'
  BY DEF ArgsDrawn
<1>7. StopAuditedOnce'
  BY DEF StopAuditedOnce
<1>8. StoppersDiffer'
  BY DEF StoppersDiffer
<1>9. StoppedIsAudited'
  <2> SUFFICES ASSUME NEW x \in started \ (live \cup cut'), stops[x] # 1
               PROVE  \E q \in Requests : At(q, "stopping", x)'
    BY DEF StoppedIsAudited
  <2>1. PICK q \in Requests : At(q, "stopping", x)
    BY DEF StoppedIsAudited
  <2>2. q # r
    BY <2>1 DEF At
  <2> QED
    BY <2>1, <2>2 DEF At
<1>10. RowsMatchLeases'
  BY DEF RowsMatchLeases
<1> QED
  BY <1>1, <1>2, <1>3, <1>4, <1>5, <1>6, <1>7, <1>8, <1>9, <1>10

\* A request is cancelled elsewhere.
LEMMA CancelKeeps ==
    ASSUME IInv, NEW r \in Requests, Cancel(r)
    PROVE  IInv'
<1> USE NamesAssumption, BoundAssumption DEF IInv, Cancel, AbandonStart, Released, tables, audit,
       Goto, End, Starting, Using, Phases, Alive, TypeOK
<1>1. TypeOK'
  OBVIOUS
<1>2. RegisteredHoldsLease'
  <2>1. CASE pc[r] \in Starting
    BY <2>1, AbandonLeases
  <2>2. CASE pc[r] \in {"commanding", "direct", "serial"}
    BY <2>2 DEF RegisteredHoldsLease, Sessions
  <2> QED
    BY <2>1, <2>2
<1>3. LeaseAccounted'
  BY DEF LeaseAccounted
<1>4. StarterHoldsLease'
  <2>1. CASE pc[r] \in Starting
    BY <2>1, AbandonLeases
  <2>2. CASE pc[r] \in {"commanding", "direct", "serial"}
    BY <2>2 DEF StarterHoldsLease, Sessions
  <2> QED
    BY <2>1, <2>2
<1>5. StartersDiffer'
  BY DEF StartersDiffer
<1>6. ArgsDrawn'
  BY DEF ArgsDrawn
<1>7. StopAuditedOnce'
  BY DEF StopAuditedOnce
<1>8. StoppersDiffer'
  BY DEF StoppersDiffer
<1>9. StoppedIsAudited'
  BY StopsUndisturbed
<1>10. RowsMatchLeases'
  BY DEF RowsMatchLeases
<1> QED
  BY <1>1, <1>2, <1>3, <1>4, <1>5, <1>6, <1>7, <1>8, <1>9, <1>10

\* A process ends.
LEMMA ExitsKeeps ==
    ASSUME IInv, NEW s \in Sessions, Exits(s)
    PROVE  IInv'
<1> USE NamesAssumption, BoundAssumption DEF IInv, Exits, tables, audit,
       Goto, End, Starting, Using, Phases, Alive, TypeOK
<1>1. TypeOK'
  OBVIOUS
<1>2. RegisteredHoldsLease'
  BY DEF RegisteredHoldsLease
<1>3. LeaseAccounted'
  BY DEF LeaseAccounted
<1>4. StarterHoldsLease'
  BY DEF StarterHoldsLease
<1>5. StartersDiffer'
  BY DEF StartersDiffer
<1>6. ArgsDrawn'
  BY DEF ArgsDrawn
<1>7. StopAuditedOnce'
  BY DEF StopAuditedOnce
<1>8. StoppersDiffer'
  BY DEF StoppersDiffer
<1>9. StoppedIsAudited'
  BY DEF StoppedIsAudited, At
<1>10. RowsMatchLeases'
  BY DEF RowsMatchLeases
<1> QED
  BY <1>1, <1>2, <1>3, <1>4, <1>5, <1>6, <1>7, <1>8, <1>9, <1>10

\* Every step keeps the invariant.
LEMMA NextIInv == IInv /\ [Next]_vars => IInv'
<1> SUFFICES ASSUME IInv, [Next]_vars PROVE IInv'
  OBVIOUS
<1>1. CASE UNCHANGED vars
  BY <1>1 DEF vars, tables, audit, IInv, TypeOK, RegisteredHoldsLease, LeaseAccounted,
              StarterHoldsLease, StartersDiffer, ArgsDrawn, StopAuditedOnce,
              StoppersDiffer, StoppedIsAudited, RowsMatchLeases, At
<1>2. ASSUME NEW r \in Requests, RequestStep(r)
      PROVE  IInv'
  <2>1. CASE StartStep(r)
    BY <2>1, PreflightFailsKeeps, SpawnKeeps, LaunchOkKeeps, LaunchFailsKeeps,
       LaunchAbortsKeeps, AbortEndsKeeps, ClientFailsKeeps DEF StartStep
  <2>2. ASSUME NEW s \in Sessions, NEW p \in Probes, Start(r, s, p)
        PROVE  IInv'
    BY <2>2, StartKeeps
  <2>3. ASSUME NEW s \in Sessions,
               StopAtOnce(r, s) \/ StopBegin(r, s) \/ Command(r, s) \/ SerialDirect(r, s)
        PROVE  IInv'
    BY <2>3, StopAtOnceKeeps, StopBeginKeeps, CommandKeeps, SerialDirectKeeps
  <2>4. ASSUME NEW p \in Probes, SerialLeased(r, p)
        PROVE  IInv'
    BY <2>4, SerialLeasedKeeps
  <2> QED
    BY <1>2, <2>1, <2>2, <2>3, <2>4, KillKeeps, StopEndKeeps, CloseKeeps,
       CommandDoneKeeps, SerialEndsKeeps, CancelStopKeeps, CancelKeeps DEF RequestStep
<1>3. ASSUME NEW s \in Sessions, Exits(s)
      PROVE  IInv'
  BY <1>3, ExitsKeeps
<1> QED
  BY <1>1, <1>2, <1>3 DEF Next

\* The session tables and leases of the service stay consistent in every
\* behaviour (service.py, start_gdb to close).
THEOREM Invariance == Spec => []IInv
  BY InitIInv, NextIInv, PTL DEF Spec

\* A registered session holds the lease of its probe.
THEOREM SessionsHoldLeases == Spec => []RegisteredHoldsLease
  BY Invariance, PTL DEF IInv

\* No lease is ever lost, and a start or serial exchange in progress holds its
\* probe: no other stop takes it away (stop_gdb, _preflight).
THEOREM LeasesKept == Spec => []LeasesHaveUsers
  BY Invariance, PTL DEF IInv, LeasesHaveUsers

\* A session that is over has one stop record, unless its stop was cancelled
\* (stop_gdb, stop_gui, close).
THEOREM StopsAreAudited == Spec => []StopsAudited
  BY Invariance, PTL DEF IInv, StopsAudited

\* What a restart would clear is what was running.
THEOREM RowsAreLeased == Spec => []RowsMatchLeases
  BY Invariance, PTL DEF IInv
=============================================================================
