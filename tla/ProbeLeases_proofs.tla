------------------------- MODULE ProbeLeases_proofs -------------------------
(***************************************************************************)
(* The safety of ProbeLeaseManager for every set of probes, tasks and ids:  *)
(* IInv is inductive, the checked invariants follow from it, and the        *)
(* manager implements ExclusiveGrant.                                       *)
(***************************************************************************)
EXTENDS ProbeLeases, TLAPS

\* deque.remove: one waiter leaves, the others keep their order.
LEMMA WithoutFacts ==
    ASSUME NEW S, NEW ws \in Seq(S), NEW i \in DOMAIN ws
    PROVE  /\ Without(ws, i) \in Seq(S)
           /\ Len(Without(ws, i)) = Len(ws) - 1
           /\ DOMAIN Without(ws, i) = 1..(Len(ws) - 1)
           /\ \A j \in 1..(Len(ws) - 1) :
                 Without(ws, i)[j] = IF j < i THEN ws[j] ELSE ws[j + 1]
<1>1. Len(ws) \in Nat /\ DOMAIN ws = 1..Len(ws) /\ Len(ws) - 1 \in Nat
  OBVIOUS
<1>2. \A j \in 1..(Len(ws) - 1) : (IF j < i THEN ws[j] ELSE ws[j + 1]) \in S
  BY <1>1
<1>3. Without(ws, i) \in Seq(S)
  BY <1>1, <1>2 DEF Without
<1> QED
  BY <1>1, <1>3 DEF Without

\* Removing another waiter leaves the head of the queue.
LEMMA HeadStays ==
    ASSUME NEW S, NEW ws \in Seq(S), NEW i \in DOMAIN ws, i # 1
    PROVE  Without(ws, i) # <<>> /\ Without(ws, i)[1] = ws[1]
<1>1. Len(ws) \in Nat /\ i \in 1..Len(ws) /\ 1 \in 1..(Len(ws) - 1)
  OBVIOUS
<1> QED
  BY <1>1, WithoutFacts

\* Waking touches the head's future only, and only when it is pending.
LEMMA WakeUpFacts ==
    ASSUME NEW ws \in Seq(Tasks), NEW f \in [Tasks -> Futures]
    PROVE  /\ WakeUpFirst(ws, f) \in [Tasks -> Futures]
           /\ \A t \in Tasks : WakeUpFirst(ws, f)[t] =
                 IF ws # <<>> /\ t = ws[1] /\ f[t] = "pending" THEN "woken" ELSE f[t]
<1>1. ws # <<>> => Head(ws) = ws[1] /\ ws[1] \in Tasks
  OBVIOUS
<1> QED
  BY <1>1 DEF WakeUpFirst, Futures

\* All locks are free and nobody waits.
LEMMA InitIInv == Init => IInv
<1> SUFFICES ASSUME Init PROVE IInv
  OBVIOUS
<1> USE NoneAssumption, BoundsAssumption DEF Init
<1>1. TypeOK
  BY DEF TypeOK, Futures
<1>2. LockMatchesTables
  BY DEF LockMatchesTables
<1>3. ContextCovered
  BY DEF ContextCovered
<1>4. NoLostWakeup
  BY DEF NoLostWakeup
<1>5. QueueDiscipline
  BY DEF QueueDiscipline
<1>6. ContextIdsPrivate
  BY DEF ContextIdsPrivate
<1> QED
  BY <1>1, <1>2, <1>3, <1>4, <1>5, <1>6 DEF IInv

\* What a grant does to the tables, whichever way the lock was obtained.
LEMMA GrantedTables ==
    ASSUME IInv, NEW t \in Tasks, NEW p \in Probes, NEW kind,
           ~locked[p], locked' = [locked EXCEPT ![p] = TRUE], Granted(t, p, kind)
    PROVE  /\ active' \in [Probes -> LeaseIds \cup {None}]
           /\ byId' \in [LeaseIds -> Probes \cup {None}]
           /\ leaseTask' \in [LeaseIds -> Tasks \cup {None}]
           /\ ctx' \in [Tasks -> LeaseIds \cup {None}]
           /\ nested' \in [Tasks -> 0..MaxNested]
           /\ sessions' \subseteq issued' /\ issued' \subseteq LeaseIds
           /\ LockMatchesTables' /\ ContextCovered' /\ ContextIdsPrivate'
<1> USE NoneAssumption DEF IInv
<1>1. PICK id \in LeaseIds \ issued :
        /\ active' = [active EXCEPT ![p] = id]
        /\ byId' = [byId EXCEPT ![id] = p]
        /\ leaseTask' = [leaseTask EXCEPT ![id] = t]
        /\ issued' = issued \cup {id}
        /\ \/ ctx' = [ctx EXCEPT ![t] = id] /\ sessions' = sessions
           \/ sessions' = sessions \cup {id} /\ ctx' = ctx
        /\ nested' = nested
  BY DEF Granted
<1>2. active[p] = None
  BY DEF LockMatchesTables
<1>3. \A q \in Probes : active[q] # id
  BY <1>1 DEF LockMatchesTables, TypeOK
<1>4. byId[id] = None
  BY <1>3 DEF LockMatchesTables, TypeOK
<1>5. \A u \in Tasks : ctx[u] # id
  <2>1. id # None
    BY <1>1
  <2>2. ASSUME NEW u \in Tasks, ctx[u] = id PROVE FALSE
    <3>1. PICK q \in Probes : active[q] = ctx[u]
      BY <2>1, <2>2 DEF ContextCovered
    <3> QED
      BY <1>3, <2>2, <3>1
  <2> QED
    BY <2>2
<1>6. /\ active' \in [Probes -> LeaseIds \cup {None}]
      /\ byId' \in [LeaseIds -> Probes \cup {None}]
      /\ leaseTask' \in [LeaseIds -> Tasks \cup {None}]
      /\ ctx' \in [Tasks -> LeaseIds \cup {None}]
      /\ nested' \in [Tasks -> 0..MaxNested]
      /\ sessions' \subseteq issued' /\ issued' \subseteq LeaseIds
  <2>1. /\ active' \in [Probes -> LeaseIds \cup {None}]
        /\ byId' \in [LeaseIds -> Probes \cup {None}]
        /\ leaseTask' \in [LeaseIds -> Tasks \cup {None}]
        /\ nested' \in [Tasks -> 0..MaxNested]
    BY <1>1 DEF TypeOK
  <2>2. ctx' \in [Tasks -> LeaseIds \cup {None}]
    BY <1>1 DEF TypeOK
  <2>3. sessions' \subseteq issued' /\ issued' \subseteq LeaseIds
    BY <1>1 DEF TypeOK
  <2> QED
    BY <2>1, <2>2, <2>3
<1>7. LockMatchesTables'
  BY <1>1, <1>2, <1>3, <1>4 DEF LockMatchesTables, TypeOK
<1>8. ContextCovered'
  <2>1. ASSUME NEW u \in Tasks, ctx'[u] # None
        PROVE  \E q \in Probes : active'[q] = ctx'[u] /\ leaseTask'[active'[q]] = u
    <3>1. CASE ctx'[u] = id
      BY <1>1, <1>5, <3>1 DEF TypeOK
    <3>2. CASE ctx'[u] # id
      <4>1. ctx'[u] = ctx[u]
        BY <1>1, <3>2 DEF TypeOK
      <4>2. PICK q \in Probes : active[q] = ctx[u] /\ leaseTask[active[q]] = u
        BY <2>1, <4>1 DEF ContextCovered, OwnLease
      <4>3. q # p
        BY <1>2, <2>1, <4>1, <4>2
      <4> QED
        BY <1>1, <1>3, <2>1, <4>1, <4>2, <4>3 DEF TypeOK
    <3> QED
      BY <3>1, <3>2
  <2>2. ASSUME NEW u \in Tasks, nested'[u] > 0
        PROVE  ctx'[u] # None
    BY <1>1, <2>2 DEF ContextCovered, TypeOK
  <2> QED
    BY <1>6, <2>1, <2>2 DEF ContextCovered, OwnLease
<1>9. ContextIdsPrivate'
  <2>1. id \notin sessions /\ \A u \in Tasks : ctx[u] \notin sessions /\ ctx[u] # id
    BY <1>5 DEF ContextIdsPrivate, TypeOK
  <2>2. \A u \in Tasks : ctx'[u] \in {ctx[u], id}
    BY <1>1 DEF TypeOK
  <2>3. CASE ctx' = [ctx EXCEPT ![t] = id] /\ sessions' = sessions
    BY <2>1, <2>2, <2>3 DEF ContextIdsPrivate
  <2>4. CASE sessions' = sessions \cup {id} /\ ctx' = ctx
    BY <2>1, <2>4 DEF ContextIdsPrivate
  <2> QED
    BY <1>1, <2>3, <2>4
<1> QED
  BY ONLY <1>6, <1>7, <1>8, <1>9

\* A free lock is taken and entered in the tables in one step.
LEMMA TakeNowStep ==
    ASSUME IInv, NEW t \in Tasks, NEW p \in Probes, NEW kind, TakeNow(t, p, kind)
    PROVE  IInv'
<1> USE NoneAssumption DEF IInv
<1>1. /\ ~locked[p] /\ locked' = [locked EXCEPT ![p] = TRUE] /\ Granted(t, p, kind)
      /\ waiters' = waiters /\ fut' = fut /\ why' = why /\ waitOn' = waitOn /\ call' = call
      /\ \A i \in DOMAIN waiters[p] : fut[waiters[p][i]] = "cancelled"
  BY DEF TakeNow, MayTakeNow, waitVars
<1>2. TypeOK' /\ LockMatchesTables' /\ ContextCovered' /\ ContextIdsPrivate'
  BY <1>1, GrantedTables DEF TypeOK
<1>3. NoLostWakeup'
  BY <1>1 DEF NoLostWakeup, TypeOK
<1>4. ASSUME NEW u \in Tasks, fut[u] = "woken" PROVE waitOn[u] # p
  <2> SUFFICES ASSUME waitOn[u] = p PROVE FALSE
    OBVIOUS
  <2>1. waiters[p] \in Seq(Tasks) /\ waiters[p] # <<>> /\ waiters[p][1] = u
    BY <1>4 DEF QueueDiscipline, TypeOK
  <2>2. 1 \in DOMAIN waiters[p]
    BY <2>1
  <2> QED
    BY <1>1, <1>4, <2>1, <2>2
<1>5. QueueDiscipline'
  <2>1. ASSUME NEW u \in Tasks, fut[u] = "woken" PROVE ~locked'[waitOn[u]]
    <3>1. waitOn[u] \in Probes
      BY <2>1 DEF QueueDiscipline, TypeOK
    <3> QED
      BY <1>1, <1>4, <2>1, <3>1 DEF QueueDiscipline, TypeOK
  <2> QED
    BY <1>1, <2>1 DEF QueueDiscipline
<1> QED
  BY <1>2, <1>3, <1>5

\* A task joins the end of the queue, behind a head that will run.
LEMMA QueueStep ==
    ASSUME IInv, NEW t \in Tasks, NEW p \in Probes, NEW kind \in {"lease", "acquire"},
           Queue(t, p, kind)
    PROVE  IInv'
<1> USE NoneAssumption DEF IInv
<1>1. /\ waitOn[t] = None /\ ~MayTakeNow(p)
      /\ waiters' = [waiters EXCEPT ![p] = Append(@, t)]
      /\ fut' = [fut EXCEPT ![t] = "pending"]
      /\ waitOn' = [waitOn EXCEPT ![t] = p]
      /\ call' = [call EXCEPT ![t] = kind]
      /\ locked' = locked /\ why' = why /\ UNCHANGED <<tableVars, callerVars>>
  BY DEF Queue, MayCall, Running
<1>2. waiters[p] \in Seq(Tasks) /\ waiters'[p] = Append(waiters[p], t)
  BY <1>1 DEF TypeOK
<1>3. /\ Len(waiters'[p]) = Len(waiters[p]) + 1
      /\ \A i \in 1..Len(waiters[p]) : waiters'[p][i] = waiters[p][i]
      /\ waiters'[p][Len(waiters[p]) + 1] = t
      /\ waiters'[p] \in Seq(Tasks) /\ waiters'[p] # <<>>
  BY <1>2
<1>4. TypeOK'
  BY <1>1, <1>2, <1>3 DEF TypeOK, Futures, tableVars, callerVars
<1>5. LockMatchesTables' /\ ContextCovered' /\ ContextIdsPrivate'
  BY <1>1 DEF LockMatchesTables, ContextCovered, OwnLease, ContextIdsPrivate, tableVars,
              callerVars
<1>6. \A q \in Probes : \A i \in DOMAIN waiters[q] : waiters[q][i] \in Tasks /\ waiters[q][i] # t
  BY <1>1 DEF QueueDiscipline, TypeOK
<1>7. NoLostWakeup'
  <2> SUFFICES ASSUME NEW q \in Probes, ~locked[q], waiters'[q] # <<>>
               PROVE  fut'[Head(waiters'[q])] \in {"woken", "cancelled"}
    BY <1>1 DEF NoLostWakeup
  <2>1. CASE q # p
    <3>1. waiters'[q] = waiters[q] /\ Head(waiters[q]) \in Tasks /\ Head(waiters[q]) # t
      BY <1>1, <1>6, <2>1 DEF TypeOK
    <3> QED
      BY <1>1, <3>1 DEF NoLostWakeup, TypeOK
  <2>2. CASE q = p
    <3>1. waiters[p] # <<>>
      BY <1>1, <1>2, <2>2 DEF MayTakeNow
    <3>2. Head(waiters'[p]) = Head(waiters[p]) /\ Head(waiters[p]) \in Tasks
          /\ Head(waiters[p]) # t
      BY <1>2, <1>3, <1>6, <3>1
    <3> QED
      BY <1>1, <2>2, <3>1, <3>2 DEF NoLostWakeup, TypeOK
  <2> QED
    BY <2>1, <2>2
<1>8. QueueDiscipline'
  <2>1. ASSUME NEW u \in Tasks
        PROVE  /\ waitOn'[u] = None <=> fut'[u] = "none"
               /\ fut'[u] = "cancelled" => why'[u] # "none"
               /\ why'[u] # "none" => fut'[u] \in {"woken", "cancelled"}
    BY <1>1 DEF QueueDiscipline, TypeOK
  <2>2. ASSUME NEW u \in Tasks, fut'[u] = "woken"
        PROVE  /\ ~locked'[waitOn'[u]]
               /\ waiters'[waitOn'[u]] # <<>>
               /\ waiters'[waitOn'[u]][1] = u
    <3>1. u # t /\ fut[u] = "woken" /\ waitOn'[u] = waitOn[u] /\ waitOn[u] \in Probes
      BY <1>1, <2>2 DEF QueueDiscipline, TypeOK
    <3>2. ~locked[waitOn[u]] /\ waiters[waitOn[u]] # <<>> /\ waiters[waitOn[u]][1] = u
      BY <3>1 DEF QueueDiscipline
    <3>3. CASE waitOn[u] = p
      BY <1>1, <1>2, <1>3, <3>1, <3>2, <3>3
    <3>4. CASE waitOn[u] # p
      BY <1>1, <3>1, <3>2, <3>4 DEF TypeOK
    <3> QED
      BY <3>3, <3>4
  <2>3. ASSUME NEW q \in Probes, NEW i \in DOMAIN waiters'[q], NEW j \in DOMAIN waiters'[q]
        PROVE  /\ waitOn'[waiters'[q][i]] = q
               /\ waiters'[q][i] = waiters'[q][j] => i = j
    <3>1. CASE q # p
      <4>1. waiters'[q] = waiters[q]
        BY <1>1, <3>1 DEF TypeOK
      <4> QED
        BY <1>1, <1>6, <2>3, <4>1 DEF QueueDiscipline, TypeOK
    <3>2. CASE q = p
      <4>1. ASSUME NEW k \in DOMAIN waiters'[p]
            PROVE  \/ k \in DOMAIN waiters[p] /\ waiters'[p][k] = waiters[p][k]
                   \/ k = Len(waiters[p]) + 1 /\ waiters'[p][k] = t
        BY <1>2, <1>3, <4>1
      <4>2. waitOn'[waiters'[p][i]] = p
        BY <1>1, <1>6, <2>3, <3>2, <4>1 DEF QueueDiscipline, TypeOK
      <4>3. waiters'[p][i] = waiters'[p][j] => i = j
        BY <1>6, <2>3, <3>2, <4>1 DEF QueueDiscipline
      <4> QED
        BY <3>2, <4>2, <4>3
    <3> QED
      BY <3>1, <3>2
  <2> QED
    BY <2>1, <2>2, <2>3 DEF QueueDiscipline
<1> QED
  BY <1>4, <1>5, <1>7, <1>8

\* A timer or a cancellation touches the future only.
LEMMA InterruptStep ==
    ASSUME IInv, NEW t \in Tasks, NEW reason \in {"timeout", "cancel"}, Interrupt(t, reason)
    PROVE  IInv'
<1> USE DEF IInv
<1>1. /\ fut[t] \in {"pending", "woken"} /\ why[t] = "none"
      /\ why' = [why EXCEPT ![t] = reason]
      /\ fut' = [fut EXCEPT ![t] = IF @ = "pending" THEN "cancelled" ELSE @]
      /\ locked' = locked /\ waiters' = waiters /\ waitOn' = waitOn /\ call' = call
      /\ UNCHANGED <<tableVars, callerVars>>
  BY DEF Interrupt
<1>2. TypeOK'
  BY <1>1 DEF TypeOK, Futures, tableVars, callerVars
<1>3. LockMatchesTables' /\ ContextCovered' /\ ContextIdsPrivate'
  BY <1>1 DEF LockMatchesTables, ContextCovered, OwnLease, ContextIdsPrivate, tableVars,
              callerVars
<1>4. NoLostWakeup'
  <2> SUFFICES ASSUME NEW q \in Probes, ~locked[q], waiters[q] # <<>>
               PROVE  fut'[Head(waiters[q])] \in {"woken", "cancelled"}
    BY <1>1 DEF NoLostWakeup
  <2>1. Head(waiters[q]) \in Tasks
    BY DEF TypeOK
  <2> QED
    BY <1>1, <2>1 DEF NoLostWakeup, TypeOK
<1>5. QueueDiscipline'
  BY <1>1 DEF QueueDiscipline, TypeOK
<1> QED
  BY <1>2, <1>3, <1>4, <1>5

\* One waiter leaves the queue of p: the others keep order and probe.
LEMMA QueueAfterRemoval ==
    ASSUME IInv, NEW t \in Tasks, NEW p \in Probes, NEW i \in DOMAIN waiters[p],
           waiters[p][i] = t,
           waiters' = [waiters EXCEPT ![p] = Without(@, i)],
           waitOn' = [waitOn EXCEPT ![t] = None]
    PROVE  /\ waiters' \in [Probes -> Seq(Tasks)]
           /\ waitOn[t] = p
           /\ \A q \in Probes : \A j, k \in DOMAIN waiters'[q] :
                 /\ waiters'[q][j] # t
                 /\ waitOn'[waiters'[q][j]] = q
                 /\ waiters'[q][j] = waiters'[q][k] => j = k
<1> USE NoneAssumption DEF IInv
<1>1. waiters[p] \in Seq(Tasks) /\ waiters'[p] = Without(waiters[p], i)
  BY DEF TypeOK
<1>2. /\ waiters'[p] \in Seq(Tasks)
      /\ Len(waiters'[p]) = Len(waiters[p]) - 1
      /\ DOMAIN waiters'[p] = 1..(Len(waiters[p]) - 1)
      /\ \A j \in 1..(Len(waiters[p]) - 1) :
            waiters'[p][j] = IF j < i THEN waiters[p][j] ELSE waiters[p][j + 1]
  BY <1>1, WithoutFacts
<1>3. waiters' \in [Probes -> Seq(Tasks)]
  BY <1>2 DEF TypeOK
<1>4. waitOn[t] = p
  BY DEF QueueDiscipline
<1>5. ASSUME NEW q \in Probes, NEW j \in DOMAIN waiters'[q], NEW k \in DOMAIN waiters'[q]
      PROVE  /\ waiters'[q][j] # t
             /\ waitOn'[waiters'[q][j]] = q
             /\ waiters'[q][j] = waiters'[q][k] => j = k
  <2>1. CASE q # p
    <3>1. waiters'[q] = waiters[q]
      BY <2>1 DEF TypeOK
    <3>2. waiters[q][j] \in Tasks /\ waitOn[waiters[q][j]] = q
      BY <1>5, <3>1 DEF TypeOK, QueueDiscipline
    <3> QED
      BY <1>4, <1>5, <2>1, <3>1, <3>2 DEF TypeOK, QueueDiscipline
  <2>2. CASE q = p
    <3> DEFINE old(m) == IF m < i THEN m ELSE m + 1
    <3>1. ASSUME NEW m \in DOMAIN waiters'[p]
          PROVE  /\ old(m) \in DOMAIN waiters[p] /\ old(m) # i
                 /\ waiters'[p][m] = waiters[p][old(m)]
      BY <1>1, <1>2, <3>1
    <3>2. old(j) = old(k) => j = k
      BY <1>2, <1>5, <2>2
    <3> HIDE DEF old
    <3>3. waiters'[p][j] # t /\ waiters'[p][j] \in Tasks
      <4>1. /\ old(j) \in DOMAIN waiters[p] /\ old(j) # i
            /\ waiters'[p][j] = waiters[p][old(j)]
        BY <1>5, <2>2, <3>1
      <4>2. waiters[p][old(j)] # waiters[p][i]
        BY <4>1 DEF QueueDiscipline
      <4>3. waiters[p][old(j)] \in Tasks
        BY <1>1, <4>1
      <4> QED
        BY <4>1, <4>2, <4>3
    <3>4. waitOn'[waiters'[p][j]] = p
      BY <1>5, <2>2, <3>1, <3>3 DEF QueueDiscipline, TypeOK
    <3>5. waiters'[p][j] = waiters'[p][k] => j = k
      BY <1>5, <2>2, <3>1, <3>2 DEF QueueDiscipline
    <3> QED
      BY <2>2, <3>3, <3>4, <3>5
  <2> QED
    BY <2>1, <2>2
<1> QED
  BY <1>3, <1>4, <1>5

\* The woken head takes the lock that was promised to it.
LEMMA ResumeGrantedStep ==
    ASSUME IInv, NEW t \in Tasks, ResumeGranted(t)
    PROVE  IInv'
<1> USE NoneAssumption DEF IInv
<1>0. PICK p \in Probes : \E i \in DOMAIN waiters[p] :
        /\ waiters[p][i] = t
        /\ waiters' = [waiters EXCEPT ![p] = Without(@, i)]
        /\ locked' = [locked EXCEPT ![p] = TRUE]
        /\ Granted(t, p, call[t])
  BY DEF ResumeGranted
<1>1. PICK i \in DOMAIN waiters[p] :
        /\ waiters[p][i] = t
        /\ waiters' = [waiters EXCEPT ![p] = Without(@, i)]
        /\ locked' = [locked EXCEPT ![p] = TRUE]
        /\ Granted(t, p, call[t])
  BY <1>0
<1>2. /\ fut[t] = "woken" /\ why[t] = "none"
      /\ fut' = [fut EXCEPT ![t] = "none"] /\ why' = [why EXCEPT ![t] = "none"]
      /\ waitOn' = [waitOn EXCEPT ![t] = None] /\ call' = [call EXCEPT ![t] = "none"]
  BY DEF ResumeGranted, StopWaiting
<1>3. /\ waiters' \in [Probes -> Seq(Tasks)]
      /\ waitOn[t] = p
      /\ \A q \in Probes : \A j, k \in DOMAIN waiters'[q] :
            /\ waiters'[q][j] # t
            /\ waitOn'[waiters'[q][j]] = q
            /\ waiters'[q][j] = waiters'[q][k] => j = k
  BY <1>1, <1>2, QueueAfterRemoval
<1>4. ~locked[p] /\ waiters[p][1] = t
  BY <1>2, <1>3 DEF QueueDiscipline
<1>5. TypeOK' /\ LockMatchesTables' /\ ContextCovered' /\ ContextIdsPrivate'
  <2>1. /\ active' \in [Probes -> LeaseIds \cup {None}]
        /\ byId' \in [LeaseIds -> Probes \cup {None}]
        /\ leaseTask' \in [LeaseIds -> Tasks \cup {None}]
        /\ ctx' \in [Tasks -> LeaseIds \cup {None}]
        /\ nested' \in [Tasks -> 0..MaxNested]
        /\ sessions' \subseteq issued' /\ issued' \subseteq LeaseIds
        /\ LockMatchesTables' /\ ContextCovered' /\ ContextIdsPrivate'
    BY <1>1, <1>4, GrantedTables
  <2> QED
    BY <1>1, <1>2, <1>3, <2>1 DEF TypeOK, Futures
<1>6. \A q \in Probes : q # p => waiters'[q] = waiters[q] /\ locked'[q] = locked[q]
  BY <1>1 DEF TypeOK
<1>7. NoLostWakeup'
  <2> SUFFICES ASSUME NEW q \in Probes, ~locked'[q], waiters'[q] # <<>>
               PROVE  fut'[Head(waiters'[q])] \in {"woken", "cancelled"}
    BY DEF NoLostWakeup
  <2>1. q # p
    BY <1>1 DEF TypeOK
  <2>2. waiters'[q] \in Seq(Tasks) /\ 1 \in DOMAIN waiters'[q] /\ Head(waiters'[q]) = waiters'[q][1]
    BY <1>3
  <2>3. Head(waiters'[q]) # t /\ Head(waiters'[q]) \in Tasks
    BY <1>3, <2>2
  <2> QED
    BY <1>2, <1>6, <2>1, <2>3 DEF NoLostWakeup, TypeOK
<1>8. QueueDiscipline'
  <2>1. ASSUME NEW u \in Tasks
        PROVE  /\ waitOn'[u] = None <=> fut'[u] = "none"
               /\ fut'[u] = "cancelled" => why'[u] # "none"
               /\ why'[u] # "none" => fut'[u] \in {"woken", "cancelled"}
    BY <1>2 DEF QueueDiscipline, TypeOK
  <2>2. ASSUME NEW u \in Tasks, fut'[u] = "woken"
        PROVE  /\ ~locked'[waitOn'[u]]
               /\ waiters'[waitOn'[u]] # <<>>
               /\ waiters'[waitOn'[u]][1] = u
    <3>1. u # t /\ fut[u] = "woken" /\ waitOn'[u] = waitOn[u] /\ waitOn[u] \in Probes
      BY <1>2, <2>2 DEF QueueDiscipline, TypeOK
    <3>2. ~locked[waitOn[u]] /\ waiters[waitOn[u]] # <<>> /\ waiters[waitOn[u]][1] = u
      BY <3>1 DEF QueueDiscipline
    <3>3. waitOn[u] # p
      BY <1>4, <3>1, <3>2
    <3> QED
      BY <1>6, <3>1, <3>2, <3>3
  <2> QED
    BY <1>3, <2>1, <2>2 DEF QueueDiscipline
<1> QED
  BY <1>5, <1>7, <1>8

\* A waiter that gives up leaves a queue whose head will run.
LEMMA ResumeInterruptedStep ==
    ASSUME IInv, NEW t \in Tasks, ResumeInterrupted(t)
    PROVE  IInv'
<1> USE NoneAssumption DEF IInv
<1> DEFINE f == [fut EXCEPT ![t] = "none"]
<1>0. PICK p \in Probes : \E i \in DOMAIN waiters[p] :
        /\ waiters[p][i] = t
        /\ waiters' = [waiters EXCEPT ![p] = Without(@, i)]
        /\ fut' = IF locked[p] THEN f ELSE WakeUpFirst(waiters'[p], f)
  BY DEF ResumeInterrupted
<1>1. PICK i \in DOMAIN waiters[p] :
        /\ waiters[p][i] = t
        /\ waiters' = [waiters EXCEPT ![p] = Without(@, i)]
        /\ fut' = IF locked[p] THEN f ELSE WakeUpFirst(waiters'[p], f)
  BY <1>0
<1>2. /\ why[t] # "none" /\ why' = [why EXCEPT ![t] = "none"]
      /\ waitOn' = [waitOn EXCEPT ![t] = None] /\ call' = [call EXCEPT ![t] = "none"]
      /\ locked' = locked /\ UNCHANGED <<tableVars, callerVars>>
  BY DEF ResumeInterrupted, StopWaiting
<1>3. /\ waiters' \in [Probes -> Seq(Tasks)]
      /\ waitOn[t] = p
      /\ \A q \in Probes : \A j, k \in DOMAIN waiters'[q] :
            /\ waiters'[q][j] # t
            /\ waitOn'[waiters'[q][j]] = q
            /\ waiters'[q][j] = waiters'[q][k] => j = k
      /\ i # 1 => waiters'[p] # <<>> /\ waiters'[p][1] = waiters[p][1]
  <2>1. /\ waiters[p][i] = t
        /\ waiters' = [waiters EXCEPT ![p] = Without(@, i)]
        /\ waitOn' = [waitOn EXCEPT ![t] = None]
    BY <1>1, <1>2
  <2>2. i # 1 => waiters'[p] # <<>> /\ waiters'[p][1] = waiters[p][1]
    BY <2>1, HeadStays DEF IInv, TypeOK
  <2>3. /\ waiters' \in [Probes -> Seq(Tasks)]
        /\ waitOn[t] = p
        /\ \A q \in Probes : \A j, k \in DOMAIN waiters'[q] :
              /\ waiters'[q][j] # t
              /\ waitOn'[waiters'[q][j]] = q
              /\ waiters'[q][j] = waiters'[q][k] => j = k
    BY <2>1, QueueAfterRemoval
  <2> QED
    BY <2>2, <2>3
<1>4. f \in [Tasks -> Futures] /\ f[t] = "none" /\ \A u \in Tasks : u # t => f[u] = fut[u]
  BY DEF TypeOK, Futures
<1> HIDE DEF f
<1>5. /\ fut' \in [Tasks -> Futures]
      /\ \A u \in Tasks : fut'[u] =
            IF ~locked[p] /\ waiters'[p] # <<>> /\ u = waiters'[p][1] /\ f[u] = "pending"
            THEN "woken" ELSE f[u]
  <2>1. waiters'[p] \in Seq(Tasks)
    BY <1>3
  <2>2. /\ WakeUpFirst(waiters'[p], f) \in [Tasks -> Futures]
        /\ \A u \in Tasks : WakeUpFirst(waiters'[p], f)[u] =
              IF waiters'[p] # <<>> /\ u = waiters'[p][1] /\ f[u] = "pending"
              THEN "woken" ELSE f[u]
    BY <1>4, <2>1, WakeUpFacts
  <2> QED
    BY <1>1, <1>4, <2>2
<1>6. TypeOK'
  BY <1>2, <1>3, <1>5 DEF TypeOK, tableVars, callerVars
<1>7. LockMatchesTables' /\ ContextCovered' /\ ContextIdsPrivate'
  BY <1>2 DEF LockMatchesTables, ContextCovered, OwnLease, ContextIdsPrivate, tableVars,
              callerVars
<1>8. \A q \in Probes : q # p => waiters'[q] = waiters[q]
  BY <1>1 DEF TypeOK
<1>9. ASSUME NEW q \in Probes, waiters'[q] # <<>>
      PROVE  /\ Head(waiters'[q]) = waiters'[q][1] /\ waiters'[q][1] \in Tasks
             /\ waiters'[q][1] # t /\ waitOn[waiters'[q][1]] = q
  <2>1. waiters'[q] \in Seq(Tasks) /\ 1 \in DOMAIN waiters'[q]
    BY <1>3, <1>9
  <2> QED
    BY <1>2, <1>3, <2>1 DEF TypeOK
<1>10. NoLostWakeup'
  <2> SUFFICES ASSUME NEW q \in Probes, ~locked[q], waiters'[q] # <<>>
               PROVE  fut'[waiters'[q][1]] \in {"woken", "cancelled"}
    BY <1>2, <1>9 DEF NoLostWakeup
  <2>1. CASE q # p
    <3>1. fut[waiters'[q][1]] \in {"woken", "cancelled"}
      BY <1>8, <1>9, <2>1 DEF NoLostWakeup
    <3> QED
      BY <1>4, <1>5, <1>9, <3>1
  <2>2. CASE q = p
    <3>1. f[waiters'[p][1]] # "none" /\ f[waiters'[p][1]] \in Futures
      BY <1>4, <1>9, <2>2 DEF QueueDiscipline
    <3> QED
      BY <1>5, <1>9, <2>2, <3>1 DEF Futures
  <2> QED
    BY <2>1, <2>2
<1>11. QueueDiscipline'
  <2>1. ASSUME NEW u \in Tasks
        PROVE  /\ waitOn'[u] = None <=> fut'[u] = "none"
               /\ fut'[u] = "cancelled" => why'[u] # "none"
               /\ why'[u] # "none" => fut'[u] \in {"woken", "cancelled"}
    <3>1. CASE u = t
      BY <1>2, <1>4, <1>5, <3>1 DEF TypeOK
    <3>2. CASE u # t
      BY <1>2, <1>4, <1>5, <3>2 DEF QueueDiscipline, TypeOK
    <3> QED
      BY <3>1, <3>2
  <2>2. ASSUME NEW u \in Tasks, fut'[u] = "woken"
        PROVE  /\ ~locked'[waitOn'[u]]
               /\ waiters'[waitOn'[u]] # <<>>
               /\ waiters'[waitOn'[u]][1] = u
    <3>1. u # t
      BY <1>3, <1>4, <1>5, <2>2, <1>9
    <3>2. waitOn'[u] = waitOn[u]
      BY <1>2, <3>1 DEF TypeOK
    <3>3. CASE fut[u] = "woken"
      <4>1. /\ ~locked[waitOn[u]] /\ waiters[waitOn[u]] # <<>> /\ waiters[waitOn[u]][1] = u
            /\ waitOn[u] \in Probes
        BY <3>3 DEF QueueDiscipline, TypeOK
      <4>2. CASE waitOn[u] = p
        BY <1>1, <1>2, <1>3, <3>1, <3>2, <4>1, <4>2
      <4>3. CASE waitOn[u] # p
        BY <1>2, <1>8, <3>2, <4>1, <4>3
      <4> QED
        BY <4>2, <4>3
    <3>4. CASE fut[u] # "woken"
      <4>1. ~locked[p] /\ waiters'[p] # <<>> /\ u = waiters'[p][1]
        BY <1>4, <1>5, <2>2, <3>1, <3>4
      <4> QED
        BY <1>2, <1>9, <3>2, <4>1
    <3> QED
      BY <3>3, <3>4
  <2> QED
    BY <1>3, <2>1, <2>2 DEF QueueDiscipline
<1> QED
  BY <1>6, <1>7, <1>10, <1>11

\* The tables after an id that was known is released.
LEMMA ReleaseStep ==
    ASSUME IInv, NEW id \in LeaseIds, Release(id),
           ctx' \in [Tasks -> LeaseIds \cup {None}],
           \A u \in Tasks :
               (ctx'[u] = ctx[u] /\ ctx[u] # id) \/ (ctx'[u] = None /\ nested[u] = 0),
           nested' = nested, sessions' = sessions, issued' = issued,
           UNCHANGED waitVars
    PROVE  IInv'
<1> USE NoneAssumption DEF IInv
<1>1. why' = why /\ waitOn' = waitOn /\ call' = call
  BY DEF waitVars
<1>2. ContextIdsPrivate'
  <2>1. None \notin sessions
    BY DEF TypeOK
  <2> QED
    BY <2>1 DEF ContextIdsPrivate
<1>3. CASE byId[id] = None
  <2>1. UNCHANGED <<lockVars, tableVars>>
    BY <1>3 DEF Release
  <2>2. locked' = locked /\ waiters' = waiters /\ fut' = fut /\ active' = active
        /\ byId' = byId /\ leaseTask' = leaseTask
    BY <2>1 DEF lockVars, tableVars
  <2>3. TypeOK'
    BY <1>1, <2>2 DEF TypeOK
  <2>4. LockMatchesTables' /\ NoLostWakeup' /\ QueueDiscipline'
    BY <1>1, <2>2 DEF LockMatchesTables, NoLostWakeup, QueueDiscipline
  <2>5. ContextCovered'
    BY <2>2 DEF ContextCovered, OwnLease, TypeOK
  <2> QED
    BY <1>2, <2>3, <2>4, <2>5
<1>4. CASE byId[id] # None
  <2> DEFINE p == byId[id]
  <2>1. p \in Probes /\ active[p] = id /\ locked[p] /\ id # None
    BY <1>4 DEF TypeOK, LockMatchesTables
  <2>2. /\ byId' = [byId EXCEPT ![id] = None]
        /\ leaseTask' = [leaseTask EXCEPT ![id] = None]
        /\ active' = [active EXCEPT ![p] = None]
        /\ locked' = [locked EXCEPT ![p] = FALSE]
        /\ fut' = WakeUpFirst(waiters[p], fut)
        /\ waiters' = waiters
    BY <1>4, <2>1 DEF Release
  <2> HIDE DEF p
  <2>3. waiters[p] \in Seq(Tasks)
    BY <2>1 DEF TypeOK
  <2>4. /\ fut' \in [Tasks -> Futures]
        /\ \A u \in Tasks : fut'[u] =
              IF waiters[p] # <<>> /\ u = waiters[p][1] /\ fut[u] = "pending"
              THEN "woken" ELSE fut[u]
    <3>1. fut \in [Tasks -> Futures]
      BY DEF TypeOK
    <3> QED
      BY <2>2, <2>3, <3>1, WakeUpFacts
  <2>5. TypeOK'
    BY <1>1, <2>1, <2>2, <2>4 DEF TypeOK
  <2>6. LockMatchesTables'
    BY <2>1, <2>2 DEF LockMatchesTables, TypeOK
  <2>7. ContextCovered'
    <3>1. ASSUME NEW u \in Tasks, ctx'[u] # None
          PROVE  \E q \in Probes : active'[q] = ctx'[u] /\ leaseTask'[active'[q]] = u
      <4>1. ctx'[u] = ctx[u] /\ ctx[u] # id
        BY <3>1
      <4>2. PICK q \in Probes : active[q] = ctx[u] /\ leaseTask[active[q]] = u
        BY <3>1, <4>1 DEF ContextCovered, OwnLease
      <4>3. q # p /\ active[q] # id
        BY <2>1, <4>1, <4>2
      <4>4. active'[q] = active[q] /\ leaseTask'[active[q]] = leaseTask[active[q]]
        BY <2>2, <4>3, <3>1, <4>1, <4>2 DEF TypeOK
      <4> QED
        BY <4>1, <4>2, <4>4
    <3>2. ASSUME NEW u \in Tasks, nested'[u] > 0
          PROVE  ctx'[u] # None
      BY <3>2 DEF ContextCovered, TypeOK
    <3> QED
      BY <3>1, <3>2 DEF ContextCovered, OwnLease
  <2>8. ASSUME NEW q \in Probes, waiters[q] # <<>>
        PROVE  /\ Head(waiters[q]) = waiters[q][1] /\ waiters[q][1] \in Tasks
               /\ waitOn[waiters[q][1]] = q
    <3>1. waiters[q] \in Seq(Tasks) /\ 1 \in DOMAIN waiters[q]
      BY <2>8 DEF TypeOK
    <3> QED
      BY <3>1 DEF QueueDiscipline
  <2>9. NoLostWakeup'
    <3> SUFFICES ASSUME NEW q \in Probes, ~locked'[q], waiters[q] # <<>>
                 PROVE  fut'[waiters[q][1]] \in {"woken", "cancelled"}
      BY <2>2, <2>8 DEF NoLostWakeup
    <3>1. CASE q = p
      <4>1. fut[waiters[p][1]] # "none" /\ fut[waiters[p][1]] \in Futures
        BY <2>1, <2>8, <3>1 DEF QueueDiscipline, TypeOK
      <4> QED
        BY <2>4, <2>8, <3>1, <4>1 DEF Futures
    <3>2. CASE q # p
      <4>1. ~locked[q]
        BY <2>2, <3>2 DEF TypeOK
      <4>2. fut[waiters[q][1]] \in {"woken", "cancelled"}
        BY <2>8, <4>1 DEF NoLostWakeup
      <4> QED
        BY <2>4, <2>8, <4>2
    <3> QED
      BY <3>1, <3>2
  <2>10. QueueDiscipline'
    <3>1. ASSUME NEW u \in Tasks
          PROVE  /\ waitOn'[u] = None <=> fut'[u] = "none"
                 /\ fut'[u] = "cancelled" => why'[u] # "none"
                 /\ why'[u] # "none" => fut'[u] \in {"woken", "cancelled"}
      BY <1>1, <2>4 DEF QueueDiscipline
    <3>2. ASSUME NEW u \in Tasks, fut'[u] = "woken"
          PROVE  /\ ~locked'[waitOn'[u]]
                 /\ waiters'[waitOn'[u]] # <<>>
                 /\ waiters'[waitOn'[u]][1] = u
      <4>1. CASE fut[u] = "woken"
        <5>1. /\ ~locked[waitOn[u]] /\ waiters[waitOn[u]] # <<>> /\ waiters[waitOn[u]][1] = u
              /\ waitOn[u] \in Probes
          BY <4>1 DEF QueueDiscipline, TypeOK
        <5> QED
          BY <1>1, <2>1, <2>2, <5>1 DEF TypeOK
      <4>2. CASE fut[u] # "woken"
        <5>1. waiters[p] # <<>> /\ u = waiters[p][1]
          BY <2>4, <3>2, <4>2
        <5> QED
          BY <1>1, <2>1, <2>2, <2>8, <5>1 DEF TypeOK
      <4> QED
        BY <4>1, <4>2
    <3> QED
      BY <1>1, <2>2, <3>1, <3>2 DEF QueueDiscipline
  <2> QED
    BY <1>2, <2>5, <2>6, <2>7, <2>9, <2>10
<1> QED
  BY <1>3, <1>4

\* Entering and leaving a nested context only moves the nesting depth.
LEMMA NestedStep ==
    ASSUME IInv, NEW t \in Tasks, EnterNested(t) \/ ExitNested(t)
    PROVE  IInv'
<1> USE NoneAssumption, BoundsAssumption DEF IInv
<1>1. /\ UNCHANGED <<lockVars, waitVars, tableVars, ctx, sessions, issued>>
      /\ nested' \in [Tasks -> 0..MaxNested]
      /\ \A u \in Tasks : nested'[u] > 0 => ctx[u] # None
  <2>1. CASE EnterNested(t)
    <3>1. /\ nested' = [nested EXCEPT ![t] = @ + 1] /\ nested[t] < MaxNested
          /\ UNCHANGED <<lockVars, waitVars, tableVars, ctx, sessions, issued>>
      BY <2>1 DEF EnterNested
    <3>2. ctx[t] # None
      BY <2>1 DEF EnterNested, OwnLease
    <3> QED
      BY <3>1, <3>2 DEF TypeOK, ContextCovered
  <2>2. CASE ExitNested(t)
    <3>1. /\ nested' = [nested EXCEPT ![t] = @ - 1] /\ nested[t] > 0
          /\ UNCHANGED <<lockVars, waitVars, tableVars, ctx, sessions, issued>>
      BY <2>2 DEF ExitNested
    <3> QED
      BY <3>1 DEF TypeOK, ContextCovered
  <2> QED
    BY <2>1, <2>2
<1>2. TypeOK'
  BY <1>1 DEF TypeOK, lockVars, waitVars, tableVars
<1>3. LockMatchesTables' /\ NoLostWakeup' /\ QueueDiscipline' /\ ContextIdsPrivate'
  BY <1>1 DEF LockMatchesTables, NoLostWakeup, QueueDiscipline, ContextIdsPrivate,
              lockVars, waitVars, tableVars
<1>4. ContextCovered'
  BY <1>1 DEF ContextCovered, OwnLease, tableVars
<1> QED
  BY <1>2, <1>3, <1>4

\* The end of an outer context releases its own lease.
LEMMA ExitLeaseStep ==
    ASSUME IInv, NEW t \in Tasks, ExitLease(t)
    PROVE  IInv'
<1>1. /\ ctx[t] # None /\ nested[t] = 0 /\ Release(ctx[t])
      /\ ctx' = [ctx EXCEPT ![t] = None]
      /\ UNCHANGED waitVars
      /\ nested' = nested /\ sessions' = sessions /\ issued' = issued
  BY DEF ExitLease
<1>2. ctx[t] \in LeaseIds /\ ctx' \in [Tasks -> LeaseIds \cup {None}]
  BY <1>1 DEF IInv, TypeOK
<1>3. ASSUME NEW u \in Tasks, u # t
      PROVE  ctx'[u] = ctx[u] /\ ctx[u] # ctx[t]
  <2>1. ctx'[u] = ctx[u]
    BY <1>1, <1>3 DEF IInv, TypeOK
  <2>2. ctx[u] = ctx[t] => u = t
    BY <1>1 DEF IInv, ContextCovered, OwnLease
  <2> QED
    BY <1>3, <2>1, <2>2
<1>4. ctx'[t] = None
  BY <1>1 DEF IInv, TypeOK
<1>5. \A u \in Tasks :
         (ctx'[u] = ctx[u] /\ ctx[u] # ctx[t]) \/ (ctx'[u] = None /\ nested[u] = 0)
  BY <1>1, <1>3, <1>4
<1> QED
  BY <1>1, <1>2, <1>5, ReleaseStep

\* A session id releases its own lease, or nothing.
LEMMA ReleaseSessionStep ==
    ASSUME IInv, NEW id \in LeaseIds, ReleaseSession(id)
    PROVE  IInv'
<1>1. /\ id \in sessions /\ Release(id) /\ UNCHANGED waitVars
      /\ ctx' = ctx /\ nested' = nested /\ sessions' = sessions /\ issued' = issued
  BY DEF ReleaseSession, callerVars
<1>2. ctx' \in [Tasks -> LeaseIds \cup {None}]
  BY <1>1 DEF IInv, TypeOK
<1>3. \A u \in Tasks : ctx[u] # id
  BY <1>1 DEF IInv, ContextIdsPrivate
<1> QED
  BY <1>1, <1>2, <1>3, ReleaseStep

\* Every step keeps the invariant.
LEMMA NextIInv == IInv /\ [Next]_vars => IInv'
<1> SUFFICES ASSUME IInv, [Next]_vars PROVE IInv'
  OBVIOUS
<1>1. CASE UNCHANGED vars
  BY <1>1 DEF IInv, vars, TypeOK, LockMatchesTables, ContextCovered, OwnLease, NoLostWakeup,
              QueueDiscipline, ContextIdsPrivate
<1>2. ASSUME NEW t \in Tasks, TaskStep(t)
      PROVE  IInv'
  <2>1. ASSUME NEW p \in Probes, NEW kind \in {"lease", "acquire"}, TakeNow(t, p, kind)
        PROVE  IInv'
    BY <2>1, TakeNowStep
  <2>2. ASSUME NEW p \in Probes, NEW kind \in {"lease", "acquire"}, Queue(t, p, kind)
        PROVE  IInv'
    BY <2>2, QueueStep
  <2>3. CASE Expire(t)
    BY <2>3, InterruptStep DEF Expire
  <2>4. CASE CancelRequest(t)
    BY <2>4, InterruptStep DEF CancelRequest
  <2>5. CASE ResumeGranted(t)
    BY <2>5, ResumeGrantedStep
  <2>6. CASE ResumeInterrupted(t)
    BY <2>6, ResumeInterruptedStep
  <2>7. CASE EnterNested(t) \/ ExitNested(t)
    BY <2>7, NestedStep
  <2>8. CASE ExitLease(t)
    BY <2>8, ExitLeaseStep
  <2> QED
    BY <1>2, <2>1, <2>2, <2>3, <2>4, <2>5, <2>6, <2>7, <2>8 DEF TaskStep
<1>3. ASSUME NEW id \in LeaseIds, ReleaseSession(id)
      PROVE  IInv'
  BY <1>3, ReleaseSessionStep
<1> QED
  BY <1>1, <1>2, <1>3 DEF Next

\* IInv holds in every reachable state of the lease manager.
THEOREM Invariance == Spec => []IInv
  BY InitIInv, NextIInv, PTL DEF Spec

\* The manager's tables keep their types.
THEOREM TypeCorrect == Spec => []TypeOK
  BY Invariance, PTL DEF IInv

\* The lock, _active and _by_id always agree (leases.py, acquire and release).
THEOREM TablesAgree == Spec => []LockMatchesTables
  BY Invariance, PTL DEF IInv

\* The body of an outer lease() is covered by its own lease from grant to
\* release: the per-probe exclusion every hardware operation relies on.
THEOREM ContextsCovered == Spec => []ContextCovered
  BY Invariance, PTL DEF IInv

\* A free lock with a queue has a head that will run.
THEOREM WakeupsKept == Spec => []NoLostWakeup
  BY Invariance, PTL DEF IInv

-----------------------------------------------------------------------------
(* The queue is served in order.                                            *)

\* Whoever obtains a probe in this step passes no waiter that was not
\* interrupted.
ServedInOrder ==
    \A p \in Probes :
          active'[p] \notin {None, active[p]} =>
             \A i \in DOMAIN waiters[p] :
                 why[waiters[p][i]] = "none" =>
                     \E j \in 1..i : waiters[p][j] = leaseTask'[active'[p]]

\* A grant is the only step that enters a probe in _active.
LEMMA GrantedEnters ==
    ASSUME IInv, NEW t \in Tasks, NEW p \in Probes, NEW kind, Granted(t, p, kind)
    PROVE  /\ \A q \in Probes : q # p => active'[q] = active[q]
           /\ active'[p] \in LeaseIds /\ leaseTask'[active'[p]] = t
<1>1. PICK id \in LeaseIds \ issued :
        active' = [active EXCEPT ![p] = id] /\ leaseTask' = [leaseTask EXCEPT ![id] = t]
  BY DEF Granted
<1> QED
  BY <1>1 DEF IInv, TypeOK

\* A release takes probes out of it.
LEMMA ReleaseRemoves ==
    ASSUME IInv, NEW id, Release(id), id \in LeaseIds
    PROVE  \A q \in Probes : active'[q] \in {None, active[q]}
  BY DEF Release, tableVars, IInv, TypeOK

\* A lock is taken at once only if every waiter was interrupted, and a waiter
\* is resumed from the head of the queue.
LEMMA StepServesInOrder == IInv /\ [Next]_vars => ServedInOrder
<1> SUFFICES ASSUME IInv, [Next]_vars PROVE ServedInOrder
  OBVIOUS
<1>1. ASSUME \A q \in Probes : active'[q] \in {None, active[q]}
      PROVE  ServedInOrder
  BY <1>1 DEF ServedInOrder
<1>2. CASE UNCHANGED vars
  BY <1>1, <1>2 DEF vars
<1>3. ASSUME NEW t \in Tasks, TaskStep(t)
      PROVE  ServedInOrder
  <2>1. ASSUME NEW p \in Probes, NEW kind, TakeNow(t, p, kind)
        PROVE  ServedInOrder
    <3>1. \A q \in Probes : q # p => active'[q] = active[q]
      BY <2>1, GrantedEnters DEF TakeNow
    <3>2. \A i \in DOMAIN waiters[p] : why[waiters[p][i]] # "none"
      <4>1. waiters[p] \in Seq(Tasks)
        BY DEF IInv, TypeOK
      <4>2. \A i \in DOMAIN waiters[p] : waiters[p][i] \in Tasks
        BY <4>1
      <4> QED
        BY <2>1, <4>2 DEF TakeNow, MayTakeNow, IInv, QueueDiscipline
    <3> QED
      BY <3>1, <3>2 DEF ServedInOrder
  <2>2. ASSUME NEW p \in Probes, NEW kind, Queue(t, p, kind)
        PROVE  ServedInOrder
    BY <1>1, <2>2 DEF Queue, tableVars
  <2>3. CASE Expire(t) \/ CancelRequest(t)
    BY <1>1, <2>3 DEF Expire, CancelRequest, Interrupt, tableVars
  <2>4. CASE ResumeGranted(t)
    <3>1. PICK p \in Probes : \E i \in DOMAIN waiters[p] :
               waiters[p][i] = t /\ Granted(t, p, call[t])
      BY <2>4 DEF ResumeGranted
    <3>2. waiters[p][1] = t
      BY <2>4, <3>1 DEF ResumeGranted, IInv, QueueDiscipline
    <3>3. /\ \A q \in Probes : q # p => active'[q] = active[q]
          /\ leaseTask'[active'[p]] = t
      BY <3>1, GrantedEnters
    <3>4. \A i \in DOMAIN waiters[p] : 1 \in 1..i
      BY DEF IInv, TypeOK
    <3> QED
      BY <3>2, <3>3, <3>4 DEF ServedInOrder
  <2>5. CASE ResumeInterrupted(t)
    BY <1>1, <2>5 DEF ResumeInterrupted, tableVars
  <2>6. CASE EnterNested(t) \/ ExitNested(t)
    BY <1>1, <2>6 DEF EnterNested, ExitNested, tableVars
  <2>7. CASE ExitLease(t)
    <3>1. ctx[t] \in LeaseIds /\ Release(ctx[t])
      BY <2>7 DEF ExitLease, IInv, TypeOK
    <3> QED
      BY <1>1, <3>1, ReleaseRemoves
  <2> QED
    BY <1>3, <2>1, <2>2, <2>3, <2>4, <2>5, <2>6, <2>7 DEF TaskStep
<1>4. ASSUME NEW id \in LeaseIds, ReleaseSession(id)
      PROVE  ServedInOrder
  BY <1>1, <1>4, ReleaseRemoves DEF ReleaseSession
<1> QED
  BY <1>2, <1>3, <1>4 DEF Next

\* asyncio.Lock is fair through timeouts and cancellations, also to tasks that
\* are about to run: acquire obtains a probe for the first waiter that was not
\* interrupted, and for a newcomer only when there is none.
THEOREM WaitersServedInOrder == Spec => NoOvertaking
<1>1. IInv /\ [Next]_vars => [ServedInOrder]_vars
  BY StepServesInOrder
<1> QED
  BY <1>1, Invariance, PTL DEF Spec, NoOvertaking, ServedInOrder

-----------------------------------------------------------------------------
(* The manager implements ExclusiveGrant.                                   *)

\* A grant by either path is an abstract Grant.
LEMMA GrantedIsGrant ==
    ASSUME IInv, NEW t \in Tasks, NEW p \in Probes, NEW kind,
           ~locked[p], Granted(t, p, kind)
    PROVE  Grants!Next
<1> USE NoneAssumption DEF IInv
<1>1. PICK id \in LeaseIds \ issued :
        active' = [active EXCEPT ![p] = id] /\ issued' = issued \cup {id}
  BY DEF Granted
<1>2. active[p] = None
  BY DEF LockMatchesTables
<1>3. \A q \in Probes : active[q] # id
  BY <1>1 DEF LockMatchesTables
<1>4. id \notin (issued \ {active[q] : q \in Probes}) \cup Grants!Held
  BY <1>1, <1>3 DEF Grants!Held
<1>5. issued' \ {active'[q] : q \in Probes} = issued \ {active[q] : q \in Probes}
  <2>1. \A q \in Probes : active'[q] = IF q = p THEN id ELSE active[q]
    BY <1>1 DEF TypeOK
  <2>2. None \notin issued /\ None \notin issued'
    BY <1>1 DEF TypeOK
  <2>3. \A x : x \in issued' \ {active'[q] : q \in Probes} <=> x \in issued \ {active[q] : q \in Probes}
    BY <1>1, <1>2, <2>1, <2>2
  <2> QED
    BY <2>3
<1>6. Grants!Grant(p, id)
  BY <1>1, <1>2, <1>4, <1>5 DEF Grants!Grant
<1> QED
  BY <1>6 DEF Grants!Next

\* A release is an abstract Drop, or nothing when the id is stale.
LEMMA ReleaseIsDrop ==
    ASSUME IInv, NEW id \in LeaseIds, Release(id), issued' = issued
    PROVE  Grants!Next \/ UNCHANGED Grants!vars
<1> USE NoneAssumption DEF IInv
<1>1. CASE byId[id] = None
  BY <1>1 DEF Release, tableVars, Grants!vars
<1>2. CASE byId[id] # None
  <2>0. PICK p \in Probes : p = byId[id]
    BY <1>2 DEF TypeOK
  <2>1. active[p] = id /\ id # None
    BY <2>0 DEF TypeOK, LockMatchesTables
  <2>2. active' = [active EXCEPT ![p] = None]
    BY <1>2, <2>0 DEF Release
  <2>3. id \in issued /\ None \notin issued
    BY <2>1 DEF LockMatchesTables, TypeOK
  <2>4. \A q \in Probes : active[q] = id => q = p
    BY <2>1 DEF LockMatchesTables
  <2>5. issued' \ {active'[q] : q \in Probes}
        = (issued \ {active[q] : q \in Probes}) \cup {active[p]}
    <3>1. \A q \in Probes : active'[q] = IF q = p THEN None ELSE active[q]
      BY <2>2 DEF TypeOK
    <3>2. \A x : x \in issued' \ {active'[q] : q \in Probes}
                 <=> x \in (issued \ {active[q] : q \in Probes}) \cup {active[p]}
      BY <2>1, <2>3, <2>4, <3>1
    <3> QED
      BY <3>2
  <2>6. Grants!Drop(p)
    BY <2>1, <2>2, <2>5 DEF Grants!Drop
  <2> QED
    BY <2>1, <2>6 DEF Grants!Next
<1> QED
  BY <1>1, <1>2

\* ProbeLeaseManager keeps the promise of ExclusiveGrant: exclusive, one-shot
\* grants, and stale releases that are harmless.
THEOREM Refinement == Spec => GrantsSpec
<1>1. Init => Grants!Init
  <2> SUFFICES ASSUME Init PROVE Grants!Init
    OBVIOUS
  <2> QED
    BY DEF Init, Grants!Init
<1>2. IInv /\ [Next]_vars => [Grants!Next]_(Grants!vars)
  <2> SUFFICES ASSUME IInv, [Next]_vars
               PROVE  Grants!Next \/ UNCHANGED Grants!vars
    OBVIOUS
  <2>1. ASSUME active' = active, issued' = issued
        PROVE  UNCHANGED Grants!vars
    BY <2>1 DEF Grants!vars
  <2>2. CASE UNCHANGED vars
    BY <2>1, <2>2 DEF vars
  <2>3. ASSUME NEW t \in Tasks, TaskStep(t)
        PROVE  Grants!Next \/ UNCHANGED Grants!vars
    <3>1. ASSUME NEW p \in Probes, NEW kind, TakeNow(t, p, kind)
          PROVE  Grants!Next
      BY <3>1, GrantedIsGrant DEF TakeNow, MayTakeNow
    <3>2. ASSUME NEW p \in Probes, NEW kind, Queue(t, p, kind)
          PROVE  UNCHANGED Grants!vars
      BY <2>1, <3>2 DEF Queue, tableVars, callerVars
    <3>3. CASE Expire(t) \/ CancelRequest(t)
      BY <2>1, <3>3 DEF Expire, CancelRequest, Interrupt, tableVars, callerVars
    <3>4. CASE ResumeGranted(t)
      <4>1. PICK p \in Probes : \E i \in DOMAIN waiters[p] :
                 waiters[p][i] = t /\ Granted(t, p, call[t])
        BY <3>4 DEF ResumeGranted
      <4>2. waitOn[t] = p /\ ~locked[p]
        BY <3>4, <4>1 DEF ResumeGranted, IInv, QueueDiscipline
      <4> QED
        BY <4>1, <4>2, GrantedIsGrant
    <3>5. CASE ResumeInterrupted(t)
      BY <2>1, <3>5 DEF ResumeInterrupted, tableVars, callerVars
    <3>6. CASE EnterNested(t) \/ ExitNested(t)
      BY <2>1, <3>6 DEF EnterNested, ExitNested, tableVars
    <3>7. CASE ExitLease(t)
      <4>1. ctx[t] \in LeaseIds /\ Release(ctx[t]) /\ issued' = issued
        BY <3>7 DEF ExitLease, IInv, TypeOK
      <4> QED
        BY <4>1, ReleaseIsDrop
    <3> QED
      BY <2>3, <3>1, <3>2, <3>3, <3>4, <3>5, <3>6, <3>7 DEF TaskStep
  <2>4. ASSUME NEW id \in LeaseIds, ReleaseSession(id)
        PROVE  Grants!Next \/ UNCHANGED Grants!vars
    BY <2>4, ReleaseIsDrop DEF ReleaseSession, callerVars
  <2> QED
    BY <2>2, <2>3, <2>4 DEF Next
<1> QED
  BY <1>1, <1>2, Invariance, PTL DEF Spec, GrantsSpec, Grants!Spec
=============================================================================
