---------------------------- MODULE ProbeLeases ----------------------------
(***************************************************************************)
(* ProbeLeaseManager (src/src/jlink_mcp/leases.py) on the asyncio.Lock it   *)
(* keeps per probe.  One event loop runs every task, so a step here is what *)
(* a task does between two suspension points.  The manager suspends in one  *)
(* place only, wait_for(lock.acquire(), timeout): _guard is never held over *)
(* an await, so it is always free and is left out.                          *)
(*                                                                          *)
(* A waiting task owns a future in the lock's deque.  Three things may      *)
(* happen to it: release() wakes the head of the deque, the wait_for timer  *)
(* expires, the request is cancelled; and each takes effect only when the   *)
(* task runs next, so they can overlap.                                     *)
(***************************************************************************)
EXTENDS Naturals, FiniteSets, Sequences

CONSTANTS Probes,     \* probe serials
          Tasks,      \* asyncio tasks, one per request
          LeaseIds,   \* lease ids, uuid4
          None,       \* Python's None
          MaxGrants,  \* bound: leases granted in a behaviour
          MaxNested   \* bound: depth of nested lease() contexts

ASSUME NoneAssumption ==
    None \notin Probes \cup Tasks \cup LeaseIds

ASSUME BoundsAssumption == MaxGrants \in Nat /\ MaxNested \in Nat

VARIABLES
    locked,     \* locked[p]: asyncio.Lock._locked
    waiters,    \* waiters[p]: asyncio.Lock._waiters, the tasks in FIFO order
    fut,        \* fut[t]: the future t awaits: "none", "pending", "woken", "cancelled"
    why,        \* why[t]: what interrupts t's wait: "none", "timeout", "cancel"
    waitOn,     \* waitOn[t]: the probe t waits for, or None
    call,       \* call[t]: the call t waits in: "none", "lease", "acquire"
    active,     \* _active: the id that holds the probe, or None
    byId,       \* _by_id: the probe an id holds, or None when unknown
    leaseTask,  \* _lease_tasks: the task that acquired the id, or None
    ctx,        \* ctx[t]: the id of t's outer lease() context, or None
    nested,     \* nested[t]: lease() contexts t has open inside that one
    sessions,   \* ids acquire() gave to callers that keep them past the call
    issued      \* every id granted so far

vars == <<locked, waiters, fut, why, waitOn, call, active, byId, leaseTask,
          ctx, nested, sessions, issued>>

lockVars   == <<locked, waiters, fut>>
waitVars   == <<why, waitOn, call>>
tableVars  == <<active, byId, leaseTask>>
callerVars == <<ctx, nested, sessions, issued>>

Futures == {"none", "pending", "woken", "cancelled"}

-----------------------------------------------------------------------------
(* asyncio.Lock, Python 3.12                                                *)

\* Lock._wake_up_first: only the head of the deque is looked at, and a
\* future already done (cancelled, not yet removed) is left alone.
WakeUpFirst(ws, f) ==
    IF ws # <<>> /\ f[Head(ws)] = "pending"
    THEN [f EXCEPT ![Head(ws)] = "woken"]
    ELSE f

\* Mutants: a lock that lets newcomers barge in, and one never checked.
MayTakeNowBarging(p) == ~locked[p]
MayTakeNowUnlocked(p) ==
    \A i \in DOMAIN waiters[p] : fut[waiters[p][i]] = "cancelled"

\* Lock.acquire takes the lock without waiting only if nobody is queued
\* whose future is not cancelled.
MayTakeNow(p) ==
    /\ ~locked[p]
    /\ \A i \in DOMAIN waiters[p] : fut[waiters[p][i]] = "cancelled"

\* self._waiters.remove(fut)
Without(ws, i) ==
    [j \in 1..(Len(ws) - 1) |-> IF j < i THEN ws[j] ELSE ws[j + 1]]

-----------------------------------------------------------------------------
Init ==
    /\ locked    = [p \in Probes |-> FALSE]
    /\ waiters   = [p \in Probes |-> <<>>]
    /\ fut       = [t \in Tasks |-> "none"]
    /\ why       = [t \in Tasks |-> "none"]
    /\ waitOn    = [t \in Tasks |-> None]
    /\ call      = [t \in Tasks |-> "none"]
    /\ active    = [p \in Probes |-> None]
    /\ byId      = [id \in LeaseIds |-> None]
    /\ leaseTask = [id \in LeaseIds |-> None]
    /\ ctx       = [t \in Tasks |-> None]
    /\ nested    = [t \in Tasks |-> 0]
    /\ sessions  = {}
    /\ issued    = {}

Running(t) == waitOn[t] = None

\* The probe is active under a lease t acquired itself.
OwnLease(t, p) == active[p] # None /\ leaseTask[active[p]] = t

\* Bound: every waiting task can still be granted an id.
WithinBudget ==
    Cardinality(issued) + Cardinality({t \in Tasks : ~Running(t)}) < MaxGrants

\* The tail of acquire(), after the lock: no suspension, so one step with
\* the taking of the lock.  lease() then opens its context, acquire() hands
\* the id to a caller that keeps it in a session table.
Granted(t, p, kind) ==
    \E id \in LeaseIds \ issued :
        /\ active' = [active EXCEPT ![p] = id]
        /\ byId' = [byId EXCEPT ![id] = p]
        /\ leaseTask' = [leaseTask EXCEPT ![id] = t]
        /\ issued' = issued \cup {id}
        /\ \/ /\ kind = "lease"
              /\ ctx' = [ctx EXCEPT ![t] = id]
              /\ UNCHANGED sessions
           \/ /\ kind = "acquire"
              /\ sessions' = sessions \cup {id}
              /\ UNCHANGED ctx
        /\ UNCHANGED nested

\* Which calls a request makes.  lease() is nested by the workflows that
\* call locked operations; acquire() may be called inside a context too,
\* where it is not reentrant.  A request holds one context at a time, on one
\* probe, and none that opened a session goes on to lease() its probe.
MayCall(t, p, kind) ==
    /\ Running(t)
    /\ kind = "lease" => ctx[t] = None /\ ~OwnLease(t, p)
    /\ WithinBudget

\* acquire() with a free lock.
TakeNow(t, p, kind) ==
    /\ MayCall(t, p, kind)
    /\ MayTakeNow(p)
    /\ locked' = [locked EXCEPT ![p] = TRUE]
    /\ Granted(t, p, kind)
    /\ UNCHANGED <<waiters, fut, waitVars>>

\* acquire() with a lock that is taken or promised: queue and wait.
Queue(t, p, kind) ==
    /\ MayCall(t, p, kind)
    /\ ~MayTakeNow(p)
    /\ waiters' = [waiters EXCEPT ![p] = Append(@, t)]
    /\ fut' = [fut EXCEPT ![t] = "pending"]
    /\ waitOn' = [waitOn EXCEPT ![t] = p]
    /\ call' = [call EXCEPT ![t] = kind]
    /\ UNCHANGED <<locked, why, tableVars, callerVars>>

\* The wait_for timer, or the client, cancels a waiting task.  A future that
\* was woken already stays done: the cancellation waits for the task to run.
Interrupt(t, reason) ==
    /\ fut[t] \in {"pending", "woken"}
    /\ why[t] = "none"
    /\ why' = [why EXCEPT ![t] = reason]
    /\ fut' = [fut EXCEPT ![t] = IF @ = "pending" THEN "cancelled" ELSE @]
    /\ UNCHANGED <<locked, waiters, waitOn, call, tableVars, callerVars>>

\* Mutant: acquire() without wait_for.
ExpireNever(t) == FALSE /\ Interrupt(t, "timeout")

Expire(t) == Interrupt(t, "timeout")
CancelRequest(t) == Interrupt(t, "cancel")

StopWaiting(t) ==
    /\ why' = [why EXCEPT ![t] = "none"]
    /\ waitOn' = [waitOn EXCEPT ![t] = None]
    /\ call' = [call EXCEPT ![t] = "none"]

\* The woken task runs: Lock.acquire returns, the lease is entered in the
\* tables.
ResumeGranted(t) ==
    /\ fut[t] = "woken"
    /\ why[t] = "none"
    /\ \E p \in Probes : \E i \in DOMAIN waiters[p] :
        /\ waiters[p][i] = t
        /\ waiters' = [waiters EXCEPT ![p] = Without(@, i)]
        /\ locked' = [locked EXCEPT ![p] = TRUE]
        /\ Granted(t, p, call[t])
    /\ fut' = [fut EXCEPT ![t] = "none"]
    /\ StopWaiting(t)

\* Mutant: the interrupted waiter keeps the wake-up it was given.
ResumeInterruptedSilently(t) ==
    /\ why[t] # "none"
    /\ \E p \in Probes : \E i \in DOMAIN waiters[p] :
        /\ waiters[p][i] = t
        /\ waiters' = [waiters EXCEPT ![p] = Without(@, i)]
    /\ fut' = [fut EXCEPT ![t] = "none"]
    /\ StopWaiting(t)
    /\ UNCHANGED <<locked, tableVars, callerVars>>

\* The interrupted task runs: CancelledError leaves Lock.acquire, which
\* passes a wake-up on if the lock is free; wait_for turns it into
\* TimeoutError and acquire() into ProbeBusy, or it propagates.
ResumeInterrupted(t) ==
    /\ why[t] # "none"
    /\ \E p \in Probes : \E i \in DOMAIN waiters[p] :
        /\ waiters[p][i] = t
        /\ waiters' = [waiters EXCEPT ![p] = Without(@, i)]
        /\ LET f == [fut EXCEPT ![t] = "none"]
           IN fut' = IF locked[p] THEN f ELSE WakeUpFirst(waiters'[p], f)
    /\ StopWaiting(t)
    /\ UNCHANGED <<locked, tableVars, callerVars>>

\* release(): an id _by_id does not know is a stale release and changes
\* nothing.
Release(id) ==
    \/ /\ byId[id] = None
       /\ UNCHANGED <<lockVars, tableVars>>
    \/ /\ byId[id] # None
       /\ byId' = [byId EXCEPT ![id] = None]
       /\ leaseTask' = [leaseTask EXCEPT ![id] = None]
       /\ active' = [active EXCEPT ![byId[id]] = None]
       /\ IF locked[byId[id]]
          THEN /\ locked' = [locked EXCEPT ![byId[id]] = FALSE]
               /\ fut' = WakeUpFirst(waiters[byId[id]], fut)
          ELSE UNCHANGED <<locked, fut>>
       /\ UNCHANGED waiters

\* lease() by the task that holds the probe: the body runs on that lease.
EnterNested(t) ==
    /\ Running(t)
    /\ \E p \in Probes : OwnLease(t, p) /\ ctx[t] = active[p]
    /\ nested[t] < MaxNested
    /\ nested' = [nested EXCEPT ![t] = @ + 1]
    /\ UNCHANGED <<lockVars, waitVars, tableVars, ctx, sessions, issued>>

\* Mutant: leaving a nested context releases the lease it ran on.
ExitNestedReleases(t) ==
    /\ Running(t)
    /\ nested[t] > 0
    /\ nested' = [nested EXCEPT ![t] = @ - 1]
    /\ Release(ctx[t])
    /\ UNCHANGED <<waitVars, ctx, sessions, issued>>

\* The reentrant branch of lease() returns without a release.
ExitNested(t) ==
    /\ Running(t)
    /\ nested[t] > 0
    /\ nested' = [nested EXCEPT ![t] = @ - 1]
    /\ UNCHANGED <<lockVars, waitVars, tableVars, ctx, sessions, issued>>

\* The body of the outer context ends, normally or with an exception.
ExitLease(t) ==
    /\ Running(t)
    /\ ctx[t] # None
    /\ nested[t] = 0
    /\ Release(ctx[t])
    /\ ctx' = [ctx EXCEPT ![t] = None]
    /\ UNCHANGED <<waitVars, nested, sessions, issued>>

\* A session is stopped: its id is released, by any task, and maybe again.
ReleaseSession(id) ==
    /\ id \in sessions
    /\ Release(id)
    /\ UNCHANGED <<waitVars, callerVars>>

TaskStep(t) ==
    \/ \E p \in Probes, kind \in {"lease", "acquire"} :
           TakeNow(t, p, kind) \/ Queue(t, p, kind)
    \/ Expire(t)
    \/ CancelRequest(t)
    \/ ResumeGranted(t)
    \/ ResumeInterrupted(t)
    \/ EnterNested(t)
    \/ ExitNested(t)
    \/ ExitLease(t)

Next ==
    \/ \E t \in Tasks : TaskStep(t)
    \/ \E id \in LeaseIds : ReleaseSession(id)

Spec == Init /\ [][Next]_vars

\* The event loop runs every task whose future is done.  Nothing makes a client
\* release a session or leave a context.
Fairness ==
    \A t \in Tasks : WF_vars(ResumeGranted(t)) /\ WF_vars(ResumeInterrupted(t))

FairSpec == Spec /\ Fairness

\* A wait_for timer that is due fires.
TimersFire == \A t \in Tasks : WF_vars(Expire(t))

-----------------------------------------------------------------------------
(* Properties                                                               *)

\* The values the manager's tables and the tasks' waits may take.
TypeOK ==
    /\ locked \in [Probes -> BOOLEAN]
    /\ waiters \in [Probes -> Seq(Tasks)]
    /\ fut \in [Tasks -> Futures]
    /\ why \in [Tasks -> {"none", "timeout", "cancel"}]
    /\ waitOn \in [Tasks -> Probes \cup {None}]
    /\ call \in [Tasks -> {"none", "lease", "acquire"}]
    /\ active \in [Probes -> LeaseIds \cup {None}]
    /\ byId \in [LeaseIds -> Probes \cup {None}]
    /\ leaseTask \in [LeaseIds -> Tasks \cup {None}]
    /\ ctx \in [Tasks -> LeaseIds \cup {None}]
    /\ nested \in [Tasks -> 0..MaxNested]
    /\ sessions \subseteq issued
    /\ issued \subseteq LeaseIds

\* The lock and the three tables tell one story: a probe's lock is taken
\* exactly while an id is active on it, _by_id and _active are inverse to
\* each other, and only granted ids are in them.  acquire() fills and
\* release() empties them in several statements around the lock.
LockMatchesTables ==
    \A p \in Probes :
        /\ locked[p] <=> active[p] # None
        /\ \A id \in LeaseIds : byId[id] = p <=> active[p] = id
        /\ active[p] # None => active[p] \in issued

\* From its grant to its release the body of an outer lease() is covered by
\* its own lease, so two bodies never share a probe: no stale release, no
\* end of a nested context and no interrupted wait takes the probe away.
ContextCovered ==
    \A t \in Tasks :
        /\ ctx[t] # None => \E p \in Probes : active[p] = ctx[t] /\ OwnLease(t, p)
        /\ nested[t] > 0 => ctx[t] # None

\* asyncio.Lock passes the wake-up on through every timeout and
\* cancellation: a free lock with a queue always has a head that will run.
NoLostWakeup ==
    \A p \in Probes :
        ~locked[p] /\ waiters[p] # <<>>
            => fut[Head(waiters[p])] \in {"woken", "cancelled"}

\* Waiters are served in order: when a task obtains a probe, every waiter who
\* was not interrupted is that task or stands behind it in the queue.  A task
\* that never queued therefore passes nobody.
NoOvertaking ==
    [][\A p \in Probes :
          active'[p] \notin {None, active[p]} =>
             \A i \in DOMAIN waiters[p] :
                 why[waiters[p][i]] = "none" =>
                     \E j \in 1..i : waiters[p][j] = leaseTask'[active'[p]]]_vars

\* How futures, queues and locks fit together: a task waits in one queue,
\* once; a future is cancelled only by an interruption; a woken waiter is the
\* head of its queue and the lock is free and promised to it.
QueueDiscipline ==
    /\ \A t \in Tasks :
        /\ waitOn[t] = None <=> fut[t] = "none"
        /\ fut[t] = "cancelled" => why[t] # "none"
        /\ why[t] # "none" => fut[t] \in {"woken", "cancelled"}
        /\ fut[t] = "woken" => /\ ~locked[waitOn[t]]
                               /\ waiters[waitOn[t]] # <<>>
                               /\ waiters[waitOn[t]][1] = t
    /\ \A p \in Probes : \A i, j \in DOMAIN waiters[p] :
        /\ waitOn[waiters[p][i]] = p
        /\ waiters[p][i] = waiters[p][j] => i = j

\* A context's id stays with its task: it is in no session table.
ContextIdsPrivate == \A t \in Tasks : ctx[t] \notin sessions

\* The inductive invariant behind the safety theorems.
IInv ==
    /\ TypeOK
    /\ LockMatchesTables
    /\ ContextCovered
    /\ NoLostWakeup
    /\ QueueDiscipline
    /\ ContextIdsPrivate

\* The manager implements exclusive grants: an id is used for one grant and
\* never comes back once it was released.
Grants == INSTANCE ExclusiveGrant
              WITH holder <- active,
                   spent  <- issued \ {active[p] : p \in Probes}

\* "Exclusive per-probe leases" and "stale releases are harmless": every step
\* of acquire and release is a grant, a drop, or nothing.
GrantsSpec == Grants!Spec

\* Every wait ends, with the lease, ProbeBusy or the cancellation, because
\* each lock.acquire() is under wait_for.
WaitEnds ==
    TimersFire => \A t \in Tasks : (waitOn[t] # None) ~> (waitOn[t] = None)

\* A probe that is free and wanted is taken or no longer wanted, even if no
\* timer ever fires: the lock loses no wake-up.  Requests that are cancelled
\* and repeated for ever could pass one wake-up round, so the promise is for
\* behaviours in which the interruptions end.
InterruptionsEnd == <>[][\A t \in Tasks : why'[t] # "none" => why[t] # "none"]_vars

\* The wake-up that release() passes on reaches somebody.
FreeProbeIsTaken ==
    InterruptionsEnd =>
        \A p \in Probes :
            (~locked[p] /\ waiters[p] # <<>>) ~> (locked[p] \/ waiters[p] = <<>>)
=============================================================================
