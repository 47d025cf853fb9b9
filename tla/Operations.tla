----------------------------- MODULE Operations -----------------------------
(***************************************************************************)
(* One-shot target operations: JLinkService.commander_commands,             *)
(* run_application and the identity preflight and resume they share         *)
(* (src/src/jlink_mcp/service.py), each a sequence of processes run by      *)
(* ProcessRunner.run (runner.py) under one exclusive lease, with a record   *)
(* in the audit chain per stage.                                            *)
(*                                                                          *)
(* A step is what one request does between two awaits.  The target under a  *)
(* probe may be exchanged at any time.  The lease is the exclusive grant    *)
(* that ProbeLeases implements; a request that finds the probe busy, or no  *)
(* target to select, stays idle.                                            *)
(***************************************************************************)
EXTENDS Naturals, Sequences

CONSTANTS Requests,     \* requests in progress at once, as slots
          Probes,       \* probe serials
          None,
          Faults,       \* which failures may happen: "cancel", "spawn"
          MaxAttempts,  \* attempts of run_application, 1..3 in the code
          MaxOps        \* bound: operations begun in a behaviour

ASSUME NoneAssumption == None \notin Requests \cup Probes
ASSUME BoundsAssumption == MaxAttempts \in Nat \ {0} /\ MaxOps \in Nat

\* "resumed": run_application with resume_after_preflight; "info": with one
\* help or version argument, which needs no target.
Kinds  == {"connect", "command", "application", "resumed", "info"}
Stages == {"identify", "resume", "execute", "pause"}

VARIABLES
    stage,    \* stage[r]: the stage r is in, "idle" when it is not a request
    kind,     \* kind[r]: the operation
    on,       \* on[r]: its probe, None for "info"
    opno,     \* opno[r]: its number; the lease id is named by it
    tries,    \* tries[r]: attempts finished
    proc,     \* proc[r]: its process: "none", "running", "termed", "killed"
    why,      \* why[r]: what the runner ends it for: "none", "timeout", "cancel"
    holder,   \* holder[p]: the request with p's lease, or None
    target,   \* target[p]: whether the attached target is the selected one
    log,      \* the audit chain: [op, probe, act, ok]
    next,     \* number of the next operation
    acted,    \* history: operations that started a process after identification
    lost,     \* history: operations that were cancelled or could not go on
    orphans   \* operations whose process outlived them

vars == <<stage, kind, on, opno, tries, proc, why, holder, target, log, next,
          acted, lost, orphans>>

request == <<kind, on, opno>>
history == <<acted, lost, orphans>>

Init ==
    /\ stage = [r \in Requests |-> "idle"]
    /\ kind = [r \in Requests |-> "info"]
    /\ on = [r \in Requests |-> None]
    /\ opno = [r \in Requests |-> 0]
    /\ tries = [r \in Requests |-> 0]
    /\ proc = [r \in Requests |-> "none"]
    /\ why = [r \in Requests |-> "none"]
    /\ holder = [p \in Probes |-> None]
    /\ target \in [Probes -> BOOLEAN]
    /\ log = <<>>
    /\ next = 1
    /\ acted = {} /\ lost = {} /\ orphans = {}

-----------------------------------------------------------------------------
(* Helpers                                                                  *)

\* runner.run starts the process of a stage.
RunStage(r, st) ==
    /\ stage' = [stage EXCEPT ![r] = st]
    /\ proc' = [proc EXCEPT ![r] = "running"]
    /\ why' = [why EXCEPT ![r] = "none"]

\* The request sleeps between two processes; with a delay of zero the next
\* process starts at once.
Sleep(r) ==
    /\ stage' = [stage EXCEPT ![r] = "pause"]
    /\ proc' = [proc EXCEPT ![r] = "none"]
    /\ why' = [why EXCEPT ![r] = "none"]

Freed(r) == [p \in Probes |-> IF holder[p] = r THEN None ELSE holder[p]]

\* The lease context ends and the request returns or raises.
End(r) ==
    /\ stage' = [stage EXCEPT ![r] = "idle"]
    /\ proc' = [proc EXCEPT ![r] = "none"]
    /\ why' = [why EXCEPT ![r] = "none"]
    /\ holder' = Freed(r)

Record(r, act, ok) ==
    log' = Append(log, [op |-> opno[r], probe |-> on[r], act |-> act, ok |-> ok])

Mark(r, set) == set \cup {opno[r]}

-----------------------------------------------------------------------------
(* The stages                                                               *)

\* A request: the lease is acquired and the first process starts.
Begin(r, k, p) ==
    /\ stage[r] = "idle"
    /\ next <= MaxOps
    /\ k # "info" => holder[p] = None
    /\ kind' = [kind EXCEPT ![r] = k]
    /\ on' = [on EXCEPT ![r] = IF k = "info" THEN None ELSE p]
    /\ holder' = IF k = "info" THEN holder ELSE [holder EXCEPT ![p] = r]
    /\ opno' = [opno EXCEPT ![r] = next]
    /\ tries' = [tries EXCEPT ![r] = 0]
    /\ next' = next + 1
    /\ RunStage(r, IF k \in {"connect", "info"} THEN "execute" ELSE "identify")
    /\ UNCHANGED <<target, log, history>>

\* The result of runner.run: the process has ended, by itself or by a signal
\* after the timeout.  ok is false after a timeout.
Result(r, ok) ==
    /\ proc[r] # "none"
    /\ why[r] # "cancel"
    /\ why[r] = "timeout" => ~ok

\* The stage is over and the next one starts a process, or cannot.
GoOn(r, st) ==
    \/ /\ RunStage(r, st)
       /\ acted' = Mark(r, acted)
       /\ UNCHANGED <<holder, lost>>
    \/ /\ "spawn" \in Faults
       /\ End(r)
       /\ lost' = Mark(r, lost)
       /\ UNCHANGED acted

\* Mutant: the preflight is audited and its result not looked at.
IdentifiedUnchecked(r, positive) ==
    /\ stage[r] = "identify"
    /\ Result(r, positive)
    /\ positive => target[on[r]]
    /\ Record(r, "identity", positive)
    /\ GoOn(r, IF kind[r] = "resumed" THEN "resume" ELSE "execute")
    /\ UNCHANGED <<request, tries, target, next, orphans>>

\* _identity_preflight: audit what was observed, then raise unless every
\* attribute is the profile's.
Identified(r, positive) ==
    /\ stage[r] = "identify"
    /\ Result(r, positive)
    /\ positive => target[on[r]]
    /\ Record(r, "identity", positive)
    /\ \/ positive /\ GoOn(r, IF kind[r] = "resumed" THEN "resume" ELSE "execute")
       \/ ~positive /\ End(r) /\ UNCHANGED <<acted, lost>>
    /\ UNCHANGED <<request, tries, target, next, orphans>>

\* _resume_after_identity_preflight: audit Go, then raise unless it worked;
\* the firmware is given time to settle.
Resumed(r, ok) ==
    /\ stage[r] = "resume"
    /\ Result(r, ok)
    /\ Record(r, "resume", ok)
    /\ \/ ok /\ Sleep(r) /\ UNCHANGED holder
       \/ ~ok /\ End(r)
    /\ UNCHANGED <<request, tries, target, next, history>>

\* A sleep is over: the (next) attempt starts.
Awake(r) ==
    /\ stage[r] = "pause"
    /\ GoOn(r, "execute")
    /\ UNCHANGED <<request, tries, target, log, next, orphans>>

\* Mutant: a request releases its probe while it still has to audit.
ExecutedLate(r, ok) ==
    /\ stage[r] = "execute"
    /\ kind[r] \notin {"application", "resumed"}
    /\ Result(r, ok)
    /\ \/ /\ \E p \in Probes : holder[p] = r
          /\ holder' = Freed(r)
          /\ UNCHANGED <<log, stage, proc, why>>
       \/ /\ \A p \in Probes : holder[p] # r
          /\ Record(r, kind[r], ok)
          /\ End(r)
    /\ UNCHANGED <<request, tries, target, next, history>>

\* The last process of connect, commander_commands or an informational
\* application call.  The record is appended with the release of the lease:
\* there is no await between.  connect validates after it has audited; the
\* second validation of commander_commands sees the preflight's data again.
Executed(r, ok) ==
    /\ stage[r] = "execute"
    /\ kind[r] \notin {"application", "resumed"}
    /\ Result(r, ok)
    /\ Record(r, kind[r], ok)
    /\ End(r)
    /\ UNCHANGED <<request, tries, target, next, history>>

\* Mutant: every attempt is audited.
AttemptedEach(r, ok) ==
    /\ stage[r] = "execute"
    /\ kind[r] \in {"application", "resumed"}
    /\ Result(r, ok)
    /\ tries' = [tries EXCEPT ![r] = @ + 1]
    /\ Record(r, "application", ok)
    /\ \/ (ok \/ why[r] = "timeout" \/ tries'[r] = MaxAttempts) /\ End(r)
       \/ /\ ~ok /\ why[r] # "timeout" /\ tries'[r] < MaxAttempts
          /\ Sleep(r) /\ UNCHANGED holder
    /\ UNCHANGED <<request, target, next, history>>

\* Mutant: the lease is given back while the request waits for a retry.
AttemptedReleases(r, ok) ==
    /\ stage[r] = "execute"
    /\ kind[r] \in {"application", "resumed"}
    /\ Result(r, ok)
    /\ tries' = [tries EXCEPT ![r] = @ + 1]
    /\ \/ /\ ok \/ why[r] = "timeout" \/ tries'[r] = MaxAttempts
          /\ Record(r, "application", ok) /\ End(r)
       \/ /\ ~ok /\ why[r] # "timeout" /\ tries'[r] < MaxAttempts
          /\ Sleep(r) /\ holder' = Freed(r) /\ UNCHANGED log
    /\ UNCHANGED <<request, target, next, history>>

\* One attempt of run_application: repeated unless it worked, timed out or
\* was the last, and audited once for all attempts.
Attempted(r, ok) ==
    /\ stage[r] = "execute"
    /\ kind[r] \in {"application", "resumed"}
    /\ Result(r, ok)
    /\ tries' = [tries EXCEPT ![r] = @ + 1]
    /\ \/ /\ ok \/ why[r] = "timeout" \/ tries'[r] = MaxAttempts
          /\ Record(r, "application", ok)
          /\ End(r)
       \/ /\ ~ok /\ why[r] # "timeout" /\ tries'[r] < MaxAttempts
          /\ Sleep(r)
          /\ UNCHANGED <<holder, log>>
    /\ UNCHANGED <<request, target, next, history>>

-----------------------------------------------------------------------------
(* ProcessRunner.run: timeouts and cancellation                             *)

\* Mutant: run() waits for the process without a timeout.
TimeoutNever(r) == FALSE /\ why' = why /\ UNCHANGED vars

\* wait_for expires: SIGTERM to the process group.
Timeout(r) ==
    /\ proc[r] = "running"
    /\ proc' = [proc EXCEPT ![r] = "termed"]
    /\ why' = [why EXCEPT ![r] = "timeout"]
    /\ UNCHANGED <<stage, request, tries, holder, target, log, next, history>>

\* Three seconds later: SIGKILL.
Kill(r) ==
    /\ proc[r] = "termed"
    /\ proc' = [proc EXCEPT ![r] = "killed"]
    /\ UNCHANGED <<stage, request, tries, why, holder, target, log, next, history>>

\* The client cancels the request while the process runs: SIGTERM, and the
\* request stays until the process is gone.
Cancel(r) ==
    /\ "cancel" \in Faults
    /\ proc[r] = "running"
    /\ proc' = [proc EXCEPT ![r] = "termed"]
    /\ why' = [why EXCEPT ![r] = "cancel"]
    /\ lost' = Mark(r, lost)
    /\ UNCHANGED <<stage, request, tries, holder, target, log, next, acted, orphans>>

CancelDone(r) ==
    /\ why[r] = "cancel"
    /\ End(r)
    /\ UNCHANGED <<request, tries, target, log, next, history>>

\* A cancellation that meets the wait for a signalled process leaves run() at
\* once: no handler covers it, and the process is nobody's.
CancelAgain(r) ==
    /\ "cancel" \in Faults
    /\ proc[r] \in {"termed", "killed"}
    /\ lost' = Mark(r, lost)
    /\ orphans' = Mark(r, orphans)
    /\ End(r)
    /\ UNCHANGED <<request, tries, target, log, next, acted>>

CancelPause(r) ==
    /\ "cancel" \in Faults
    /\ stage[r] = "pause"
    /\ lost' = Mark(r, lost)
    /\ End(r)
    /\ UNCHANGED <<request, tries, target, log, next, acted, orphans>>

OrphanExits(n) ==
    /\ n \in orphans
    /\ orphans' = orphans \ {n}
    /\ UNCHANGED <<stage, request, tries, proc, why, holder, target, log, next, acted, lost>>

\* The board under a probe is exchanged, lost or comes back.
Exchange(p) ==
    /\ target' = [target EXCEPT ![p] = ~@]
    /\ UNCHANGED <<stage, request, tries, proc, why, holder, log, next, history>>

Returns(r) ==
    \/ \E ok \in BOOLEAN : \/ Identified(r, ok)
                           \/ Resumed(r, ok)
                           \/ Executed(r, ok)
                           \/ Attempted(r, ok)
    \/ CancelDone(r)

Next ==
    \/ \E r \in Requests :
        \/ \E k \in Kinds, p \in Probes : Begin(r, k, p)
        \/ Returns(r)
        \/ Awake(r)
        \/ Timeout(r)
        \/ Kill(r)
        \/ Cancel(r)
        \/ CancelAgain(r)
        \/ CancelPause(r)
    \/ \E n \in 1..MaxOps : OrphanExits(n)
    \/ \E p \in Probes : Exchange(p)

Spec == Init /\ [][Next]_vars

\* Timers fire, sleeps end, and a killed process is gone; a process that was
\* not killed may run for ever.
Fairness ==
    \A r \in Requests :
        /\ WF_vars(Timeout(r))
        /\ WF_vars(Kill(r))
        /\ WF_vars(Awake(r))
        /\ WF_vars(proc[r] = "killed" /\ Returns(r))

FairSpec == Spec /\ Fairness
-----------------------------------------------------------------------------
(* Properties                                                               *)

Acts == {"identity", "resume", "connect", "command", "application", "info"}
Records == [op : 1..MaxOps, probe : Probes \cup {None}, act : Acts, ok : BOOLEAN]
Chain == Seq(Records)

\* The values of the variables.
TypeOK ==
    /\ stage \in [Requests -> Stages \cup {"idle"}]
    /\ kind \in [Requests -> Kinds]
    /\ on \in [Requests -> Probes \cup {None}]
    /\ opno \in [Requests -> 0..MaxOps]
    /\ tries \in [Requests -> 0..MaxAttempts]
    /\ proc \in [Requests -> {"none", "running", "termed", "killed"}]
    /\ why \in [Requests -> {"none", "timeout", "cancel"}]
    /\ holder \in [Probes -> Requests \cup {None}]
    /\ target \in [Probes -> BOOLEAN]
    /\ log \in Chain
    /\ next \in 1..(MaxOps + 1)
    /\ acted \subseteq 1..MaxOps
    /\ lost \subseteq 1..MaxOps
    /\ orphans \subseteq 1..MaxOps

\* Every operation that went on to act on its target had been identified
\* positively, under its own lease, and the observation was audited first.
ActedOnIdentified ==
    \A n \in acted : \E i \in DOMAIN log :
        log[i].op = n /\ log[i].act = "identity" /\ log[i].ok

Final == {"connect", "command", "application", "info"}
InProgress(n) == \E r \in Requests : stage[r] # "idle" /\ opno[r] = n

\* The last stage is audited exactly once, attempts that fail or time out
\* included, unless the operation was cut off or its resume failed.
ActedIsAudited ==
    \A n \in acted \ lost :
        \/ InProgress(n)
        \/ \E i \in DOMAIN log : /\ log[i].op = n
                                 /\ log[i].act \in Final \/ ~log[i].ok

\* No stage of an operation is audited twice: not when it is retried, and not
\* when a timeout, a failure and a cancellation meet.
AuditedOnce ==
    \A i, j \in DOMAIN log : log[i].op = log[j].op /\ log[i].act = log[j].act => i = j

\* Every stage of an operation that acted is in the chain once (run_application,
\* append_operation).
StagesAudited == ActedIsAudited /\ AuditedOnce

\* The records of one probe are the history of its leases: operations that
\* hold it one after another appear one after another, whichever request runs
\* first after a lease is released.
LeasesInOrder ==
    \A i, j \in DOMAIN log :
        /\ i < j
        /\ log[i].probe # None
        /\ log[i].probe = log[j].probe
        => log[i].op <= log[j].op

\* Two requests are never in an operation on the same probe, not even while
\* one of them sleeps between two attempts: each stage, from the preflight on,
\* is inside one lease context.
OneOperationPerProbe ==
    \A r, s \in Requests :
        stage[r] # "idle" /\ stage[s] # "idle" /\ on[r] = on[s] /\ on[r] # None => r = s

-----------------------------------------------------------------------------
(* The inductive invariant: what each stage has established for its request *)

OnTarget(r) == \/ stage[r] \in {"resume", "pause"}
               \/ stage[r] = "execute" /\ kind[r] \notin {"connect", "info"}
Identity(n) == \E i \in DOMAIN log : log[i].op = n /\ log[i].act = "identity" /\ log[i].ok

\* A request in progress has a number of its own, holds the lease of its probe
\* for as long as it runs, and has attempts left.
StageHeld ==
    \A r \in Requests : stage[r] # "idle" =>
        /\ opno[r] \in 1..(next - 1)
        /\ tries[r] < MaxAttempts
        /\ IF kind[r] = "info" THEN on[r] = None
                               ELSE on[r] \in Probes /\ holder[on[r]] = r
        /\ kind[r] \in {"connect", "info"} => stage[r] = "execute"
        /\ OnTarget(r) => Identity(opno[r])
        /\ why[r] = "cancel" => opno[r] \in lost

NoProcess ==
    \A r \in Requests : stage[r] \in {"idle", "pause"} => proc[r] = "none" /\ why[r] = "none"

NumbersDiffer ==
    \A r, s \in Requests :
        stage[r] # "idle" /\ stage[s] # "idle" /\ opno[r] = opno[s] => r = s

\* What the log can hold of a request in progress.
StageRecords ==
    \A r \in Requests, i \in DOMAIN log : stage[r] # "idle" =>
        /\ log[i].op = opno[r] =>
              /\ OnTarget(r)
              /\ log[i].act = "identity" \/ (log[i].act = "resume" /\ stage[r] # "resume")
        /\ log[i].probe = on[r] /\ on[r] # None => log[i].op <= opno[r]

RecordsBegun ==
    /\ acted \subseteq 1..(next - 1)
    /\ \A i \in DOMAIN log : log[i].op < next

\* The inductive invariant behind the safety theorems.
IInv == /\ TypeOK /\ StageHeld /\ NoProcess /\ NumbersDiffer /\ StageRecords /\ RecordsBegun
        /\ ActedOnIdentified /\ ActedIsAudited /\ AuditedOnce /\ LeasesInOrder
-----------------------------------------------------------------------------
(* Liveness, and what the documentation promises                            *)

\* Every request ends: each process has a deadline and SIGKILL behind it.
RequestsEnd == \A r \in Requests : (stage[r] # "idle") ~> (stage[r] = "idle")

\* "Audit entries include failures": an operation that acted on its target
\* and is over has a final record.
EveryActAudited ==
    \A n \in acted :
        \/ InProgress(n)
        \/ \E i \in DOMAIN log : log[i].op = n /\ log[i].act # "identity"
=============================================================================
