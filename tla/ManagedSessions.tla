-------------------------- MODULE ManagedSessions --------------------------
(***************************************************************************)
(* The debugger and GUI processes the service keeps between requests:       *)
(* JLinkService.start_gdb, gdb_command, capture_gdb_channel, stop_gdb,      *)
(* start_gui, stop_gui, the serial operations that share a GDB session's    *)
(* probe, and close (src/src/jlink_mcp/service.py), with GDBBackend and     *)
(* GUIBackend below them (backends/gdb.py, backends/gui.py).                *)
(*                                                                          *)
(* A step is what one request does between two awaits; requests interleave  *)
(* at the awaits, and the processes move by themselves.  A lease is named   *)
(* by who releases it: the session whose id keys it in _gdb_leases or       *)
(* _gui_leases, or the serial request whose context it is.  How a lease is  *)
(* granted is the business of ProbeLeases, which implements the exclusive   *)
(* grants used here; a request that finds the probe busy stays idle.        *)
(***************************************************************************)
EXTENDS Naturals, FiniteSets

CONSTANTS Requests,     \* MCP requests in progress at once, as slots
          GdbSessions,  \* session ids of GDB servers
          GuiSessions,  \* session ids of GUI applications
          Probes,       \* probe serials
          None,
          Faults,       \* which failures may happen: "cancel", "client"
          MaxCommands   \* bound: commands sent to one session

Sessions == GdbSessions \cup GuiSessions

ASSUME NamesAssumption ==
    /\ GdbSessions \cap GuiSessions = {}
    /\ Sessions \cap Requests = {}
    /\ None \notin Sessions \cup Requests \cup Probes

ASSUME BoundAssumption == MaxCommands \in Nat

VARIABLES
    pc,       \* pc[r]: where request r is suspended, "idle" when it is not one
    arg,      \* arg[r]: the session r works on
    todo,     \* todo[r]: sessions close() has still to stop
    holder,   \* holder[p]: the session or serial request with p's lease
    probeOf,  \* probeOf[s]: the probe s was started on, None: id not drawn
    proc,     \* proc[s]: state of the server process of s
    live,     \* keys of the backends' _sessions; of _gui_selectors too
    leased,   \* keys of _gdb_leases and _gui_leases; of _gdb_selectors too
    rows,     \* GDB sessions in the store's sessions table
    started,  \* sessions whose start is in the audit chain
    stops,    \* stops[s]: stop records of s in the audit chain
    sent,     \* sent[s]: commands sent to s
    logged,   \* logged[s]: commands of s in the audit chain
    cut       \* history: sessions whose stop was cancelled

vars == <<pc, arg, todo, holder, probeOf, proc, live, leased, rows,
          started, stops, sent, logged, cut>>

tables == <<live, leased, rows>>
audit  == <<started, stops, sent, logged, cut>>

Starting == {"preflight", "launching", "aborting"}
Using    == {"commanding", "direct"}
Phases   == {"idle", "closing", "stopping", "serial"} \cup Starting \cup Using

Alive == {"running", "terminated", "killed"}

Init ==
    /\ pc = [r \in Requests |-> "idle"]
    /\ arg = [r \in Requests |-> None]
    /\ todo = [r \in Requests |-> {}]
    /\ holder = [p \in Probes |-> None]
    /\ probeOf = [s \in Sessions |-> None]
    /\ proc = [s \in Sessions |-> "none"]
    /\ live = {} /\ leased = {} /\ rows = {}
    /\ started = {}
    /\ stops = [s \in Sessions |-> 0]
    /\ sent = [s \in Sessions |-> 0]
    /\ logged = [s \in Sessions |-> 0]
    /\ cut = {}

-----------------------------------------------------------------------------
(* Helpers                                                                  *)

At(r, phase, s) == pc[r] = phase /\ arg[r] = s

Goto(r, phase, s) ==
    /\ pc' = [pc EXCEPT ![r] = phase]
    /\ arg' = [arg EXCEPT ![r] = s]

\* The request returns or raises.
End(r) == Goto(r, "idle", None)

\* A stop returns to its caller: to close(), which goes on with the rest.
Return(r) == Goto(r, IF todo'[r] = {} THEN "idle" ELSE "closing", None)

\* leases.release with the id of h: a stale release changes nothing.
Released(h) == [p \in Probes |-> IF holder[p] = h THEN None ELSE holder[p]]

-----------------------------------------------------------------------------
(* start_gdb and start_gui                                                  *)

\* The lease is acquired and the Commander identity preflight starts.
Start(r, s, p) ==
    /\ pc[r] = "idle"
    /\ probeOf[s] = None
    /\ holder[p] = None
    /\ holder' = [holder EXCEPT ![p] = s]
    /\ probeOf' = [probeOf EXCEPT ![s] = p]
    /\ Goto(r, "preflight", s)
    /\ UNCHANGED <<todo, proc, tables, audit>>

\* except BaseException: release the lease and raise.
AbandonStart(r) ==
    /\ holder' = Released(arg[r])
    /\ End(r)

PreflightFails(r) ==
    /\ pc[r] = "preflight"
    /\ AbandonStart(r)
    /\ UNCHANGED <<todo, probeOf, proc, tables, audit>>

\* create_subprocess_exec; then wait for the port or the GUI's 0.3 s.
Spawn(r) ==
    /\ pc[r] = "preflight"
    /\ proc' = [proc EXCEPT ![arg[r]] = "running"]
    /\ Goto(r, "launching", arg[r])
    /\ UNCHANGED <<todo, holder, probeOf, tables, audit>>

\* The server listens and GDB connects, or the application is still up: the
\* session enters every table and the audit chain with no await in between.
LaunchOk(r) ==
    /\ pc[r] = "launching"
    /\ proc[arg[r]] = "running"
    /\ live' = live \cup {arg[r]}
    /\ leased' = leased \cup {arg[r]}
    /\ rows' = rows \cup ({arg[r]} \cap GdbSessions)
    /\ started' = started \cup {arg[r]}
    /\ End(r)
    /\ UNCHANGED <<todo, holder, probeOf, proc, stops, sent, logged, cut>>

\* The process exited before it was ready.
LaunchFails(r) ==
    /\ pc[r] = "launching"
    /\ proc[arg[r]] = "exited"
    /\ AbandonStart(r)
    /\ UNCHANGED <<todo, probeOf, proc, tables, audit>>

\* GDB only: the port stays closed for 15 s or GDB reports an error.  The
\* server is terminated and awaited, without a timeout and without SIGKILL.
LaunchAborts(r) ==
    /\ pc[r] = "launching"
    /\ arg[r] \in GdbSessions
    /\ proc[arg[r]] = "running"
    /\ proc' = [proc EXCEPT ![arg[r]] = "terminated"]
    /\ Goto(r, "aborting", arg[r])
    /\ UNCHANGED <<todo, holder, probeOf, tables, audit>>

AbortEnds(r) ==
    /\ pc[r] = "aborting"
    /\ proc[arg[r]] = "exited"
    /\ AbandonStart(r)
    /\ UNCHANGED <<todo, probeOf, proc, tables, audit>>

\* GDB only: the GDB client does not start or does not answer in time, and
\* the exception of GdbController leaves start() past the server.
ClientFails(r) ==
    /\ "client" \in Faults
    /\ pc[r] = "launching"
    /\ arg[r] \in GdbSessions
    /\ AbandonStart(r)
    /\ UNCHANGED <<todo, probeOf, proc, tables, audit>>

-----------------------------------------------------------------------------
(* stop_gdb, stop_gui and close                                             *)

\* Mutant: the probe is released, whoever's lease is on it.
DropLeaseOfProbe(s) ==
    /\ leased' = leased \ {s}
    /\ holder' = [holder EXCEPT ![probeOf[s]] = None]

\* pop from the lease table, and release what was there.
DropLease(s) ==
    /\ leased' = leased \ {s}
    /\ holder' = IF s \in leased THEN Released(s) ELSE holder

\* Mutant: the stop is audited even of a session nobody knows.
StoppedAlwaysKnown(s, known) ==
    /\ rows' = rows \ {s}
    /\ DropLease(s)
    /\ stops' = [stops EXCEPT ![s] = @ + 1]
    /\ UNCHANGED <<probeOf, proc, started, sent, logged, cut>>

\* The body of stop_gdb and stop_gui after the backend's stop: the row goes,
\* then in `finally` the lease; the stop is audited if the session was known.
Stopped(s, known) ==
    /\ rows' = rows \ {s}
    /\ DropLease(s)
    /\ stops' = IF known THEN [stops EXCEPT ![s] = @ + 1] ELSE stops
    /\ UNCHANGED <<probeOf, proc, started, sent, logged, cut>>

MayStop(r, s) ==
    \/ pc[r] = "idle"
    \/ /\ pc[r] = "closing"
       /\ s \in todo[r]
       /\ s \in GuiSessions => todo[r] \subseteq GuiSessions

\* The stop of a session the backend does not know, or whose process is gone,
\* has no await: it is over at once.
StopAtOnce(r, s) ==
    /\ MayStop(r, s)
    /\ probeOf[s] # None
    /\ s \notin live \/ proc[s] = "exited"
    /\ live' = live \ {s}
    /\ Stopped(s, s \in live)
    /\ todo' = [todo EXCEPT ![r] = @ \ {s}]
    /\ Return(r)

\* The backend forgets the session, SIGTERMs its process and waits 3 s.
StopBegin(r, s) ==
    /\ MayStop(r, s)
    /\ s \in live
    /\ proc[s] = "running"
    /\ live' = live \ {s}
    /\ proc' = [proc EXCEPT ![s] = "terminated"]
    /\ todo' = [todo EXCEPT ![r] = @ \ {s}]
    /\ Goto(r, "stopping", s)
    /\ UNCHANGED <<holder, probeOf, leased, rows, audit>>

\* Mutant: SIGTERM is never followed by SIGKILL.
KillNever(r) ==
    /\ FALSE
    /\ proc' = [proc EXCEPT ![arg[r]] = "killed"]
    /\ UNCHANGED <<pc, arg, todo, holder, probeOf, tables, audit>>

\* The 3 s are over: SIGKILL, and wait again.
Kill(r) ==
    /\ pc[r] = "stopping"
    /\ proc[arg[r]] = "terminated"
    /\ proc' = [proc EXCEPT ![arg[r]] = "killed"]
    /\ UNCHANGED <<pc, arg, todo, holder, probeOf, tables, audit>>

\* Mutant: the row stays behind.
StopEndKeepsRow(r) ==
    /\ pc[r] = "stopping"
    /\ proc[arg[r]] = "exited"
    /\ DropLease(arg[r])
    /\ stops' = [stops EXCEPT ![arg[r]] = @ + 1]
    /\ UNCHANGED <<todo, probeOf, proc, live, rows, started, sent, logged, cut>>
    /\ Return(r)

\* The process is gone.
StopEnd(r) ==
    /\ pc[r] = "stopping"
    /\ proc[arg[r]] = "exited"
    /\ Stopped(arg[r], TRUE)
    /\ UNCHANGED <<live, todo>>
    /\ Return(r)

\* close() at shutdown lists the lease tables and stops what they list, GDB
\* sessions first.  (Its last call, gui.stop_all, finds a session only if one
\* was launched during the shutdown; that is left out.)
Close(r) ==
    /\ pc[r] = "idle"
    /\ leased # {}
    /\ todo' = [todo EXCEPT ![r] = leased]
    /\ Goto(r, "closing", None)
    /\ UNCHANGED <<holder, probeOf, proc, tables, audit>>

-----------------------------------------------------------------------------
(* Requests that use a session                                              *)

\* gdb_command and capture_gdb_channel in a worker thread or on a socket;
\* keys, clicks and screenshots through the process runner.
Command(r, s) ==
    /\ pc[r] = "idle"
    /\ s \in live
    /\ sent[s] < MaxCommands
    /\ sent' = [sent EXCEPT ![s] = @ + 1]
    /\ Goto(r, "commanding", s)
    /\ UNCHANGED <<todo, holder, probeOf, proc, tables, started, stops, logged, cut>>

\* The command is done.  A GUI action is audited whatever became of its
\* session; a GDB command asks session_info first, which raises ValueError
\* when a stop has taken the session away.
CommandDone(r) ==
    /\ pc[r] = "commanding"
    /\ logged' = IF arg[r] \in live \cup GuiSessions
                 THEN [logged EXCEPT ![arg[r]] = @ + 1]
                 ELSE logged
    /\ End(r)
    /\ UNCHANGED <<todo, holder, probeOf, proc, tables, started, stops, sent, cut>>

\* serial_exchange and audited_serial_operation on the probe of a GDB session:
\* the selector is found in _gdb_selectors and no lease is taken.
SerialDirect(r, s) ==
    /\ pc[r] = "idle"
    /\ s \in leased \cap GdbSessions
    /\ Goto(r, "direct", s)
    /\ UNCHANGED <<todo, holder, probeOf, proc, tables, audit>>

\* With no such session the exchange runs in a lease() context of its own,
\* and the grant finds none registered on the probe.
SerialLeased(r, p) ==
    /\ pc[r] = "idle"
    /\ holder[p] = None
    /\ holder' = [holder EXCEPT ![p] = r]
    /\ Goto(r, "serial", None)
    /\ UNCHANGED <<todo, probeOf, proc, tables, audit>>

SerialEnds(r) ==
    /\ pc[r] \in {"direct", "serial"}
    /\ holder' = Released(r)
    /\ End(r)
    /\ UNCHANGED <<todo, probeOf, proc, tables, audit>>

-----------------------------------------------------------------------------
(* Cancellation and processes                                               *)

\* Mutant: `finally` in stop covers exceptions but not the lease table.
CancelStopKeepsEntry(r) ==
    /\ "cancel" \in Faults
    /\ pc[r] = "stopping"
    /\ holder' = Released(arg[r])
    /\ todo' = [todo EXCEPT ![r] = {}]
    /\ End(r)
    /\ UNCHANGED <<probeOf, proc, tables, audit>>

\* CancelledError out of the backend's stop: only `finally` runs.  It ends a
\* close() too.
CancelStop(r) ==
    /\ "cancel" \in Faults
    /\ pc[r] = "stopping"
    /\ DropLease(arg[r])
    /\ todo' = [todo EXCEPT ![r] = {}]
    /\ cut' = cut \cup {arg[r]}
    /\ End(r)
    /\ UNCHANGED <<probeOf, proc, live, rows, started, stops, sent, logged>>

\* CancelledError in any other await: contexts and `except` release.
Cancel(r) ==
    /\ "cancel" \in Faults
    /\ \/ pc[r] \in Starting /\ AbandonStart(r)
       \/ pc[r] \in {"commanding", "direct", "serial"}
          /\ holder' = Released(r) /\ End(r)
    /\ UNCHANGED <<todo, probeOf, proc, tables, audit>>

\* A process ends: by itself, by SIGTERM, by SIGKILL.
Exits(s) ==
    /\ proc[s] \in Alive
    /\ proc' = [proc EXCEPT ![s] = "exited"]
    /\ UNCHANGED <<pc, arg, todo, holder, probeOf, tables, audit>>

StartStep(r) ==
    \/ PreflightFails(r)
    \/ Spawn(r)
    \/ LaunchOk(r)
    \/ LaunchFails(r)
    \/ LaunchAborts(r)
    \/ AbortEnds(r)
    \/ ClientFails(r)

RequestStep(r) ==
    \/ \E s \in Sessions, p \in Probes : Start(r, s, p)
    \/ StartStep(r)
    \/ \E s \in Sessions : \/ StopAtOnce(r, s)
                           \/ StopBegin(r, s)
                           \/ Command(r, s)
                           \/ SerialDirect(r, s)
    \/ Kill(r)
    \/ StopEnd(r)
    \/ Close(r)
    \/ CommandDone(r)
    \/ \E p \in Probes : SerialLeased(r, p)
    \/ SerialEnds(r)
    \/ CancelStop(r)
    \/ Cancel(r)

Next ==
    \/ \E r \in Requests : RequestStep(r)
    \/ \E s \in Sessions : Exits(s)

Spec == Init /\ [][Next]_vars

\* Requests in progress run on: the preflight, the launch and the exchanges
\* have deadlines of their own, timers fire, and SIGKILL ends a process.
\* Nothing makes a process obey SIGTERM.
Fairness ==
    /\ \A r \in Requests :
        /\ WF_vars(StartStep(r))
        /\ WF_vars(Kill(r))
        /\ WF_vars(StopEnd(r))
        /\ WF_vars(\E s \in todo[r] : StopAtOnce(r, s) \/ StopBegin(r, s))
    /\ \A s \in Sessions : WF_vars(proc[s] = "killed" /\ Exits(s))

FairSpec == Spec /\ Fairness

-----------------------------------------------------------------------------
(* Properties                                                               *)

\* The values the tables may take.
TypeOK ==
    /\ pc \in [Requests -> Phases]
    /\ arg \in [Requests -> Sessions \cup {None}]
    /\ todo \in [Requests -> SUBSET Sessions]
    /\ holder \in [Probes -> Sessions \cup Requests \cup {None}]
    /\ probeOf \in [Sessions -> Probes \cup {None}]
    /\ proc \in [Sessions -> {"none", "exited"} \cup Alive]
    /\ live \subseteq Sessions
    /\ leased \subseteq Sessions
    /\ rows \subseteq GdbSessions
    /\ started \subseteq Sessions
    /\ stops \in [Sessions -> Nat]
    /\ sent \in [Sessions -> 0..MaxCommands]
    /\ logged \in [Sessions -> Nat]
    /\ cut \subseteq Sessions

\* The backend, service and lease tables are three dicts in three objects,
\* filled and emptied at different times by different requests: a session in
\* a lease table holds the probe it was started on, and a session the backend
\* serves is in a lease table.
RegisteredHoldsLease ==
    /\ live \subseteq leased
    /\ \A s \in leased : probeOf[s] # None /\ holder[probeOf[s]] = s

\* No lease is lost: whatever was cancelled, timed out or stopped twice, a
\* probe is held by a registered session, by the start of a session that is
\* still in progress, or by a serial exchange that is.
LeaseAccounted ==
    \A p \in Probes :
        /\ holder[p] \in Sessions =>
               /\ probeOf[holder[p]] = p
               /\ \/ holder[p] \in leased
                  \/ \E r \in Requests : pc[r] \in Starting /\ arg[r] = holder[p]
        /\ holder[p] \in Requests => pc[holder[p]] = "serial"

\* A start in progress holds the probe alone, and a serial exchange in its
\* context does: no stop of another session, however late or repeated,
\* releases it.
StarterHoldsLease ==
    \A r \in Requests :
        /\ pc[r] \in Starting =>
               /\ arg[r] \in Sessions \ (leased \cup started)
               /\ probeOf[arg[r]] # None
               /\ holder[probeOf[arg[r]]] = arg[r]
        /\ pc[r] = "serial" => \E p \in Probes : holder[p] = r

\* Only one request at a time waits for the start of a session.
StartersDiffer ==
    \A r, q \in Requests :
        pc[r] \in Starting /\ pc[q] \in Starting /\ arg[r] = arg[q] => r = q

\* What StartersDiffer needs: a request that works on a session has one.
ArgsDrawn ==
    /\ \A r \in Requests : pc[r] \in {"stopping"} \cup Using => arg[r] \in Sessions
    /\ \A s \in started : probeOf[s] # None
    /\ leased \subseteq started

\* A session is audited as stopped at most once, after its start, and not
\* while the backend still serves it, also when several requests stop it and
\* close() does too.
StopAuditedOnce ==
    \A s \in Sessions :
        /\ stops[s] <= 1
        /\ stops[s] # 0 => s \in started \ live

\* One request at most waits for the end of a session, which the backend no
\* longer serves and whose stop record is still to come.
StoppersDiffer ==
    /\ \A r \in Requests :
        pc[r] = "stopping" => arg[r] \in started \ live /\ stops[arg[r]] = 0
    /\ \A r, q \in Requests :
        pc[r] = "stopping" /\ pc[q] = "stopping" /\ arg[r] = arg[q] => r = q

\* A session that is over left its stop record, unless its one stop was
\* cancelled: overlapping stops, close() and processes that end by themselves
\* lose none.
StoppedIsAudited ==
    \A s \in started \ (live \cup cut) :
        stops[s] = 1 \/ \E r \in Requests : At(r, "stopping", s)

\* The row of a GDB session lives at least as long as the session and, unless
\* its stop was cancelled, no longer than its lease, so that a restart clears
\* what was really running.
RowsMatchLeases ==
    /\ live \cap GdbSessions \subseteq rows
    /\ rows \ cut \subseteq leased

\* Leases and their users fit together both ways: no lease is lost, and none is
\* taken from a start or a serial exchange in progress (start_gdb, stop_gdb,
\* _serial_exchange).
LeasesHaveUsers == LeaseAccounted /\ StarterHoldsLease

\* The stop of a session is audited, and audited once (stop_gdb, stop_gui,
\* close).
StopsAudited == StopAuditedOnce /\ StoppedIsAudited

\* The inductive invariant behind the safety theorems.
IInv ==
    /\ TypeOK
    /\ RegisteredHoldsLease
    /\ LeaseAccounted
    /\ StarterHoldsLease
    /\ StartersDiffer
    /\ ArgsDrawn
    /\ StopAuditedOnce
    /\ StoppersDiffer
    /\ StoppedIsAudited
    /\ RowsMatchLeases

\* stop_gdb, stop_gui and close end: SIGKILL follows SIGTERM.
StopCompletes ==
    \A r \in Requests : (pc[r] \in {"stopping", "closing"}) ~> (pc[r] = "idle")

\* "Exclusive per-probe leases": while the process the service started on a
\* probe is alive, the probe is leased to its session, so that no other
\* request is given the probe under a running debugger.
LeaseCoversServer ==
    \A s \in Sessions : proc[s] \in Alive => holder[probeOf[s]] = s
=============================================================================
