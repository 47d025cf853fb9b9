# A verification project for j-link_mcp

TLA+ models of the concurrent and stateful parts of `j-link_mcp`, an MCP server
that drives SEGGER J-Link debug probes, and of its extensions for the Arduino
GIGA, among them a serial protocol bridge with firmware of its own. Every
definition is translated from the code under `src/`; `PROJECT.json` maps each
definition to its lines. Each model is checked by TLC on a small instance, and
the safety properties that matter most are proved with TLAPS for every value
of the constants.

Paths below are relative to `src/`; `core` is `src/jlink_mcp`, `bridge` is
`extensions/giga_protocol_bridge/src/jlink_mcp_giga_protocol_bridge`, `giga` is
`extensions/arduino_giga/src/jlink_mcp_arduino_giga`.

## The system

One process runs one asyncio event loop. MCP requests are tasks that interleave
at their awaits; processes (J-Link Commander, GDB servers, GUI applications) and
worker threads (the serial ports) run beside the loop. The operation store is
an SQLite file that survives a restart; everything else is in memory.

| Component | State | Operations | Hard behaviour |
|---|---|---|---|
| Probe leases (`core/leases.py`) | one `asyncio.Lock` per probe, `_active`, `_by_id`, `_lease_tasks` | `lease` (a re-entrant context), `acquire`, `release` | timeouts and cancellations that meet a wake-up, nesting by task, stale releases |
| Service, sessions (`core/service.py`, `backends/gdb.py`, `backends/gui.py`) | `_sessions` of the backends, `_gdb_leases`, `_gdb_selectors`, `_gdb_identities`, `_gui_leases`, `_gui_selectors`, rows in the store, processes | `start_gdb`, `gdb_command`, `capture_gdb_channel`, `stop_gdb`, the same for GUIs, `close` | five tables around awaits, overlapping stops, cancelled starts, processes that ignore signals |
| Service, one-shot operations (`core/service.py`, `runner.py`, `backends/commander.py`, `backends/application.py`) | a process and a lease per request | `commander_commands`, `run_application`, identity preflight, resume | retries, timeouts and SIGKILL, cancellation, records in the right order |
| Serial transport (`backends/serial.py`) | worker threads that have a port | `exchange`, `exchange_binary` | a worker outlives its cancelled caller |
| Operation store (`core/store.py`) | the hash chain `operations`, `sessions`, the artifact catalogue | `append_operation`, `verify_chain`, `has_verified_target`, `upsert_session`, `delete_session`, `clear_stale_sessions` | two processes on one file, a crash between two steps of a restart |
| Target selection (`core/service.py`, `discovery.py`) | none of its own: the USB and the store | `resolve_selector`, `resolve_selector_wait`, identity preflight | devices that come and go, selections that rest on records of selections |
| Core workflows (`core/workflows.py`) | files and the flash | `flash_and_verify`, `flash_binary`, `backup_flash`, `compare_firmware`, `compare_backup_region`, `restore_backup`, `capture_rtt` | a file is read more than once, steps take leases of their own |
| Bridge host (`bridge/backend.py`, `wire.py`, `service.py`, `models.py`) | a lock per port | `request`, and a typed model per operation | late answers, damage, loss, restarts of the device; two sides that must agree on every field |
| Bridge firmware (`bridge/firmware/protocol_bridge`) | message assembly, pin owners, peripheral tables, `radio_mode`, sockets, BLE peer, receive queues | frames, one handler per operation, pollers | conflicts of pins and radios in any order, partial drains of a ring |
| Flash workflows (`bridge/workflows.py`, `giga/workflows.py`) | the flash of the board, backups | `deploy_protocol_bridge`, `validate_fixture`, `restore_backup`, `flash_binary` | failure or cancellation after flashing has begun, other clients in between |
| Extension loader (`core/extensions`) | registry, loaded extensions | load, roll back, shut down | dependencies, failures in any step, failing hooks, exceptions that pass every `except Exception` |
| Server, CLI, doctor, configuration, security | none that changes, or a single value | | |

They interact by calls on the event loop, through the probe leases, and through
the tables and the store. The firmware is reached over a serial line only.

What makes each correct:

- leases: one holder per probe; no wake-up lost; FIFO; every wait ends;
- sessions: a session in any table holds its own lease; no lease is lost; a stop
  is recorded exactly once; stops end;
- operations: nothing acts on a target before a positive identification that
  was audited under the same lease; records once, in the order of the leases;
- the link: an accepted answer is the answer to that request; the device
  executes whole requests, at most once, in order;
- firmware: a pin serves its owner; one radio at a time; records of the receive
  queues are complete, in order, and counted when refused;
- workflows: the flash is what the report says, and a failed change is put back;
- the store: the chain verifies after any crash, and no session that had a row
  disappears without a stop or a recovery record;
- selection: an operation runs for a pair that was attached once, and a selector
  is completed, never guessed;
- extensions: a load happens in the order of the dependencies or not at all;
- the bridge's contract: a request that is sent is one that the device takes, and
  the host listens for as long as the device may wait.

## The modules

    ExclusiveGrant   <--refines--  ProbeLeases      ProbeLeases_proofs
                                     | exclusive grants, used by
              +----------------------+---------------------+
              v                      v                     v
       ManagedSessions          Operations          FlashWorkflows
       ManagedSessions_proofs   Operations_proofs   Workflows_proofs

    AuditStore  <--EXTENDS--  TargetSelection, TargetSelection_proofs  \
    ExtensionLoader, ExtensionLoader_proofs                            |  HostMC
    CoreWorkflows, FlashWorkflows, Workflows_proofs                    /

    RecordQueue  <--refines--  ReceiveQueue

    BridgeContract    fields of a request and of its answer  \
    BridgeLink        messages and frames                     |  BridgeMC
    BridgeCodec       bytes of frames and bodies              |
    BridgeFirmware    what requests do to the device          |
    ReceiveQueue      what the device has received            /
    Bridge_proofs (of BridgeLink and BridgeFirmware)
    BridgeBytes_proofs (of BridgeCodec and ReceiveQueue)

The `...MC` modules instantiate the others for TLC, and the `.cfg` files give the
constants their values. `HostMC` and `BridgeMC` take several components that
share no variable: a variable `part`, chosen at the start, says whose behaviour
it is, and the others stay in their initial state, so that a run explores the
sum of the state spaces and not their product. A step is always what one actor
does between two suspension points; since the event loop is single-threaded,
that is exactly the granularity at which requests interleave.

**ProbeLeases** models `ProbeLeaseManager` together with the `asyncio.Lock` and
`asyncio.wait_for` it stands on (`WakeUpFirst`, `MayTakeNow` and the futures of
waiters are marked external). `TakeNow`, `Queue`, `Expire`, `CancelRequest`,
`ResumeGranted`, `ResumeInterrupted` are `acquire`; `EnterNested`, `ExitNested`
and `ExitLease` the context; `ReleaseSession` a release by a session, by any
task and repeatedly. The `_guard` lock is never held over an await and so is
left out. `ExclusiveGrant` is its promise: an id is granted once, to a free
probe. The other modules use leases as these exclusive grants.

**ManagedSessions** has a program counter per request for the awaits of starts,
stops, commands, serial exchanges and `close`, and the tables as sets of
sessions (`live`, `leased`, `rows`). Tables that are always changed together
are one variable. Processes end when they like; SIGTERM may be ignored, SIGKILL
not. `Faults` selects cancellation and a GDB client that fails.

**Operations** follows `commander_commands` and `run_application` through
preflight, resume, attempts and records, and `ProcessRunner.run` through
timeout, SIGTERM, SIGKILL and cancellation, while the board under a probe may be
exchanged at any time. The chain is a sequence of records here; its hashes are in
AuditStore.

**AuditStore** is the SQLite file and the server processes that open it.
`append_operation` is `BeginAppend` (the last hash is read) and `Insert`, since
the lock of the store belongs to one process; `clear_stale_sessions` is
`SelectStale` and `DeleteStale`, and the recovery record of `__init__` follows
in two more steps. A process may end at any of them. A hash stands for the
sequence of payloads it was computed from.

**TargetSelection** EXTENDS it with the operations that fill it:
`resolve_selector` as the set of selectors it may return (`Resolve`), the
preflight and the command with their records, and a USB that changes at any
time. `has_verified_target` reads the records of earlier selections.

**ExtensionLoader** follows `ExtensionManager.load`: `Visit` and `Visited` are
the recursive visits of `_topological_order`; `Register`, `Contribute` and
`Registered` one `register`; `LoadFails` any failure; then the hooks, the
roll-back of the registrations and, after a successful load, `Shutdown`. The code
catches an `Exception` only; what else a step may end with leaves the load where it
is (`LoadBreaks`), or the hooks: `HookBreaks` out of `shutdown` or the load,
without roll-back, `HookBreaksThread` in the thread that runs them beside a running
event loop, which catches it and goes on to the roll-back. A hook ends so when a
task it has cancelled and awaits raises `CancelledError`, and no signal is needed.
`enabled` and `deps` are any the configuration may name.

**CoreWorkflows** has one record per request, the flash region and the file
that the requests name, which its owner may rewrite between any two reads.
`flash_binary` and `restore_backup` share `LoadFile`, `CompareBin`, `HashFile`;
`Recheck` is the separate `verify_binary` of `restore_backup`.

**FlashWorkflows** has the two banks of the flash with their contents, the one
lease, and the requests of four kinds: deployments, fixture validations, plain
writers and debug sessions. A Commander run that writes leaves the banks torn
until it ends and may fail with them torn or filled.

**BridgeLink** has the port lock, the worker, both directions of the line as
sequences of frames, and the assembly of the firmware. Frames may be damaged or
lost and the device may restart; the host may give up at any time.

**BridgeCodec** has COBS as `wire.py` and `BridgeWire.h` implement it, the
splitting of the line at the delimiters by `loop()` and by `decode_stream`, and
the bodies as both sides parse them. Bytes of the line are lost or changed.
It justifies what BridgeLink assumes of frames. A loop of the code is a function
from the number of its rounds to the state after them, and a parse that goes
through a text is a function of the position where it stands, so that both can be
proved about.

**BridgeContract** composes one request of any kind, field by field, from the
limits of its model, and follows it through the service (`SecretsOf`,
`Deadline`), `encode_request_body` (`FieldId`, `Scalar`, `Body`), the checks of
its handler (`Reads`, `Together`) and the answer. The tables `ControlModels`,
`FieldNames` and `Reads` are those of `models.py`, `wire.py` and the firmware;
`SentIsAccepted` relates them. A text has a length in characters, which the models
limit, and one in bytes of UTF-8, which `_scalar` sends and the firmware checks;
they differ wherever no pattern keeps the text to ASCII (serial numbers, hosts,
UUIDs, the SSID and the password).

**BridgeFirmware** has a variable for each resource table of the firmware and one
action per handler. The firmware runs one request to its end before the next.

**ReceiveQueue** is the byte ring of `SharedReceiveQueue` with its in-place
compaction, a cell standing for the bytes of a field; **RecordQueue** is the
queue of whole records that `docs/protocol-bridge.md` promises. `write`, `copy` and
`read` are loops, hence functions from the number of rounds (`Written`, `Copied`,
`Passed`), and `Queued` parses what the slice holds, a function of the position
(`Parsed`). `SizesAssumption` asks for a slice of at least one cell and records
that are not empty: every poller pushes only what it has read, and a CAN record has
its identifier.

## The runs

| Run | Shows | Bounds |
|---|---|---|
| `leases` | `ContextCovered`, `NoLostWakeup`, `NoOvertaking`, the refinement `GrantsSpec`, `WaitEnds`, `FreeProbeIsTaken` | 2 probes, 3 tasks, 3 grants, nesting 1 |
| `sessions_safety` | `RegisteredHoldsLease`, `LeasesHaveUsers`, `StopsAudited`, `RowsMatchLeases` under overlapping starts, stops, `close` and cancellation; `StopCompletes` | 3 requests, a GDB and a GUI session, 1 probe, 1 command each |
| `operations_safety` | `ActedOnIdentified`, `StagesAudited`, `LeasesInOrder`, `OneOperationPerProbe`, `RequestsEnd` | 2 requests, 1 probe, 2 attempts, 2 operations |
| `host`, selection | `OnlyOverlapBreaksChain`, `SessionsAccounted`, `SelectedWasAttached`, `SelectionNeverGuesses` | 2 processes, 1 session, 2 probes, 2 boards, 2 profiles, 2 records |
| `host`, loader | `FailedLoadLeavesNothing`, `DependenciesFirst`, `CyclesAreRefused`, `HooksAfterDependents`, `EveryHookRuns` | any subset of 3 extensions with any dependencies, 3 names, 2 contributions each |
| `host`, core | `ReportedDigestIsFlashed`, `EndedHoldsNothing` | 2 requests, 2 images, 1 rewrite |
| `host`, flash | `EndsAsItSays`, `RestoreAttempted` | one request of each kind, 3 faults |
| `bridge`, firmware | `PinsServeOwners`, `RadioModeTruthful` | D8, D9 and one more pin, 1 UART, 2 sockets, 2 peers |
| `bridge`, link | `AcceptedIsMine`, `ExecutedInOrder`, `PortExclusive` | 3 requests of 1 or 2 segments, 1 fault |
| `bridge`, codec | `UntouchedArrive`, `SidesAgree` | 3 frames of 1 or 2 bytes of 3 values, 1 byte of noise, bodies of 6 bytes |
| `bridge`, contract | `SentIsAccepted`, `WaitsFitDeadline` | every operation, each field at its limits |
| `bridge`, queues | `NothingLostUncounted`, the refinement `PromiseSpec` | 2 queues of 10 cells, 2 channels, 2 lengths, 3 limits, 3 records (1 in the second queue) |
| `stale_sessions_unaudited` | a crash during a startup loses stale sessions | as `host`, selection |
| `loader_hooks` | hooks that a failed load never runs | 2 extensions |
| `sessions_double_stop` | a second stop frees the probe of a server that runs | 1 session |
| `operation_cancelled_unaudited` | a cancelled action leaves no record | 1 operation |
| `firmware_radio` | Wi-Fi and BLE on at once | as `bridge`, firmware |
| `bridge_request_sent` | requests of valid models that cannot be sent | as `bridge`, contract |
| `validation_deadlock` | the fixture validation waits for its own lease | 1 validation, no fault |

Why the bounds suffice. The lease races need a holder, a waiter that is
interrupted and a waiter behind it: three tasks; a second probe shows that
tables of different probes do not mix. The session races are between the start
or stop of one session, a second stop or `close`, and a third request that
obtains the probe. Two operations are enough for one to follow the other on a
probe, two attempts for one retry. Flash requests interfere through one lease:
the victim, a writer before and one after are there; three faults allow a step
to fail, the restore to fail and a cancellation to cut it. Three exchanges let
an answer be late by two; one fault of the line in addition to any number of
timeouts reaches every branch of the assembly. The ring of 10 cells is full with
one record of length 2 and two of length 1, and refuses any third after two of
length 2, so that overflow, a head that comes back to 0 and compaction of
overlapping places all happen; records never lie over the end of a slice, since
the code never moves `tail` from 0. Where the theorems below apply, the bounds
do not matter.

In `host`, two records are a selection and another that rests on it, or two
records whose order forks the chain; `Window` is 2 for the 2000 rows that
`has_verified_target` reads. `Scope` keeps the product of what does not
interact small: sessions and a second server are explored with nothing plugged
in, two boards at once only while there is no record. Nothing of a selection
depends on sessions or on other processes except through the records. The
theorems of TargetSelection need none of these bounds. `SYMMETRY` permutes
processes, probes, boards and callers, which no definition tells apart; the
boards have the same profile. Three extensions allow a diamond less one edge, a
cycle of any length up to three, and a failure before, at and after the middle
one. Two requests and one rewrite put a rewrite between any two reads of one
request, and a write of the other between any two of its leases.

In `bridge`, `Full` is 2 for 255: a block of `Full - 1` bytes without a zero is
then one byte, and two bytes already make two blocks. Frames of two bytes
include those that end in a zero and in a full block. `Capacity` is the longest
encoded frame, so a lost delimiter overflows the buffer when frames are joined.
The limits of a field are the values at which a comparison, a width or an
enumeration of either side can differ; inner values of a range pass the same
comparisons.

The runs without deadlock checking (`CHECK_DEADLOCK FALSE`) are of systems that
may stop: all session ids are used, all requests have an outcome, and so on.

### What the violations mean

- `LeaseCoversServer`: a second `stop_gdb` releases the lease while the first
  still waits for the server to end. (The model has another way to break it,
  with `Faults = {"cancel"}`: a `start_gdb` cancelled while it waits for the port
  releases the lease and leaves the server running.)
- `EveryActAudited`: `docs/security.md` promises that audit entries include
  failures; a cancelled command leaves none for the act, only the preflight's.
- `RadioExclusive`: each disconnect resets `radio_mode` whichever radio is on.
  `RadioModeTruthful` says that this is the only way.
- `ValidationPasses`: `validate_fixture` holds the probe in a `lease` context,
  and `start_gdb` asks for it again by `acquire`, which is not re-entrant.
- `EveryRequestIsSent`: the address of a BLE peer is packed as the one byte of an
  I2C address, a local port has no field, and a receive of more than 298 s exceeds
  the limit of the serial exchange. The shortest counterexample is one of them;
  `Encodes` and `MaxExchange` say which requests are concerned.
- `StaleSessionsAudited`: the rows of stale sessions are deleted and committed before
  their recovery is recorded, so that a crash in between leaves nothing that
  tells of them; `docs/operations.md` says they are cleared and audited.
  `SessionsAccounted` says that this crash is the only way to lose one.
- `EveryHookIsReached`: the loops "run every shutdown hook" and "run every rollback
  hook" catch an `Exception`; a hook that ends with a `BaseException` skips those of
  the extensions before it. In the counterexample a load fails and also skips the
  roll-back. `EveryHookRuns` says that nothing else skips a hook, and
  `FailedLoadLeavesNothing` that a load which ends with an `ExtensionError` was
  rolled back, whatever its hooks did.

The device refuses what its models let through in one more case, of which no document
speaks and which no run counts as a violation: a text that is not ASCII and within
its limit in characters can be beyond it in bytes, and is answered with "malformed".
`SentIsAccepted` says that nothing else is.

## Fairness

Only what the code or the operating system guarantees is fair; requests,
clients and boards are free.

- `ProbeLeases`: a task whose future is done runs (`ResumeGranted`,
  `ResumeInterrupted`). That `wait_for` timers fire is assumed where it is
  needed only (`TimersFire` in `WaitEnds`). `FreeProbeIsTaken` needs no timer,
  but that interruptions come to an end (`InterruptionsEnd`).
- `ManagedSessions`: starts go on, since preflight and launch have deadlines;
  the 3 s timer of a stop fires and SIGKILL ends a process. Nothing makes a
  process obey SIGTERM.
- `Operations`: the timeout and the 3 s after it expire, sleeps end, and a
  killed process is gone.
- `FlashWorkflows`: a request that can step does. This is used by
  `ValidationPasses` only.

## What is proved

Each proof module EXTENDS its model and holds the inductive invariant, one lemma
per action and the theorems. Type invariants are the first conjunct of these
invariants and are proved with them rather than checked by a run of their own.
The assumptions are those on the constants, that names do not collide and bounds
are numbers (`CodecAssumption` and `SizesAssumption` say more); the sets of requests, probes,
sessions and tasks are arbitrary.

- **ProbeLeases_proofs**: `TypeCorrect`, `TablesAgree`, `ContextsCovered`,
  `WakeupsKept`, the action property `WaitersServedInOrder`, and `Refinement`, that
  `ProbeLeaseManager` implements `ExclusiveGrant`. `IInv` adds to the properties the discipline of the queue
  (`QueueDiscipline`: a task waits in one queue once; a woken waiter is the
  head of its queue and the lock is free), without which a resumed waiter could
  take a lock that is taken, and `ContextIdsPrivate`, without which the stop of
  a session could release a context.
- **ManagedSessions_proofs**: `SessionsHoldLeases`, `LeasesKept`,
  `StopsAreAudited`, `RowsAreLeased`.
  The strengthening says that two requests never start, or wait for the end of,
  one session (`StartersDiffer`, `StoppersDiffer`); it is what makes a repeated
  stop harmless to the tables.
- **Operations_proofs**: `ActsOnIdentifiedTargets`, `StagesAreAudited`,
  `RecordsInLeaseOrder`, `ProbesExclusive`. The
  strengthening says for each stage what the log already holds for its
  operation (`StageHeld`, `StageRecords`), and that the numbers of operations in
  progress differ and are larger than those recorded on their probe.
- **Bridge_proofs**, of the link: `PortIsExclusive`: the lock is held by the one
  request between `Lock` and `Finish`, cancelled or not. `AcceptedAreMine` and
  `ExecutionInOrder` rest on `LinkInv`, which speaks of every place where a
  frame can be: requests on the line and in the assembly are segments of the
  bodies that were sent, and what is executed, assembled and on the line follows
  the order of sending (`InOrder`); every undamaged answer is of a request that
  was executed (`AnswersSound`). Losing or damaging frames only thins the line
  (`Thins`). Nothing is assumed of the number of requests, segments or faults.
- **Bridge_proofs**, of the firmware: `PinsAreOwned`, `RadioIsTruthful`; together
  with the type invariant these are inductive as they stand.
- **BridgeBytes_proofs**, for every `Full` of 2 or more and frames of any length:
  - `RoundTrip`: what either encoder makes, either decoder gives back. A loop is
    reasoned about by an invariant of its rounds (`LoopInvariant`);
  - `EncodingsFit`: the longest frame fits `encoded_input`. It uses
    `CodecAssumption`, that `Capacity` covers a frame, one byte more and one for each
    full block; `kEncodedCapacity` is `kMaxDecodedFrame + kMaxDecodedFrame / 254 + 4`;
  - `Agreement`: whatever bytes arrive, both sides read the same frame and the
    same body in it or both refuse. This is about the functions alone
    (`SidesDecodeAlike`, `SidesReadAlike`) and needs only the type of the line;
  - `DamageIsLocal`: lost and changed bytes cost the frames they belong to or
    delimit, and no other. Its invariant `Arrival` says where each frame is that
    nothing touched (`OnItsWay`): on the line as it was written, with the first
    bytes in the piece being collected, or delivered; deliveries of such frames are
    those frames, in the order of sending (`Genuine`, `InOrder`). `Clear` says
    that a frame written next is not joined with what is there, unless it counts
    as touched because the delimiter before it was.
- **BridgeBytes_proofs**, of the receive queues, for any number of queues, size of a
  slice, channels, lengths of records and limits: `RecordsAreCounted` and
  `QueueRefinement`, that the rings implement the queues of whole records.
  - The property speaks of what a parse of the slice gives, and a step moves bytes. The
    inductive invariant `QueuesCounted` (`CountedAlways`) therefore says where the
    bytes are: in each slice whole records lie one after the other from the tail
    on (`HoldsIn`, `Lies`), `used` is their size and `head` where the last one
    ends (`RingOf`), and their numbers with those drained and those refused are the
    records that arrived (`Counted`).
  - `ParsedFrom`: from such a slice the parse gives those records.
  - `PushIs`: a push writes behind them and not past the end of the slice, so that
    no record is ever wrapped.
  - `ReadIs` is about the loop of `read`. `AtRound` is its invariant: after k
    records, a drain has moved those of other channels to the start of the slice and
    has changed nothing from the k-th on, so that the next header is still where it was
    (`RoundAtRecord`, `KeptGrows`). The two places of a `copy` may overlap; it
    moves down and begins with the first byte, and `CopiedIs` needs both.
  - `PollOffers` and `ReceiveReceives`: each step is one of RecordQueue.
- **Workflows_proofs**, of the fixture and deployment workflows: `ReportsAreTrue`
  and `RestoresAreAttempted`. A request that writes, or has written and not
  ended, holds the lease; hence what it backed up is what it found, and the bank
  it does not write stays.
- **Workflows_proofs**, of the core workflows: `DigestsAreFlashed` and
  `EndedHaveNoLease`. The lease is that of the request whose run or session is on
  (`LeaseIsOfRun`). `DigestFollows` says for each kind of request which digest it
  has taken, or will take, before it returns: for backups and copied regions that of
  the copy; for the others the digest and the flash compared with it are among the
  contents that the file had since the request began (`had`).
- **TargetSelection_proofs**: `ChainVerifies`, `SessionsAreAccounted`,
  `SelectionsWereAttached`, `SelectionsAreNoGuesses`. For the chain: without
  an overlap, the previous hash that a process has read is still that of the
  last record when it inserts. For the sessions: with one process alive,
  what was selected for clearing is all of the table when it is deleted, and
  stays in `stale` until its record is inserted (`StageInv`). For selection: every pair in
  an operation, in a record about to be inserted or in a record was seen
  (`PairInv`), by induction over selections that rest on earlier records. That no
  selection guesses needs the same invariant, for a board that is not attached any more
  (`EvidenceIsSeen`); the rest follows from the cases of `Resolve` (`ChosenProbe`,
  `ChosenProfile`, `ChosenBoard`). Sets of processes, devices and sessions are arbitrary, those of
  devices finite.
- **ExtensionLoader_proofs**: `FailuresLeaveNothing`, `DependenciesAreFirst`,
  `CyclesRefused`, `HooksFollowDependents`, `EveryHookIsRun`. The invariant says that the order has
  no repetition and each dependency before its dependents (`OrderInv`), that
  what started is a prefix of it and what is loaded a prefix of that
  (`StartInv`), that hooks have run from the end of what started (`HookInv`),
  and that a name which is not as the core left it is noted by a context that is
  still to be rolled back (`RegistryInv`). That a cycle is refused follows from
  the order alone: a set of extensions each of which needs another of the set has
  no first member in it.

`NumbersFromZero` is induction for a set of numbers, from the least element of
the library's `WFMin`; it serves where the property can be written as a set, as
for the rounds of a loop.

Only model-checked:

- the liveness properties (`WaitEnds`, `FreeProbeIsTaken`, `StopCompletes`,
  `RequestsEnd`), which need fairness and ENABLED;
- `SentIsAccepted` and `WaitsFitDeadline` of `BridgeContract`: the module has no
  constant for a theorem to be about. Its tables are those of the code, its run takes
  every operation with each field at its limits, and what either side checks of
  a field is an interval or a list, so that values between the limits add nothing.

## What is abstracted, and what is not modelled

Identifiers drawn at random (lease ids, session ids, 32-bit request ids) are
taken to differ. A checksum detects every damage. The text of commands, MI
records and JSON, register contents, pin levels, timestamps and wording are left
out; so is the time a transfer takes (an SPI exchange of 64 000 bytes at 1
kHz outlasts the deadline of its exchange; its answer is then a late one).
`WaitsFitDeadline` covers the waits that the firmware bounds: the loops of
`receive`, `wifi_connect`, `ble_scan` and `ble_connect`, and the pulse. The time inside
library calls is bounded by no code here: `WiFi.begin`, which runs before the loop
of 30 s and shares the 35 s with it, `connect` after the 10 s of `ble_connect`, a
socket's `connect`, a BLE discovery, a USB transfer. An answer that comes too late
for such a call is a late one in `BridgeLink`.
Artifacts are registered by digest, and the catalogue is not modelled. A
selection is one step: `resolve_selector` does not await. `Close` of
`ManagedSessions` leaves out its last call, `gui.stop_all`, which finds a
session only if one is launched during the shutdown. A deployment's release
check is one step that may fail.

Not modelled: doctor, configuration, profiles, artifacts, security and the entry
points (no state that changes, or plain input; what discovery reports is the
input of TargetSelection); building of firmware in containers; the fixture
firmware; timestamps of the device, which nothing orders by. Environment
overrides of extensions are not modelled either, though the name space of an
extension id can be a prefix of another's.

Behaviours that the models have and no property judges, since the code promises
nothing about them: a serial operation over the GDB session of another request
(`SerialDirect`), a second cancellation of a run (`CancelAgain`), a load that a
`BaseException` leaves before its cleanup (`LoadBreaks`), a crash while the flash is
written (`Crash`), a file that its owner rewrites between two reads of one request
(`EditFile`: the digest that `restore_backup` authorises is of the first read, and a
rewritten file is programmed and compared as it is then; `ReportedDigestIsFlashed` says
what holds of the reports), and a deployment after one that could not be restored,
which takes the torn flash for the original.

## Plan

Done, in this order: leases, sessions, operations, firmware resources, receive
queue, link, flash workflows, store and selection, extension loader, core
workflows, codec, contract, with the proofs above.

Next:

1. Liveness of a load: every load ends in serving or failed if hooks return.
2. The artifact catalogue, in which a second artifact of one digest replaces the
   path of the first.
