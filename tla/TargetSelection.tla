--------------------------- MODULE TargetSelection ---------------------------
(***************************************************************************)
(* How an operation selects its probe and board, and what later selections  *)
(* make of its record: JLinkService.resolve_selector, the identity          *)
(* preflight, and AuditStore.has_verified_target, which lets a board that   *)
(* is not attached be selected on the evidence of the operation history     *)
(* (src/src/jlink_mcp/service.py, store.py, discovery.py, profiles.py).     *)
(* Server processes share the store of AuditStore.                          *)
(*                                                                          *)
(* Cores, interfaces and speeds are completed from the profile and left     *)
(* out; what the preflight observes is one of three outcomes.               *)
(***************************************************************************)
EXTENDS AuditStore, FiniteSets

CONSTANTS Probes,       \* serials of J-Link probes
          Boards,       \* serials of boards that a registered detector knows
          Profiles,     \* registered target profiles
          ProfileOf,    \* ProfileOf[b]: the profile the detector reports for b
          Window,       \* rows has_verified_target looks at, 2000 in the code
          Observations, \* what a preflight may observe, see below
          MaxRows       \* bound: records in the store

ASSUME NothingAssumption ==
    Nothing \notin Probes \cup Boards \cup Profiles \cup Processes \cup Sessions
ASSUME ProfileAssumption == ProfileOf \in [Boards -> Profiles]
ASSUME FiniteAssumption ==
    IsFiniteSet(Probes) /\ IsFiniteSet(Boards) /\ IsFiniteSet(Profiles)
ASSUME LimitsAssumption == Window \in Nat \ {0} /\ MaxRows \in Nat

VARIABLES
    probes,   \* probes on the USB
    boards,   \* boards on the USB
    op,       \* op[p]: the operation in progress in p, after its selection
    seen      \* history: pairs selected while the board was attached

selectionVars == <<storeVars, probes, boards, op, seen>>
usb  == <<probes, boards>>

\* DeviceSelector; the resolved selector has a probe and a profile.
Selectors == [probe : Probes \cup {Nothing}, board : Boards \cup {Nothing},
              profile : Profiles \cup {Nothing}]

\* What Commander prints of the target: no identity (no CPUID or SW-DP ID), an
\* identity that _validate_identity refuses, or the one the profile expects.
ASSUME ObservationAssumption == Observations \subseteq {"nothing", "foreign", "expected"}

-----------------------------------------------------------------------------
(* Selection                                                                *)

\* A record names the pair by _attach_identities: the probe and the board are
\* those of the selector, the identity is what was observed.
OperationRecord(act, sel, observed) ==
    [action |-> act, probe |-> sel.probe, board |-> sel.board, observed |-> observed]

\* Mutant: any probe that has identified the board will do.
IsEvidenceOfBoard(row, board, probe) ==
    /\ row.payload.action \in {"target_identity_preflight", "command"}
    /\ row.payload.board = board
    /\ row.payload.observed # "nothing"

IsEvidence(row, board, probe) ==
    /\ row.payload.action \in {"target_identity_preflight", "command"}
    /\ row.payload.board = board
    /\ row.payload.probe = probe
    /\ row.payload.observed # "nothing"

\* AuditStore.has_verified_target.
HasVerifiedTarget(board, probe) ==
    \E i \in 1..Len(rows) : i > Len(rows) - Window /\ IsEvidence(rows[i], board, probe)

\* detect_board and capability_manifest report the attached boards.
MatchingProfiles(sel) ==
    {ProfileOf[b] : b \in {c \in boards : sel.board = Nothing \/ c = sel.board}}

Applicable(profile) == {b \in boards : ProfileOf[b] = profile}

\* Mutant: the first one, of several.
UnambiguousFirst(set) == IF set = {} THEN {} ELSE {CHOOSE d \in set : TRUE}

\* The set, if it has one element.
Unambiguous(set) == IF Cardinality(set) = 1 THEN set ELSE {}

ProfileOptions(sel) ==
    IF sel.profile # Nothing THEN {sel.profile}
    ELSE IF Cardinality(MatchingProfiles(sel)) = 1 THEN MatchingProfiles(sel)
    ELSE Unambiguous(Profiles)

ProbeOptions(sel) ==
    IF sel.probe = Nothing THEN Unambiguous(probes) ELSE {sel.probe} \cap probes

\* Mutant: a given board that is not there gives way to the one that is.
BoardOptionsAttached(sel, profile, probe) ==
    LET applicable == Applicable(profile)
    IN IF sel.board = Nothing \/ sel.board \notin applicable
       THEN IF applicable = {} THEN {Nothing} ELSE Unambiguous(applicable)
       ELSE {sel.board}

BoardOptions(sel, profile, probe) ==
    LET applicable == Applicable(profile)
    IN IF sel.board = Nothing
       THEN IF applicable = {} THEN {Nothing} ELSE Unambiguous(applicable)
       ELSE IF \/ sel.board \in applicable
               \/ boards = {} /\ HasVerifiedTarget(sel.board, probe)
            THEN {sel.board} ELSE {}

\* resolve_selector: the resolved selector, or none when it raises.
Resolve(sel) ==
    UNION {{[probe |-> j, board |-> b, profile |-> f] : b \in BoardOptions(sel, f, j)} :
               f \in ProfileOptions(sel), j \in ProbeOptions(sel)}

-----------------------------------------------------------------------------
(* Operations                                                               *)

\* resolve_selector_wait ends with a selection: it tries again while there is
\* none, and gives up without a trace after its timeout.
Select(p, sel, r) ==
    /\ server[p] = "up"
    /\ op[p] = Nothing
    /\ r \in Resolve(sel)
    /\ op' = [op EXCEPT ![p] = [sel |-> r, stage |-> "selected", observed |-> "nothing"]]
    /\ seen' = IF r.board \in boards THEN seen \cup {<<r.probe, r.board>>} ELSE seen
    /\ UNCHANGED <<storeVars, usb>>

Room == Len(rows) + Cardinality({p \in Processes : appending[p] # Nothing}) < MaxRows

\* The preflight has run: its record is appended before it is judged.
IdentityPreflight(p, observed) ==
    /\ Room
    /\ op[p] # Nothing /\ op[p].stage = "selected"
    /\ BeginAppend(p, OperationRecord("target_identity_preflight", op[p].sel, observed))
    /\ op' = [op EXCEPT ![p].stage = "judging", ![p].observed = observed]
    /\ UNCHANGED <<tables, server, stale, live, opened, closed, lost, shared, usb, seen>>

\* The record is in; _validate_identity raises unless the target is the one
\* the profile expects.
Judge(p) ==
    /\ op[p] # Nothing /\ op[p].stage = "judging"
    /\ Insert(p)
    /\ op' = [op EXCEPT ![p] = IF @.observed = "expected"
                               THEN [@ EXCEPT !.stage = "identified"] ELSE Nothing]
    /\ UNCHANGED <<sessions, server, stale, live, traces, usb, seen>>

\* The command has run and its record, with the identity of the preflight, is
\* appended; the operation ends when it is inserted.
Command(p) ==
    /\ Room
    /\ op[p] # Nothing /\ op[p].stage = "identified"
    /\ BeginAppend(p, OperationRecord("command", op[p].sel, op[p].observed))
    /\ op' = [op EXCEPT ![p].stage = "recording"]
    /\ UNCHANGED <<tables, server, stale, live, opened, closed, lost, shared, usb, seen>>

Finish(p) ==
    /\ op[p] # Nothing /\ op[p].stage = "recording"
    /\ Insert(p)
    /\ op' = [op EXCEPT ![p] = Nothing]
    /\ UNCHANGED <<sessions, server, stale, live, traces, usb, seen>>

\* A probe or a board is plugged or unplugged.
Toggled(set, d) == IF d \in set THEN set \ {d} ELSE set \cup {d}

Replug(d) ==
    /\ \/ d \in Probes /\ probes' = Toggled(probes, d) /\ UNCHANGED boards
       \/ d \in Boards /\ boards' = Toggled(boards, d) /\ UNCHANGED probes
    /\ UNCHANGED <<storeVars, op, seen>>

-----------------------------------------------------------------------------
SelectionInit ==
    /\ StoreInit
    /\ probes = {} /\ boards = {}
    /\ op = [p \in Processes |-> Nothing]
    /\ seen = {}

StoreStep(p) ==
    /\ \/ SelectStale(p) \/ DeleteStale(p) \/ FinishRecovery(p)
       \/ Room /\ BeginRecovery(p)
       \/ \E s \in Sessions : UpsertSession(p, s) \/ DeleteSession(p, s)
    /\ UNCHANGED <<usb, op, seen>>

\* The operation of a process that ends leaves what it has recorded.
ServerDies(p) ==
    /\ ServerEnds(p)
    /\ op' = [op EXCEPT ![p] = Nothing]
    /\ UNCHANGED <<usb, seen>>

SelectionNext ==
    \/ \E p \in Processes :
        \/ StoreStep(p)
        \/ ServerDies(p)
        \/ \E sel \in Selectors : \E r \in Resolve(sel) : Select(p, sel, r)
        \/ \E observed \in Observations : IdentityPreflight(p, observed)
        \/ Judge(p) \/ Command(p) \/ Finish(p)
    \/ \E d \in Probes \cup Boards : Replug(d)

SelectionSpec == SelectionInit /\ [][SelectionNext]_selectionVars

-----------------------------------------------------------------------------
(* Properties                                                               *)

\* The board of an operation was attached when some operation selected it
\* with the same probe: resolve_selector accepts a board that is not attached
\* only from a record, and records name only what was selected.  No chain of
\* detached selections, retries or crashes invents a pairing.
SelectedWasAttached ==
    \A p \in Processes : op[p] # Nothing /\ op[p].sel.board # Nothing =>
        <<op[p].sel.probe, op[p].sel.board>> \in seen

\* A given field is in the result as it was given.
Completes(sel, r) ==
    /\ sel.probe \in {Nothing, r.probe}
    /\ sel.board \in {Nothing, r.board}
    /\ sel.profile \in {Nothing, r.profile}

\* The result stands on what is there: an attached probe with an attached board
\* of the profile, with a board that an operation selected while it was attached
\* to the USB, now that there is none, or with no board of the profile at all.
Grounded(r) ==
    /\ r.probe \in probes
    /\ \/ r.board \in Applicable(r.profile)
       \/ r.board # Nothing /\ boards = {} /\ <<r.probe, r.board>> \in seen
       \/ r.board = Nothing /\ Applicable(r.profile) = {}

\* Nothing else fits the fields that were given.
OnlyCandidate(sel, r) ==
    /\ \A j \in probes : sel.probe \in {Nothing, j} => r.probe = j
    /\ \A b \in boards : sel.board \in {Nothing, b} =>
           IF sel.profile \in {Nothing, ProfileOf[b]} THEN r.board = b ELSE r.board # b
    /\ (\A b \in boards : sel.board \notin {Nothing, b}) =>
           \A f \in Profiles : sel.profile \in {Nothing, f} => r.profile = f

\* Whatever resolve_selector returns keeps every given field, stands on what is
\* attached or recorded, and is the only candidate: it completes a selector, and
\* never picks one of several candidates or replaces a given field.
SelectionNeverGuesses ==
    \A sel \in Selectors : \A r \in Resolve(sel) :
        Completes(sel, r) /\ Grounded(r) /\ OnlyCandidate(sel, r)
=============================================================================
