--------------------------- MODULE FlashWorkflows ---------------------------
(***************************************************************************)
(* The workflows of the GIGA extensions that write the flash of a board and *)
(* put it back: deploy_protocol_bridge (giga_protocol_bridge), and          *)
(* validate_fixture with dual_core_deploy, boot_and_observe, debug_fixture, *)
(* crash_capture and restore_backup (arduino_giga), run by concurrent       *)
(* requests beside plain flash_binary and debug_fixture requests.           *)
(*                                                                          *)
(* The lease manager is ProbeLeases: here it is one holder, and waits that  *)
(* may time out.  A Commander run that writes tears the banks it writes     *)
(* until it ends.  Any step may fail and any request may be cancelled or    *)
(* the server killed, at most MaxFaults times in all.                       *)
(***************************************************************************)
EXTENDS Naturals

CONSTANTS Deploys,      \* requests of deploy_protocol_bridge
          Validations,  \* of validate_fixture
          Writers,      \* of flash_binary
          Debuggers,    \* of debug_fixture
          None,
          MaxFaults     \* bound

Requests == Deploys \cup Validations \cup Writers \cup Debuggers
Banks == {"m7", "m4"}
Contents == {"original", "release", "fixture", "user", "torn"}
Flash == [Banks -> Contents]

ASSUME KindsAssumption ==
    /\ Deploys \cap (Validations \cup Writers \cup Debuggers) = {}
    /\ Validations \cap (Writers \cup Debuggers) = {}
    /\ Writers \cap Debuggers = {}
ASSUME NoneAssumption == None \notin Requests \cup Flash
ASSUME FaultsAssumption == MaxFaults \in Nat

VARIABLES
    flash,    \* the contents of the board, bank by bank
    holder,   \* the request that has the lease, or None
    stage,    \* where each request is, or its outcome
    backup,   \* backup[w]: the file it backed the flash up to, or None
    good,     \* good[w]: no step of its report has failed
    tried,    \* tried[w]: its restore has begun
    cut,      \* cut[w]: it was cancelled and goes on only to restore
    before,   \* history: the flash when it got its lease
    after,    \* history: the flash when it ended
    faults    \* how many faults have happened

vars == <<flash, holder, stage, backup, good, tried, cut, before, after, faults>>

Leased == {"preflight", "backup", "build", "flash", "flashing", "flashing2", "handshake", "between",
           "observe", "debug", "debugging", "recover", "restoring", "verify"}
Outcomes == {"refused", "stopped", "busy", "cancelled", "deployed", "restored", "unrestored",
             "passed", "failed", "written", "unwritten", "debugged", "crashed"}

Init ==
    /\ flash = [b \in Banks |-> "original"]
    /\ holder = None
    /\ stage = [w \in Requests |-> "new"]
    /\ backup = [w \in Requests |-> None]
    /\ good = [w \in Requests |-> TRUE]
    /\ tried = [w \in Requests |-> FALSE]
    /\ cut = [w \in Requests |-> FALSE]
    /\ before = [w \in Requests |-> None]
    /\ after = [w \in Requests |-> None]
    /\ faults = 0

-----------------------------------------------------------------------------
(* Steps that requests share                                                *)

\* The step may fail, within the bound.
MayFail(ok) ==
    /\ ~ok => faults < MaxFaults
    /\ faults' = IF ok THEN faults ELSE faults + 1

\* Every field but the stage stays.
Go(w, to) ==
    /\ stage' = [stage EXCEPT ![w] = to]
    /\ UNCHANGED <<flash, holder, backup, good, tried, cut, before, after>>

\* The request ends, and the lease context with it.
End(w, outcome) ==
    /\ stage' = [stage EXCEPT ![w] = outcome]
    /\ holder' = IF holder = w THEN None ELSE holder
    /\ after' = [after EXCEPT ![w] = flash']
    /\ UNCHANGED <<backup, tried, cut, before>>

\* It ends without having written since its last step.
Stop(w, outcome) == UNCHANGED <<flash, good>> /\ End(w, outcome)

\* What a workflow reports after a restore that was verified or not.
Report(w, restored) ==
    IF w \in Validations /\ cut[w] THEN "cancelled"
    ELSE IF ~restored THEN "unrestored"
    ELSE IF w \in Deploys THEN "restored"
    ELSE IF good[w] THEN "passed" ELSE "failed"

\* Banks the requests write, and with what.
Target(w, s) ==
    CASE w \in Deploys -> [banks |-> {"m7"}, image |-> "release"]
      [] w \in Writers -> [banks |-> {"m7"}, image |-> "user"]
      [] w \in Validations /\ s \in {"flash", "flashing"} -> [banks |-> {"m4"}, image |-> "fixture"]
      [] OTHER -> [banks |-> {"m7"}, image |-> "fixture"]

Torn(banks) == [b \in Banks |-> IF b \in banks THEN "torn" ELSE flash[b]]
Filled(target) == [b \in Banks |-> IF b \in target.banks THEN target.image ELSE flash[b]]

-----------------------------------------------------------------------------
(* Getting the lease                                                        *)

\* deploy_protocol_bridge: the release is checked and the hardware looked at
\* before the lease is asked for; the others ask at once.
Begin(w, ok) ==
    /\ stage[w] = "new"
    /\ MayFail(ok)
    /\ w \notin Deploys => ok
    /\ IF ok THEN Go(w, "waiting") ELSE Stop(w, "refused")

\* leases.lease, or leases.acquire for a debug session.
Acquire(w) ==
    /\ stage[w] = "waiting" /\ holder = None
    /\ holder' = w
    /\ stage' = [stage EXCEPT ![w] = CASE w \in Deploys -> "backup"
                                       [] w \in Validations -> "preflight"
                                       [] w \in Writers -> "flash"
                                       [] w \in Debuggers -> "debugging"]
    /\ before' = [before EXCEPT ![w] = flash]
    /\ UNCHANGED <<flash, backup, good, tried, cut, after, faults>>

\* ProbeBusy
Busy(w) ==
    /\ stage[w] = "waiting" /\ holder # None
    /\ Stop(w, "busy")
    /\ UNCHANGED faults

\* _validate_fixture_locked: hardware_preflight.
Preflight(w, ok) ==
    /\ stage[w] = "preflight"
    /\ MayFail(ok)
    /\ IF ok THEN Go(w, "backup") ELSE Stop(w, "stopped")

\* backup_flash: all of the flash, into a file of its own.
Backup(w, ok) ==
    /\ stage[w] = "backup"
    /\ MayFail(ok)
    /\ IF ok
       THEN /\ backup' = [backup EXCEPT ![w] = flash]
            /\ stage' = [stage EXCEPT ![w] = IF w \in Deploys THEN "flash" ELSE "build"]
            /\ UNCHANGED <<flash, holder, good, tried, cut, before, after>>
       ELSE Stop(w, "stopped")

-----------------------------------------------------------------------------
(* Writing                                                                  *)

\* dual_core_deploy: build_firmware of both cores.
Build(w, ok) ==
    /\ stage[w] = "build"
    /\ MayFail(ok)
    /\ stage' = [stage EXCEPT ![w] = IF ok THEN "flash" ELSE "recover"]
    /\ good' = [good EXCEPT ![w] = ok]
    /\ UNCHANGED <<flash, holder, backup, tried, cut, before, after>>

\* The Commander run of flash_and_verify or flash_binary begins to write.
Write(w) ==
    /\ stage[w] \in {"flash", "between"}
    /\ flash' = Torn(Target(w, stage[w]).banks)
    /\ stage' = [stage EXCEPT ![w] = IF stage[w] = "flash" THEN "flashing" ELSE "flashing2"]
    /\ UNCHANGED <<holder, backup, good, tried, cut, before, after, faults>>

\* Or the identity preflight refuses and nothing is written.
Refused(w) ==
    /\ stage[w] \in {"flash", "between", "recover"}
    /\ MayFail(FALSE)
    /\ IF w \in Writers THEN Stop(w, "unwritten")
       ELSE IF stage[w] = "recover"
       THEN /\ tried' = [tried EXCEPT ![w] = TRUE]
            /\ holder' = None
            /\ stage' = [stage EXCEPT ![w] = Report(w, FALSE)]
            /\ after' = [after EXCEPT ![w] = flash]
            /\ UNCHANGED <<flash, backup, good, cut, before>>
       ELSE /\ stage' = [stage EXCEPT ![w] = "recover"]
            /\ good' = [good EXCEPT ![w] = FALSE]
            /\ UNCHANGED <<flash, holder, backup, tried, cut, before, after>>

\* It ends.  A failed run leaves the banks torn, or fails only to say that
\* they are written.  A deployment then recovers, and a validation goes on
\* with the next bank and remembers.
Written(w, ok, left) ==
    /\ stage[w] \in {"flashing", "flashing2"}
    /\ MayFail(ok)
    /\ ok => left = "filled"
    /\ flash' = IF left = "filled" THEN Filled(Target(w, stage[w])) ELSE flash
    /\ IF w \in Writers
       THEN UNCHANGED good /\ End(w, IF ok THEN "written" ELSE "unwritten")
       ELSE /\ stage' = [stage EXCEPT ![w] =
                  CASE w \in Deploys -> IF ok THEN "handshake" ELSE "recover"
                    [] OTHER -> IF stage[w] = "flashing" THEN "between" ELSE "observe"]
            /\ good' = [good EXCEPT ![w] = @ /\ ok]
            /\ UNCHANGED <<holder, backup, tried, cut, before, after>>

\* bridge.status: the identity that answers is the one of the flash.
Handshake(w, ok) ==
    /\ stage[w] = "handshake"
    /\ MayFail(ok)
    /\ IF ok /\ flash["m7"] = "release"
       THEN Stop(w, "deployed")
       ELSE Go(w, "recover")

\* boot_and_observe: a failed observation is a failed step of the report, an
\* exception ends the attempt.
Observe(w, ok, raised) ==
    /\ stage[w] = "observe"
    /\ raised => ~ok
    /\ MayFail(ok)
    /\ stage' = [stage EXCEPT ![w] = IF raised THEN "recover" ELSE "debug"]
    /\ good' = [good EXCEPT ![w] = @ /\ ok]
    /\ UNCHANGED <<flash, holder, backup, tried, cut, before, after>>

\* debug_fixture of a validation: start_gdb acquires a lease of its own,
\* which is not the context's.
DebugAcquire(w) ==
    /\ stage[w] = "debug"
    /\ IF holder = None
       THEN holder' = w /\ stage' = [stage EXCEPT ![w] = "debugging"] /\ UNCHANGED good
       ELSE /\ stage' = [stage EXCEPT ![w] = "recover"]
            /\ good' = [good EXCEPT ![w] = FALSE]
            /\ UNCHANGED holder
    /\ UNCHANGED <<flash, backup, tried, cut, before, after, faults>>

\* The debug session ends: for a request of its own that is all, and a
\* validation goes on to restore.
DebugEnd(w, ok) ==
    /\ stage[w] = "debugging"
    /\ MayFail(ok)
    /\ IF w \in Debuggers
       THEN Stop(w, IF ok THEN "debugged" ELSE "failed")
       ELSE /\ stage' = [stage EXCEPT ![w] = "recover"]
            /\ good' = [good EXCEPT ![w] = @ /\ ok]
            /\ UNCHANGED <<flash, holder, backup, tried, cut, before, after>>

-----------------------------------------------------------------------------
(* Putting back                                                             *)

\* restore_backup: the backup of this request is written over all banks.
Restore(w) ==
    /\ stage[w] = "recover"
    /\ stage' = [stage EXCEPT ![w] = "restoring"]
    /\ tried' = [tried EXCEPT ![w] = TRUE]
    /\ flash' = Torn(Banks)
    /\ UNCHANGED <<holder, backup, good, cut, before, after, faults>>

\* A failed run leaves some banks torn; the comparison follows all the same.
Restored(w, ok, left) ==
    /\ stage[w] = "restoring"
    /\ MayFail(ok)
    /\ ok => left = Banks
    /\ flash' = [b \in Banks |-> IF b \in left THEN backup[w][b] ELSE flash[b]]
    /\ good' = [good EXCEPT ![w] = @ /\ ok]
    /\ stage' = [stage EXCEPT ![w] = "verify"]
    /\ UNCHANGED <<holder, backup, tried, cut, before, after>>

\* Mutant: the comparison is not looked at.
VerifyBlind(w, ok) ==
    /\ stage[w] = "verify"
    /\ MayFail(ok)
    /\ Stop(w, Report(w, TRUE))

\* verify_binary: it compares the flash with the backup, or fails.  The
\* deployment ends with its error, the validation with its report, or, cut
\* short, with the cancellation.
Verify(w, ok) ==
    /\ stage[w] = "verify"
    /\ MayFail(ok)
    /\ Stop(w, Report(w, ok /\ flash = backup[w]))

-----------------------------------------------------------------------------
(* Cancellation and crash                                                   *)

\* Mutant: a deployment catches exceptions only, as a validation's report does.
GuardedNot(w) ==
    /\ w \in Validations
    /\ stage[w] \in {"build", "flash", "flashing", "flashing2", "between", "observe", "debug",
                     "debugging"}

\* Where a cancellation leads to the restore: in the try blocks, which for a
\* validation begin at the builds and for a deployment at the flashing.
Guarded(w) ==
    /\ w \in Deploys \cup Validations
    /\ stage[w] \in {"build", "flash", "flashing", "flashing2", "handshake", "between", "observe",
                     "debug", "debugging"}

\* The request is cancelled where it waits.  A second cancellation, in the
\* restore, ends it there: the deployment reports that, the validation does
\* not.
Cancel(w) ==
    /\ stage[w] \in (Leased \cup {"waiting"}) \ {"recover"}
    /\ MayFail(FALSE)
    /\ IF Guarded(w)
       THEN /\ stage' = [stage EXCEPT ![w] = "recover"]
            /\ cut' = [cut EXCEPT ![w] = TRUE]
            /\ UNCHANGED <<flash, holder, backup, good, tried, before, after>>
       ELSE Stop(w, IF w \in Deploys /\ stage[w] \in {"restoring", "verify"}
                    THEN "unrestored" ELSE "cancelled")

\* The server is killed: every request ends, and nothing remembers them.
Crash ==
    /\ MayFail(FALSE)
    /\ holder' = None
    /\ stage' = [w \in Requests |-> IF stage[w] \in Outcomes THEN stage[w] ELSE "crashed"]
    /\ after' = [w \in Requests |-> IF stage[w] \in Outcomes THEN after[w] ELSE flash]
    /\ UNCHANGED <<flash, backup, good, tried, cut, before>>

-----------------------------------------------------------------------------
Step(w) ==
    \/ Acquire(w) \/ Busy(w) \/ Write(w) \/ Refused(w) \/ DebugAcquire(w) \/ Restore(w)
    \/ \E ok \in BOOLEAN :
         \/ Begin(w, ok) \/ Preflight(w, ok) \/ Backup(w, ok) \/ Build(w, ok)
         \/ \E left \in {"filled", "torn"} : Written(w, ok, left)
         \/ Handshake(w, ok)
         \/ \E raised \in BOOLEAN : Observe(w, ok, raised)
         \/ DebugEnd(w, ok)
         \/ \E left \in SUBSET Banks : Restored(w, ok, left)
         \/ Verify(w, ok)

Next ==
    \/ \E w \in Requests : Step(w) \/ Cancel(w)
    \/ Crash

Spec == Init /\ [][Next]_vars

\* The event loop runs every request that can go on, and every Commander run
\* has a time limit.
FairSpec == Spec /\ \A w \in Requests : WF_vars(Step(w))
-----------------------------------------------------------------------------
(* Properties                                                               *)

\* The values of the variables.
TypeOK ==
    /\ flash \in Flash
    /\ holder \in Requests \cup {None}
    /\ stage \in [Requests -> Leased \cup Outcomes \cup {"new", "waiting"}]
    /\ backup \in [Requests -> Flash \cup {None}]
    /\ good \in [Requests -> BOOLEAN]
    /\ tried \in [Requests -> BOOLEAN]
    /\ cut \in [Requests -> BOOLEAN]
    /\ before \in [Requests -> Flash \cup {None}]
    /\ after \in [Requests -> Flash \cup {None}]
    /\ faults \in Nat

\* A deployment that reports success leaves the release and the other bank as
\* it found it; a deployment or validation that reports a verified restore,
\* or never began to write, leaves every byte as it found it, although other
\* requests write the same flash before and after.
EndsAsItSays ==
    \A w \in Deploys \cup Validations :
        /\ stage[w] = "deployed" => after[w] = [before[w] EXCEPT !["m7"] = "release"]
        /\ stage[w] \in {"restored", "passed", "failed"} => after[w] = before[w]
        /\ stage[w] = "stopped" => after[w] = before[w]

\* Whatever fails or is cancelled, short of the server being killed: a
\* workflow that changed the flash and did not deploy has tried to restore
\* its backup, and with that backup the flash as it found it is known.
RestoreAttempted ==
    \A w \in Deploys \cup Validations :
        stage[w] \in Outcomes \ {"deployed", "crashed"} =>
            /\ tried[w] \/ before[w] \in {None, after[w]}
            /\ tried[w] => backup[w] = before[w]

\* The test of the workflow: a validation in which nothing fails passes.
ValidationPasses == \A w \in Validations : <>(stage[w] = "passed")
=============================================================================
