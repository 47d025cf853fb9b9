---------------------------- MODULE CoreWorkflows ----------------------------
(***************************************************************************)
(* The target-neutral workflows of src/src/jlink_mcp/workflows.py: flash,   *)
(* backup, comparison, restore and RTT capture by concurrent requests on    *)
(* one board and one source file that its owner may rewrite at any time.    *)
(*                                                                          *)
(* Each Commander run has a lease of its own (Operations models it); files  *)
(* are read before, during and after it.  A digest is modelled by the       *)
(* contents it stands for.                                                  *)
(***************************************************************************)
EXTENDS Naturals

CONSTANTS Callers,    \* requests of workflows
          Images,     \* contents of files and of the flash region
          Nil,
          MaxEdits    \* bound: times the source file is rewritten

ASSUME ImageAssumption == Nil \notin Callers \cup Images /\ "torn" \notin Images
ASSUME EditAssumption == MaxEdits \in Nat

Workflows == {"flash_and_verify", "flash_binary", "backup_flash", "compare_firmware",
              "compare_backup_region", "capture_rtt", "restore_backup"}
Writing   == {"flash_and_verify", "flash_binary", "restore_backup"}

VARIABLES
    region,   \* the flash: an image, or "torn"
    source,   \* the file the callers name
    lease,    \* the caller with the lease of the probe, or Nil
    call,     \* call[c]: the request
    edits

coreVars == <<region, source, lease, call, edits>>

\* hash: the digest the result will report; own: the private file (the backup or
\* the copied region); seen: the flash when it was last compared with a file;
\* had: history, the contents the source had since the request began.
NewCall == [kind |-> "none", at |-> "new", hash |-> Nil, own |-> Nil, seen |-> Nil,
            ok |-> TRUE, had |-> {}]

CoreInit ==
    /\ region \in Images /\ source \in Images
    /\ lease = Nil
    /\ call = [c \in Callers |-> NewCall]
    /\ edits = 0

-----------------------------------------------------------------------------
Final == {"new", "returned", "raised"}

\* A caller steps; release ends the lease context of its Commander run.
Proceed(c, new) == call' = [call EXCEPT ![c] = new]
Release(c) == lease' = IF lease = c THEN Nil ELSE lease

\* The file a comparison or a LoadBin reads: the copied region has its own.
Operand(c) == IF call[c].kind = "compare_backup_region" THEN call[c].own ELSE source

\* The call begins: restore_backup compares the digest of the file with the one
\* that authorises it, compare_firmware hashes it, compare_backup_region copies
\* its region and registers the copy.
Request(c, kind) ==
    /\ call[c].at = "new"
    /\ Proceed(c, [NewCall EXCEPT
            !.kind = kind, !.at = "waiting", !.had = {source},
            !.hash = IF kind \in {"restore_backup", "compare_firmware",
                                  "compare_backup_region"} THEN source ELSE Nil,
            !.own = IF kind = "compare_backup_region" THEN source ELSE Nil])
    /\ UNCHANGED <<region, source, lease, edits>>

\* The lease is granted and the target identified: the Commander run begins, or
\* the managed session of capture_rtt is started.
Granted(c) ==
    /\ call[c].at = "waiting" /\ lease = Nil
    /\ lease' = c
    /\ Proceed(c, [call[c] EXCEPT !.at =
            CASE call[c].kind \in Writing -> "loading"
              [] call[c].kind = "backup_flash" -> "saving"
              [] call[c].kind = "capture_rtt" -> "session"
              [] OTHER -> "comparing"])
    /\ UNCHANGED <<region, source, edits>>

\* LoadFile and LoadBin program the file as it is now; flash_and_verify has no
\* further check than the tool's own.
LoadFile(c) ==
    /\ call[c].at = "loading"
    /\ region' = source
    /\ IF call[c].kind = "flash_and_verify"
       THEN Proceed(c, [call[c] EXCEPT !.at = "hashing", !.seen = source]) /\ Release(c)
       ELSE Proceed(c, [call[c] EXCEPT !.at = "comparing"]) /\ UNCHANGED lease
    /\ UNCHANGED <<source, edits>>

\* VerifyBin, in the run that programmed or in the one of verify_binary.
CompareBin(c) ==
    /\ call[c].at = "comparing"
    /\ Proceed(c, [call[c] EXCEPT
            !.seen = region,
            !.ok = @ /\ region = Operand(c),
            !.at = IF call[c].kind \in Writing THEN "hashing" ELSE "returned"])
    /\ Release(c)
    /\ UNCHANGED <<region, source, edits>>

\* SaveBin into a new file.
SaveBin(c) ==
    /\ call[c].at = "saving"
    /\ Proceed(c, [call[c] EXCEPT !.own = region, !.seen = region, !.at = "hashing"])
    /\ Release(c)
    /\ UNCHANGED <<region, source, edits>>

\* A Commander run ends without success: a write leaves the region torn.  A
\* failed backup has no artifact.
RunFails(c) ==
    /\ call[c].at \in {"loading", "comparing", "saving"}
    /\ region' = IF call[c].at = "loading" THEN "torn" ELSE region
    /\ Proceed(c, [call[c] EXCEPT !.ok = FALSE,
            !.at = IF call[c].kind \in Writing THEN "hashing" ELSE "returned"])
    /\ Release(c)
    /\ UNCHANGED <<source, edits>>

\* Mutant: a backup is registered with the digest of the caller's file.
HashFileOfSource(c) ==
    /\ call[c].at = "hashing"
    /\ Proceed(c, [call[c] EXCEPT
            !.hash = IF call[c].kind = "restore_backup" THEN @ ELSE source,
            !.at = IF call[c].kind = "restore_backup" THEN "rechecking" ELSE "returned"])
    /\ UNCHANGED <<region, source, lease, edits>>

\* The artifact is hashed and registered after the lease, whatever the result;
\* restore_backup then waits for the lease of its separate comparison.
HashFile(c) ==
    /\ call[c].at = "hashing"
    /\ Proceed(c, [call[c] EXCEPT
            !.hash = CASE call[c].kind = "backup_flash" -> call[c].own
                       [] call[c].kind = "restore_backup" -> @
                       [] OTHER -> source,
            !.at = IF call[c].kind = "restore_backup" THEN "rechecking" ELSE "returned"])
    /\ UNCHANGED <<region, source, lease, edits>>

\* verify_binary of restore_backup, in a lease of its own.
Recheck(c) ==
    /\ call[c].at = "rechecking" /\ lease = Nil
    /\ Proceed(c, [call[c] EXCEPT
            !.seen = region, !.ok = @ /\ region = source, !.at = "returned"])
    /\ UNCHANGED <<region, source, lease, edits>>

\* Mutant: a refused command leaves the session as it is.
RttEndsOpen(c, ok) ==
    /\ call[c].at = "session"
    /\ Proceed(c, [call[c] EXCEPT !.ok = ok, !.at = IF ok THEN "stopping" ELSE "raised"])
    /\ UNCHANGED <<region, source, lease, edits>>

\* capture_rtt: a command is refused or the capture ends; the finally clause
\* stops the session in both cases.
RttEnds(c, ok) ==
    /\ call[c].at = "session"
    /\ Proceed(c, [call[c] EXCEPT !.ok = ok, !.at = "stopping"])
    /\ UNCHANGED <<region, source, lease, edits>>

StopRtt(c) ==
    /\ call[c].at = "stopping"
    /\ Proceed(c, [call[c] EXCEPT !.at = IF call[c].ok THEN "returned" ELSE "raised"])
    /\ Release(c)
    /\ UNCHANGED <<region, source, edits>>

\* The lease is not granted, the target is not the expected one, or the request
\* is cancelled: it raises, and a write that was running leaves the region torn.
Abandon(c) ==
    /\ call[c].at \notin Final \cup {"session", "stopping"}
    /\ region' = IF call[c].at = "loading" THEN "torn" ELSE region
    /\ Proceed(c, [call[c] EXCEPT !.at = "raised"])
    /\ Release(c)
    /\ UNCHANGED <<source, edits>>

\* The owner of the source file rewrites it.
EditFile(image) ==
    /\ edits < MaxEdits
    /\ source' = image
    /\ edits' = edits + 1
    /\ call' = [c \in Callers |-> IF call[c].at \in Final THEN call[c]
                                  ELSE [call[c] EXCEPT !.had = @ \cup {image}]]
    /\ UNCHANGED <<region, lease>>

CoreNext ==
    \/ \E c \in Callers :
        \/ \E kind \in Workflows : Request(c, kind)
        \/ Granted(c) \/ LoadFile(c) \/ CompareBin(c) \/ SaveBin(c) \/ RunFails(c)
        \/ HashFile(c) \/ Recheck(c) \/ StopRtt(c) \/ Abandon(c)
        \/ \E ok \in BOOLEAN : RttEnds(c, ok)
    \/ \E image \in Images : EditFile(image)

CoreSpec == CoreInit /\ [][CoreNext]_coreVars

-----------------------------------------------------------------------------
(* Properties                                                               *)

\* A result that says ok, match or backed up.
Succeeded(c) == call[c].at = "returned" /\ call[c].ok

\* The digest in such a result of a backup or a copied region is the digest of
\* what the flash held when it was saved or compared.  The other workflows read
\* the source file for the flash and for the digest at different times: each of
\* the two is what the file held at some time of the request, so they are equal
\* unless it was rewritten meanwhile.
ReportedDigestIsFlashed ==
    \A c \in Callers :
        LET r == call[c]
        IN Succeeded(c) /\ r.kind # "capture_rtt" =>
               IF r.kind \in {"backup_flash", "compare_backup_region"}
               THEN r.hash = r.seen
               ELSE {r.hash, r.seen} \subseteq r.had

\* A request that has ended has given back the lease, whether it returned or
\* raised: the finally clause of capture_rtt stops its session.
EndedHoldsNothing == \A c \in Callers : lease = c => call[c].at \notin Final
=============================================================================
