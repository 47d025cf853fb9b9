------------------------- MODULE ManagedSessionsMC -------------------------
(* Small instances of ManagedSessions for TLC.  The constants are given in    *)
(* the .cfg files: three request slots on one probe for the safety run, and   *)
(* the least instance that shows each disagreement.                           *)
EXTENDS ManagedSessions, TLC
=============================================================================
