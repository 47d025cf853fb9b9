---------------------------- MODULE OperationsMC ----------------------------
(* Small instances of Operations for TLC.                                   *)
EXTENDS Operations, TLC
=============================================================================
