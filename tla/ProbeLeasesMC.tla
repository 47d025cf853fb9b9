--------------------------- MODULE ProbeLeasesMC ---------------------------
(* A small instance of ProbeLeases for TLC.                                 *)
EXTENDS ProbeLeases

=============================================================================
