-------------------------- MODULE BridgeFirmwareMC --------------------------
(* A small instance of BridgeFirmware for TLC.                              *)
EXTENDS BridgeFirmware, TLC

CONSTANT D10  \* a pin that only GPIO and chip selects use

=============================================================================
