----------------------------- MODULE MCUdpRelay -----------------------------
(***************************************************************************)
(* Instances of UdpRelay for TLC.                                          *)
(***************************************************************************)
EXTENDS UdpRelay

CONSTANTS p1, p2, d1, d2, e1
=============================================================================
