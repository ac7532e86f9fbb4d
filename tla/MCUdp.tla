------------------------------- MODULE MCUdp -------------------------------
(* Udp for TLC. *)
EXTENDS Udp
=============================================================================
