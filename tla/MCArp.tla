------------------------------- MODULE MCArp -------------------------------
(* Arp for TLC. *)
EXTENDS Arp, TLC

MCAddrs == 1..3

Symmetry == Permutations(Macs)
=============================================================================
