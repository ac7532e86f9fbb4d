--------------------------- MODULE MCPacketQueue ---------------------------
(* The instance of PacketQueue for TLC. *)
EXTENDS PacketQueue
=============================================================================
