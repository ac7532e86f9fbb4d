----------------------------- MODULE MCNetIntr -----------------------------
(* NetIntr for TLC. *)
EXTENDS NetIntr
=============================================================================
