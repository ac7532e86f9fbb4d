-------------------------- MODULE MCTcpConnection --------------------------
(* Instances of TcpConnection for TLC. *)
EXTENDS TcpConnection

\* What the applications send: Send<client><server> bytes.
Send00 == [h \in Host |-> 0]
Send10 == [h \in Host |-> IF h = Client THEN 1 ELSE 0]
Send20 == [h \in Host |-> IF h = Client THEN 2 ELSE 0]
Send21 == [h \in Host |-> IF h = Client THEN 2 ELSE 1]
Send30 == [h \in Host |-> IF h = Client THEN 3 ELSE 0]

\* Bound: before a restart each host has one initial number, the client one that
\* makes its numbers wrap; after it no data is sent, so that the run is then about
\* the handshake.
RestartUnconnected ==
  IF faults.restarts = 0
  THEN pcb[Client].iss \in {0, 3} /\ pcb[Server].iss \in {0, 1}
  ELSE \A h \in Host : sent[h] = 0 /\ Delivered(h) = <<>>
=============================================================================
