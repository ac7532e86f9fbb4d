----------------------------- MODULE ByteStream -----------------------------
(* What a TCP connection promises its two applications: each reads what the  *)
(* other wrote, in order, without gap or repetition, and meets the end of    *)
(* the stream after the last byte, when nothing more can be written.         *)
EXTENDS Naturals, Sequences

CONSTANTS Host, Peer(_)

VARIABLES
  written,   \* how many bytes each application has written; they are 1, 2, 3...
  read,      \* the bytes each application has read
  ended,     \* an application is at the end of what it can read
  kept       \* the promise still stands

ByteStreamInit ==
  /\ written = [h \in Host |-> 0]
  /\ read = [h \in Host |-> <<>>]
  /\ ended = [h \in Host |-> FALSE]
  /\ kept = TRUE

Others(h) ==
  \A g \in Host \ {h} : written'[g] = written[g] /\ read'[g] = read[g] /\ ended'[g] = ended[g]

Write(h) ==
  /\ ~ended[Peer(h)]
  /\ written'[h] > written[h]
  /\ read'[h] = read[h] /\ ended'[h] = ended[h]

\* n bytes are read, and the end of the stream may be reached with the last one.
\* It is forgotten with the connection.
Read(h) ==
  /\ written'[h] = written[h]
  /\ \E n \in 0..(written[Peer(h)] - Len(read[h])) :
       read'[h] = read[h] \o [k \in 1..n |-> Len(read[h]) + k]
  /\ ended'[h] => Len(read'[h]) = written[Peer(h)]

ByteStreamNext ==
  \/ kept /\ kept' /\ \E h \in Host : (Write(h) \/ Read(h)) /\ Others(h)
  \/ ~kept'

ByteStreamSpec == ByteStreamInit /\ [][ByteStreamNext]_<<written, read, ended, kept>>
=============================================================================
