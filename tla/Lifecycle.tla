------------------------------ MODULE Lifecycle ------------------------------
(* What the socket layer promises about a protocol control block: who owns   *)
(* it, and in which order it changes hands.  A connection that a listening   *)
(* socket receives is half open, then queued once, handed to one accept and  *)
(* only then the application's.                                              *)

CONSTANT Pcbs

VARIABLES
  phase,    \* of each PCB
  kept      \* the callers have kept the rules: the promise still stands

\* The phases, and what can follow each: a PCB is opened by the application or
\* received; a received one is queued when it is established, handed to accept
\* and given to the application; it ends after the application has closed it.
\* In "dead" nobody owns it and nothing releases it: the connection timed out
\* before it was established or after it was closed, or the application closed
\* a socket that had no connection.
Moves == [free   |-> {"app", "half"},
          half   |-> {"queued", "dead", "free"},
          queued |-> {"handed", "free"},
          handed |-> {"app", "free"},
          app    |-> {"ending", "dead", "free"},
          ending |-> {"dead", "free"},
          dead   |-> {}]

LifecycleInit ==
  /\ phase = [i \in Pcbs |-> "free"]
  /\ kept = TRUE

\* One PCB moves on.
Move(old, new, i) ==
  /\ new[i] \in Moves[old[i]]
  /\ \A j \in Pcbs \ {i} : new[j] = old[j]

\* The application closes a listening socket: the connections queued on it are
\* released with it.
CloseListener(old, new, i) ==
  /\ old[i] = "app" /\ new[i] = "free"
  /\ \A j \in Pcbs \ {i} : new[j] # old[j] => old[j] = "queued" /\ new[j] = "free"

LifecycleNext ==
  \/ /\ kept /\ kept'
     /\ \E i \in Pcbs : Move(phase, phase', i) \/ CloseListener(phase, phase', i)
  \/ ~kept'

LifecycleSpec == LifecycleInit /\ [][LifecycleNext]_<<phase, kept>>
=============================================================================
