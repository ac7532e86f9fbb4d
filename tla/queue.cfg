\* Two application threads send over loopback while the interrupt thread receives.
SPECIFICATION Spec
CONSTANTS
  App = {a1, a2}
  Intr = intr
  MaxEntry = 3
INVARIANTS TypeOK QueueConsistent
PROPERTIES ImplementsFifo EveryEntryHandled
\* The applications may stop sending.
CHECK_DEADLOCK FALSE
