\* Two threads open, bind, send from, read and close two PCBs.
CONSTANTS
  PcbSize = 2
  Threads = {t1, t2}
  Addrs = {1, 2}
  MinPort = 1
  MaxPort = 2
  MaxQueue = 2
  DestroyBusy = {"hang", "return"}
SPECIFICATION FairSpec
INVARIANTS UniqueEndpoint WaitCount ReaderHasReason InterruptReachesAll
PROPERTY ReaderServed
\* Everything stops when a close blocks in pthread_cond_destroy.
CHECK_DEADLOCK FALSE
