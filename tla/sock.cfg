\* Two threads share two sockets; connections come in, end, and are reset.
SPECIFICATION Spec
CONSTANTS
  t1 = t1
  t2 = t2
  f1 = f1
  PcbSize = 2
  SockSize = 2
  Threads <- MCThreads
  Addrs = {1}
  MinPort = 1
  MaxPort = 2
  BindPorts = {1}
  Foreign <- MCForeign
  MaxBacklog = 2
  MaxFaults = 1
  DestroyBusy = {"hang", "return"}
SYMMETRY Symmetry
INVARIANTS    SleepersHaveReason UniqueConnection
PROPERTY ImplementsLifecycle
CHECK_DEADLOCK FALSE
