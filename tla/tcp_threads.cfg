\* A second thread closes while the first is blocked, reads after the close.
CONSTANTS
  Client = client
  Server = server
  Active = {client}
  Passive = {server}
  SeqSpace = 32
  Iss = {1}
  BufSize = 2
  Mss = 1
  Stream <- Send10
  MaxRtx = 1
  MaxLoss = 1
  MaxSwap = 1
  MaxRestart = 0
  Prompt = TRUE
  Events = {"close", "early", "halfclose", "interrupt"}
  DestroyBusy = {"hang", "return"}
SPECIFICATION Spec
INVARIANT SeqAgreement
\* A host whose tcp_pcb_release never returns takes no further step.
CHECK_DEADLOCK FALSE
