\* Segments in order, more bytes than the window takes, sequence numbers that wrap;
\* a process is restarted while the other host goes on.
CONSTANTS
  Client = client
  Server = server
  Active = {client}
  Passive = {server}
  SeqSpace = 8
  Iss = {1, 3}
  BufSize = 2
  Mss = 2
  Stream <- Send30
  MaxRtx = 1
  MaxLoss = 0
  MaxSwap = 0
  MaxRestart = 1
  Prompt = FALSE
  Events = {}
  DestroyBusy = {"return"}
SPECIFICATION Spec
INVARIANTS TypeOK BufferAccounting StreamPrefix HandshakeAgreement
 
CONSTRAINT RestartUnconnected
