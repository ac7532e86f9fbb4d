\* The peer refuses the connection.
CONSTANTS
  Client = client
  Server = server
  Active = {client}
  Passive = {server}
  SeqSpace = 32
  Iss = {1}
  BufSize = 2
  Mss = 1
  Stream <- Send10
  MaxRtx = 1
  MaxLoss = 0
  MaxSwap = 0
  MaxRestart = 0
  Prompt = TRUE
  Events = {"refuse"}
  DestroyBusy = {"hang", "return"}
SPECIFICATION FairSpec
PROPERTY OpenReturns
