\* Liveness with data both ways and a lost segment, fewer than the retransmissions.
CONSTANTS
  Client = client
  Server = server
  Active = {client}
  Passive = {server}
  SeqSpace = 32
  Iss = {1}
  BufSize = 3
  Mss = 1
  Stream <- Send21
  MaxRtx = 2
  MaxLoss = 1
  MaxSwap = 0
  MaxRestart = 0
  Prompt = TRUE
  Events = {}
  DestroyBusy = {"hang"}
SPECIFICATION FairSpec
PROPERTIES OpenReturns AllDelivered CloseCompletes
