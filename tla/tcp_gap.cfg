\* One segment is lost and the next one is not.
CONSTANTS
  Client = client
  Server = server
  Active = {client}
  Passive = {server}
  SeqSpace = 32
  Iss = {1}
  BufSize = 2
  Mss = 1
  Stream <- Send20
  MaxRtx = 1
  MaxLoss = 1
  MaxSwap = 0
  MaxRestart = 0
  Prompt = TRUE
  Events = {}
  DestroyBusy = {"hang"}
SPECIFICATION Spec
INVARIANT StreamPrefix
