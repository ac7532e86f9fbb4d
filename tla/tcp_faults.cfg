\* A lost segment, a reordered one, retransmissions, output errors, early close;
\* the server opens passively or actively.
CONSTANTS
  Client = client
  Server = server
  Active = {client, server}
  Passive = {server}
  SeqSpace = 32
  Iss = {1}
  BufSize = 2
  Mss = 2
  Stream <- Send20
  MaxRtx = 1
  MaxLoss = 1
  MaxSwap = 1
  MaxRestart = 0
  Prompt = TRUE
  Events = {"output", "refuse", "early"}
  DestroyBusy = {"return"}
SPECIFICATION Spec
INVARIANTS SeqAgreement UnackedQueued SleeperHasReason
PROPERTY NeverBackwards
