-------------------------------- MODULE Fifo --------------------------------
(* What a queue of util.c promises: entries are taken once, in the order in  *)
(* which they were put in.                                                   *)
EXTENDS Sequences

CONSTANT Entry

VARIABLES
  waiting,   \* the entries in the queue
  taken,     \* those taken from it, in order
  kept       \* the callers have kept the rules: the promise still stands

FifoInit == waiting = <<>> /\ taken = <<>> /\ kept = TRUE

Put(e) == waiting' = Append(waiting, e) /\ taken' = taken

Get ==
  /\ waiting # <<>>
  /\ taken' = Append(taken, Head(waiting))
  /\ waiting' = Tail(waiting)

FifoNext ==
  \/ kept /\ kept' /\ (Get \/ \E e \in Entry : Put(e))
  \/ ~kept'

FifoSpec == FifoInit /\ [][FifoNext]_<<waiting, taken, kept>>
=============================================================================
