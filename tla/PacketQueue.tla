---------------------------- MODULE PacketQueue ----------------------------
(* The queue of a protocol in net.c, at the level of the pointers of util.c. *)
(* No lock protects it: the interrupt thread pushes what a device received   *)
(* and pops, while application threads that send through the loopback device *)
(* push.  A shared variable is read or written in a step of its own.         *)
EXTENDS Integers, Sequences

CONSTANTS
  App,       \* application threads
  Intr,      \* the interrupt thread
  MaxEntry   \* bound: entries that are pushed

ASSUME QueueAssumption == Intr \notin App /\ MaxEntry \in Nat

VARIABLES
  head, tail, num,   \* struct queue_head
  next,              \* the field next of each entry
  made,              \* number of entries allocated so far
  thread,            \* where each thread is in queue_push or queue_pop
  softirq,           \* the soft interrupt is pending
  out,               \* history: the entries whose handler was called
  apart,             \* ghost: see Clash
  counted            \* ghost: no two threads updated num at the same time

vars == <<head, tail, num, next, made, thread, softirq, out, apart, counted>>

Entry == 1..MaxEntry
NULL == 0
Thread == App \cup {Intr}

\* at: "idle", or the next step; entry, was: local variables.  No step follows NULL.
TypeOK ==
  /\ {head, tail} \subseteq Entry \cup {NULL}
  /\ num \in Int
  /\ next \in [Entry -> Entry \cup {NULL}]
  /\ made \in 0..MaxEntry
  /\ thread \in [Thread -> [at : {"idle", "link", "tail", "head", "inc", "inced", "raise",
                                  "pop", "advance", "untail", "dec", "deced"},
                            entry : Entry \cup {NULL}, was : Int]]
  /\ \A t \in Thread : thread[t].at \notin {"idle", "pop"} => thread[t].entry # NULL
  /\ out \in Seq(Entry)
  /\ {softirq, apart, counted} \subseteq BOOLEAN

Idle == [at |-> "idle", entry |-> NULL, was |-> 0]

\* queue_init
Init ==
  /\ head = NULL /\ tail = NULL /\ num = 0
  /\ next = [e \in Entry |-> NULL]
  /\ made = 0
  /\ thread = [t \in Thread |-> Idle]
  /\ softirq = FALSE
  /\ out = <<>>
  /\ apart = TRUE /\ counted = TRUE

At(t, at) == apart /\ thread[t].at = at
Go(t, at) == thread' = [thread EXCEPT ![t].at = at]
-----------------------------------------------------------------------------
(* A push and a pop, or two pushes, that are in the linked list together *)

Pushing(t) == thread[t].at \in {"link", "tail", "head"}

\* The interrupt thread is removing the last entry of the list.
PoppingLast ==
  \/ thread[Intr].at = "advance" /\ next[thread[Intr].entry] = NULL
  \/ thread[Intr].at = "untail" /\ head = NULL

\* Two pushes overlap, or a push overlaps the pop of the last entry.  What the
\* list is afterwards depends on the interleaving, and the model stops there.
Clash ==
  \/ \E t, u \in Thread : t # u /\ Pushing(t) /\ Pushing(u)
  \/ (\E t \in App : Pushing(t)) /\ PoppingLast
-----------------------------------------------------------------------------
(* net_input_handler, with queue_push *)

\* Up to the first access to the queue, the test of queue->tail: nobody else sees
\* the entry yet.  (When memory_alloc fails nothing has changed.)
ReadTail(t) ==
  /\ At(t, "idle") /\ made < MaxEntry
  /\ made' = made + 1
  /\ next' = [next EXCEPT ![made + 1] = NULL]
  /\ thread' = [thread EXCEPT ![t] = [at |-> "link", entry |-> made + 1, was |-> tail]]
  /\ UNCHANGED <<head, tail, num, softirq, out, counted>>

LinkEntry(t) ==
  /\ At(t, "link")
  /\ next' = IF thread[t].was # NULL THEN [next EXCEPT ![thread[t].was] = thread[t].entry]
             ELSE next
  /\ Go(t, "tail")
  /\ UNCHANGED <<head, tail, num, made, softirq, out, counted>>

SetTail(t) ==
  /\ At(t, "tail")
  /\ tail' = thread[t].entry
  /\ Go(t, "head")
  /\ UNCHANGED <<head, num, next, made, softirq, out, counted>>

\* Mutant of SetHead: head is not tested.
SetHeadAlways(t) ==
  /\ At(t, "head")
  /\ head' = thread[t].entry
  /\ Go(t, "inc")
  /\ UNCHANGED <<tail, num, next, made, softirq, out, counted>>

SetHead(t) ==
  /\ At(t, "head")
  /\ head' = IF head = NULL THEN thread[t].entry ELSE head
  /\ Go(t, "inc")
  /\ UNCHANGED <<tail, num, next, made, softirq, out, counted>>

\* num++ and num--: a read, then a write.
Inc == [read |-> "inc", write |-> "inced", by |-> 1, then |-> "raise"]
Dec == [read |-> "dec", write |-> "deced", by |-> -1, then |-> "pop"]

Count(t, c) ==
  \/ /\ At(t, c.read)
     /\ thread' = [thread EXCEPT ![t].at = c.write, ![t].was = num]
     /\ counted' = (counted /\ \A u \in Thread : thread[u].at \notin {"inced", "deced"})
     /\ UNCHANGED num
  \/ /\ At(t, c.write)
     /\ num' = thread[t].was + c.by
     /\ Go(t, c.then)
     /\ UNCHANGED counted

CountUp(t) ==
  /\ Count(t, Inc)
  /\ UNCHANGED <<head, tail, next, made, softirq, out>>

\* Mutant of Raise: the soft interrupt is raised for the first entry only.
RaiseFirst(t) ==
  /\ At(t, "raise")
  /\ softirq' = (softirq \/ num = 1)
  /\ thread' = [thread EXCEPT ![t] = Idle]
  /\ UNCHANGED <<head, tail, num, next, made, out, counted>>

\* raise_softirq
Raise(t) ==
  /\ At(t, "raise")
  /\ softirq' = TRUE
  /\ thread' = [thread EXCEPT ![t] = Idle]
  /\ UNCHANGED <<head, tail, num, next, made, out, counted>>
-----------------------------------------------------------------------------
(* net_protocol_handler, with queue_pop *)

Sigwait ==
  /\ At(Intr, "idle") /\ softirq
  /\ softirq' = FALSE
  /\ Go(Intr, "pop")
  /\ UNCHANGED <<head, tail, num, next, made, out, counted>>

\* Mutant of ReadHead: head is not tested.
ReadHeadAlways ==
  /\ At(Intr, "pop")
  /\ thread' = [thread EXCEPT ![Intr] = [Idle EXCEPT !.at = "advance", !.entry = head]]
  /\ UNCHANGED <<head, tail, num, next, made, softirq, out, counted>>

ReadHead ==
  /\ At(Intr, "pop")
  /\ thread' = [thread EXCEPT ![Intr] = IF head = NULL THEN Idle
                                        ELSE [Idle EXCEPT !.at = "advance", !.entry = head]]
  /\ UNCHANGED <<head, tail, num, next, made, softirq, out, counted>>

Advance ==
  /\ At(Intr, "advance")
  /\ head' = next[thread[Intr].entry]
  /\ Go(Intr, "untail")
  /\ UNCHANGED <<tail, num, next, made, softirq, out, counted>>

\* Mutant of ClearTail: tail is left at the entry that is freed.
ClearTailNever ==
  /\ At(Intr, "untail")
  /\ Go(Intr, "dec")
  /\ UNCHANGED <<head, tail, num, next, made, softirq, out, counted>>

ClearTail ==
  /\ At(Intr, "untail")
  /\ tail' = IF head = NULL THEN NULL ELSE tail
  /\ Go(Intr, "dec")
  /\ UNCHANGED <<head, num, next, made, softirq, out, counted>>

\* Then the entry is freed and the protocol's handler called.
CountDown ==
  /\ Count(Intr, Dec)
  /\ out' = IF thread[Intr].at = Dec.write THEN Append(out, thread[Intr].entry) ELSE out
  /\ UNCHANGED <<head, tail, next, made, softirq>>
-----------------------------------------------------------------------------
Push(t) == LinkEntry(t) \/ SetTail(t) \/ SetHead(t) \/ CountUp(t) \/ Raise(t)
Pop == Sigwait \/ ReadHead \/ Advance \/ ClearTail \/ CountDown

Stop == apart' = (apart /\ ~Clash')

Next == ((\E t \in Thread : ReadTail(t) \/ Push(t)) \/ Pop) /\ Stop

\* A thread that pushes goes on, and so does the interrupt thread.
Spec ==
  /\ Init /\ [][Next]_vars
  /\ \A t \in Thread : WF_vars(Push(t) /\ Stop)
  /\ WF_vars(Pop /\ Stop)
-----------------------------------------------------------------------------
(* Properties *)

\* The entries that the pointers lead to, from e on.
List(e) ==
  LET from[n \in Entry \cup {NULL}] == IF n = NULL THEN <<>> ELSE <<n>> \o from[next[n]]
  IN from[e]

\* The entry that queue_pop has taken from the list and not handed on yet.
InHand ==
  IF thread[Intr].at \in {"untail", "dec", "deced"}
  THEN <<thread[Intr].entry>> ELSE <<>>

F == INSTANCE Fifo WITH waiting <- List(head), taken <- out \o InHand, kept <- apart

\* queue_push and queue_pop implement a queue without any lock, as long as no two
\* pushes overlap and no push overlaps the pop of the last entry.
ImplementsFifo == F!FifoSpec

\* Whenever no thread is in the list, tail is its last entry (NULL when it is
\* empty) and num its length, unless two updates of num overlapped.
QueueConsistent ==
  (\A t \in Thread : thread[t].at \in {"idle", "raise", "pop"}) =>
    LET list == List(head)
    IN /\ tail = IF list = <<>> THEN NULL ELSE list[Len(list)]
       /\ counted => num = Len(list)

\* Every frame that was pushed is handled, although the handler may find the list
\* empty while a push is under way: the soft interrupt that follows the push
\* makes it look again.
EveryEntryHandled ==
  \A e \in Entry :
    (\E k \in DOMAIN List(head) : List(head)[k] = e)
      ~> (\E k \in DOMAIN out : out[k] = e) \/ ~apart
=============================================================================
