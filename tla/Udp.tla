-------------------------------- MODULE Udp --------------------------------
(* udp.c and the wait contexts of platform/linux/sched.c: the PCB table, its *)
(* user calls made by several threads, datagrams that arrive and interrupts. *)
(* Every action is a critical section of the UDP mutex.                      *)
EXTENDS Integers, FiniteSets

CONSTANTS
  PcbSize,      \* UDP_PCB_SIZE
  Threads,      \* application threads
  Addrs,        \* unicast addresses of the interfaces, positive numbers
  MinPort,      \* UDP_SOURCE_PORT_MIN
  MaxPort,      \* UDP_SOURCE_PORT_MAX; ports are 1..MaxPort
  MaxQueue,     \* bound: datagrams waiting in one PCB
  DestroyBusy   \* what pthread_cond_destroy does while a thread sleeps

ASSUME TableAssumption ==
  /\ PcbSize \in Nat
  /\ IsFiniteSet(Threads)
  /\ Addrs \subseteq Nat \ {0}
  /\ MinPort \in Nat \ {0} /\ MaxPort \in Nat
  /\ MaxQueue \in Nat
  /\ DestroyBusy \subseteq {"hang", "return"}

VARIABLES
  pcbs,     \* the table
  thread,   \* where each thread is
  due,      \* threads that slept when an interrupt arrived and have not returned
  hung,     \* a thread is blocked in pthread_cond_destroy with the mutex held
  undercut  \* history: a PCB was closed while a thread was reading from it

vars == <<pcbs, thread, due, hung, undercut>>

Slot == 1..PcbSize
ANY == 0                         \* IP_ADDR_ANY
Port == 0..MaxPort               \* 0: not bound

\* struct udp_pcb; queued is the length of its receive queue, and interrupted
\* and wc are those of its struct sched_ctx.
Pcb == [state : {"FREE", "OPEN", "CLOSING"}, addr : Addrs \cup {ANY}, port : Port,
        queued : Nat, interrupted : BOOLEAN, wc : Int]

Zeroed == [state |-> "FREE", addr |-> ANY, port |-> 0, queued |-> 0,
           interrupted |-> FALSE, wc |-> 0]

\* wait = "no": not in udp_recvfrom; "lost": asleep on a condition variable
\* that was destroyed, where no broadcast reaches it.
Thread == [wait : {"no", "asleep", "woken", "lost"}, slot : Slot \cup {0}]

Returned == [wait |-> "no", slot |-> 0]

TypeOK ==
  /\ pcbs \in [Slot -> Pcb]
  /\ thread \in [Threads -> Thread]
  /\ due \subseteq Threads
  /\ hung \in BOOLEAN
  /\ undercut \in BOOLEAN

Init ==
  /\ pcbs = [i \in Slot |-> Zeroed]
  /\ thread = [t \in Threads |-> Returned]
  /\ due = {}
  /\ hung = FALSE
  /\ undercut = FALSE
-----------------------------------------------------------------------------
(* PCB functions *)

\* Mutant of Matching: a PCB bound to IP_ADDR_ANY matches that address only.
MatchingExact(a, p) ==
  {i \in Slot : pcbs[i].state = "OPEN" /\ pcbs[i].addr = a /\ pcbs[i].port = p}

\* The PCBs udp_pcb_select accepts.
Matching(a, p) ==
  {i \in Slot : /\ pcbs[i].state = "OPEN"
                /\ pcbs[i].addr \in {ANY, a}
                /\ pcbs[i].port = p}

\* udp_pcb_select returns the first of them.
Selected(i, a, p) == i \in Matching(a, p) /\ \A j \in Matching(a, p) : i <= j

Asleep(i) == {t \in Threads : thread[t].slot = i /\ thread[t].wait = "asleep"}

\* sched_wakeup, sched_interrupt: a broadcast on the PCB i.
Broadcast(i) ==
  [t \in Threads |->
     IF t \in Asleep(i)
     THEN [thread[t] EXCEPT !.wait = "woken"] ELSE thread[t]]

\* The condition variable is destroyed or initialised under its sleepers.
Orphaned(i) ==
  [t \in Threads |->
     IF t \in Asleep(i) THEN [thread[t] EXCEPT !.wait = "lost"] ELSE thread[t]]

Calling(t) == ~hung /\ thread[t].wait = "no"
-----------------------------------------------------------------------------
(* User calls *)

\* udp_open: the first free PCB, with a new wait context.
Open(t) ==
  /\ Calling(t)
  /\ \E i \in Slot :
       /\ pcbs[i].state = "FREE"
       /\ \A j \in 1..(i - 1) : pcbs[j].state # "FREE"
       /\ pcbs' = [pcbs EXCEPT ![i].state = "OPEN", ![i].interrupted = FALSE, ![i].wc = 0]
       /\ thread' = Orphaned(i)
  /\ UNCHANGED <<due, hung, undercut>>

\* udp_close, udp_pcb_release.  pthread_cond_destroy never returns -1: with a
\* thread asleep it blocks with the mutex held, or destroys the condition
\* variable under the sleeper.
Close(t, i) ==
  /\ Calling(t)
  /\ pcbs[i].state = "OPEN"
  /\ \/ /\ Asleep(i) # {} => "return" \in DestroyBusy
        /\ pcbs' = [pcbs EXCEPT ![i] = [@ EXCEPT !.state = "FREE", !.addr = ANY,
                                                 !.port = 0, !.queued = 0]]
        /\ thread' = Orphaned(i)
        /\ UNCHANGED hung
     \/ /\ Asleep(i) # {} /\ "hang" \in DestroyBusy
        /\ pcbs' = [pcbs EXCEPT ![i].state = "CLOSING"]
        /\ hung' = TRUE
        /\ UNCHANGED thread
  /\ undercut' = (undercut \/ \E u \in Threads : thread[u].slot = i)
  /\ UNCHANGED due

\* udp_bind succeeds when udp_pcb_select finds nobody, the PCB itself included.
Bind(t, i) ==
  /\ Calling(t)
  /\ pcbs[i].state = "OPEN"
  /\ \E a \in Addrs \cup {ANY}, p \in Port :
       /\ Matching(a, p) = {}
       /\ pcbs' = [pcbs EXCEPT ![i].addr = a, ![i].port = p]
  /\ UNCHANGED <<thread, due, hung, undercut>>

\* udp_sendto of an unbound PCB takes the first dynamic port that is free; the
\* address of the PCB stays as it is.  Any interface may be the one.
Sendto(t, i) ==
  /\ Calling(t)
  /\ pcbs[i].state = "OPEN" /\ pcbs[i].port = 0
  /\ \E a \in Addrs, p \in MinPort..MaxPort :
       /\ pcbs[i].addr \in {ANY, a}
       /\ Matching(a, p) = {}
       /\ \A q \in MinPort..(p - 1) : Matching(a, q) # {}
       /\ pcbs' = [pcbs EXCEPT ![i].port = p]
  /\ UNCHANGED <<thread, due, hung, undercut>>

\* sched_sleep returns -1 at once when the context is interrupted, and else
\* counts the thread and waits.
Sleeps(t, i, p) ==
  IF p.interrupted
  THEN pcbs' = [pcbs EXCEPT ![i] = p] /\ thread' = [thread EXCEPT ![t] = Returned]
  ELSE /\ pcbs' = [pcbs EXCEPT ![i] = [p EXCEPT !.wc = @ + 1]]
       /\ thread' = [thread EXCEPT ![t] = [wait |-> "asleep", slot |-> i]]

\* The loop of udp_recvfrom on the PCB p: take a datagram and return, or sleep.
\* (A thread never finds the PCB in CLOSING: see Close.)
Loop(t, i, p) ==
  \/ /\ p.queued > 0
     /\ pcbs' = [pcbs EXCEPT ![i] = [p EXCEPT !.queued = @ - 1]]
     /\ thread' = [thread EXCEPT ![t] = Returned]
  \/ p.queued = 0 /\ Sleeps(t, i, p)

Recvfrom(t, i) ==
  /\ Calling(t)
  /\ pcbs[i].state = "OPEN"
  /\ Loop(t, i, pcbs[i])
  /\ UNCHANGED <<due, hung, undercut>>

\* Mutant of AfterInterrupt: the flag is cleared for the first thread already.
AfterInterruptFirst(p) == [p EXCEPT !.interrupted = FALSE]

\* sched_sleep after the wait: the last waiter clears the flag.
AfterInterrupt(p) == [p EXCEPT !.interrupted = p.wc # 0]

\* Mutant of Leaves: the thread stays counted.
LeavesCounted(p) == p

Leaves(p) == [p EXCEPT !.wc = @ - 1]

\* A woken thread has the mutex again and leaves sched_sleep.
Resume(t) ==
  LET i == thread[t].slot
      p == Leaves(pcbs[i])
  IN
  /\ ~hung /\ thread[t].wait = "woken"
  /\ \/ /\ p.interrupted
        /\ pcbs' = [pcbs EXCEPT ![i] = AfterInterrupt(p)]
        /\ thread' = [thread EXCEPT ![t] = Returned]
     \/ ~p.interrupted /\ Loop(t, i, p)
  /\ due' = due \ {t}
  /\ UNCHANGED <<hung, undercut>>
-----------------------------------------------------------------------------
(* The interrupt thread *)

\* Mutant of Signalled: the datagram is queued without a broadcast.
SignalledNot(i) == thread

Signalled(i) == Broadcast(i)

\* udp_input: a datagram for address a and port p.
Input(a, p) ==
  /\ ~hung
  /\ \E i \in Slot :
       /\ Selected(i, a, p)
       /\ pcbs[i].queued < MaxQueue
       /\ pcbs' = [pcbs EXCEPT ![i].queued = @ + 1]
       /\ thread' = Signalled(i)
  /\ UNCHANGED <<due, hung, undercut>>

\* event_handler
Interrupt ==
  LET open == {i \in Slot : pcbs[i].state = "OPEN"} IN
  /\ ~hung
  /\ pcbs' = [i \in Slot |->
                IF i \in open THEN [pcbs[i] EXCEPT !.interrupted = TRUE] ELSE pcbs[i]]
  /\ thread' = [t \in Threads |->
                  IF thread[t].slot \in open /\ thread[t].wait = "asleep"
                  THEN [thread[t] EXCEPT !.wait = "woken"] ELSE thread[t]]
  /\ due' = due \cup {t \in Threads : thread[t].slot \in open /\ thread[t].wait = "asleep"}
  /\ UNCHANGED <<hung, undercut>>

Next ==
  \/ \E t \in Threads :
       \/ Open(t)
       \/ Resume(t)
       \/ \E i \in Slot : Close(t, i) \/ Bind(t, i) \/ Sendto(t, i) \/ Recvfrom(t, i)
  \/ \E a \in Addrs, p \in 1..MaxPort : Input(a, p)
  \/ Interrupt

Spec == Init /\ [][Next]_vars

\* A woken thread gets the mutex.
FairSpec == Spec /\ \A t \in Threads : WF_vars(Resume(t))
-----------------------------------------------------------------------------
(* Properties *)

\* udp_bind and the port search of udp_sendto never give two open PCBs the same
\* endpoint, although a PCB whose port was searched for an interface address
\* keeps IP_ADDR_ANY, and whatever is closed and opened in between.
UniqueEndpoint ==
  \A i, j \in Slot :
    /\ i # j /\ pcbs[i].state = "OPEN" /\ pcbs[j].state = "OPEN"
    /\ pcbs[i].port # 0 /\ pcbs[i].port = pcbs[j].port
    => pcbs[i].addr # pcbs[j].addr

\* The threads inside sched_sleep on the PCB i.
Waiting(i) == {t \in Threads : thread[t].slot = i /\ thread[t].wait \in {"asleep", "woken"}}

\* As long as no PCB was closed under a reader, wc counts the threads inside
\* sched_sleep, so that "the last one clears the flag" means what it says.
WaitCount == undercut \/ \A i \in Slot : pcbs[i].wc = Cardinality(Waiting(i))

\* As long as no PCB was closed under a reader, a thread sleeps in udp_recvfrom
\* only while there is nothing to read and no interrupt: no broadcast is missed
\* by any of several readers.
ReaderHasReason ==
  undercut \/ \A t \in Threads : thread[t].wait = "asleep" =>
    pcbs[thread[t].slot].queued = 0 /\ ~pcbs[thread[t].slot].interrupted

\* As long as no PCB was closed under a reader, an interrupt reaches every thread
\* that was asleep when it came: the flag is still set when the thread runs,
\* whichever threads run, call and read before.
InterruptReachesAll ==
  undercut \/ \A t \in due : thread[t].wait = "woken" /\ pcbs[thread[t].slot].interrupted

\* A thread in udp_recvfrom whose PCB has a datagram returns, unless another
\* reader takes the last one or the PCB is closed under it.
ReaderServed ==
  \A t \in Threads : \A i \in Slot :
    thread[t] \in [wait : {"asleep", "woken"}, slot : {i}] /\ pcbs[i].queued > 0
      ~> thread[t].wait = "no" \/ pcbs[i].queued = 0 \/ undercut
=============================================================================
