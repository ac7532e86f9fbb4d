----------------------------- MODULE TcpSocket -----------------------------
(* The PCB table of tcp.c in socket mode: tcp_open, tcp_bind, tcp_listen,    *)
(* tcp_accept, tcp_connect and tcp_close made by several threads, the child  *)
(* PCBs and backlogs of listening sockets, and what arriving segments and    *)
(* the timer do to the table.  Every action is a critical section of the TCP *)
(* mutex.  Sequence numbers, buffers and retransmission are those of module  *)
(* TcpConnection; here a segment is its flags and whether it is acceptable.  *)
EXTENDS Integers, Sequences, FiniteSets

CONSTANTS
  PcbSize,      \* TCP_PCB_SIZE
  Threads,      \* application threads
  Addrs,        \* unicast addresses of the interfaces, positive numbers
  MinPort,      \* TCP_SOURCE_PORT_MIN
  MaxPort,      \* TCP_SOURCE_PORT_MAX; ports are 1..MaxPort
  BindPorts,    \* the ports that the application binds
  Foreign,      \* remote endpoints, address and port
  MaxBacklog,   \* bound: established connections waiting on one PCB
  DestroyBusy   \* what pthread_cond_destroy does while a thread sleeps

\* Unset is a foreign endpoint of zeros.  There are more dynamic ports than
\* PCBs, as in the code (16384 and 16).
Unset == "0.0.0.0:0"

ASSUME TcpTableAssumption ==
  /\ PcbSize \in Nat
  /\ IsFiniteSet(Threads)
  /\ Addrs \subseteq Nat \ {0}
  /\ MinPort \in Nat \ {0} /\ MaxPort \in Nat
  /\ BindPorts \subseteq 1..MaxPort
  /\ PcbSize <= (MaxPort - MinPort) + 1
  /\ Unset \notin Foreign
  /\ MaxBacklog \in Nat
  /\ DestroyBusy \subseteq {"hang", "return"}

VARIABLES
  pcbs,     \* the table
  thread,   \* where each thread is
  stuck     \* why the model goes no further, if so

Slot == 1..PcbSize
ANY == 0                         \* IP_ADDR_ANY

\* A pointer or an id that names a PCB.  live is a ghost: the PCB has not been
\* released since the reference was made.  The code cannot tell: a step that
\* follows a stale reference to a PCB that is in use again acts on a stranger's
\* connection, and the model stops there with stuck = "stale".
Ref == [to : Slot \cup {0}, live : BOOLEAN]
Null == [to |-> 0, live |-> FALSE]
To(i) == [to |-> i, live |-> TRUE]

\* The states of a PCB.  "ENDING" stands for FIN_WAIT1, FIN_WAIT2, CLOSING,
\* TIME_WAIT and LAST_ACK, which the table does not tell apart.
States == {"FREE", "CLOSED", "LISTEN", "SYN_SENT", "SYN_RECEIVED", "ESTABLISHED",
           "CLOSE_WAIT", "ENDING"}

\* struct tcp_pcb in socket mode; interrupted and wc are those of its
\* struct sched_ctx.  shared is a ghost: the PCB was given a port that another PCB
\* had, by tcp_bind at IP_ADDR_ANY when the other had it at an address, or by
\* tcp_connect when the other was bound and had no connection yet.
Pcb == [state : States, shared : BOOLEAN, addr : Addrs \cup {ANY}, port : 0..MaxPort,
        foreign : Foreign \cup {Unset}, parent : Ref, backlog : Seq(Ref),
        interrupted : BOOLEAN, wc : Int]

Zeroed == [state |-> "FREE", shared |-> FALSE, addr |-> ANY, port |-> 0, foreign |-> Unset,
           parent |-> Null, backlog |-> <<>>, interrupted |-> FALSE, wc |-> 0]

\* call: the socket call the thread is in, from "open" on those of module Sock;
\* wait as in module Udp; saved: the local variable state of tcp_connect; got: the
\* PCB that tcp_accept returned.
Thread == [call : {"none", "accept", "connect", "open", "opening", "alloc", "take", "taking"},
           wait : {"no", "asleep", "woken", "lost"},
           on : Ref, saved : States, got : Ref]

Returned == [call |-> "none", wait |-> "no", on |-> Null, saved |-> "FREE", got |-> Null]

TcpTypeOK ==
  /\ pcbs \in [Slot -> Pcb]
  /\ thread \in [Threads -> Thread]

TcpInit ==
  /\ pcbs = [i \in Slot |-> Zeroed]
  /\ thread = [t \in Threads |-> Returned]
-----------------------------------------------------------------------------
(* PCB functions *)

Smallest(S) == CHOOSE i \in S : \A j \in S : i <= j
Largest(S) == CHOOSE i \in S : \A j \in S : i >= j

FreeSlots == {i \in Slot : pcbs[i].state = "FREE"}

\* tcp_pcb_alloc on the PCB i: nothing but the state and the wait context is
\* initialised.
Allocated(i) ==
  [pcbs[i] EXCEPT !.state = "CLOSED", !.interrupted = FALSE, !.wc = 0]

BoundTo(a, p) == {i \in Slot : pcbs[i].addr \in {ANY, a} /\ pcbs[i].port = p}

\* tcp_pcb_select with a foreign endpoint: the first PCB of the connection,
\* else the last listening one; 0 is NULL.
Select(a, p, f) ==
  LET exact == {i \in BoundTo(a, p) : pcbs[i].foreign = f}
      listening == {i \in BoundTo(a, p) :
                      pcbs[i].state = "LISTEN" /\ pcbs[i].foreign = Unset}
  IN IF exact # {} THEN Smallest(exact)
     ELSE IF listening # {} THEN Largest(listening) ELSE 0

\* Mutant of Broadcast: pthread_cond_signal, which wakes one thread.
SignalOne(S) ==
  LET asleep == {t \in Threads : thread[t].wait = "asleep" /\ thread[t].on.to \in S}
  IN [t \in Threads |-> IF asleep # {} /\ t = CHOOSE u \in asleep : TRUE
                        THEN [thread[t] EXCEPT !.wait = "woken"] ELSE thread[t]]

\* sched_wakeup, sched_interrupt: a broadcast on the PCBs in S.
Broadcast(S) ==
  [t \in Threads |->
     IF thread[t].wait = "asleep" /\ thread[t].on.to \in S
     THEN [thread[t] EXCEPT !.wait = "woken"] ELSE thread[t]]

Lost(t) == [Returned EXCEPT !.call = thread[t].call, !.wait = "lost"]

\* The condition variable of the PCB i is initialised under its sleepers.
Orphaned(i) ==
  [t \in Threads |->
     IF thread[t].wait = "asleep" /\ thread[t].on.to = i THEN Lost(t) ELSE thread[t]]

\* A reference can be followed: it is live, or tcp_pcb_get turns it down.
Safe(ref) == ref.live \/ ref.to = 0 \/ pcbs[ref.to].state = "FREE"

\* Mutant of Doomed: the backlog is dropped, not what is in it.
DoomedAlone(i) == {i}

\* The PCBs tcp_pcb_release(i) releases: i and what is in its backlog.  Those are
\* children, which have no backlog of their own.
Doomed(i) == {i} \cup {pcbs[i].backlog[k].to : k \in DOMAIN pcbs[i].backlog}
SafeToRelease(i) == \A k \in DOMAIN pcbs[i].backlog : Safe(pcbs[i].backlog[k])

Stale(ref, D) == IF ref.to \in D THEN [ref EXCEPT !.live = FALSE] ELSE ref

\* The table tbl after the PCBs in D were released: their memory is zeroed, and
\* what still refers to them is left behind.
Released(tbl, D) ==
  [i \in Slot |->
     IF i \in D THEN Zeroed
     ELSE [tbl[i] EXCEPT !.parent = Stale(@, D),
                         !.backlog = [k \in DOMAIN @ |-> Stale(@[k], D)]]]

\* tcp_pcb_release(i) when the threads are thr.  With a thread asleep on a
\* released PCB, pthread_cond_destroy blocks with the mutex held, or destroys
\* the condition variable under the sleeper, which no broadcast reaches then.
Release(thr, i) ==
  LET D == Doomed(i)
      sleepers == {t \in Threads : thr[t].wait = "asleep" /\ thr[t].on.to \in D}
  IN \/ /\ ~SafeToRelease(i)
        /\ stuck' = "stale"
        /\ UNCHANGED <<pcbs, thread>>
     \/ /\ SafeToRelease(i)
        /\ sleepers # {} => "return" \in DestroyBusy
        /\ pcbs' = Released(pcbs, D)
        /\ thread' = [t \in Threads |->
                        IF t \in sleepers THEN Lost(t)
                        ELSE [thr[t] EXCEPT !.on = Stale(@, D), !.got = Stale(@, D)]]
        /\ UNCHANGED stuck
     \/ /\ SafeToRelease(i)
        /\ sleepers # {} /\ "hang" \in DestroyBusy
        /\ stuck' = "hung"
        /\ UNCHANGED <<pcbs, thread>>
-----------------------------------------------------------------------------
(* User calls; ref is the id that the caller passes, i its PCB *)

Running(t) == stuck = "no" /\ thread[t].call = "none"
Awake(t, call) == stuck = "no" /\ thread[t].call = call /\ thread[t].wait = "woken"

\* tcp_open, when there is a free PCB.
TcpOpen(i) ==
  /\ FreeSlots # {} /\ i = Smallest(FreeSlots)
  /\ pcbs' = [pcbs EXCEPT ![i] = Allocated(i)]

\* tcp_bind: refused when tcp_pcb_select finds any PCB bound to it.
TcpBind(i, a, p) ==
  /\ pcbs[i].state # "FREE"
  /\ BoundTo(a, p) = {}
  /\ pcbs' = [pcbs EXCEPT ![i].addr = a, ![i].port = p,
                          ![i].shared = \E j \in Slot \ {i} : pcbs[j].port = p]
  /\ UNCHANGED <<thread, stuck>>

\* tcp_listen
TcpListen(i) ==
  /\ pcbs[i].state # "FREE"
  /\ pcbs' = [pcbs EXCEPT ![i].state = "LISTEN"]
  /\ UNCHANGED <<thread, stuck>>

\* sched_sleep on the PCB, whose contents are then pcb, up to the wait.
Sleep(t, call, ref, pcb, saved) ==
  /\ pcbs' = [pcbs EXCEPT ![ref.to] = [pcb EXCEPT !.wc = @ + 1]]
  /\ thread' = [thread EXCEPT ![t] = [Returned EXCEPT !.call = call, !.wait = "asleep",
                                                      !.on = ref, !.saved = saved]]
  /\ UNCHANGED stuck

\* Mutant of TakeFirst: the connection is looked at with queue_peek.
PeekFirst(t, i, pcb) ==
  /\ pcbs' = [pcbs EXCEPT ![i] = pcb]
  /\ thread' = [thread EXCEPT ![t] = [Returned EXCEPT !.call = "alloc",
                                                      !.got = Head(pcb.backlog)]]
  /\ UNCHANGED stuck

\* tcp_accept has taken the first connection of the backlog of pcb.
TakeFirst(t, i, pcb) ==
  /\ pcbs' = [pcbs EXCEPT ![i] = [pcb EXCEPT !.backlog = Tail(@)]]
  /\ thread' = [thread EXCEPT ![t] = [Returned EXCEPT !.call = "alloc",
                                                      !.got = Head(pcb.backlog)]]
  /\ UNCHANGED stuck

\* tcp_accept up to the first sleep.  A thread that finds interrupted set
\* returns at once; so does one that finds the PCB in another state.
TcpAccept(t, ref) ==
  LET pcb == pcbs[ref.to]
  IN /\ pcb.state = "LISTEN"
     /\ \/ pcb.backlog # <<>> /\ TakeFirst(t, ref.to, pcb)
        \/ /\ pcb.backlog = <<>> /\ ~pcb.interrupted
           /\ Sleep(t, "accept", ref, pcb, "FREE")

\* The rest of sched_sleep: the PCB after the thread has left the wait.
Left(i) ==
  [pcbs[i] EXCEPT !.wc = @ - 1, !.interrupted = @ /\ pcbs[i].wc # 1]

\* tcp_accept after a wake-up.
TcpAcceptResume(t) ==
  LET i == thread[t].on.to
      pcb == Left(i)
  IN /\ Awake(t, "accept") /\ Safe(thread[t].on)
     /\ \/ /\ pcbs[i].interrupted
           /\ pcbs' = [pcbs EXCEPT ![i] = pcb]
           /\ thread' = [thread EXCEPT ![t] = Returned]
           /\ UNCHANGED stuck
        \/ /\ ~pcbs[i].interrupted /\ pcbs[i].state = "CLOSED"
           /\ Release([thread EXCEPT ![t] = Returned], i)
        \/ /\ ~pcbs[i].interrupted /\ pcbs[i].state # "CLOSED"
           /\ \/ pcb.backlog # <<>> /\ TakeFirst(t, i, pcb)
              \/ pcb.backlog = <<>> /\ Sleep(t, "accept", thread[t].on, pcb, "FREE")

\* Mutant of DynamicPort: no search.
DynamicPortFixed(a, f) == MinPort

\* tcp_connect takes the first dynamic port with no matching PCB.  When there is
\* none the last one stays: local.port is never 0 after the loop.
DynamicPort(a, f) ==
  LET free == {p \in MinPort..MaxPort : Select(a, p, f) = 0}
  IN IF free # {} THEN Smallest(free) ELSE MaxPort

\* tcp_connect up to the first sleep: a is the address of the PCB, or that of
\* the interface of the route.  tcp_output may fail, and then the PCB is
\* released; so it is when the thread finds interrupted set.
TcpConnect(t, ref, f) ==
  LET i == ref.to
  IN \E a \in Addrs :
    /\ pcbs[i].state # "FREE"
    /\ pcbs[i].addr \in {ANY, a}
    /\ ~pcbs[i].interrupted
    /\ Sleep(t, "connect", ref,
             [pcbs[i] EXCEPT
                !.state = "SYN_SENT", !.addr = a, !.foreign = f,
                !.port = IF @ = 0 THEN DynamicPort(a, f) ELSE @,
                !.shared = \/ @
                           \/ /\ pcbs[i].port = 0
                              /\ \E j \in BoundTo(a, DynamicPort(a, f)) :
                                   pcbs[j].foreign = Unset],
             "SYN_SENT")

\* tcp_connect after a wake-up: AGAIN while the state is the saved one or
\* SYN_RECEIVED, and the PCB is released in every other state but ESTABLISHED.
TcpConnectResume(t) ==
  LET i == thread[t].on.to
      pcb == Left(i)
  IN /\ Awake(t, "connect") /\ Safe(thread[t].on)
     /\ \/ /\ ~pcbs[i].interrupted /\ pcb.state \in {thread[t].saved, "SYN_RECEIVED"}
           /\ Sleep(t, "connect", thread[t].on, pcb, pcb.state)
        \/ /\ ~pcbs[i].interrupted /\ pcb.state = "ESTABLISHED"
           /\ pcbs' = [pcbs EXCEPT ![i] = pcb]
           /\ thread' = [thread EXCEPT ![t] = Returned]
           /\ UNCHANGED stuck
        \/ /\ \/ pcbs[i].interrupted
              \/ pcb.state \notin {thread[t].saved, "SYN_RECEIVED", "ESTABLISHED"}
           /\ Release([thread EXCEPT ![t] = Returned], i)

\* Mutant of TcpClose: the user's close only marks the PCB closed.
TcpCloseMarks(i) ==
  /\ pcbs' = [pcbs EXCEPT ![i].state = "CLOSED"]
  /\ thread' = Broadcast({i})
  /\ UNCHANGED stuck

\* tcp_close.  A PCB in CLOSED is refused, and so is one that is closing.
TcpClose(i) ==
  \/ /\ pcbs[i].state \in {"LISTEN", "SYN_SENT"}
     /\ Release(thread, i)
  \/ /\ pcbs[i].state \in {"SYN_RECEIVED", "ESTABLISHED", "CLOSE_WAIT"}
     /\ pcbs' = [pcbs EXCEPT ![i].state = "ENDING"]
     /\ thread' = Broadcast({i})
     /\ UNCHANGED stuck
  \/ /\ pcbs[i].state \in {"FREE", "CLOSED", "ENDING"}
     /\ UNCHANGED <<pcbs, thread, stuck>>
-----------------------------------------------------------------------------
(* Segments and timers.  A segment that reaches no PCB, or one in CLOSED, or *)
(* that is not acceptable changes no PCB.                                    *)

\* tcp_segment_arrives in LISTEN, a SYN to the address a from the endpoint f: a
\* child PCB that remembers its parent.  It is dropped when the table is full.
ArriveListen(i, a, f) ==
  /\ stuck = "no" /\ FreeSlots # {}
  /\ pcbs[i].state = "LISTEN"
  /\ Select(a, pcbs[i].port, f) = i
  /\ LET c == Smallest(FreeSlots)
     IN /\ pcbs' = [pcbs EXCEPT ![c] =
                      [Allocated(c) EXCEPT !.state = "SYN_RECEIVED", !.parent = To(i),
                                           !.addr = a, !.port = pcbs[i].port, !.foreign = f,
                                           !.shared = pcbs[i].shared]]
        /\ thread' = Orphaned(c)
  /\ UNCHANGED stuck

\* A segment of the connection of the PCB i reaches i.
Reached(i) ==
  /\ stuck = "no"
  /\ Select(pcbs[i].addr, pcbs[i].port, pcbs[i].foreign) = i

\* tcp_segment_arrives in SYN_SENT: a SYN that acknowledges ours or one that
\* does not (a simultaneous open, which wakes nobody).
ArriveSynSent(i) ==
  /\ Reached(i) /\ pcbs[i].state = "SYN_SENT"
  /\ \/ /\ pcbs' = [pcbs EXCEPT ![i].state = "ESTABLISHED"]
        /\ thread' = Broadcast({i})
     \/ /\ pcbs' = [pcbs EXCEPT ![i].state = "SYN_RECEIVED"]
        /\ UNCHANGED thread
  /\ UNCHANGED stuck

\* The rest of tcp_segment_arrives, an acceptable segment with ACK, with or
\* without FIN.  A child goes to the backlog of the PCB that its parent pointer
\* names, and the threads asleep on both are woken.
ArriveSynReceived(i) ==
  LET parent == pcbs[i].parent
      next == {"ESTABLISHED", "CLOSE_WAIT"}
  IN /\ Reached(i) /\ pcbs[i].state = "SYN_RECEIVED"
     /\ \/ /\ parent.to = 0
           /\ \E n \in next : pcbs' = [pcbs EXCEPT ![i].state = n]
           /\ thread' = Broadcast({i})
           /\ UNCHANGED stuck
        \/ /\ parent.live
           /\ Len(pcbs[parent.to].backlog) < MaxBacklog
           /\ \E n \in next :
                pcbs' = [pcbs EXCEPT ![i].state = n,
                                     ![parent.to].backlog = Append(@, To(i))]
           /\ thread' = Broadcast({i, parent.to})
           /\ UNCHANGED stuck
        \/ /\ parent.to # 0 /\ ~parent.live
           /\ stuck' = "stale"
           /\ UNCHANGED <<pcbs, thread>>

ArriveFin(i) ==
  /\ Reached(i) /\ pcbs[i].state = "ESTABLISHED"
  /\ pcbs' = [pcbs EXCEPT ![i].state = "CLOSE_WAIT"]
  /\ thread' = Broadcast({i})
  /\ UNCHANGED stuck

\* A connection that the user has closed is over: tcp_segment_arrives gets the
\* last acknowledgment in LAST_ACK, or tcp_timer ends TIME_WAIT.
Over(i) ==
  /\ stuck = "no"
  /\ pcbs[i].state = "ENDING"
  /\ Release(thread, i)

\* tcp_segment_arrives, an acceptable RST in SYN_SENT; RST or SYN afterwards.
Connected == {"SYN_SENT", "SYN_RECEIVED", "ESTABLISHED", "CLOSE_WAIT", "ENDING"}

ArriveReset(i) ==
  /\ Reached(i) /\ pcbs[i].state \in Connected
  /\ Release(thread, i)

\* tcp_timer, tcp_retransmit_queue_emit: the deadline of a segment that the peer
\* has not acknowledged.  The PCB is closed and not released.
Deadline(i) ==
  /\ stuck = "no"
  /\ pcbs[i].state \in Connected
  /\ pcbs' = [pcbs EXCEPT ![i].state = "CLOSED"]
  /\ thread' = Broadcast({i})
  /\ UNCHANGED stuck

\* event_handler: sched_interrupt on every PCB in use.
Interrupt ==
  LET used == Slot \ FreeSlots
  IN /\ stuck = "no"
     /\ pcbs' = [i \in Slot |-> IF i \in used THEN [pcbs[i] EXCEPT !.interrupted = TRUE]
                                ELSE pcbs[i]]
     /\ thread' = Broadcast(used)
     /\ UNCHANGED stuck
=============================================================================
