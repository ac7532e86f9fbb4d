-------------------------------- MODULE Sock --------------------------------
(* sock.c: the descriptor table of the socket API, its stream sockets on the *)
(* TCP PCBs of module TcpSocket.  No lock protects the table: sock_alloc     *)
(* looks for an unused descriptor in one step and marks it used in another.  *)
EXTENDS TcpSocket

CONSTANTS
  SockSize,    \* the number of descriptors
  MaxFaults    \* bound: resets, deadlines, failed connects and interrupts

ASSUME SockAssumption ==
  SockSize \in Nat /\ MaxFaults \in Nat

VARIABLES
  socks,    \* the descriptors
  found,    \* the descriptor each thread found unused and has not filled yet
  faults    \* how many faults there have been

vars == <<pcbs, thread, stuck, socks, found, faults>>

Sd == 1..SockSize

\* struct sock; desc.to is 0 for the descriptor -1 of a failed tcp_open.
Socket == [used : BOOLEAN, desc : Ref]
Unused == [used |-> FALSE, desc |-> Null]

\* stuck = "hung": a thread is blocked in pthread_cond_destroy with the mutex
\* held; "crash": sock_accept used the NULL that sock_alloc returned; "race":
\* two threads took the same descriptor.
TypeOK ==
  /\ TcpTypeOK
  /\ stuck \in {"no", "hung", "crash", "race", "stale"}
  /\ socks \in [Sd -> Socket]
  /\ found \in [Threads -> Sd \cup {0}]
  /\ faults \in 0..MaxFaults

Init ==
  /\ TcpInit
  /\ stuck = "no"
  /\ socks = [j \in Sd |-> Unused]
  /\ found = [t \in Threads |-> 0]
  /\ faults = 0
-----------------------------------------------------------------------------
\* A step of tcp.c touches no descriptor; those of the PCBs it releases are now
\* stale.
KeepSocks ==
  /\ socks' = [j \in Sd |->
                 LET i == socks[j].desc.to
                 IN IF i # 0 /\ pcbs[i].state # "FREE" /\ pcbs'[i].state = "FREE"
                    THEN [socks[j] EXCEPT !.desc.live = FALSE] ELSE socks[j]]
  /\ UNCHANGED found

UnusedSocks == {j \in Sd : ~socks[j].used}

\* The first half of sock_alloc.
Find(t, call) ==
  /\ UnusedSocks # {}
  /\ found' = [found EXCEPT ![t] = Smallest(UnusedSocks)]
  /\ thread' = [thread EXCEPT ![t].call = call]
  /\ UNCHANGED <<pcbs, stuck, socks>>

\* The second half.
Take(t) ==
  /\ stuck = "no" /\ thread[t].call \in {"open", "take"}
  /\ socks' = [socks EXCEPT ![found[t]].used = TRUE]
  /\ stuck' = IF socks[found[t]].used THEN "race" ELSE stuck
  /\ thread' = [thread EXCEPT ![t].call = IF @ = "open" THEN "opening" ELSE "taking"]
  /\ UNCHANGED <<pcbs, found>>

\* The assignments to what sock_alloc returned.
Fill(t, desc) ==
  /\ socks' = [socks EXCEPT ![found[t]].desc = desc]
  /\ found' = [found EXCEPT ![t] = 0]
  /\ UNCHANGED stuck

\* sock_open
Open(t) == Running(t) /\ Find(t, "open")

\* The rest of sock_open: the descriptor stays in use when tcp_open fails.
Opened(t) ==
  /\ stuck = "no" /\ thread[t].call = "opening"
  /\ \/ \E i \in Slot :
          /\ TcpOpen(i)
          /\ Fill(t, To(i))
          /\ thread' = [Orphaned(i) EXCEPT ![t] = Returned]
     \/ /\ FreeSlots = {}
        /\ Fill(t, Null)
        /\ thread' = [thread EXCEPT ![t] = Returned]
        /\ UNCHANGED pcbs

\* A thread may call with a descriptor that an earlier call returned.  It sets a
\* socket up once: bind, then listen or connect.
Valid(j) == socks[j].used /\ socks[j].desc.to # 0
Fresh(j) ==
  /\ Valid(j) /\ socks[j].desc.live
  /\ pcbs[socks[j].desc.to].state = "CLOSED"
  /\ pcbs[socks[j].desc.to].foreign = Unset

\* sock_bind
Bind(t, j) ==
  /\ Running(t) /\ Fresh(j) /\ pcbs[socks[j].desc.to].port = 0
  /\ \E a \in Addrs \cup {ANY}, p \in BindPorts : TcpBind(socks[j].desc.to, a, p)
  /\ KeepSocks

\* sock_listen
Listen(t, j) ==
  /\ Running(t) /\ Fresh(j) /\ pcbs[socks[j].desc.to].port # 0
  /\ TcpListen(socks[j].desc.to)
  /\ KeepSocks

\* sock_accept
Accept(t, j) ==
  /\ Running(t) /\ Valid(j) /\ Safe(socks[j].desc)
  /\ TcpAccept(t, socks[j].desc)
  /\ KeepSocks

AcceptResume(t) == TcpAcceptResume(t) /\ KeepSocks

\* The rest of sock_accept, which does not test what sock_alloc returned.
AllocAccepted(t) ==
  /\ stuck = "no" /\ thread[t].call = "alloc"
  /\ \/ Find(t, "take")
     \/ /\ UnusedSocks = {}
        /\ stuck' = "crash"
        /\ UNCHANGED <<pcbs, thread, socks, found>>

Accepted(t) ==
  /\ stuck = "no" /\ thread[t].call = "taking"
  /\ Fill(t, thread[t].got)
  /\ thread' = [thread EXCEPT ![t] = Returned]
  /\ UNCHANGED pcbs

\* sock_connect
Connect(t, j, f) ==
  /\ Running(t) /\ Fresh(j)
  /\ TcpConnect(t, socks[j].desc, f)
  /\ KeepSocks

\* sock_connect when tcp_output fails, or an interrupt was pending.
ConnectFails(t, j) ==
  /\ Running(t) /\ Fresh(j)
  /\ Release(thread, socks[j].desc.to)
  /\ KeepSocks

ConnectResume(t) == TcpConnectResume(t) /\ KeepSocks

\* Mutant of Close: the descriptor is freed without tcp_close.
CloseForgets(t, j) ==
  /\ Running(t) /\ Valid(j) /\ Safe(socks[j].desc)
  /\ socks' = [socks EXCEPT ![j] = Unused]
  /\ UNCHANGED <<pcbs, thread, stuck, found>>

\* sock_close: the descriptor is freed whatever tcp_close answers.
Close(t, j) ==
  /\ Running(t) /\ Valid(j) /\ Safe(socks[j].desc)
  /\ TcpClose(socks[j].desc.to)
  /\ \/ /\ stuck' = "no"
        /\ socks' = [k \in Sd |->
                       LET i == socks[k].desc.to
                       IN IF k = j THEN Unused
                          ELSE IF i # 0 /\ pcbs[i].state # "FREE" /\ pcbs'[i].state = "FREE"
                          THEN [socks[k] EXCEPT !.desc.live = FALSE] ELSE socks[k]]
     \/ stuck' # "no" /\ UNCHANGED socks
  /\ UNCHANGED found
-----------------------------------------------------------------------------
\* The thread goes on with a stale reference to a PCB that is in use again: it
\* calls with such a descriptor, or resumes after such a PCB was released.
FollowStale(t) ==
  /\ stuck = "no"
  /\ \/ thread[t].call = "none" /\ \E j \in Sd : Valid(j) /\ ~Safe(socks[j].desc)
     \/ thread[t].wait = "woken" /\ ~Safe(thread[t].on)
  /\ stuck' = "stale"
  /\ UNCHANGED <<pcbs, thread, socks, found>>
-----------------------------------------------------------------------------
Fault == faults < MaxFaults /\ faults' = faults + 1

User(t) ==
  \/ /\ \/ Open(t) \/ Take(t) \/ Opened(t)
        \/ AcceptResume(t) \/ AllocAccepted(t) \/ Accepted(t)
        \/ ConnectResume(t)
        \/ \E j \in Sd : \/ Bind(t, j) \/ Listen(t, j) \/ Accept(t, j) \/ Close(t, j)
                         \/ \E f \in Foreign : Connect(t, j, f)
        \/ FollowStale(t)
     /\ UNCHANGED faults
  \/ \E j \in Sd : ConnectFails(t, j) /\ Fault

Segment ==
  \E i \in Slot :
    /\ \/ /\ \/ \E a \in Addrs, f \in Foreign : ArriveListen(i, a, f)
             \/ ArriveSynSent(i) \/ ArriveSynReceived(i) \/ ArriveFin(i) \/ Over(i)
          /\ UNCHANGED faults
       \/ (ArriveReset(i) \/ Deadline(i)) /\ Fault
    /\ KeepSocks

Event == Interrupt /\ KeepSocks /\ Fault

Next == (\E t \in Threads : User(t)) \/ Segment \/ Event

Spec == Init /\ [][Next]_vars
-----------------------------------------------------------------------------
(* Properties *)

\* Who owns the PCB i, by a live reference: descriptors, backlogs that hold it,
\* and threads that return from tcp_accept with it.
SockOwners(i) == {j \in Sd : socks[j].used /\ socks[j].desc = To(i)}
Queues(i) == {q \in Slot : \E k \in DOMAIN pcbs[q].backlog : pcbs[q].backlog[k] = To(i)}
Takers(i) == {t \in Threads : thread[t].got = To(i)}
Owners(i) == (SockOwners(i) \X {"sock"}) \cup (Queues(i) \X {"queue"})
             \cup (Takers(i) \X {"taker"})

\* A connection is accepted once and by one thread: no two descriptors, backlogs
\* or threads returning from accept own the same PCB, no backlog holds it twice,
\* and what they own is in use, however calls, segments, timers and closes
\* interleave.
Ownership ==
  \A i \in Slot :
    /\ \A x, y \in Owners(i) : x = y
    /\ pcbs[i].state = "FREE" => Owners(i) = {}
    /\ \A k, m \in DOMAIN pcbs[i].backlog :
         (pcbs[i].backlog[k].live /\ pcbs[i].backlog[k] = pcbs[i].backlog[m]) => k = m

\* A PCB in use that nobody owns is one of three kinds: CLOSED, which nothing
\* releases any more (a deadline passed, or tcp_close found no connection); on its
\* way out after tcp_close; or a child whose handshake is not complete.  A
\* listening or established PCB is never lost.
LeaksExplained ==
  stuck # "race" =>
    \A i \in Slot :
      \/ pcbs[i].state \in {"FREE", "CLOSED", "ENDING"}
      \/ pcbs[i].state = "SYN_RECEIVED" /\ pcbs[i].parent.to # 0
      \/ Owners(i) # {}

\* What accept returns belongs to the socket it was called on: the backlog holds
\* children of this PCB, which is listening, with its port.
BacklogSound ==
  \A i \in Slot :
    \A k \in DOMAIN pcbs[i].backlog :
      LET child == pcbs[pcbs[i].backlog[k].to]
      IN /\ pcbs[i].state = "LISTEN"
         /\ pcbs[i].backlog[k].live => child.parent = To(i) /\ child.port = pcbs[i].port

\* No wake-up is lost: a thread asleep in accept has nothing to take, and one
\* asleep in connect waits for a handshake that is not over; no interrupt is
\* pending for either.
SleepersHaveReason ==
  \A t \in Threads :
    LET pcb == pcbs[thread[t].on.to]
    IN (thread[t].wait = "asleep" /\ thread[t].on.live) =>
         /\ ~pcb.interrupted
         /\ thread[t].call = "accept" => pcb.state = "LISTEN" /\ pcb.backlog = <<>>
         /\ thread[t].call = "connect" => pcb.state \in {"SYN_SENT", "SYN_RECEIVED"}

\* tcp_pcb_select finds every connection: two PCBs have the same local and foreign
\* endpoints only when one of them, or the listening PCB it comes from, was given
\* a port that the checks of tcp_bind or tcp_connect do not see to be taken.
UniqueConnection ==
  \A i, j \in Slot :
    (/\ i # j /\ pcbs[i].foreign # Unset /\ pcbs[i].foreign = pcbs[j].foreign
     /\ pcbs[i].addr = pcbs[j].addr /\ pcbs[i].port = pcbs[j].port)
    => pcbs[i].shared \/ pcbs[j].shared

Connecting(i) ==
  {t \in Threads : thread[t].call = "connect" /\ thread[t].on = To(i)}

\* The phase of a PCB in the abstract life cycle.
Phase(i) ==
  CASE pcbs[i].state = "FREE" -> "free"
    [] SockOwners(i) # {} \/ Connecting(i) # {} -> "app"
    [] Takers(i) # {} -> "handed"
    [] Queues(i) # {} -> "queued"
    [] OTHER -> CASE pcbs[i].state = "SYN_RECEIVED" -> "half"
                  [] pcbs[i].state = "CLOSED" -> "dead"
                  [] OTHER -> "ending"

L == INSTANCE Lifecycle WITH Pcbs <- Slot, phase <- [i \in Slot |-> Phase(i)],
                             kept <- stuck \notin {"race", "stale"}

\* sock.c and tcp.c implement the life cycle, as long as no stale reference is
\* followed to a PCB in use and no two threads take the same descriptor.
ImplementsLifecycle == L!LifecycleSpec
=============================================================================
