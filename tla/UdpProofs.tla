------------------------------ MODULE UdpProofs ------------------------------
(* Proofs about Udp for every table size, set of threads, addresses, ports. *)
EXTENDS Udp, FiniteSetTheorems, TLAPS

\* A thread inside udp_recvfrom has a PCB.
InSlot == \A t \in Threads : thread[t].wait # "no" => thread[t].slot \in Slot

\* A free PCB has no port, so that opening it disturbs nobody.
FreeUnbound == \A i \in Slot : pcbs[i].state = "FREE" => pcbs[i].port = 0

IInv == TypeOK /\ InSlot /\ FreeUnbound /\ UniqueEndpoint
-----------------------------------------------------------------------------
LEMMA ThreadMaps ==
  ASSUME TypeOK, InSlot, NEW i
  PROVE  /\ Broadcast(i) \in [Threads -> Thread] /\ Orphaned(i) \in [Threads -> Thread]
         /\ \A t \in Threads : /\ Broadcast(i)[t].slot = thread[t].slot
                               /\ Orphaned(i)[t].slot = thread[t].slot
                               /\ Broadcast(i)[t].wait # "no" => thread[t].wait # "no"
                               /\ Orphaned(i)[t].wait # "no" => thread[t].wait # "no"
  BY DEF Broadcast, Orphaned, Asleep, TypeOK, Thread

LEMMA Renewed ==
  ASSUME NEW p \in Pcb, NEW s \in {"FREE", "OPEN"}, NEW b \in BOOLEAN, NEW w \in Int
  PROVE  [p EXCEPT !.state = s, !.interrupted = b, !.wc = w] \in Pcb
  BY DEF Pcb

LEMMA Emptied ==
  ASSUME NEW p \in Pcb, NEW s \in {"FREE", "OPEN"}, NEW a \in Addrs \cup {ANY},
         NEW n \in Port, NEW k \in Nat
  PROVE  [p EXCEPT !.state = s, !.addr = a, !.port = n, !.queued = k] \in Pcb
  BY DEF Pcb

LEMMA SetCount ==
  ASSUME NEW p \in Pcb, NEW w \in Int
  PROVE  [p EXCEPT !.wc = w] \in Pcb
  BY DEF Pcb

LEMMA SetQueued ==
  ASSUME NEW p \in Pcb, NEW k \in Nat
  PROVE  [p EXCEPT !.queued = k] \in Pcb
  BY DEF Pcb

LEMMA SetInterrupted ==
  ASSUME NEW p \in Pcb, NEW b \in BOOLEAN
  PROVE  [p EXCEPT !.interrupted = b] \in Pcb
  BY DEF Pcb

\* Steps that keep the endpoint and the state of every PCB.
LEMMA EndpointsKept ==
  ASSUME IInv, pcbs' \in [Slot -> Pcb],
         \A i \in Slot : /\ pcbs'[i].state = pcbs[i].state
                         /\ pcbs'[i].addr = pcbs[i].addr /\ pcbs'[i].port = pcbs[i].port
  PROVE  FreeUnbound' /\ UniqueEndpoint'
  BY DEF IInv, FreeUnbound, UniqueEndpoint

LEMMA OpenIInv ==
  ASSUME IInv, NEW t \in Threads, Open(t)
  PROVE  IInv'
  <1>1. PICK i \in Slot :
          /\ pcbs[i].state = "FREE"
          /\ pcbs' = [pcbs EXCEPT ![i].state = "OPEN", ![i].interrupted = FALSE, ![i].wc = 0]
          /\ thread' = Orphaned(i)
    BY DEF Open
  <1> DEFINE p == pcbs[i]
             q == [p EXCEPT !.state = "OPEN", !.interrupted = FALSE, !.wc = 0]
  <1>2. p \in Pcb /\ p.port = 0 /\ pcbs' = [pcbs EXCEPT ![i] = q]
    BY <1>1 DEF IInv, TypeOK, FreeUnbound
  <1>3. q \in Pcb
    <2>1. "OPEN" \in {"FREE", "OPEN"} /\ FALSE \in BOOLEAN /\ 0 \in Int
      OBVIOUS
    <2> QED
      BY <1>2, <2>1, Renewed, Zenon
  <1>6. q.port = 0 /\ q.state = "OPEN"
    BY <1>2 DEF Pcb
  <1> HIDE DEF q
  <1>4. pcbs' \in [Slot -> Pcb] /\ FreeUnbound' /\ UniqueEndpoint'
    BY <1>2, <1>3, <1>6 DEF IInv, TypeOK, FreeUnbound, UniqueEndpoint
  <1>5. thread' \in [Threads -> Thread] /\ InSlot'
    BY <1>1, ThreadMaps DEF IInv, InSlot
  <1> QED
    BY <1>4, <1>5 DEF Open, IInv, TypeOK

LEMMA CloseIInv ==
  ASSUME IInv, NEW t \in Threads, NEW i \in Slot, Close(t, i)
  PROVE  IInv'
  <1> DEFINE p == pcbs[i]
             f == [p EXCEPT !.state = "FREE", !.addr = ANY, !.port = 0, !.queued = 0]
             c == [p EXCEPT !.state = "CLOSING"]
  <1>1. p \in Pcb
    BY DEF IInv, TypeOK
  <1>0. undercut' \in BOOLEAN
    BY DEF Close
  <1>2. CASE pcbs' = [pcbs EXCEPT ![i] = f] /\ thread' = Orphaned(i) /\ UNCHANGED <<hung, due>>
    <2>1. f \in Pcb
      <3>1. ANY \in Addrs \cup {ANY} /\ 0 \in Port
        BY TableAssumption DEF Port
      <3> QED
        BY <1>1, <3>1, Emptied
    <2>4. f.port = 0 /\ f.state = "FREE"
      BY <1>1 DEF Pcb
    <2> HIDE DEF f
    <2>2. pcbs' \in [Slot -> Pcb] /\ FreeUnbound' /\ UniqueEndpoint'
      BY <1>2, <2>1, <2>4 DEF IInv, TypeOK, FreeUnbound, UniqueEndpoint
    <2>3. thread' \in [Threads -> Thread] /\ InSlot'
      BY <1>2, ThreadMaps DEF IInv, InSlot
    <2> QED
      BY <1>0, <1>2, <2>2, <2>3 DEF IInv, TypeOK
  <1>3. CASE pcbs' = [pcbs EXCEPT ![i] = c] /\ hung' = TRUE /\ UNCHANGED <<thread, due>>
    <2>1. c \in Pcb /\ c.state = "CLOSING"
      BY <1>1 DEF Pcb
    <2> HIDE DEF c
    <2>2. pcbs' \in [Slot -> Pcb] /\ FreeUnbound' /\ UniqueEndpoint'
      BY <1>3, <2>1 DEF IInv, TypeOK, FreeUnbound, UniqueEndpoint
    <2> QED
      BY <1>0, <1>3, <2>2 DEF IInv, TypeOK, InSlot
  <1> QED
    BY <1>2, <1>3 DEF Close, IInv, TypeOK

\* udp_bind and udp_sendto set an endpoint that matches nobody's.
LEMMA EndpointSet ==
  ASSUME IInv, NEW t \in Threads, NEW i \in Slot, Bind(t, i) \/ Sendto(t, i)
  PROVE  /\ pcbs[i] \in Pcb /\ pcbs[i].state = "OPEN"
         /\ \E b \in Addrs \cup {ANY}, a \in Addrs \cup {ANY}, n \in Port :
              /\ b \in {ANY, a} /\ Matching(a, n) = {}
              /\ pcbs' = [pcbs EXCEPT ![i] = [pcbs[i] EXCEPT !.addr = b, !.port = n]]
  <1> USE TableAssumption
  <1> DEFINE p == pcbs[i]
  <1>1. p \in Pcb /\ p.state = "OPEN"
    BY DEF IInv, TypeOK, Bind, Sendto
  <1>2. CASE Bind(t, i)
    <2>1. PICK a \in Addrs \cup {ANY}, n \in Port :
            Matching(a, n) = {} /\ pcbs' = [pcbs EXCEPT ![i].addr = a, ![i].port = n]
      BY <1>2 DEF Bind
    <2>2. pcbs' = [pcbs EXCEPT ![i] = [p EXCEPT !.addr = a, !.port = n]]
      BY <2>1 DEF IInv, TypeOK
    <2> QED
      BY <1>1, <2>1, <2>2
  <1>3. CASE Sendto(t, i)
    <2>1. PICK a \in Addrs, n \in MinPort..MaxPort :
            /\ p.addr \in {ANY, a} /\ Matching(a, n) = {}
            /\ pcbs' = [pcbs EXCEPT ![i].port = n]
      BY <1>3 DEF Sendto
    <2>2. pcbs' = [pcbs EXCEPT ![i] = [p EXCEPT !.addr = p.addr, !.port = n]]
      BY <1>1, <2>1 DEF IInv, TypeOK, Pcb
    <2>3. n \in Port /\ p.addr \in Addrs \cup {ANY}
      BY <1>1, <2>1 DEF Port, Pcb
    <2> QED
      BY <1>1, <2>1, <2>2, <2>3
  <1> QED
    BY <1>2, <1>3

LEMMA EndpointIInv ==
  ASSUME IInv, NEW t \in Threads, NEW i \in Slot, Bind(t, i) \/ Sendto(t, i)
  PROVE  IInv'
  <1> DEFINE p == pcbs[i]
  <1>1. p \in Pcb /\ p.state = "OPEN"
    BY EndpointSet
  <1>2. PICK b \in Addrs \cup {ANY}, a \in Addrs \cup {ANY}, n \in Port :
          /\ b \in {ANY, a} /\ Matching(a, n) = {}
          /\ pcbs' = [pcbs EXCEPT ![i] = [p EXCEPT !.addr = b, !.port = n]]
    BY EndpointSet
  <1> DEFINE q == [p EXCEPT !.addr = b, !.port = n]
  <1>3. q \in Pcb /\ q.state = "OPEN" /\ q.addr = b /\ q.port = n
    BY <1>1, <1>2 DEF Pcb
  <1>4. \A j \in Slot : pcbs[j].state = "OPEN" /\ pcbs[j].port = n => pcbs[j].addr # b
    BY <1>2 DEF Matching
  <1>5. pcbs' = [pcbs EXCEPT ![i] = q]
    BY <1>2
  <1> HIDE DEF q
  <1>6. pcbs' \in [Slot -> Pcb] /\ FreeUnbound'
    BY <1>3, <1>5 DEF IInv, TypeOK, FreeUnbound
  <1>7. UniqueEndpoint'
    BY <1>3, <1>4, <1>5 DEF IInv, TypeOK, UniqueEndpoint
  <1> QED
    BY <1>6, <1>7 DEF Bind, Sendto, IInv, TypeOK, InSlot

\* The three outcomes of the loop of udp_recvfrom, for any PCB it runs on.
LEMMA LoopIInv ==
  ASSUME IInv, NEW t \in Threads, NEW i \in Slot, NEW p \in Pcb, Loop(t, i, p),
         p.state = pcbs[i].state, p.addr = pcbs[i].addr, p.port = pcbs[i].port,
         due' \subseteq Threads, hung' = hung, undercut' = undercut
  PROVE  IInv'
  <1>1. \E q \in Pcb : /\ pcbs' = [pcbs EXCEPT ![i] = q]
                       /\ q.state = p.state /\ q.addr = p.addr /\ q.port = p.port
    <2>1. CASE p.queued > 0 /\ pcbs' = [pcbs EXCEPT ![i] = [p EXCEPT !.queued = @ - 1]]
      <3> DEFINE k == p.queued - 1
      <3>1. k \in Nat
        BY <2>1 DEF Pcb
      <3>2. [p EXCEPT !.queued = k] \in Pcb
        BY <3>1, SetQueued
      <3> QED
        BY <2>1, <3>2 DEF Pcb
    <2>2. CASE pcbs' = [pcbs EXCEPT ![i] = p]
      BY <2>2
    <2>3. CASE pcbs' = [pcbs EXCEPT ![i] = [p EXCEPT !.wc = @ + 1]]
      <3> DEFINE w == p.wc + 1
      <3>1. w \in Int
        BY DEF Pcb
      <3>2. [p EXCEPT !.wc = w] \in Pcb
        BY <3>1, SetCount
      <3> QED
        BY <2>3, <3>2 DEF Pcb
    <2> QED
      BY <2>1, <2>2, <2>3 DEF Loop, Sleeps
  <1>2. pcbs' \in [Slot -> Pcb] /\ FreeUnbound' /\ UniqueEndpoint'
    BY <1>1 DEF IInv, TypeOK, FreeUnbound, UniqueEndpoint
  <1>3. \E r \in Thread : /\ thread' = [thread EXCEPT ![t] = r]
                          /\ r.wait # "no" => r.slot \in Slot
    <2>1. \/ thread' = [thread EXCEPT ![t] = Returned]
          \/ thread' = [thread EXCEPT ![t] = [wait |-> "asleep", slot |-> i]]
      BY DEF Loop, Sleeps
    <2>2. Returned \in Thread /\ Returned.wait = "no"
      BY DEF Returned, Thread
    <2>3. [wait |-> "asleep", slot |-> i] \in Thread
      BY DEF Thread
    <2> QED
      BY <2>1, <2>2, <2>3
  <1>4. thread' \in [Threads -> Thread] /\ InSlot'
    BY <1>3 DEF IInv, TypeOK, InSlot
  <1> QED
    BY <1>2, <1>4 DEF IInv, TypeOK

LEMMA RecvfromIInv ==
  ASSUME IInv, NEW t \in Threads, NEW i \in Slot, Recvfrom(t, i)
  PROVE  IInv'
  <1>1. pcbs[i] \in Pcb /\ due \subseteq Threads
    BY DEF IInv, TypeOK
  <1>2. Loop(t, i, pcbs[i]) /\ due' = due /\ hung' = hung /\ undercut' = undercut
    BY DEF Recvfrom
  <1> QED
    BY <1>1, <1>2, LoopIInv

\* A PCB that a thread of udp_recvfrom has left: its count only.
LEMMA LeavesPcb ==
  ASSUME NEW q \in Pcb
  PROVE  /\ Leaves(q) \in Pcb /\ Leaves(q).wc = q.wc - 1
         /\ Leaves(q).state = q.state /\ Leaves(q).addr = q.addr /\ Leaves(q).port = q.port
         /\ Leaves(q).queued = q.queued /\ (Leaves(q).interrupted <=> q.interrupted)
  <1> DEFINE w == q.wc - 1
  <1>1. w \in Int
    BY DEF Pcb
  <1>2. Leaves(q) = [q EXCEPT !.wc = w]
    BY DEF Leaves
  <1> QED
    BY <1>1, <1>2, SetCount DEF Pcb

LEMMA AfterPcb ==
  ASSUME NEW q \in Pcb
  PROVE  /\ AfterInterrupt(q) \in Pcb /\ AfterInterrupt(q).wc = q.wc
         /\ AfterInterrupt(q).state = q.state
         /\ AfterInterrupt(q).addr = q.addr /\ AfterInterrupt(q).port = q.port
         /\ AfterInterrupt(q).queued = q.queued
         /\ q.wc # 0 => AfterInterrupt(q).interrupted
  <1> DEFINE b == q.wc # 0
  <1>1. b \in BOOLEAN
    OBVIOUS
  <1>2. AfterInterrupt(q) = [q EXCEPT !.interrupted = b]
    BY DEF AfterInterrupt
  <1> QED
    BY <1>1, <1>2, SetInterrupted DEF Pcb

LEMMA ResumeIInv ==
  ASSUME IInv, NEW t \in Threads, Resume(t)
  PROVE  IInv'
  <1> DEFINE i == thread[t].slot
             p == Leaves(pcbs[i])
  <1>1. /\ i \in Slot /\ pcbs[i] \in Pcb
        /\ due' \subseteq Threads /\ hung' = hung /\ undercut' = undercut
    BY DEF Resume, IInv, TypeOK, InSlot
  <1>2. p \in Pcb /\ p.state = pcbs[i].state /\ p.addr = pcbs[i].addr /\ p.port = pcbs[i].port
    BY <1>1, LeavesPcb
  <1>3. CASE Loop(t, i, p)
    BY <1>1, <1>2, <1>3, LoopIInv
  <1>4. CASE /\ pcbs' = [pcbs EXCEPT ![i] = AfterInterrupt(p)]
             /\ thread' = [thread EXCEPT ![t] = Returned]
    <2> DEFINE q == AfterInterrupt(p)
    <2>1. q \in Pcb /\ q.state = p.state /\ q.addr = p.addr /\ q.port = p.port
      BY <1>2, AfterPcb
    <2>4. pcbs' = [pcbs EXCEPT ![i] = q]
      BY <1>4
    <2> HIDE DEF i, p, q
    <2>2. pcbs' \in [Slot -> Pcb] /\ FreeUnbound' /\ UniqueEndpoint'
      BY <1>1, <1>2, <2>1, <2>4 DEF IInv, TypeOK, FreeUnbound, UniqueEndpoint
    <2>3. thread' \in [Threads -> Thread] /\ InSlot'
      BY <1>4 DEF IInv, TypeOK, InSlot, Returned, Thread
    <2> QED
      BY <1>1, <2>2, <2>3 DEF IInv, TypeOK
  <1> QED
    BY <1>3, <1>4 DEF Resume

LEMMA InputIInv ==
  ASSUME IInv, NEW a \in Addrs, NEW n \in 1..MaxPort, Input(a, n)
  PROVE  IInv'
  <1>1. PICK i \in Slot : /\ pcbs' = [pcbs EXCEPT ![i].queued = @ + 1]
                          /\ thread' = Broadcast(i)
    BY DEF Input, Signalled
  <1> DEFINE k == pcbs[i].queued + 1
             q == [pcbs[i] EXCEPT !.queued = k]
  <1>2. pcbs[i] \in Pcb /\ k \in Nat
    BY DEF IInv, TypeOK, Pcb
  <1>3. q \in Pcb /\ q.state = pcbs[i].state /\ q.addr = pcbs[i].addr /\ q.port = pcbs[i].port
    BY <1>2, SetQueued DEF Pcb
  <1>4. pcbs' = [pcbs EXCEPT ![i] = q]
    BY <1>1
  <1> HIDE DEF q
  <1>5. pcbs' \in [Slot -> Pcb] /\ FreeUnbound' /\ UniqueEndpoint'
    BY <1>3, <1>4 DEF IInv, TypeOK, FreeUnbound, UniqueEndpoint
  <1>6. thread' \in [Threads -> Thread] /\ InSlot'
    BY <1>1, ThreadMaps DEF IInv, InSlot
  <1> QED
    BY <1>5, <1>6 DEF Input, IInv, TypeOK

LEMMA InterruptIInv ==
  ASSUME IInv, Interrupt
  PROVE  IInv'
  <1>1. \A i \in Slot : /\ pcbs'[i] \in Pcb
                        /\ pcbs'[i].state = pcbs[i].state
                        /\ pcbs'[i].addr = pcbs[i].addr /\ pcbs'[i].port = pcbs[i].port
    <2> TAKE i \in Slot
    <2>1. pcbs[i] \in Pcb
      BY DEF IInv, TypeOK
    <2>2. \/ pcbs'[i] = pcbs[i]
          \/ pcbs'[i] = [pcbs[i] EXCEPT !.interrupted = TRUE]
      BY DEF Interrupt
    <2> QED
      BY <2>1, <2>2 DEF Pcb
  <1>2. pcbs' \in [Slot -> Pcb]
    BY <1>1 DEF Interrupt
  <1>3. thread' \in [Threads -> Thread] /\ InSlot'
    BY DEF Interrupt, IInv, TypeOK, InSlot, Thread
  <1> QED
    BY <1>1, <1>2, <1>3, EndpointsKept DEF Interrupt, IInv, TypeOK

LEMMA InitIInv ==
  Init => IInv
  <1> SUFFICES ASSUME Init PROVE IInv
    OBVIOUS
  <1>1. Zeroed \in Pcb /\ Zeroed.port = 0
    <2>1. ANY \in Addrs \cup {ANY} /\ 0 \in Port
      BY TableAssumption DEF Port
    <2> QED
      BY <2>1 DEF Zeroed, Pcb
  <1>2. Returned \in Thread /\ Returned.wait = "no"
    BY DEF Returned, Thread
  <1> QED
    BY <1>1, <1>2 DEF Init, IInv, TypeOK, InSlot, FreeUnbound, UniqueEndpoint

LEMMA NextIInv ==
  IInv /\ [Next]_vars => IInv'
  <1> SUFFICES ASSUME IInv, [Next]_vars PROVE IInv'
    OBVIOUS
  <1>1. CASE UNCHANGED vars
    BY <1>1 DEF vars, IInv, TypeOK, InSlot, FreeUnbound, UniqueEndpoint
  <1>2. CASE \E t \in Threads : Open(t) \/ Resume(t)
    BY <1>2, OpenIInv, ResumeIInv
  <1>3. CASE \E t \in Threads : \E i \in Slot :
               Close(t, i) \/ Bind(t, i) \/ Sendto(t, i) \/ Recvfrom(t, i)
    BY <1>3, CloseIInv, EndpointIInv, RecvfromIInv
  <1>4. CASE \E a \in Addrs, n \in 1..MaxPort : Input(a, n)
    BY <1>4, InputIInv
  <1>5. CASE Interrupt
    BY <1>5, InterruptIInv
  <1> QED
    BY <1>1, <1>2, <1>3, <1>4, <1>5 DEF Next

\* However many PCBs, threads and ports there are, and whoever closes what,
\* udp_bind and udp_sendto never give two open PCBs the same endpoint.
THEOREM EndpointsUnique == Spec => []UniqueEndpoint
  <1>1. Spec => []IInv
    BY InitIInv, NextIInv, PTL DEF Spec
  <1>2. IInv => UniqueEndpoint
    BY DEF IInv
  <1> QED
    BY <1>1, <1>2, PTL
-----------------------------------------------------------------------------
(* Readers, as long as no PCB was closed under one. *)

\* Nobody is stranded: a thread in udp_recvfrom is on an open PCB and on a
\* condition variable that exists.
OnOpenPcb ==
  /\ ~hung
  /\ \A t \in Threads : /\ thread[t].wait # "lost"
                        /\ thread[t].wait # "no" => pcbs[thread[t].slot].state = "OPEN"

\* What WaitCount, ReaderHasReason and InterruptReachesAll say until then.
Counted == \A i \in Slot : pcbs[i].wc = Cardinality(Waiting(i))
Reasoned ==
  \A t \in Threads : thread[t].wait = "asleep" =>
    pcbs[thread[t].slot].queued = 0 /\ ~pcbs[thread[t].slot].interrupted
Reached ==
  \A t \in due : thread[t].wait = "woken" /\ pcbs[thread[t].slot].interrupted

ReadInv == OnOpenPcb /\ Counted /\ Reasoned /\ Reached

LEMMA WaitingFinite ==
  ASSUME NEW i
  PROVE  /\ IsFiniteSet(Waiting(i)) /\ Cardinality(Waiting(i)) \in Nat
         /\ \A t \in Waiting(i) : Cardinality(Waiting(i) \ {t}) = Cardinality(Waiting(i)) - 1
         /\ Waiting(i) = {} => Cardinality(Waiting(i)) = 0
         /\ \A t : /\ IsFiniteSet(Waiting(i) \ {t})
                   /\ Cardinality((Waiting(i) \ {t}) \cup {t}) = Cardinality(Waiting(i) \ {t}) + 1
                   /\ Cardinality(Waiting(i) \ {t}) = 0 => Waiting(i) \ {t} = {}
  <1>1. IsFiniteSet(Waiting(i))
    BY TableAssumption, FS_Subset DEF Waiting
  <1>2. \A t : IsFiniteSet(Waiting(i) \ {t})
    BY <1>1, FS_RemoveElement
  <1>3. \A t : t \notin Waiting(i) \ {t}
    OBVIOUS
  <1> QED
    BY <1>1, <1>2, <1>3, FS_RemoveElement, FS_AddElement, FS_EmptySet, FS_CardinalityType

\* What a step of the loop leaves of ReadInv, given that the thread is not
\* counted in p any more.
LEMMA LoopRead ==
  ASSUME IInv, ReadInv, NEW t \in Threads, NEW i \in Slot, NEW p \in Pcb, Loop(t, i, p),
         p.state = "OPEN", pcbs[i].state = "OPEN", p.queued = pcbs[i].queued,
         (p.interrupted <=> pcbs[i].interrupted),
         p.wc = Cardinality(Waiting(i) \ {t}),
         thread[t].wait = "no" \/ thread[t].slot = i,
         t \notin due', due' \subseteq due, hung' = hung
  PROVE  ReadInv'
  <1>0. pcbs \in [Slot -> Pcb] /\ thread \in [Threads -> Thread] /\ due' \subseteq Threads
    BY DEF IInv, TypeOK
  <1>1. \A j \in Slot : j # i => t \notin Waiting(j)
    BY DEF Waiting
  <1>2. CASE /\ thread' = [thread EXCEPT ![t] = Returned]
             /\ \E q \in Pcb : /\ pcbs' = [pcbs EXCEPT ![i] = q]
                               /\ q.state = "OPEN" /\ q.wc = p.wc
                               /\ (q.interrupted <=> pcbs[i].interrupted)
                               /\ q.queued = pcbs[i].queued \/ pcbs[i].queued > 0
    <2>1. PICK q \in Pcb : /\ pcbs' = [pcbs EXCEPT ![i] = q]
                           /\ q.state = "OPEN" /\ q.wc = p.wc
                           /\ (q.interrupted <=> pcbs[i].interrupted)
                           /\ q.queued = pcbs[i].queued \/ pcbs[i].queued > 0
      BY <1>2
    <2>a. pcbs' = [pcbs EXCEPT ![i] = q] /\ q.state = "OPEN" /\ q.wc = p.wc
      BY <2>1
    <2>b. (q.interrupted <=> pcbs[i].interrupted)
      BY <2>1
    <2>2. thread'[t].wait = "no" /\ \A u \in Threads : u # t => thread'[u] = thread[u]
      BY <1>0, <1>2 DEF Returned
    <2>3. pcbs'[i] = q /\ \A j \in Slot : j # i => pcbs'[j] = pcbs[j]
      BY <1>0, <2>a
    <2>4. Waiting(i)' = Waiting(i) \ {t} /\ \A j \in Slot : j # i => Waiting(j)' = Waiting(j)
      BY <1>1, <2>2 DEF Waiting
    <2>5. Counted'
      BY <2>a, <2>3, <2>4 DEF ReadInv, Counted
    <2>6. OnOpenPcb'
      BY <2>a, <2>2, <2>3 DEF ReadInv, OnOpenPcb, IInv, InSlot
    <2>7. Reasoned'
      BY <2>1, <2>2, <2>3 DEF ReadInv, Reasoned, IInv, InSlot
    <2>8. Reached'
      <3> SUFFICES ASSUME NEW u \in due'
                   PROVE  thread'[u].wait = "woken" /\ pcbs'[thread'[u].slot].interrupted
        BY DEF Reached
      <3>1. u # t /\ u \in Threads /\ thread[u].wait = "woken" /\ pcbs[thread[u].slot].interrupted
        BY <1>0 DEF ReadInv, Reached
      <3>2. thread'[u] = thread[u] /\ thread[u].slot \in Slot
        BY <2>2, <3>1 DEF IInv, InSlot
      <3> QED
        BY <2>b, <2>3, <3>1, <3>2
    <2> QED
      BY <2>5, <2>6, <2>7, <2>8 DEF ReadInv
  <1>3. CASE /\ p.queued = 0 /\ ~p.interrupted
             /\ pcbs' = [pcbs EXCEPT ![i] = [p EXCEPT !.wc = @ + 1]]
             /\ thread' = [thread EXCEPT ![t] = [wait |-> "asleep", slot |-> i]]
    <2> DEFINE q == [p EXCEPT !.wc = @ + 1]
    <2>1. q.state = "OPEN" /\ q.wc = p.wc + 1 /\ ~q.interrupted /\ q.queued = 0
      BY <1>3 DEF Pcb
    <2> HIDE DEF q
    <2>2. /\ thread'[t].wait = "asleep" /\ thread'[t].slot = i
          /\ \A u \in Threads : u # t => thread'[u] = thread[u]
      BY <1>0, <1>3
    <2>3. pcbs'[i] = q /\ \A j \in Slot : j # i => pcbs'[j] = pcbs[j]
      BY <1>0, <1>3 DEF q
    <2>4. Waiting(i)' = (Waiting(i) \ {t}) \cup {t}
      BY <2>2 DEF Waiting
    <2>5. \A j \in Slot : j # i => Waiting(j)' = Waiting(j)
      BY <1>1, <2>2 DEF Waiting
    <2>6. Counted'
      <3> SUFFICES ASSUME NEW j \in Slot PROVE pcbs'[j].wc = Cardinality(Waiting(j)')
        BY DEF Counted
      <3>1. CASE j = i
        <4>1. Cardinality((Waiting(i) \ {t}) \cup {t}) = Cardinality(Waiting(i) \ {t}) + 1
          BY WaitingFinite
        <4>2. Cardinality(Waiting(i)') = Cardinality((Waiting(i) \ {t}) \cup {t})
          BY <2>4
        <4> QED
          BY <2>1, <2>3, <3>1, <4>1, <4>2
      <3>2. CASE j # i
        BY <2>3, <2>5, <3>2 DEF ReadInv, Counted
      <3> QED
        BY <3>1, <3>2
    <2>7. OnOpenPcb'
      BY <2>1, <2>2, <2>3 DEF ReadInv, OnOpenPcb, IInv, InSlot
    <2>8. Reasoned'
      BY <2>1, <2>2, <2>3 DEF ReadInv, Reasoned, IInv, InSlot
    <2>9. Reached'
      <3> SUFFICES ASSUME NEW u \in due'
                   PROVE  thread'[u].wait = "woken" /\ pcbs'[thread'[u].slot].interrupted
        BY DEF Reached
      <3>1. u # t /\ u \in Threads /\ thread[u].wait = "woken" /\ pcbs[thread[u].slot].interrupted
        BY <1>0 DEF ReadInv, Reached
      <3>2. thread'[u] = thread[u] /\ thread[u].slot \in Slot /\ thread[u].slot # i
        BY <1>3, <2>2, <3>1 DEF IInv, InSlot
      <3> QED
        BY <2>3, <3>1, <3>2
    <2> QED
      BY <2>6, <2>7, <2>8, <2>9 DEF ReadInv
  <1>4. CASE p.interrupted /\ p.queued = 0
    <2>1. /\ pcbs' = [pcbs EXCEPT ![i] = p]
          /\ thread' = [thread EXCEPT ![t] = Returned]
      BY <1>4 DEF Loop, Sleeps
    <2> QED
      BY <1>2, <2>1
  <1>5. CASE p.queued > 0
    <2> DEFINE q == [p EXCEPT !.queued = @ - 1]
    <2>1. q \in Pcb /\ q.state = "OPEN" /\ q.wc = p.wc /\ (q.interrupted <=> pcbs[i].interrupted)
      <3> DEFINE k == p.queued - 1
      <3>1. k \in Nat
        BY <1>5 DEF Pcb
      <3> QED
        BY <3>1, SetQueued DEF Pcb
    <2>2. /\ pcbs' = [pcbs EXCEPT ![i] = q]
          /\ thread' = [thread EXCEPT ![t] = Returned]
      BY <1>5 DEF Loop, Pcb
    <2> HIDE DEF q
    <2> QED
      BY <1>2, <1>5, <2>1, <2>2
  <1> QED
    BY <1>3, <1>4, <1>5 DEF Loop, Sleeps

\* A woken thread is the last waiter exactly when nobody else still waits.
LEMMA ResumeRead ==
  ASSUME IInv, ReadInv, NEW t \in Threads, Resume(t)
  PROVE  ReadInv'
  <1>0. PICK i \in Slot : i = thread[t].slot
    BY DEF Resume, IInv, InSlot
  <1> DEFINE p == Leaves(pcbs[i])
  <1>1. /\ i \in Slot /\ pcbs[i] \in Pcb /\ pcbs[i].state = "OPEN" /\ t \in Waiting(i)
        /\ due' = due \ {t} /\ hung' = hung
    BY <1>0 DEF Resume, IInv, TypeOK, ReadInv, OnOpenPcb, Waiting
  <1>2. pcbs[i].wc = Cardinality(Waiting(i))
    BY <1>1 DEF ReadInv, Counted
  <1>3. /\ p \in Pcb /\ p.state = "OPEN" /\ p.queued = pcbs[i].queued
        /\ (p.interrupted <=> pcbs[i].interrupted)
        /\ p.wc = pcbs[i].wc - 1
    BY <1>1, LeavesPcb
  <1>4. p.wc = Cardinality(Waiting(i) \ {t})
    BY <1>1, <1>2, <1>3, WaitingFinite
  <1>5. CASE Loop(t, i, p)
    <2> HIDE DEF p
    <2>1. t \notin due' /\ due' \subseteq due
      BY <1>1
    <2> QED
      BY <1>0, <1>1, <1>3, <1>4, <1>5, <2>1, LoopRead
  <1>6. CASE /\ p.interrupted
             /\ pcbs' = [pcbs EXCEPT ![i] = AfterInterrupt(p)]
             /\ thread' = [thread EXCEPT ![t] = Returned]
    <2> DEFINE q == AfterInterrupt(p)
    <2>1. q.state = "OPEN" /\ q.wc = p.wc /\ q.queued = p.queued
      BY <1>3, AfterPcb
    <2>2. q.wc # 0 => q.interrupted
      BY <1>3, AfterPcb
    <2>3. pcbs' = [pcbs EXCEPT ![i] = q] /\ pcbs[i].interrupted
      BY <1>3, <1>6
    <2> HIDE DEF q, p
    <2>4. pcbs'[i] = q /\ \A j \in Slot : j # i => pcbs'[j] = pcbs[j]
      BY <1>1, <2>3 DEF IInv, TypeOK
    <2>5. thread'[t].wait = "no" /\ \A u \in Threads : u # t => thread'[u] = thread[u]
      BY <1>6 DEF Returned, IInv, TypeOK
    <2>6. Waiting(i)' = Waiting(i) \ {t} /\ \A j \in Slot : j # i => Waiting(j)' = Waiting(j)
      BY <1>0, <2>5 DEF Waiting
    <2>7. Counted'
      BY <1>4, <2>1, <2>4, <2>6 DEF ReadInv, Counted
    <2>8. OnOpenPcb'
      BY <1>1, <2>1, <2>4, <2>5 DEF ReadInv, OnOpenPcb, IInv, InSlot
    <2>9. Reasoned'
      <3> SUFFICES ASSUME NEW u \in Threads, thread'[u].wait = "asleep"
                   PROVE  pcbs'[thread'[u].slot].queued = 0 /\ ~pcbs'[thread'[u].slot].interrupted
        BY DEF Reasoned
      <3>1. u # t /\ thread'[u] = thread[u] /\ thread[u].slot \in Slot
        BY <2>5 DEF IInv, InSlot
      <3>2. ~pcbs[thread[u].slot].interrupted /\ pcbs[thread[u].slot].queued = 0
        BY <3>1 DEF ReadInv, Reasoned
      <3>3. thread[u].slot # i
        BY <2>3, <3>2
      <3> QED
        BY <2>4, <3>1, <3>2, <3>3
    <2>10. Reached'
      <3> SUFFICES ASSUME NEW u \in due'
                   PROVE  thread'[u].wait = "woken" /\ pcbs'[thread'[u].slot].interrupted
        BY DEF Reached
      <3>1. /\ u # t /\ u \in Threads /\ thread[u].wait = "woken"
            /\ pcbs[thread[u].slot].interrupted
        BY <1>1 DEF ReadInv, Reached, IInv, TypeOK
      <3>2. thread'[u] = thread[u] /\ thread[u].slot \in Slot
        BY <2>5, <3>1 DEF IInv, InSlot
      <3>3. CASE thread[u].slot = i
        <4>1. u \in Waiting(i) \ {t}
          BY <3>1, <3>3 DEF Waiting
        <4>2. Cardinality(Waiting(i) \ {t}) # 0
          BY <4>1, WaitingFinite
        <4> QED
          BY <1>4, <2>1, <2>2, <2>4, <3>1, <3>2, <3>3, <4>2
      <3>4. CASE thread[u].slot # i
        BY <2>4, <3>1, <3>2, <3>4
      <3> QED
        BY <3>3, <3>4
    <2> QED
      BY <2>7, <2>8, <2>9, <2>10 DEF ReadInv
  <1> QED
    BY <1>0, <1>5, <1>6 DEF Resume

LEMMA RecvfromRead ==
  ASSUME IInv, ReadInv, NEW t \in Threads, NEW i \in Slot, Recvfrom(t, i)
  PROVE  ReadInv'
  <1>1. /\ pcbs[i] \in Pcb /\ pcbs[i].state = "OPEN" /\ thread[t].wait = "no"
        /\ Loop(t, i, pcbs[i]) /\ due' = due /\ hung' = hung
    BY DEF Recvfrom, Calling, IInv, TypeOK
  <1>2. Waiting(i) \ {t} = Waiting(i)
    BY <1>1 DEF Waiting
  <1>3. pcbs[i].wc = Cardinality(Waiting(i) \ {t})
    BY <1>2 DEF ReadInv, Counted
  <1>4. t \notin due' /\ due' \subseteq due
    BY <1>1 DEF ReadInv, Reached
  <1> QED
    BY <1>1, <1>3, <1>4, LoopRead

\* Steps that wake threads at most, and keep or empty what the others wait on.
LEMMA CallsRead ==
  ASSUME IInv, ReadInv, ~undercut', NEW t \in Threads,
         Open(t) \/ \E i \in Slot : Close(t, i) \/ Bind(t, i) \/ Sendto(t, i)
  PROVE  ReadInv'
  <1>1. due' = due
    BY DEF Open, Close, Bind, Sendto
  <1>2. CASE Open(t)
    <2>1. PICK i \in Slot :
            /\ pcbs[i].state = "FREE"
            /\ pcbs' = [pcbs EXCEPT ![i].state = "OPEN", ![i].interrupted = FALSE, ![i].wc = 0]
            /\ thread' = Orphaned(i)
      BY <1>2 DEF Open
    <2>2. \A u \in Threads : thread[u].wait # "no" => thread[u].slot \in Slot \ {i}
      BY <2>1 DEF ReadInv, OnOpenPcb, IInv, InSlot
    <2>3. Asleep(i) = {} /\ Waiting(i) = {}
      BY <2>2 DEF Asleep, Waiting
    <2>4. thread' = thread
      BY <2>1, <2>3 DEF Orphaned, IInv, TypeOK
    <2>5. /\ \A j \in Slot : j # i => pcbs'[j] = pcbs[j]
          /\ pcbs'[i].wc = 0
      BY <2>1 DEF IInv, TypeOK, Pcb
    <2>6. \A j \in Slot : Waiting(j)' = Waiting(j)
      BY <2>4 DEF Waiting
    <2>7. Counted'
      BY <2>3, <2>5, <2>6, WaitingFinite DEF ReadInv, Counted
    <2>8. OnOpenPcb' /\ Reasoned'
      BY <1>2, <2>2, <2>4, <2>5 DEF ReadInv, OnOpenPcb, Reasoned, Open
    <2>9. Reached'
      BY <1>1, <2>2, <2>4, <2>5 DEF ReadInv, Reached, IInv, TypeOK
    <2> QED
      BY <2>7, <2>8, <2>9 DEF ReadInv
  <1>3. ASSUME NEW i \in Slot, Close(t, i)
        PROVE  ReadInv'
    <2>1. \A u \in Threads : thread[u].slot # i
      BY <1>3 DEF Close
    <2>2. Asleep(i) = {}
      BY <2>1 DEF Asleep
    <2>3. /\ pcbs' = [pcbs EXCEPT ![i] = [pcbs[i] EXCEPT !.state = "FREE", !.addr = ANY,
                                                       !.port = 0, !.queued = 0]]
          /\ thread' = Orphaned(i) /\ hung' = hung
      BY <1>3, <2>2 DEF Close
    <2>4. thread' = thread
      BY <2>2, <2>3 DEF Orphaned, IInv, TypeOK
    <2>5. /\ \A j \in Slot : j # i => pcbs'[j] = pcbs[j]
          /\ pcbs'[i].wc = pcbs[i].wc
      BY <2>3 DEF IInv, TypeOK, Pcb
    <2>6. \A j \in Slot : Waiting(j)' = Waiting(j)
      BY <2>4 DEF Waiting
    <2>7. Counted'
      BY <2>5, <2>6 DEF ReadInv, Counted
    <2>8. OnOpenPcb' /\ Reasoned'
      BY <2>1, <2>3, <2>4, <2>5 DEF ReadInv, OnOpenPcb, Reasoned, IInv, InSlot
    <2>9. \A u \in due : thread[u].slot \in Slot \ {i}
      BY <2>1 DEF ReadInv, Reached, IInv, TypeOK, InSlot
    <2>10. Reached'
      BY <1>1, <2>4, <2>5, <2>9 DEF ReadInv, Reached
    <2> QED
      BY <2>7, <2>8, <2>10 DEF ReadInv
  <1>4. ASSUME NEW i \in Slot, Bind(t, i) \/ Sendto(t, i)
        PROVE  ReadInv'
    <2>1. thread' = thread /\ hung' = hung
      BY <1>4 DEF Bind, Sendto
    <2>9. \E b \in Addrs \cup {ANY}, n \in Port :
            pcbs' = [pcbs EXCEPT ![i] = [pcbs[i] EXCEPT !.addr = b, !.port = n]]
      BY <1>4, EndpointSet
    <2>2. \A j \in Slot : /\ pcbs'[j].state = pcbs[j].state /\ pcbs'[j].wc = pcbs[j].wc
                          /\ pcbs'[j].queued = pcbs[j].queued
      BY <2>9 DEF IInv, TypeOK, Pcb
    <2>3. \A j \in Slot : pcbs'[j].interrupted <=> pcbs[j].interrupted
      BY <2>9 DEF IInv, TypeOK, Pcb
    <2>4. \A j \in Slot : Waiting(j)' = Waiting(j)
      BY <2>1 DEF Waiting
    <2>5. Counted'
      BY <2>2, <2>4 DEF ReadInv, Counted
    <2>6. OnOpenPcb'
      BY <2>1, <2>2 DEF ReadInv, OnOpenPcb, IInv, InSlot
    <2>7. Reasoned'
      BY <2>1, <2>2, <2>3 DEF ReadInv, Reasoned, IInv, InSlot
    <2>8. Reached'
      BY <1>1, <2>1, <2>3 DEF ReadInv, Reached, IInv, TypeOK, InSlot
    <2> QED
      BY <2>5, <2>6, <2>7, <2>8 DEF ReadInv
  <1> QED
    BY <1>2, <1>3, <1>4

LEMMA InputRead ==
  ASSUME IInv, ReadInv, NEW a \in Addrs, NEW n \in 1..MaxPort, Input(a, n)
  PROVE  ReadInv'
  <1>1. PICK i \in Slot : pcbs' = [pcbs EXCEPT ![i].queued = @ + 1] /\ thread' = Broadcast(i)
    BY DEF Input, Signalled
  <1>2. due' = due /\ hung' = hung /\ thread \in [Threads -> Thread] /\ due \subseteq Threads
    BY DEF Input, IInv, TypeOK
  <1>3. \A j \in Slot : /\ pcbs'[j].state = pcbs[j].state /\ pcbs'[j].wc = pcbs[j].wc
                        /\ j # i => pcbs'[j].queued = pcbs[j].queued
    BY <1>1 DEF IInv, TypeOK, Pcb
  <1>4. \A j \in Slot : pcbs'[j].interrupted <=> pcbs[j].interrupted
    BY <1>1 DEF IInv, TypeOK, Pcb
  <1>5. \A u \in Threads : /\ thread'[u].slot = thread[u].slot
                           /\ thread'[u].wait = IF u \in Asleep(i) THEN "woken" ELSE thread[u].wait
    BY <1>1, <1>2 DEF Broadcast, Thread
  <1>6. \A j \in Slot : Waiting(j)' = Waiting(j)
    BY <1>5 DEF Waiting, Asleep
  <1>7. Counted'
    BY <1>3, <1>6 DEF ReadInv, Counted
  <1>8. OnOpenPcb'
    BY <1>2, <1>3, <1>5 DEF ReadInv, OnOpenPcb, IInv, InSlot, Asleep
  <1>9. Reasoned'
    BY <1>3, <1>4, <1>5 DEF ReadInv, Reasoned, IInv, InSlot, Asleep
  <1>10. Reached'
    BY <1>2, <1>4, <1>5 DEF ReadInv, Reached, IInv, InSlot, Asleep
  <1> QED
    BY <1>7, <1>8, <1>9, <1>10 DEF ReadInv

LEMMA InterruptRead ==
  ASSUME IInv, ReadInv, Interrupt
  PROVE  ReadInv'
  <1> DEFINE open == {i \in Slot : pcbs[i].state = "OPEN"}
             woken == {t \in Threads : thread[t].slot \in open /\ thread[t].wait = "asleep"}
  <1>1. /\ hung' = hung /\ thread \in [Threads -> Thread] /\ due \subseteq Threads
        /\ due' = due \cup woken
    BY DEF Interrupt, IInv, TypeOK
  <1>2. \A j \in Slot : pcbs'[j].state = pcbs[j].state /\ pcbs'[j].wc = pcbs[j].wc
    BY DEF Interrupt, IInv, TypeOK, Pcb
  <1>3. \A j \in open : pcbs'[j].interrupted
    BY DEF Interrupt, IInv, TypeOK, Pcb
  <1>4. \A u \in Threads : /\ thread'[u].slot = thread[u].slot
                           /\ thread'[u].wait = IF u \in woken THEN "woken" ELSE thread[u].wait
    BY <1>1 DEF Interrupt, Thread
  <1>5. \A u \in Threads : thread[u].wait # "no" => thread[u].slot \in open
    BY DEF ReadInv, OnOpenPcb, IInv, InSlot
  <1>6. \A u \in Threads : thread'[u].wait # "asleep"
    BY <1>4, <1>5
  <1>7. \A j \in Slot : Waiting(j)' = Waiting(j)
    BY <1>4 DEF Waiting
  <1>8. Counted'
    BY <1>2, <1>7 DEF ReadInv, Counted
  <1>9. OnOpenPcb'
    BY <1>1, <1>2, <1>4, <1>5 DEF ReadInv, OnOpenPcb
  <1>10. Reasoned'
    BY <1>6 DEF Reasoned
  <1>11. Reached'
    <2> SUFFICES ASSUME NEW u \in due'
                 PROVE  thread'[u].wait = "woken" /\ pcbs'[thread'[u].slot].interrupted
      BY DEF Reached
    <2>1. u \in Threads /\ (u \in woken \/ thread[u].wait = "woken")
      BY <1>1 DEF ReadInv, Reached
    <2> QED
      BY <1>3, <1>4, <1>5, <2>1
  <1> QED
    BY <1>8, <1>9, <1>10, <1>11 DEF ReadInv

LEMMA InitReadInv ==
  Init => ReadInv
  <1> SUFFICES ASSUME Init PROVE ReadInv
    OBVIOUS
  <1>1. \A t \in Threads : thread[t].wait = "no"
    BY DEF Init, Returned
  <1>2. \A i \in Slot : Waiting(i) = {} /\ pcbs[i].wc = 0
    BY <1>1 DEF Waiting, Init, Zeroed
  <1>3. Counted
    BY <1>2, WaitingFinite DEF Counted
  <1> QED
    BY <1>1, <1>3 DEF Init, ReadInv, OnOpenPcb, Reasoned, Reached

LEMMA NextReadInv ==
  IInv /\ (undercut \/ ReadInv) /\ [Next]_vars => (undercut \/ ReadInv)'
  <1> SUFFICES ASSUME IInv, undercut \/ ReadInv, [Next]_vars, ~undercut' PROVE ReadInv'
    OBVIOUS
  <1>1. ReadInv
    BY DEF Next, vars, Open, Close, Bind, Sendto, Recvfrom, Resume, Input, Interrupt
  <1>2. CASE UNCHANGED vars
    BY <1>1, <1>2 DEF vars, ReadInv, OnOpenPcb, Counted, Waiting, Reasoned, Reached
  <1>3. CASE \E t \in Threads : \/ Open(t)
                              \/ \E i \in Slot : Close(t, i) \/ Bind(t, i) \/ Sendto(t, i)
    BY <1>1, <1>3, CallsRead
  <1>4. CASE \E t \in Threads : Resume(t)
    BY <1>1, <1>4, ResumeRead
  <1>5. CASE \E t \in Threads : \E i \in Slot : Recvfrom(t, i)
    BY <1>1, <1>5, RecvfromRead
  <1>6. CASE \E a \in Addrs, n \in 1..MaxPort : Input(a, n)
    BY <1>1, <1>6, InputRead
  <1>7. CASE Interrupt
    BY <1>1, <1>7, InterruptRead
  <1> QED
    BY <1>2, <1>3, <1>4, <1>5, <1>6, <1>7 DEF Next

\* For every behaviour, until a PCB is closed under a reader, ReadInv holds.
LEMMA ReadersInv == Spec => [](undercut \/ ReadInv)
  <1>1. IInv /\ (undercut \/ ReadInv) /\ [Next]_vars => (IInv /\ (undercut \/ ReadInv))'
    BY NextIInv, NextReadInv
  <1>2. Init => IInv /\ (undercut \/ ReadInv)
    BY InitIInv, InitReadInv
  <1> QED
    BY <1>1, <1>2, PTL DEF Spec

\* For any number of threads that read from any number of PCBs, as long as none
\* is closed under its readers: an interrupt (net_interrupt, sched_interrupt)
\* ends the call of every thread that was asleep in udp_recvfrom when it came.
THEOREM InterruptsDelivered == Spec => []InterruptReachesAll
  <1>1. undercut \/ ReadInv => InterruptReachesAll
    BY DEF ReadInv, Reached, InterruptReachesAll
  <1> QED
    BY <1>1, ReadersInv, PTL

\* Likewise, no thread sleeps in udp_recvfrom while a datagram is in its queue
\* or an interrupt is pending for it.
THEOREM NoReaderStranded == Spec => []ReaderHasReason
  <1>1. undercut \/ ReadInv => ReaderHasReason
    BY DEF ReadInv, Reasoned, ReaderHasReason
  <1> QED
    BY <1>1, ReadersInv, PTL

\* Likewise, wc of a wait context (sched_sleep) is the number of threads that
\* are inside it.
THEOREM WaitersCounted == Spec => []WaitCount
  <1>1. undercut \/ ReadInv => WaitCount
    BY DEF ReadInv, Counted, WaitCount
  <1> QED
    BY <1>1, ReadersInv, PTL
=============================================================================
