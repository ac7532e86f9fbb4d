----------------------------- MODULE SockCalls ------------------------------
(* The calls of the socket API keep the invariant of SockInvariant.          *)
EXTENDS SockInvariant

(* The user calls *)

LEMMA FreshFacts ==
  ASSUME IInv, NEW j \in Sd, Fresh(j)
  PROVE  /\ socks[j].desc \in Ref /\ socks[j].desc.to \in Slot /\ socks[j].desc.live
         /\ pcbs[socks[j].desc.to] \in Pcb
         /\ pcbs[socks[j].desc.to].state = "CLOSED"
         /\ pcbs[socks[j].desc.to].parent.to = 0 /\ pcbs[socks[j].desc.to].backlog = <<>>
  <1>1. socks[j].desc \in Ref /\ socks[j].desc.to \in Slot /\ socks[j].desc.live
    BY DEF IInv, TypeOK, Socket, DescInv, Fresh
  <1>2. pcbs[socks[j].desc.to] \in Pcb /\ PcbOk(socks[j].desc.to)
    BY <1>1 DEF IInv, TypeOK, TcpTypeOK, TableInv
  <1> QED
    BY <1>1, <1>2 DEF Fresh, PcbOk, FreeOk, ChildOk

\* A PCB that was opened and has no connection may be changed at will, as long as
\* it is not freed.
LEMMA FreshGentle ==
  ASSUME NEW i \in Slot, NEW p, pcbs[i].state = "CLOSED", pcbs[i].parent.to = 0,
         p.parent = pcbs[i].parent, p.backlog = pcbs[i].backlog, p.state # "FREE",
         p.interrupted <=> pcbs[i].interrupted
  PROVE  GentleOn(i, p) /\ Quiet(i, p)
  BY DEF GentleOn, Quiet

LEMMA BindInv ==
  ASSUME IInv, faults' \in 0..MaxFaults, NEW t \in Threads, NEW j \in Sd, Bind(t, j)
  PROVE  IInv'
  <1>1. PICK i \in Slot : i = socks[j].desc.to
    BY FreshFacts DEF Bind
  <1>2. /\ pcbs[i] \in Pcb /\ pcbs[i].state = "CLOSED" /\ pcbs[i].parent.to = 0
    BY <1>1, FreshFacts DEF Bind
  <1>3. PICK a \in Addrs \cup {ANY}, n \in BindPorts : TcpBind(i, a, n)
    BY <1>1 DEF Bind
  <1>4. PICK b \in BOOLEAN : b = (\E k \in Slot \ {i} : pcbs[k].port = n)
    OBVIOUS
  <1>5. PICK p : p = [pcbs[i] EXCEPT !.addr = a, !.port = n, !.shared = b]
    OBVIOUS
  <1>6. pcbs' = [pcbs EXCEPT ![i] = p] /\ thread' = thread /\ stuck' = stuck
    BY <1>3, <1>4, <1>5 DEF TcpBind, IInv, TypeOK, TcpTypeOK
  <1>7. n \in 0..MaxPort
    BY <1>3, TcpTableAssumption
  <1>8. /\ p \in Pcb /\ p.parent = pcbs[i].parent /\ p.backlog = pcbs[i].backlog
        /\ p.state = "CLOSED" /\ (p.interrupted <=> pcbs[i].interrupted)
    BY <1>2, <1>3, <1>5, <1>7 DEF Pcb
  <1>9. pcbs' \in [Slot -> Pcb] /\ TableInv' /\ ThreadInv' /\ ShrinkTcp
    <2>1. thread' \in [Threads -> Thread]
      BY <1>6 DEF IInv, TypeOK, TcpTypeOK
    <2> QED
      BY <1>2, <1>6, <1>8, <2>1, FreshGentle, GentleStep
  <1> QED
    BY <1>6, <1>9, StepOfTcp DEF Bind, Running, IInv, TypeOK, TcpTypeOK

LEMMA ListenInv ==
  ASSUME IInv, faults' \in 0..MaxFaults, NEW t \in Threads, NEW j \in Sd, Listen(t, j)
  PROVE  IInv'
  <1>1. PICK i \in Slot : i = socks[j].desc.to
    BY FreshFacts DEF Listen
  <1>2. /\ pcbs[i] \in Pcb /\ pcbs[i].state = "CLOSED" /\ pcbs[i].parent.to = 0
    BY <1>1, FreshFacts DEF Listen
  <1>3. PICK p : p = [pcbs[i] EXCEPT !.state = "LISTEN"]
    OBVIOUS
  <1>4. pcbs' = [pcbs EXCEPT ![i] = p] /\ thread' = thread /\ stuck' = stuck
    BY <1>1, <1>3 DEF Listen, TcpListen, IInv, TypeOK, TcpTypeOK
  <1>5. /\ p \in Pcb /\ p.parent = pcbs[i].parent /\ p.backlog = pcbs[i].backlog
        /\ p.state = "LISTEN" /\ (p.interrupted <=> pcbs[i].interrupted)
    BY <1>2, <1>3 DEF Pcb, States
  <1>6. pcbs' \in [Slot -> Pcb] /\ TableInv' /\ ThreadInv' /\ ShrinkTcp
    <2>1. thread' \in [Threads -> Thread]
      BY <1>4 DEF IInv, TypeOK, TcpTypeOK
    <2> QED
      BY <1>2, <1>4, <1>5, <2>1, FreshGentle, GentleStep
  <1> QED
    BY <1>4, <1>6, StepOfTcp DEF Listen, Running, IInv, TypeOK, TcpTypeOK

LEMMA ConnectFailsInv ==
  ASSUME IInv, faults' \in 0..MaxFaults, NEW t \in Threads, NEW j \in Sd, ConnectFails(t, j)
  PROVE  IInv'
  <1>1. PICK i \in Slot : i = socks[j].desc.to
    BY FreshFacts DEF ConnectFails
  <1>2. thread \in [Threads -> Thread] /\ stuck = "no" /\ Release(thread, i)
    BY <1>1 DEF ConnectFails, Running, IInv, TypeOK, TcpTypeOK
  <1>3. /\ pcbs' \in [Slot -> Pcb] /\ thread' \in [Threads -> Thread]
        /\ stuck' \in {"no", "hung", "stale"}
        /\ TableInv' /\ ThreadInv' /\ ShrinkTcp
    BY <1>2, ReleaseStep
  <1> QED
    BY <1>2, <1>3, StepOfTcp DEF ConnectFails

LEMMA DynamicPortFacts ==
  ASSUME NEW a, NEW f
  PROVE  DynamicPort(a, f) \in 0..MaxPort
  <1> DEFINE free == {p \in MinPort..MaxPort : Select(a, p, f) = 0}
  <1>1. MinPort \in Nat /\ MaxPort \in Nat
    BY TcpTableAssumption
  <1>2. free \subseteq Nat /\ free \subseteq 0..MaxPort
    BY <1>1
  <1>3. DynamicPort(a, f) = IF free # {} THEN Smallest(free) ELSE MaxPort
    BY DEF DynamicPort
  <1> HIDE DEF free
  <1>4. free # {} => Smallest(free) \in 0..MaxPort
    BY <1>2, SmallestFacts
  <1> QED
    BY <1>1, <1>3, <1>4

LEMMA ConnectInv ==
  ASSUME IInv, faults' \in 0..MaxFaults, NEW t \in Threads, NEW j \in Sd,
         NEW f \in Foreign, Connect(t, j, f)
  PROVE  IInv'
  <1>1. PICK ref \in Ref : ref = socks[j].desc /\ ref.to \in Slot /\ ref.live
    BY FreshFacts DEF Connect
  <1>0. PICK i \in Slot : i = ref.to
    BY <1>1
  <1>2. /\ pcbs[i] \in Pcb /\ pcbs[i].state = "CLOSED" /\ pcbs[i].parent.to = 0
        /\ stuck = "no"
    BY <1>0, <1>1, FreshFacts DEF Connect, Running
  <1>3. PICK a \in Addrs, n \in 0..MaxPort, b \in BOOLEAN :
          /\ ~pcbs[i].interrupted
          /\ Sleep(t, "connect", ref,
                   [pcbs[i] EXCEPT !.state = "SYN_SENT", !.addr = a, !.foreign = f,
                                   !.port = n, !.shared = b], "SYN_SENT")
    <2>1. PICK a \in Addrs :
            /\ ~pcbs[i].interrupted
            /\ Sleep(t, "connect", ref,
                     [pcbs[i] EXCEPT
                        !.state = "SYN_SENT", !.addr = a, !.foreign = f,
                        !.port = IF @ = 0 THEN DynamicPort(a, f) ELSE @,
                        !.shared = \/ @
                                   \/ /\ pcbs[i].port = 0
                                      /\ \E k \in BoundTo(a, DynamicPort(a, f)) :
                                           pcbs[k].foreign = Unset], "SYN_SENT")
      BY <1>0, <1>1 DEF Connect, TcpConnect
    <2>2. PICK n \in 0..MaxPort : n = IF pcbs[i].port = 0 THEN DynamicPort(a, f) ELSE pcbs[i].port
      BY <1>2, DynamicPortFacts DEF Pcb
    <2>3. PICK b \in BOOLEAN : b = (\/ pcbs[i].shared
                                    \/ /\ pcbs[i].port = 0
                                       /\ \E k \in BoundTo(a, DynamicPort(a, f)) :
                                            pcbs[k].foreign = Unset)
      OBVIOUS
    <2> QED
      BY <2>1, <2>2, <2>3, Zenon
  <1>4. PICK p : p = [pcbs[i] EXCEPT !.state = "SYN_SENT", !.addr = a, !.foreign = f,
                                     !.port = n, !.shared = b]
    OBVIOUS
  <1>5. /\ p \in Pcb /\ p.parent = pcbs[i].parent /\ p.backlog = pcbs[i].backlog
        /\ p.state = "SYN_SENT" /\ (p.interrupted <=> pcbs[i].interrupted)
    BY <1>2, <1>4 DEF Pcb, States
  <1>6. GentleOn(i, p) /\ Quiet(i, p)
    BY <1>2, <1>5, FreshGentle
  <1>7. Sleep(t, "connect", ref, p, "SYN_SENT") /\ "SYN_SENT" \in States
    BY <1>3, <1>4 DEF States
  <1>8. /\ pcbs' \in [Slot -> Pcb] /\ thread' \in [Threads -> Thread] /\ stuck' = "no"
        /\ TableInv' /\ ThreadInv' /\ ShrinkTcp
    BY <1>0, <1>1, <1>2, <1>3, <1>5, <1>6, <1>7, SleepStep
  <1> QED
    BY <1>2, <1>8, StepOfTcp DEF Connect

\* A thread returns from sched_sleep and holds nothing.
LEMMA DoneStep ==
  ASSUME IInv, NEW t \in Threads, NEW i \in Slot,
         pcbs' = [pcbs EXCEPT ![i] = Left(i)], thread' = [thread EXCEPT ![t] = Returned]
  PROVE  /\ pcbs' \in [Slot -> Pcb] /\ thread' \in [Threads -> Thread]
         /\ TableInv' /\ ThreadInv' /\ ShrinkTcp
  <1>1. /\ thread' \in [Threads -> Thread] /\ thread'[t] = Returned
        /\ \A u \in Threads \ {t} : thread'[u] = thread[u]
    BY Initials DEF IInv, TypeOK, TcpTypeOK
  <1>2. ThreadOk(t)' /\ ~thread'[t].got.live
    BY <1>1, Initials, OutOk
  <1> QED
    BY <1>1, <1>2, LeftFacts, GentleStep

\* tcp_accept takes a connection: it passes from the backlog to the thread.
LEMMA TakeStep ==
  ASSUME IInv, stuck = "no", KeepSocks, faults' \in 0..MaxFaults,
         NEW t \in Threads, NEW i \in Slot, NEW pcb \in Pcb,
         GentleOn(i, pcb), Quiet(i, pcb),
         pcb.backlog = pcbs[i].backlog, pcb.backlog # <<>>,
         TakeFirst(t, i, pcb)
  PROVE  IInv'
  <1>1. PICK b \in Seq(Ref) : b = pcbs[i].backlog /\ b # <<>>
    BY DEF Pcb
  <1>2. PICK r \in Ref : r = Head(b) /\ r = b[1] /\ 1 \in DOMAIN b
    BY <1>1
  <1>3. PICK q \in Seq(Ref) :
          /\ q = Tail(b)
          /\ \A k \in DOMAIN q : k + 1 \in DOMAIN b /\ k + 1 # 1 /\ q[k] = b[k + 1]
    <2>1. PICK q : q = Tail(b)
      OBVIOUS
    <2>4. q \in Seq(Ref)
      BY <1>1, <2>1, HeadTailProperties
    <2>2. /\ Len(b) \in Nat /\ Len(b) # 0 /\ DOMAIN b = 1..Len(b)
          /\ Len(q) = Len(b) - 1 /\ DOMAIN q = 1..Len(q)
      BY <1>1, <2>1, <2>4, HeadTailProperties
    <2>3. \A k \in 1..Len(q) : q[k] = b[k + 1]
      BY <1>1, <2>1, HeadTailProperties
    <2> QED
      BY <2>1, <2>2, <2>3, <2>4
  <1>4. PICK p \in Pcb :
          /\ pcbs' = [pcbs EXCEPT ![i] = p]
          /\ p.state = pcb.state /\ p.port = pcb.port /\ p.foreign = pcb.foreign
          /\ p.parent = pcb.parent /\ p.backlog = q
          /\ p.interrupted <=> pcb.interrupted
    <2>1. PICK p : p = [pcb EXCEPT !.backlog = q]
      OBVIOUS
    <2>2. pcbs' = [pcbs EXCEPT ![i] = p]
      BY <1>1, <1>3, <2>1 DEF TakeFirst
    <2>3. /\ p \in Pcb
          /\ p.state = pcb.state /\ p.port = pcb.port /\ p.foreign = pcb.foreign
          /\ p.parent = pcb.parent /\ p.backlog = q
          /\ p.interrupted <=> pcb.interrupted
      BY <2>1 DEF Pcb
    <2> QED
      BY <2>2, <2>3
  <1>5. PICK h \in Thread :
          /\ thread' = [thread EXCEPT ![t] = h]
          /\ h.got = r /\ ~h.on.live /\ h.wait = "no"
    <2>1. PICK h : h = [Returned EXCEPT !.call = "alloc", !.got = r]
      OBVIOUS
    <2>2. h \in Thread /\ h.got = r /\ h.on = Returned.on /\ h.wait = Returned.wait
      BY <2>1, Initials DEF Thread
    <2>3. thread' = [thread EXCEPT ![t] = h]
      BY <1>1, <1>2, <2>1 DEF TakeFirst
    <2> QED
      BY <2>2, <2>3, Initials
  <1>6. /\ thread' \in [Threads -> Thread] /\ thread'[t] = h
        /\ \A u \in Threads \ {t} : thread'[u] = thread[u]
        /\ pcbs'[i] = p /\ \A j \in Slot \ {i} : pcbs'[j] = pcbs[j]
    BY <1>4, <1>5 DEF IInv, TypeOK, TcpTypeOK
  <1>7. GentleOn(i, p) /\ Quiet(i, p)
    BY <1>1, <1>3, <1>4 DEF GentleOn, Quiet
  <1>8. r.live => /\ r.to \in Slot /\ pcbs[r.to].parent = To(i)
                  /\ pcbs[r.to].state \notin {"SYN_RECEIVED", "FREE"}
    <2>1. r.live => /\ r.to \in Slot /\ pcbs[r.to].parent = To(i)
                    /\ pcbs[r.to].state # "SYN_RECEIVED"
      BY <1>1, <1>2 DEF IInv, TableInv, PcbOk, BacklogOk
    <2> QED
      BY <2>1, RefFacts DEF IInv, TableInv, PcbOk, FreeOk
  <1>9. ThreadOk(t)'
    <2>1. r.live => pcbs'[r.to].state # "FREE"
      BY <1>6, <1>7, <1>8 DEF GentleOn
    <2> QED
      BY <1>5, <1>6, <1>8, <2>1 DEF ThreadOk, NamesOk, SleeperOk
  <1>10. /\ pcbs' \in [Slot -> Pcb] /\ TableInv' /\ ThreadInv'
         /\ \A j \in Slot : pcbs'[j].state = "SYN_RECEIVED" /\ pcbs'[j].parent.to # 0 =>
                              pcbs[j].state = "SYN_RECEIVED" /\ pcbs[j].parent.to # 0
    BY <1>4, <1>6, <1>7, <1>9, GentleTables
  <1>11. /\ socks' \in [Sd -> Socket] /\ found' \in [Threads -> Sd \cup {0}]
         /\ DescInv' /\ ShrinkSocks
    BY KeepSocksFacts DEF IInv
  <1>12. TypeOK'
    BY <1>6, <1>10, <1>11 DEF TypeOK, TcpTypeOK, IInv, TakeFirst
  <1>13. OwnerInv
    BY DEF IInv
  <1>14. r.live => Unowned(r)
    BY <1>1, <1>2, <1>13 DEF OwnerInv, QueuesApart
  <1>15. ASSUME NEW s, s.live, Unowned(s), s # r
         PROVE  Unowned(s)'
    <2>1. \A u \in Threads : thread'[u].got # s
      BY <1>5, <1>6, <1>15 DEF Unowned
    <2> QED
      BY <1>11, <1>15, <2>1 DEF Unowned, ShrinkSocks
  <1>16. SocksApart'
    BY <1>11, <1>13 DEF OwnerInv, SocksApart, ShrinkSocks
  <1>17. TakersApart'
    <2>1. ASSUME NEW u \in Threads, NEW v \in Threads,
                 thread'[u].got.live, thread'[u].got = thread'[v].got
          PROVE  u = v
      <3>1. CASE u = t \/ v = t
        BY <1>5, <1>6, <1>14, <2>1, <3>1 DEF Unowned
      <3>2. CASE u # t /\ v # t
        BY <1>6, <1>13, <2>1, <3>2 DEF OwnerInv, TakersApart
      <3> QED
        BY <3>1, <3>2
    <2>2. ASSUME NEW j \in Sd, NEW u \in Threads,
                 socks'[j].desc.live, socks'[j].desc = thread'[u].got
          PROVE  FALSE
      <3>1. socks[j].desc = socks'[j].desc /\ socks[j].desc.live
        BY <1>11, <2>2 DEF ShrinkSocks
      <3>2. CASE u = t
        BY <1>5, <1>6, <1>14, <2>2, <3>1, <3>2 DEF Unowned
      <3>3. CASE u # t
        BY <1>6, <1>13, <2>2, <3>1, <3>3 DEF OwnerInv, TakersApart
      <3> QED
        BY <3>2, <3>3
    <2> QED
      BY <2>1, <2>2 DEF TakersApart
  <1>18. QueuesApart'
    <2> SUFFICES ASSUME NEW j \in Slot, NEW k \in DOMAIN pcbs'[j].backlog,
                        pcbs'[j].backlog[k].live
                 PROVE  /\ Unowned(pcbs[j].backlog[k])'
                        /\ \A m \in DOMAIN pcbs'[j].backlog :
                             pcbs'[j].backlog[k] = pcbs'[j].backlog[m] => k = m
      BY DEF QueuesApart
    <2>1. PICK s : s = pcbs'[j].backlog[k]
      OBVIOUS
    <2>2. CASE j = i
      <3>1. pcbs'[j].backlog = q
        BY <1>4, <1>6, <2>2
      <3>2. k + 1 \in DOMAIN b /\ k + 1 # 1 /\ s = b[k + 1]
        BY <1>3, <2>1, <3>1
      <3>3. Unowned(s) /\ s # r
        BY <1>1, <1>2, <1>13, <2>1, <3>2 DEF OwnerInv, QueuesApart
      <3>4. Unowned(s)'
        BY <1>15, <2>1, <3>3
      <3>5. ASSUME NEW m \in DOMAIN q, q[k] = q[m]
            PROVE  k = m
        <4>1. m + 1 \in DOMAIN b /\ q[m] = b[m + 1] /\ k \in Int /\ m \in Int
          BY <1>3, <3>1
        <4>2. k + 1 = m + 1
          BY <1>1, <1>13, <2>1, <3>1, <3>2, <3>5, <4>1 DEF OwnerInv, QueuesApart
        <4> QED
          BY <4>1, <4>2
      <3> QED
        BY <2>1, <3>1, <3>4, <3>5 DEF Unowned
    <2>3. CASE j # i
      <3>1. /\ pcbs'[j].backlog = pcbs[j].backlog
            /\ s = pcbs[j].backlog[k] /\ k \in DOMAIN pcbs[j].backlog
        BY <1>6, <2>1, <2>3
      <3>2. Unowned(s) /\ \A m \in DOMAIN pcbs[j].backlog :
                            pcbs[j].backlog[k] = pcbs[j].backlog[m] => k = m
        BY <1>13, <2>1, <3>1 DEF OwnerInv, QueuesApart
      <3>3. pcbs[s.to].parent = To(j)
        BY <2>1, <3>1 DEF IInv, TableInv, PcbOk, BacklogOk
      <3>4. s # r
        BY <1>8, <2>1, <2>3, <3>3, RefFacts
      <3>5. Unowned(s)'
        BY <1>15, <2>1, <3>2, <3>4
      <3> QED
        BY <2>1, <3>1, <3>2, <3>5 DEF Unowned
    <2> QED
      BY <2>2, <2>3
  <1>19. HalfUnowned'
    <2> SUFFICES ASSUME NEW j \in Slot, pcbs'[j].state = "SYN_RECEIVED", pcbs'[j].parent.to # 0
                 PROVE  Unowned(To(j))'
      BY DEF HalfUnowned
    <2>1. Unowned(To(j)) /\ pcbs[j].state = "SYN_RECEIVED"
      BY <1>10, <1>13 DEF OwnerInv, HalfUnowned
    <2>2. PICK s : s = To(j) /\ s.live /\ s # r /\ Unowned(s)
      BY <1>8, <2>1, RefFacts
    <2>3. Unowned(s)'
      BY <1>15, <2>2
    <2> QED
      BY <2>2, <2>3 DEF Unowned
  <1> QED
    BY <1>10, <1>11, <1>12, <1>16, <1>17, <1>18, <1>19 DEF IInv, OwnerInv

LEMMA AcceptInv ==
  ASSUME IInv, faults' \in 0..MaxFaults, NEW t \in Threads, NEW j \in Sd, Accept(t, j)
  PROVE  IInv'
  <1>1. PICK ref \in Ref : ref = socks[j].desc /\ ref.to \in Slot
    BY RefFacts DEF Accept, Valid, IInv, TypeOK, Socket
  <1>2. PICK pcb \in Pcb : pcb = pcbs[ref.to]
    BY <1>1 DEF IInv, TypeOK, TcpTypeOK
  <1>3. GentleOn(ref.to, pcb) /\ Quiet(ref.to, pcb)
    BY <1>1, <1>2 DEF GentleOn, Quiet, IInv, TableInv, PcbOk, ChildOk
  <1>4. stuck = "no" /\ KeepSocks /\ pcb.state = "LISTEN"
    BY <1>1, <1>2 DEF Accept, Running, TcpAccept
  <1>5. CASE pcb.backlog # <<>> /\ TakeFirst(t, ref.to, pcb)
    BY <1>1, <1>2, <1>3, <1>4, <1>5, TakeStep
  <1>6. CASE /\ pcb.backlog = <<>> /\ ~pcb.interrupted
             /\ Sleep(t, "accept", ref, pcb, "FREE")
    <2>1. "FREE" \in States
      BY DEF States
    <2>2. /\ pcbs' \in [Slot -> Pcb] /\ thread' \in [Threads -> Thread] /\ stuck' = "no"
          /\ TableInv' /\ ThreadInv' /\ ShrinkTcp
      BY <1>1, <1>2, <1>3, <1>4, <1>6, <2>1, SleepStep
    <2> QED
      BY <1>4, <2>2, StepOfTcp
  <1> QED
    BY <1>1, <1>2, <1>5, <1>6 DEF Accept, TcpAccept

LEMMA AcceptResumeInv ==
  ASSUME IInv, faults' \in 0..MaxFaults, NEW t \in Threads, AcceptResume(t)
  PROVE  IInv'
  <1>1. PICK ref \in Ref : ref = thread[t].on
    BY DEF IInv, TypeOK, TcpTypeOK, Thread
  <1>2. /\ ThreadOk(t) /\ thread[t].call = "accept" /\ thread[t].wait = "woken"
        /\ stuck = "no" /\ KeepSocks
    BY DEF IInv, ThreadInv, AcceptResume, TcpAcceptResume, Awake
  <1>3. PICK i \in Slot : i = ref.to
    BY <1>1, <1>2 DEF ThreadOk, SleeperOk
  <1>4. PICK pcb \in Pcb : pcb = Left(i)
    BY LeftFacts
  <1>5. /\ pcb.state = pcbs[i].state /\ pcb.backlog = pcbs[i].backlog
        /\ GentleOn(i, pcb) /\ Quiet(i, pcb)
    BY <1>4, LeftFacts
  <1>6. CASE /\ pcbs' = [pcbs EXCEPT ![i] = pcb] /\ thread' = [thread EXCEPT ![t] = Returned]
             /\ UNCHANGED stuck
    BY <1>2, <1>4, <1>6, DoneStep, StepOfTcp
  <1>7. CASE Release([thread EXCEPT ![t] = Returned], i)
    <2>0. PICK thr : thr = [thread EXCEPT ![t] = Returned]
      OBVIOUS
    <2>1. /\ thr \in [Threads -> Thread]
          /\ \A u \in Threads : thr[u] = thread[u] \/ thr[u] = Returned
      BY <2>0, Initials DEF IInv, TypeOK, TcpTypeOK
    <2>2. Release(thr, i)
      BY <1>7, <2>0
    <2>3. /\ pcbs' \in [Slot -> Pcb] /\ thread' \in [Threads -> Thread]
          /\ stuck' \in {"no", "hung", "stale"}
          /\ TableInv' /\ ThreadInv' /\ ShrinkTcp
      BY <1>2, <2>1, <2>2, ReleaseStep
    <2> QED
      BY <1>2, <2>3, StepOfTcp
  <1>8. CASE pcb.backlog # <<>> /\ TakeFirst(t, i, pcb)
    BY <1>2, <1>5, <1>8, TakeStep
  <1>9. CASE /\ pcb.backlog = <<>> /\ ~pcbs[i].interrupted
             /\ Sleep(t, "accept", ref, pcb, "FREE")
    <2>1. "FREE" \in States
      BY DEF States
    <2>2. ref.live => pcb.state = "LISTEN"
      BY <1>1, <1>2, <1>3, <1>5 DEF ThreadOk, NamesOk
    <2>3. ~pcb.interrupted
      BY <1>5, <1>9 DEF Quiet
    <2>4. /\ pcbs' \in [Slot -> Pcb] /\ thread' \in [Threads -> Thread] /\ stuck' = "no"
          /\ TableInv' /\ ThreadInv' /\ ShrinkTcp
      BY <1>2, <1>3, <1>5, <1>9, <2>1, <2>2, <2>3, SleepStep, Zenon
    <2> QED
      BY <1>2, <2>4, StepOfTcp
  <1> QED
    BY <1>1, <1>3, <1>4, <1>6, <1>7, <1>8, <1>9 DEF AcceptResume, TcpAcceptResume

LEMMA ConnectResumeInv ==
  ASSUME IInv, faults' \in 0..MaxFaults, NEW t \in Threads, ConnectResume(t)
  PROVE  IInv'
  <1>1. PICK ref \in Ref : ref = thread[t].on
    BY DEF IInv, TypeOK, TcpTypeOK, Thread
  <1>2. /\ ThreadOk(t) /\ thread[t].call = "connect" /\ thread[t].wait = "woken"
        /\ stuck = "no" /\ KeepSocks
    BY DEF IInv, ThreadInv, ConnectResume, TcpConnectResume, Awake
  <1>3. PICK i \in Slot : i = ref.to
    BY <1>1, <1>2 DEF ThreadOk, SleeperOk
  <1>4. PICK pcb \in Pcb : pcb = Left(i)
    BY LeftFacts
  <1>5. /\ pcb.state = pcbs[i].state /\ pcb.backlog = pcbs[i].backlog
        /\ GentleOn(i, pcb) /\ Quiet(i, pcb)
    BY <1>4, LeftFacts
  <1>6. CASE /\ pcbs' = [pcbs EXCEPT ![i] = pcb] /\ thread' = [thread EXCEPT ![t] = Returned]
             /\ UNCHANGED stuck
    BY <1>2, <1>4, <1>6, DoneStep, StepOfTcp
  <1>7. CASE Release([thread EXCEPT ![t] = Returned], i)
    <2>0. PICK thr : thr = [thread EXCEPT ![t] = Returned]
      OBVIOUS
    <2>1. /\ thr \in [Threads -> Thread]
          /\ \A u \in Threads : thr[u] = thread[u] \/ thr[u] = Returned
      BY <2>0, Initials DEF IInv, TypeOK, TcpTypeOK
    <2>2. Release(thr, i)
      BY <1>7, <2>0
    <2>3. /\ pcbs' \in [Slot -> Pcb] /\ thread' \in [Threads -> Thread]
          /\ stuck' \in {"no", "hung", "stale"}
          /\ TableInv' /\ ThreadInv' /\ ShrinkTcp
      BY <1>2, <2>1, <2>2, ReleaseStep
    <2> QED
      BY <1>2, <2>3, StepOfTcp
  <1>8. CASE /\ ~pcbs[i].interrupted /\ pcb.state \in {thread[t].saved, "SYN_RECEIVED"}
             /\ Sleep(t, "connect", ref, pcb, pcb.state)
    <2>1. pcb.state \in {"SYN_SENT", "SYN_RECEIVED"} /\ pcb.state \in States
      BY <1>2, <1>8 DEF ThreadOk, SleeperOk, Pcb
    <2>2. ~pcb.interrupted
      BY <1>5, <1>8 DEF Quiet
    <2>3. /\ pcbs' \in [Slot -> Pcb] /\ thread' \in [Threads -> Thread] /\ stuck' = "no"
          /\ TableInv' /\ ThreadInv' /\ ShrinkTcp
      BY <1>2, <1>3, <1>5, <1>8, <2>1, <2>2, SleepStep
    <2> QED
      BY <1>2, <2>3, StepOfTcp
  <1> QED
    BY <1>1, <1>3, <1>4, <1>6, <1>7, <1>8 DEF ConnectResume, TcpConnectResume

LEMMA FollowStaleInv ==
  ASSUME IInv, faults' \in 0..MaxFaults, NEW t \in Threads, FollowStale(t)
  PROVE  IInv'
  <1>1. stuck = "no" /\ stuck' = "stale" /\ UNCHANGED <<pcbs, thread, socks, found>>
    BY DEF FollowStale
  <1>2. /\ pcbs' \in [Slot -> Pcb] /\ thread' \in [Threads -> Thread]
        /\ TableInv' /\ ThreadInv' /\ ShrinkTcp
    BY <1>1, Stops
  <1>3. DescInv' /\ ShrinkSocks
    BY <1>1 DEF DescInv, ShrinkSocks, IInv
  <1>4. TypeOK'
    BY <1>1, <1>2 DEF IInv, TypeOK, TcpTypeOK
  <1>5. OwnerInv'
    BY <1>1, <1>2, <1>3, ShrinkOwners DEF IInv, Shrink
  <1> QED
    BY <1>2, <1>3, <1>4, <1>5 DEF IInv

\* A PCB that does not listen changes its state, and those who wait for it are woken.
LEMMA StateStep ==
  ASSUME IInv, stuck = "no", NEW i \in Slot,
         NEW n \in {"CLOSED", "ESTABLISHED", "CLOSE_WAIT", "ENDING"},
         pcbs[i].state \notin {"FREE", "LISTEN"},
         pcbs' = [pcbs EXCEPT ![i].state = n], thread' = Broadcast({i}), UNCHANGED stuck
  PROVE  /\ pcbs' \in [Slot -> Pcb] /\ thread' \in [Threads -> Thread] /\ stuck' = "no"
         /\ TableInv' /\ ThreadInv' /\ ShrinkTcp
  <1>1. pcbs \in [Slot -> Pcb] /\ pcbs[i] \in Pcb
    BY DEF IInv, TypeOK, TcpTypeOK
  <1>2. PICK p : p = [pcbs[i] EXCEPT !.state = n]
    OBVIOUS
  <1>3. /\ p \in Pcb /\ p.state = n /\ p.parent = pcbs[i].parent /\ p.port = pcbs[i].port
        /\ p.foreign = pcbs[i].foreign /\ p.backlog = pcbs[i].backlog
    BY <1>1, <1>2 DEF Pcb, States
  <1>4. pcbs' = [pcbs EXCEPT ![i] = p]
    BY <1>1, <1>2
  <1>5. pcbs' \in [Slot -> Pcb] /\ pcbs'[i] = p /\ \A j \in Slot \ {i} : pcbs'[j] = pcbs[j]
    BY <1>1, <1>3, <1>4
  <1>6. Gentle
    BY <1>3, <1>5 DEF Gentle, GentleOn, IInv, TableInv, PcbOk, ChildOk
  <1>7. \A j \in Slot : pcbs'[j].backlog = pcbs[j].backlog
    BY <1>3, <1>5
  <1>8. \A j \in Slot \ {i} : pcbs'[j] = pcbs[j]
    BY <1>5
  <1>9. PICK S : S = {i}
    OBVIOUS
  <1>10. thread' = Broadcast(S) /\ \A j \in Slot \ S : pcbs'[j] = pcbs[j]
    BY <1>8, <1>9
  <1> QED
    BY <1>5, <1>6, <1>7, <1>10, GentleWake

LEMMA CloseInv ==
  ASSUME IInv, faults' \in 0..MaxFaults, NEW t \in Threads, NEW j \in Sd, Close(t, j)
  PROVE  IInv'
  <1>1. PICK i \in Slot : i = socks[j].desc.to
    BY RefFacts DEF Close, Valid, IInv, TypeOK, Socket
  <1>2. stuck = "no" /\ thread \in [Threads -> Thread] /\ pcbs \in [Slot -> Pcb]
    BY DEF Close, Running, IInv, TypeOK, TcpTypeOK
  <1>3. /\ pcbs' \in [Slot -> Pcb] /\ thread' \in [Threads -> Thread]
        /\ stuck' \in {"no", "hung", "stale"}
        /\ TableInv' /\ ThreadInv' /\ ShrinkTcp
        /\ stuck' # "no" => pcbs' = pcbs
    <2>1. CASE Release(thread, i)
      <3>1. stuck' # "no" => pcbs' = pcbs
        BY <1>2, <2>1 DEF Release
      <3> QED
        BY <1>2, <2>1, <3>1, ReleaseStep
    <2>2. CASE /\ pcbs[i].state \in {"SYN_RECEIVED", "ESTABLISHED", "CLOSE_WAIT"}
               /\ pcbs' = [pcbs EXCEPT ![i].state = "ENDING"]
               /\ thread' = Broadcast({i})
               /\ UNCHANGED stuck
      BY <1>2, <2>2, StateStep
    <2>3. CASE UNCHANGED <<pcbs, thread, stuck>>
      BY <1>2, <2>3, Stops
    <2> QED
      BY <1>1, <2>1, <2>2, <2>3 DEF Close, TcpClose
  <1>4. \A k \in Sd :
          /\ socks[k] \in Socket /\ [socks[k] EXCEPT !.desc.live = FALSE] \in Socket
          /\ ~[socks[k] EXCEPT !.desc.live = FALSE].desc.live
    BY DEF IInv, TypeOK, Socket, Ref
  <1>11. Unused \in Socket /\ ~Unused.desc.live
    BY RefFacts DEF Socket, Unused
  <1>5. \A k \in Sd :
          \/ socks'[k] \in {Unused, [socks[k] EXCEPT !.desc.live = FALSE]}
          \/ /\ socks'[k] = socks[k]
             /\ ~(/\ socks[k].desc.to # 0 /\ pcbs[socks[k].desc.to].state # "FREE"
                  /\ pcbs'[socks[k].desc.to].state = "FREE")
    BY <1>3 DEF Close
  <1>6. socks' \in [Sd -> Socket] /\ found' \in [Threads -> Sd \cup {0}]
    <2>1. socks' = [k \in Sd |-> socks'[k]]
      BY <1>3 DEF Close, IInv, TypeOK
    <2> QED
      BY <1>4, <1>5, <1>11, <2>1 DEF Close, IInv, TypeOK
  <1>7. DescInv'
    <2> SUFFICES ASSUME NEW k \in Sd, socks'[k].desc.live
                 PROVE  socks'[k].desc.to \in Slot /\ pcbs'[socks'[k].desc.to].state # "FREE"
      BY DEF DescInv
    <2>1. socks'[k] = socks[k] /\ socks[k].desc.to \in Slot
      BY <1>4, <1>5, <1>11 DEF DescInv, IInv
    <2>2. pcbs[socks[k].desc.to].state # "FREE" /\ socks[k].desc.to # 0
      BY <2>1, RefFacts DEF DescInv, IInv
    <2> QED
      BY <1>4, <1>5, <1>11, <2>1, <2>2
  <1>8. ShrinkSocks
    BY <1>4, <1>5, <1>11, Zenon DEF ShrinkSocks
  <1>9. TypeOK'
    BY <1>3, <1>6 DEF TypeOK, TcpTypeOK
  <1>10. OwnerInv'
    BY <1>2, <1>3, <1>8, ShrinkOwners DEF IInv, Shrink
  <1> QED
    BY <1>3, <1>7, <1>9, <1>10 DEF IInv
-----------------------------------------------------------------------------
(* sock_alloc and what follows it *)

\* The table stays as it is, and a thread holds nothing more than before.
LEMMA SameTable ==
  ASSUME IInv, pcbs' = pcbs, thread' \in [Threads -> Thread],
         \A t \in Threads : thread'[t] = thread[t] \/ Carried(t) \/ thread'[t] = Returned
  PROVE  pcbs' \in [Slot -> Pcb] /\ TableInv' /\ ThreadInv' /\ ShrinkTcp
  <1>1. pcbs' \in [Slot -> Pcb] /\ TableInv'
    BY TableKept DEF IInv, TypeOK, TcpTypeOK
  <1>2. ASSUME NEW t \in Threads
        PROVE  ThreadOk(t)' /\ (thread'[t].got.live => thread'[t].got = thread[t].got)
    <2>1. CASE thread'[t] = thread[t]
      BY <2>1, ThreadKept DEF IInv, ThreadInv
    <2>2. CASE Carried(t)
      <3>1. ThreadOk(t)
        BY DEF IInv, ThreadInv
      <3> QED
        BY <2>2, <3>1, CarriedOk DEF Carried
    <2>3. CASE thread'[t] = Returned
      BY <2>3, Initials, OutOk
    <2> QED
      BY <2>1, <2>2, <2>3
  <1>3. \A t \in Threads : thread'[t].got.live => thread'[t].got = thread[t].got
    BY <1>2
  <1>4. ThreadInv'
    BY <1>2 DEF ThreadInv
  <1> QED
    BY <1>1, <1>3, <1>4 DEF ShrinkTcp

LEMMA FindInv ==
  ASSUME IInv, faults' \in 0..MaxFaults, stuck = "no", NEW t \in Threads,
         NEW call \in {"open", "take"}, Find(t, call)
  PROVE  IInv'
  <1>1. /\ UNCHANGED <<pcbs, stuck, socks>>
        /\ thread \in [Threads -> Thread] /\ thread[t] \in Thread
    BY DEF Find, IInv, TypeOK, TcpTypeOK
  <1>2. UnusedSocks \subseteq Nat /\ UnusedSocks # {} /\ UnusedSocks \subseteq Sd
    BY DEF UnusedSocks, Sd, Find
  <1>3. Smallest(UnusedSocks) \in Sd
    BY <1>2, SmallestFacts
  <1>4. found' \in [Threads -> Sd \cup {0}]
    BY <1>3 DEF Find, IInv, TypeOK
  <1>5. PICK h : h = [thread[t] EXCEPT !.call = call]
    OBVIOUS
  <1>6. /\ h \in Thread /\ h.call = call /\ h.wait = thread[t].wait /\ h.on = thread[t].on
        /\ h.saved = thread[t].saved /\ h.got = thread[t].got
    BY <1>1, <1>5 DEF Thread
  <1>7. thread' = [thread EXCEPT ![t] = h]
    BY <1>1, <1>5 DEF Find
  <1>8. /\ thread' \in [Threads -> Thread] /\ thread'[t] = h
        /\ \A u \in Threads \ {t} : thread'[u] = thread[u]
    BY <1>1, <1>6, <1>7
  <1>9. Carried(t)
    <2>1. ThreadOk(t)
      BY DEF IInv, ThreadInv
    <2> QED
      BY <1>1, <1>6, <1>8, <2>1 DEF Carried, ThreadOk, NamesOk
  <1>10. pcbs' \in [Slot -> Pcb] /\ TableInv' /\ ThreadInv' /\ ShrinkTcp
    BY <1>1, <1>8, <1>9, SameTable
  <1>11. DescInv' /\ ShrinkSocks
    BY <1>1 DEF DescInv, ShrinkSocks, IInv
  <1>12. TypeOK'
    BY <1>1, <1>4, <1>8, <1>10 DEF IInv, TypeOK, TcpTypeOK
  <1>13. OwnerInv'
    BY <1>10, <1>11, ShrinkOwners DEF IInv, Shrink
  <1> QED
    BY <1>10, <1>11, <1>12, <1>13 DEF IInv

LEMMA TakeInv ==
  ASSUME IInv, faults' \in 0..MaxFaults, NEW t \in Threads, Take(t)
  PROVE  IInv'
  <1>1. /\ UNCHANGED <<pcbs, found>> /\ stuck = "no" /\ stuck' \in {"no", "race"}
        /\ thread \in [Threads -> Thread] /\ thread[t] \in Thread
    BY DEF Take, IInv, TypeOK, TcpTypeOK
  <1>2. PICK call \in {"opening", "taking"} :
          thread' = [thread EXCEPT ![t] = [thread[t] EXCEPT !.call = call]]
    <2>1. PICK call : call = IF thread[t].call = "open" THEN "opening" ELSE "taking"
      OBVIOUS
    <2>2. call \in {"opening", "taking"}
      BY <2>1
    <2>3. thread' = [thread EXCEPT ![t] = [thread[t] EXCEPT !.call = call]]
      BY <1>1, <2>1 DEF Take
    <2> QED
      BY <2>2, <2>3
  <1>3. PICK h : h = [thread[t] EXCEPT !.call = call]
    OBVIOUS
  <1>4. /\ h \in Thread /\ h.call = call /\ h.wait = thread[t].wait /\ h.on = thread[t].on
        /\ h.saved = thread[t].saved /\ h.got = thread[t].got
    BY <1>1, <1>3 DEF Thread
  <1>5. /\ thread' \in [Threads -> Thread] /\ thread'[t] = h
        /\ \A u \in Threads \ {t} : thread'[u] = thread[u]
    BY <1>1, <1>2, <1>3, <1>4
  <1>6. Carried(t)
    <2>1. ThreadOk(t)
      BY DEF IInv, ThreadInv
    <2> QED
      BY <1>1, <1>4, <1>5, <2>1 DEF Carried, ThreadOk, NamesOk
  <1>7. pcbs' \in [Slot -> Pcb] /\ TableInv' /\ ThreadInv' /\ ShrinkTcp
    BY <1>1, <1>5, <1>6, SameTable
  <1>8. socks' \in [Sd -> Socket] /\ \A j \in Sd : socks'[j].desc = socks[j].desc
    BY DEF Take, IInv, TypeOK, Socket
  <1>9. DescInv' /\ ShrinkSocks
    BY <1>1, <1>8 DEF DescInv, ShrinkSocks, IInv
  <1>10. TypeOK'
    BY <1>1, <1>5, <1>7, <1>8 DEF IInv, TypeOK, TcpTypeOK
  <1>11. OwnerInv'
    BY <1>7, <1>9, ShrinkOwners DEF IInv, Shrink
  <1> QED
    BY <1>7, <1>9, <1>10, <1>11 DEF IInv

LEMMA AllocAcceptedInv ==
  ASSUME IInv, faults' \in 0..MaxFaults, NEW t \in Threads, AllocAccepted(t)
  PROVE  IInv'
  <1>1. CASE Find(t, "take")
    BY <1>1, FindInv DEF AllocAccepted
  <1>2. CASE stuck' = "crash" /\ UNCHANGED <<pcbs, thread, socks, found>>
    <2>1. /\ pcbs' \in [Slot -> Pcb] /\ thread' \in [Threads -> Thread]
          /\ TableInv' /\ ThreadInv' /\ ShrinkTcp
      BY <1>2, Stops
    <2>2. DescInv' /\ ShrinkSocks
      BY <1>2 DEF DescInv, ShrinkSocks, IInv
    <2>3. TypeOK'
      BY <1>2, <2>1 DEF IInv, TypeOK, TcpTypeOK
    <2>4. OwnerInv'
      BY <2>1, <2>2, ShrinkOwners DEF IInv, Shrink, AllocAccepted
    <2> QED
      BY <2>1, <2>2, <2>3, <2>4 DEF IInv
  <1> QED
    BY <1>1, <1>2 DEF AllocAccepted

\* A descriptor is filled with a reference that nobody else has.
LEMMA FilledOwners ==
  ASSUME TypeOK, OwnerInv, ShrinkTcp, NEW f, NEW d,
         \A j \in Sd \ {f} : socks'[j] = socks[j],
         f \in Sd => socks'[f].desc = d,
         d.live =>
           /\ \A j \in Sd \ {f} : socks[j].desc # d
           /\ \A u \in Threads : thread'[u].got # d
           /\ \A i \in Slot : \A k \in DOMAIN pcbs[i].backlog : pcbs[i].backlog[k] # d
           /\ \A i \in Slot : pcbs'[i].state = "SYN_RECEIVED" /\ pcbs'[i].parent.to # 0
                                => d # To(i)
  PROVE  OwnerInv'
  <1>1. ASSUME NEW s, s.live, Unowned(s), s # d
        PROVE  Unowned(s)'
    BY <1>1 DEF Unowned, ShrinkTcp
  <1>2. SocksApart'
    BY DEF OwnerInv, SocksApart
  <1>3. TakersApart'
    <2>1. ASSUME NEW u \in Threads, NEW v \in Threads,
                 thread'[u].got.live, thread'[u].got = thread'[v].got
          PROVE  u = v
      BY <2>1 DEF OwnerInv, TakersApart, ShrinkTcp
    <2>2. ASSUME NEW j \in Sd, NEW u \in Threads,
                 socks'[j].desc.live, socks'[j].desc = thread'[u].got
          PROVE  FALSE
      BY <2>2 DEF OwnerInv, TakersApart, ShrinkTcp
    <2> QED
      BY <2>1, <2>2 DEF TakersApart
  <1>4. QueuesApart'
    <2> SUFFICES ASSUME NEW i \in Slot, NEW k \in DOMAIN pcbs'[i].backlog,
                        pcbs'[i].backlog[k].live
                 PROVE  /\ Unowned(pcbs[i].backlog[k])'
                        /\ \A m \in DOMAIN pcbs'[i].backlog :
                             pcbs'[i].backlog[k] = pcbs'[i].backlog[m] => k = m
      BY DEF QueuesApart
    <2>1. /\ k \in DOMAIN pcbs[i].backlog /\ pcbs'[i].backlog[k] = pcbs[i].backlog[k]
          /\ pcbs[i].backlog[k].live
      BY DEF ShrinkTcp
    <2>2. PICK s : s = pcbs[i].backlog[k]
      OBVIOUS
    <2>3. s.live /\ Unowned(s) /\ s # d
      BY <2>1, <2>2 DEF OwnerInv, QueuesApart
    <2>4. Unowned(s)'
      BY <1>1, <2>3
    <2>5. ASSUME NEW m \in DOMAIN pcbs'[i].backlog, pcbs'[i].backlog[k] = pcbs'[i].backlog[m]
          PROVE  k = m
      BY <2>1, <2>5 DEF OwnerInv, QueuesApart, ShrinkTcp
    <2> QED
      BY <2>1, <2>2, <2>4, <2>5 DEF Unowned
  <1>5. HalfUnowned'
    <2> SUFFICES ASSUME NEW i \in Slot, pcbs'[i].state = "SYN_RECEIVED", pcbs'[i].parent.to # 0
                 PROVE  Unowned(To(i))'
      BY DEF HalfUnowned
    <2>1. PICK s : s = To(i) /\ s.live /\ s # d /\ Unowned(s)
      BY RefFacts DEF ShrinkTcp, OwnerInv, HalfUnowned
    <2>2. Unowned(s)'
      BY <1>1, <2>1
    <2> QED
      BY <2>1, <2>2 DEF Unowned
  <1> QED
    BY <1>2, <1>3, <1>4, <1>5 DEF OwnerInv

\* The assignments to a descriptor, given what the step does to the table of tcp.c.
LEMMA FillStep ==
  ASSUME IInv, faults' \in 0..MaxFaults, stuck = "no", NEW t \in Threads, NEW d \in Ref,
         Fill(t, d),
         pcbs' \in [Slot -> Pcb], thread' \in [Threads -> Thread],
         TableInv', ThreadInv', ShrinkTcp,
         \A i \in Slot : pcbs[i].state # "FREE" => pcbs'[i].state # "FREE",
         d.live =>
           /\ d.to \in Slot /\ pcbs'[d.to].state # "FREE"
           /\ \A j \in Sd : socks[j].desc # d
           /\ \A u \in Threads : thread'[u].got # d
           /\ \A i \in Slot : \A k \in DOMAIN pcbs[i].backlog : pcbs[i].backlog[k] # d
           /\ \A i \in Slot : pcbs'[i].state = "SYN_RECEIVED" /\ pcbs'[i].parent.to # 0
                                => d # To(i)
  PROVE  IInv'
  <1>1. PICK f : f = found[t]
    OBVIOUS
  <1>2. PICK s : s = [socks[f] EXCEPT !.desc = d]
    OBVIOUS
  <1>8. f \in Sd => s \in Socket /\ s.desc = d
    BY <1>2 DEF IInv, TypeOK, Socket
  <1>3. /\ socks' \in [Sd -> Socket] /\ \A j \in Sd \ {f} : socks'[j] = socks[j]
        /\ f \in Sd => socks'[f] = s
    <2>1. socks \in [Sd -> Socket] /\ socks' = [socks EXCEPT ![f] = s]
      BY <1>1, <1>2 DEF Fill, IInv, TypeOK
    <2> QED
      BY <1>8, <2>1, Zenon
  <1>4. found' \in [Threads -> Sd \cup {0}] /\ stuck' = "no"
    BY DEF Fill, IInv, TypeOK
  <1>5. TypeOK'
    BY <1>3, <1>4 DEF TypeOK, TcpTypeOK
  <1>6. DescInv'
    <2> SUFFICES ASSUME NEW j \in Sd, socks'[j].desc.live
                 PROVE  socks'[j].desc.to \in Slot /\ pcbs'[socks'[j].desc.to].state # "FREE"
      BY DEF DescInv
    <2>1. CASE j = f
      BY <1>3, <1>8, <2>1
    <2>2. CASE j # f
      BY <1>3, <2>2 DEF IInv, DescInv
    <2> QED
      BY <2>1, <2>2
  <1>7. OwnerInv'
    <2>1. f \in Sd => socks'[f].desc = d
      BY <1>3, <1>8
    <2> QED
      BY <1>3, <2>1, FilledOwners DEF IInv
  <1> QED
    BY <1>5, <1>6, <1>7 DEF IInv

\* No live reference names a free PCB.
LEMMA FreeRefs ==
  ASSUME IInv, NEW i \in Slot, pcbs[i].state = "FREE"
  PROVE  /\ \A j \in Sd : socks[j].desc # To(i)
         /\ \A t \in Threads : thread[t].got # To(i) /\ thread[t].on # To(i)
         /\ \A q \in Slot : /\ pcbs[q].parent # To(i)
                            /\ \A k \in DOMAIN pcbs[q].backlog : pcbs[q].backlog[k] # To(i)
         /\ Unowned(To(i))
  <1>1. \A j \in Sd : socks[j].desc # To(i)
    BY RefFacts DEF IInv, DescInv
  <1>2. \A t \in Threads : thread[t].got # To(i) /\ thread[t].on # To(i)
    BY RefFacts DEF IInv, ThreadInv, ThreadOk, NamesOk
  <1>3. ASSUME NEW q \in Slot
        PROVE  /\ pcbs[q].parent # To(i)
               /\ \A k \in DOMAIN pcbs[q].backlog : pcbs[q].backlog[k] # To(i)
    <2>1. PcbOk(q) /\ PcbOk(i)
      BY DEF IInv, TableInv
    <2>2. pcbs[q].parent # To(i)
      BY <2>1, RefFacts DEF PcbOk, ChildOk
    <2>3. ASSUME NEW k \in DOMAIN pcbs[q].backlog, pcbs[q].backlog[k] = To(i)
          PROVE  FALSE
      <3>1. pcbs[i].parent = To(q)
        <4>1. To(i).live /\ To(i).to = i
          BY RefFacts
        <4>2. pcbs[q].backlog[k].live /\ pcbs[q].backlog[k].to = i
          BY <2>3, <4>1
        <4> QED
          BY <2>1, <2>3, <4>2, Zenon DEF PcbOk, BacklogOk
      <3> QED
        BY <2>1, <3>1, RefFacts DEF PcbOk, FreeOk
    <2> QED
      BY <2>2, <2>3
  <1> QED
    BY <1>1, <1>2, <1>3 DEF Unowned

LEMMA AllocatedFacts ==
  ASSUME IInv, NEW i \in Slot, pcbs[i].state = "FREE"
  PROVE  /\ Allocated(i) \in Pcb /\ Allocated(i).state = "CLOSED"
         /\ Allocated(i).backlog = <<>> /\ Allocated(i).backlog = pcbs[i].backlog
         /\ GentleOn(i, Allocated(i)) /\ Quiet(i, Allocated(i))
  <1>1. pcbs[i] \in Pcb /\ pcbs[i].parent.to = 0 /\ pcbs[i].backlog = <<>>
    BY DEF IInv, TypeOK, TcpTypeOK, TableInv, PcbOk, FreeOk
  <1>2. PICK p : p = Allocated(i)
    OBVIOUS
  <1>3. /\ p \in Pcb /\ p.state = "CLOSED" /\ p.parent = pcbs[i].parent
        /\ p.backlog = pcbs[i].backlog /\ ~p.interrupted
    <2>1. PICK o \in Pcb : o = pcbs[i]
      BY <1>1
    <2>2. p = [o EXCEPT !.state = "CLOSED", !.interrupted = FALSE, !.wc = 0]
      BY <1>2, <2>1 DEF Allocated
    <2>3. "CLOSED" \in States /\ FALSE \in BOOLEAN /\ 0 \in Int
      BY DEF States
    <2> QED
      BY <2>1, <2>2, <2>3 DEF Pcb
  <1>4. GentleOn(i, p) /\ Quiet(i, p)
    BY <1>1, <1>3 DEF GentleOn, Quiet
  <1> QED
    BY <1>1, <1>2, <1>3, <1>4

LEMMA FirstFree ==
  ASSUME FreeSlots # {}
  PROVE  Smallest(FreeSlots) \in Slot /\ pcbs[Smallest(FreeSlots)].state = "FREE"
  <1>1. FreeSlots \subseteq Nat
    BY DEF FreeSlots, Slot
  <1>2. Smallest(FreeSlots) \in FreeSlots
    BY <1>1, SmallestFacts
  <1> QED
    BY <1>2 DEF FreeSlots

LEMMA OpenedInv ==
  ASSUME IInv, faults' \in 0..MaxFaults, NEW t \in Threads, Opened(t)
  PROVE  IInv'
  <1>1. stuck = "no" /\ thread \in [Threads -> Thread] /\ pcbs \in [Slot -> Pcb]
    BY DEF Opened, IInv, TypeOK, TcpTypeOK
  <1>2. ASSUME NEW i \in Slot, TcpOpen(i), Fill(t, To(i)),
               thread' = [Orphaned(i) EXCEPT ![t] = Returned]
        PROVE  IInv'
    <2>1. pcbs[i].state = "FREE" /\ pcbs' = [pcbs EXCEPT ![i] = Allocated(i)]
      BY <1>2, FirstFree DEF TcpOpen
    <2>2. /\ Orphaned(i) \in [Threads -> Thread]
          /\ \A u \in Threads : Orphaned(i)[u] \in {thread[u], Lost(u)}
      BY OrphanedFacts DEF IInv
    <2>3. /\ thread' \in [Threads -> Thread]
          /\ \A u \in Threads : thread'[u] \in {thread[u], Lost(u), Returned}
      BY <1>2, <2>2, Initials
    <2>4. ASSUME NEW u \in Threads
          PROVE  \/ thread'[u] = thread[u]
                 \/ ThreadOk(u)' /\ (thread'[u].got.live => thread'[u].got = thread[u].got)
      <3>1. CASE thread'[u] = Lost(u)
        BY <3>1, LostFacts, OutOk DEF IInv
      <3>2. CASE thread'[u] = Returned
        BY <3>2, Initials, OutOk
      <3> QED
        BY <2>3, <3>1, <3>2
    <2>5. pcbs' \in [Slot -> Pcb] /\ TableInv' /\ ThreadInv' /\ ShrinkTcp
      BY <2>1, <2>3, <2>4, AllocatedFacts, GentleStep
    <2>6. /\ pcbs'[i].state = "CLOSED" /\ \A k \in Slot \ {i} : pcbs'[k] = pcbs[k]
      BY <1>1, <2>1, AllocatedFacts
    <2>7. \A k \in Slot : pcbs[k].state # "FREE" => pcbs'[k].state # "FREE"
      BY <2>6
    <2>8. PICK d \in Ref : d = To(i) /\ d.live /\ d.to = i
      BY RefFacts
    <2>9. /\ \A j \in Sd : socks[j].desc # d
          /\ \A q \in Slot : \A k \in DOMAIN pcbs[q].backlog : pcbs[q].backlog[k] # d
          /\ \A u \in Threads : thread[u].got # d
      BY <2>1, <2>8, FreeRefs
    <2>10. \A u \in Threads : thread'[u].got # d
      BY <2>5, <2>8, <2>9 DEF ShrinkTcp
    <2>11. \A q \in Slot : pcbs'[q].state = "SYN_RECEIVED" /\ pcbs'[q].parent.to # 0
                             => d # To(q)
      BY <2>6, <2>8, RefFacts
    <2>12. Fill(t, d) /\ d.to \in Slot /\ pcbs'[d.to].state # "FREE"
      BY <1>2, <2>6, <2>8
    <2> QED
      BY <1>1, <2>3, <2>5, <2>7, <2>9, <2>10, <2>11, <2>12, FillStep
  <1>3. ASSUME Fill(t, Null), thread' = [thread EXCEPT ![t] = Returned], UNCHANGED pcbs
        PROVE  IInv'
    <2>1. /\ thread' \in [Threads -> Thread]
          /\ \A u \in Threads : thread'[u] = thread[u] \/ thread'[u] = Returned
      BY <1>1, <1>3, Initials
    <2>2. pcbs' \in [Slot -> Pcb] /\ TableInv' /\ ThreadInv' /\ ShrinkTcp
      BY <1>3, <2>1, SameTable
    <2>3. PICK d \in Ref : d = Null /\ ~d.live
      BY RefFacts
    <2>4. Fill(t, d) /\ \A i \in Slot : pcbs[i].state # "FREE" => pcbs'[i].state # "FREE"
      BY <1>3, <2>3
    <2> QED
      BY <1>1, <2>1, <2>2, <2>3, <2>4, FillStep
  <1> QED
    BY <1>2, <1>3 DEF Opened

LEMMA AcceptedInv ==
  ASSUME IInv, faults' \in 0..MaxFaults, NEW t \in Threads, Accepted(t)
  PROVE  IInv'
  <1>1. /\ stuck = "no" /\ thread \in [Threads -> Thread] /\ UNCHANGED pcbs
        /\ thread' = [thread EXCEPT ![t] = Returned] /\ OwnerInv
    BY DEF Accepted, IInv, TypeOK, TcpTypeOK
  <1>2. /\ thread' \in [Threads -> Thread] /\ thread'[t] = Returned
        /\ \A u \in Threads \ {t} : thread'[u] = thread[u]
    BY <1>1, Initials
  <1>3. pcbs' \in [Slot -> Pcb] /\ TableInv' /\ ThreadInv' /\ ShrinkTcp
    BY <1>1, <1>2, SameTable
  <1>4. PICK d \in Ref : d = thread[t].got /\ Fill(t, d)
    BY <1>1 DEF Accepted, Thread
  <1>5. \A i \in Slot : pcbs[i].state # "FREE" => pcbs'[i].state # "FREE"
    BY <1>1
  <1>6. d.live => d.to \in Slot /\ pcbs'[d.to].state # "FREE"
    BY <1>1, <1>4 DEF IInv, ThreadInv, ThreadOk, NamesOk
  <1>7. d.live => \A j \in Sd : socks[j].desc # d
    BY <1>1, <1>4 DEF OwnerInv, TakersApart
  <1>8. d.live => \A u \in Threads : thread'[u].got # d
    BY <1>1, <1>2, <1>4, Initials DEF OwnerInv, TakersApart
  <1>9. d.live => \A i \in Slot : \A k \in DOMAIN pcbs[i].backlog : pcbs[i].backlog[k] # d
    BY <1>1, <1>4 DEF OwnerInv, QueuesApart, Unowned
  <1>10. \A i \in Slot : pcbs'[i].state = "SYN_RECEIVED" /\ pcbs'[i].parent.to # 0
                           => d # To(i)
    BY <1>1, <1>4 DEF OwnerInv, HalfUnowned, Unowned
  <1> QED
    BY <1>1, <1>2, <1>3, <1>4, <1>5, <1>6, <1>7, <1>8, <1>9, <1>10, FillStep
=============================================================================
