----------------------------- MODULE SockProofs -----------------------------
(* Proofs about Sock: what arrives and what expires keeps the invariant, and *)
(* the properties that follow from it.                                       *)
EXTENDS SockCalls

(* Segments, timers and interrupts *)

LEMMA ReleasesInv ==
  ASSUME IInv, faults' \in 0..MaxFaults, NEW i \in Slot, Over(i) \/ ArriveReset(i), KeepSocks
  PROVE  IInv'
  <1>1. stuck = "no" /\ Release(thread, i) /\ thread \in [Threads -> Thread]
    BY DEF Over, ArriveReset, Reached, IInv, TypeOK, TcpTypeOK
  <1>2. /\ pcbs' \in [Slot -> Pcb] /\ thread' \in [Threads -> Thread]
        /\ stuck' \in {"no", "hung", "stale"}
        /\ TableInv' /\ ThreadInv' /\ ShrinkTcp
    BY <1>1, ReleaseStep
  <1> QED
    BY <1>1, <1>2, StepOfTcp

LEMMA ChangesInv ==
  ASSUME IInv, faults' \in 0..MaxFaults, NEW i \in Slot, ArriveFin(i) \/ Deadline(i), KeepSocks
  PROVE  IInv'
  <1>1. /\ stuck = "no" /\ pcbs[i].state \notin {"FREE", "LISTEN"}
        /\ thread' = Broadcast({i}) /\ UNCHANGED stuck
    BY DEF ArriveFin, Deadline, Reached, Connected
  <1>2. \E n \in {"CLOSED", "ESTABLISHED", "CLOSE_WAIT", "ENDING"} :
          pcbs' = [pcbs EXCEPT ![i].state = n]
    BY DEF ArriveFin, Deadline
  <1>3. /\ pcbs' \in [Slot -> Pcb] /\ thread' \in [Threads -> Thread] /\ stuck' = "no"
        /\ TableInv' /\ ThreadInv' /\ ShrinkTcp
    BY <1>1, <1>2, StateStep
  <1> QED
    BY <1>1, <1>3, StepOfTcp

LEMMA ArriveSynSentInv ==
  ASSUME IInv, faults' \in 0..MaxFaults, NEW i \in Slot, ArriveSynSent(i), KeepSocks
  PROVE  IInv'
  <1>1. stuck = "no" /\ pcbs[i].state = "SYN_SENT" /\ UNCHANGED stuck
    BY DEF ArriveSynSent, Reached
  <1>2. CASE /\ pcbs' = [pcbs EXCEPT ![i].state = "ESTABLISHED"]
             /\ thread' = Broadcast({i})
    <2>1. /\ pcbs' \in [Slot -> Pcb] /\ thread' \in [Threads -> Thread] /\ stuck' = "no"
          /\ TableInv' /\ ThreadInv' /\ ShrinkTcp
      BY <1>1, <1>2, StateStep
    <2> QED
      BY <1>1, <2>1, StepOfTcp
  <1>3. CASE pcbs' = [pcbs EXCEPT ![i].state = "SYN_RECEIVED"] /\ UNCHANGED thread
    <2>1. /\ pcbs \in [Slot -> Pcb] /\ pcbs[i] \in Pcb /\ pcbs[i].parent.to = 0
          /\ thread' \in [Threads -> Thread]
      BY <1>1, <1>3 DEF IInv, TypeOK, TcpTypeOK, TableInv, PcbOk, ChildOk
    <2>2. PICK p : p = [pcbs[i] EXCEPT !.state = "SYN_RECEIVED"]
      OBVIOUS
    <2>3. /\ p \in Pcb /\ p.state = "SYN_RECEIVED" /\ p.parent = pcbs[i].parent
          /\ p.backlog = pcbs[i].backlog /\ (p.interrupted <=> pcbs[i].interrupted)
      BY <2>1, <2>2 DEF Pcb, States
    <2>4. pcbs' = [pcbs EXCEPT ![i] = p]
      BY <1>3, <2>1, <2>2
    <2>5. GentleOn(i, p) /\ Quiet(i, p)
      BY <1>1, <2>1, <2>3 DEF GentleOn, Quiet
    <2>6. pcbs' \in [Slot -> Pcb] /\ TableInv' /\ ThreadInv' /\ ShrinkTcp
      BY <1>3, <2>1, <2>3, <2>4, <2>5, GentleStep
    <2> QED
      BY <1>1, <2>1, <2>6, StepOfTcp
  <1> QED
    BY <1>2, <1>3 DEF ArriveSynSent

LEMMA InterruptInv ==
  ASSUME IInv, faults' \in 0..MaxFaults, Interrupt, KeepSocks
  PROVE  IInv'
  <1>1. PICK S : S = Slot \ FreeSlots
    OBVIOUS
  <1>2. /\ stuck = "no" /\ UNCHANGED stuck /\ thread' = Broadcast(S)
        /\ pcbs' = [i \in Slot |-> IF i \in S THEN [pcbs[i] EXCEPT !.interrupted = TRUE]
                                   ELSE pcbs[i]]
    BY <1>1 DEF Interrupt
  <1>3. ASSUME NEW i \in Slot
        PROVE  /\ pcbs'[i] \in Pcb /\ pcbs'[i].backlog = pcbs[i].backlog
               /\ GentleOn(i, pcbs'[i])
               /\ i \notin S => pcbs'[i] = pcbs[i]
    <2>1. PICK p \in Pcb : p = pcbs[i]
      BY DEF IInv, TypeOK, TcpTypeOK
    <2>2. pcbs'[i] = p \/ pcbs'[i] = [p EXCEPT !.interrupted = TRUE]
      BY <1>2, <2>1
    <2>3. /\ pcbs'[i] \in Pcb /\ pcbs'[i].state = p.state /\ pcbs'[i].parent = p.parent
          /\ pcbs'[i].port = p.port /\ pcbs'[i].foreign = p.foreign
          /\ pcbs'[i].backlog = p.backlog
      BY <2>2 DEF Pcb
    <2>4. GentleOn(i, pcbs'[i])
      BY <2>1, <2>3 DEF GentleOn, IInv, TableInv, PcbOk, ChildOk
    <2> QED
      BY <1>2, <2>1, <2>3, <2>4
  <1>4. pcbs' \in [Slot -> Pcb] /\ Gentle
    BY <1>2, <1>3 DEF Gentle
  <1>5. /\ thread' \in [Threads -> Thread] /\ stuck' = "no"
        /\ TableInv' /\ ThreadInv' /\ ShrinkTcp
    BY <1>2, <1>3, <1>4, GentleWake
  <1> QED
    BY <1>2, <1>4, <1>5, StepOfTcp
-----------------------------------------------------------------------------
(* The handshake of a child *)

LEMMA ArriveListenInv ==
  ASSUME IInv, faults' \in 0..MaxFaults, NEW i \in Slot, NEW a \in Addrs, NEW f \in Foreign,
         ArriveListen(i, a, f), KeepSocks
  PROVE  IInv'
  <1>1. PICK c \in Slot : c = Smallest(FreeSlots) /\ pcbs[c].state = "FREE"
    BY FirstFree DEF ArriveListen
  <1>2. PICK p : p = [Allocated(c) EXCEPT !.state = "SYN_RECEIVED", !.parent = To(i),
                                          !.addr = a, !.port = pcbs[i].port, !.foreign = f,
                                          !.shared = pcbs[i].shared]
    OBVIOUS
  <1>3. /\ stuck = "no" /\ stuck' = "no" /\ pcbs[i].state = "LISTEN" /\ i # c
        /\ pcbs' = [pcbs EXCEPT ![c] = p] /\ thread' = Orphaned(c)
    BY <1>1, <1>2 DEF ArriveListen
  <1>4. /\ p \in Pcb /\ p.state = "SYN_RECEIVED" /\ p.parent = To(i)
        /\ p.port = pcbs[i].port /\ p.foreign = f /\ p.backlog = <<>>
    <2>1. PICK o \in Pcb : o = Allocated(c) /\ o.backlog = <<>>
      BY <1>1, AllocatedFacts
    <2>2. PICK u \in Pcb : u = pcbs[i]
      BY DEF IInv, TypeOK, TcpTypeOK
    <2>3. PICK r \in Ref : r = To(i)
      BY RefFacts
    <2>4. p = [o EXCEPT !.state = "SYN_RECEIVED", !.parent = r, !.addr = a,
                        !.port = u.port, !.foreign = f, !.shared = u.shared]
      BY <1>2, <2>1, <2>2, <2>3
    <2>5. "SYN_RECEIVED" \in States
      BY DEF States
    <2>6. u.port \in 0..MaxPort /\ u.shared \in BOOLEAN
      BY DEF Pcb
    <2>7. /\ p.state = "SYN_RECEIVED" /\ p.parent = r /\ p.port = u.port /\ p.foreign = f
          /\ p.backlog = o.backlog
      BY <2>4 DEF Pcb
    <2>8. p \in Pcb
      BY <2>4, <2>5, <2>6, Zenon DEF Pcb
    <2> QED
      BY <2>1, <2>2, <2>3, <2>7, <2>8
  <1>5. pcbs' \in [Slot -> Pcb] /\ pcbs'[c] = p /\ \A j \in Slot \ {c} : pcbs'[j] = pcbs[j]
    BY <1>3, <1>4 DEF IInv, TypeOK, TcpTypeOK
  <1>6. f # Unset
    BY TcpTableAssumption
  <1>7. TableInv'
    <2> SUFFICES ASSUME NEW j \in Slot
                 PROVE  PcbOk(j)'
      BY DEF TableInv
    <2>1. CASE j = c
      BY <1>3, <1>4, <1>5, <1>6, <2>1, RefFacts DEF PcbOk, FreeOk, ChildOk, BacklogOk
    <2>2. CASE j # c
      <3>1. pcbs'[j] = pcbs[j] /\ PcbOk(j) /\ pcbs[j].parent \in Ref
        BY <1>5, <2>2 DEF IInv, TableInv, TypeOK, TcpTypeOK, Pcb
      <3>2. \A k \in DOMAIN pcbs[j].backlog : pcbs[j].backlog[k] \in Ref
        BY DEF IInv, TypeOK, TcpTypeOK, Pcb
      <3>3. pcbs[j].parent.live => pcbs[j].parent.to # c
        BY <1>1, <3>1 DEF PcbOk, ChildOk
      <3>4. \A k \in DOMAIN pcbs[j].backlog :
              pcbs[j].backlog[k].live => pcbs[j].backlog[k].to # c
        BY <1>1, <3>2, RefFacts, FreeRefs
      <3>5. FreeOk(j)'
        BY <3>1 DEF PcbOk, FreeOk
      <3>6. ChildOk(j)'
        BY <1>5, <3>1, <3>3 DEF PcbOk, ChildOk
      <3>7. BacklogOk(j)'
        BY <1>5, <3>1, <3>4 DEF PcbOk, BacklogOk
      <3> QED
        BY <3>5, <3>6, <3>7 DEF PcbOk
    <2> QED
      BY <2>1, <2>2
  <1>8. thread' \in [Threads -> Thread] /\ \A t \in Threads : thread'[t] \in {thread[t], Lost(t)}
    BY <1>3, OrphanedFacts DEF IInv
  <1>9. ASSUME NEW t \in Threads
        PROVE  ThreadOk(t)' /\ (thread'[t].got.live => thread'[t].got = thread[t].got)
    <2>1. CASE thread'[t] = Lost(t)
      BY <2>1, LostFacts, OutOk DEF IInv
    <2>2. CASE thread'[t] = thread[t]
      <3>1. ThreadOk(t)
        BY DEF IInv, ThreadInv
      <3>2. /\ thread[t].on.live => thread[t].on.to # c
            /\ thread[t].got.live => thread[t].got.to # c
        BY <1>1, <3>1 DEF ThreadOk, NamesOk
      <3>3. NamesOk(t)'
        BY <1>5, <2>2, <3>1, <3>2 DEF ThreadOk, NamesOk
      <3>4. SleeperOk(t)'
        BY <1>5, <2>2, <3>1, <3>2 DEF ThreadOk, SleeperOk
      <3> QED
        BY <2>2, <3>3, <3>4 DEF ThreadOk
    <2> QED
      BY <1>8, <2>1, <2>2
  <1>10. ThreadInv' /\ \A t \in Threads : thread'[t].got.live => thread'[t].got = thread[t].got
    BY <1>9 DEF ThreadInv
  <1>11. ShrinkTcp
    <2>1. \A j \in Slot : \A k \in DOMAIN pcbs'[j].backlog :
            /\ k \in DOMAIN pcbs[j].backlog /\ pcbs'[j].backlog[k] = pcbs[j].backlog[k]
      BY <1>4, <1>5
    <2>2. Unowned(To(c))
      BY <1>1, FreeRefs
    <2> QED
      BY <1>5, <1>10, <2>1, <2>2 DEF ShrinkTcp
  <1> QED
    BY <1>3, <1>5, <1>7, <1>8, <1>10, <1>11, StepOfTcp

\* A connection is appended to a backlog.
LEMMA AppendFacts ==
  ASSUME NEW b \in Seq(Ref), NEW r \in Ref
  PROVE  /\ Append(b, r) \in Seq(Ref)
         /\ \A k \in DOMAIN Append(b, r) : \/ k \in DOMAIN b /\ Append(b, r)[k] = b[k]
                                           \/ k = Len(b) + 1 /\ Append(b, r)[k] = r
  <1>1. PICK e : e = Append(b, r)
    OBVIOUS
  <1>2. /\ e \in Seq(Ref) /\ DOMAIN e = 1..(Len(b) + 1) /\ DOMAIN b = 1..Len(b)
        /\ Len(b) \in Nat
    BY <1>1
  <1>3. /\ \A k \in 1..Len(b) : e[k] = b[k]
        /\ e[Len(b) + 1] = r
    BY <1>1
  <1>4. \A k \in 1..(Len(b) + 1) : k \in 1..Len(b) \/ k = Len(b) + 1
    BY <1>2
  <1> QED
    BY <1>1, <1>2, <1>3, <1>4, Zenon

\* The handshake of the child i of q is complete: i is at the end of the backlog of q,
\* which has n PCBs then.
Queued(i, q, n) ==
  /\ pcbs' \in [Slot -> Pcb] /\ \A j \in Slot \ {i, q} : pcbs'[j] = pcbs[j]
  /\ pcbs'[i].state \in {"ESTABLISHED", "CLOSE_WAIT"} /\ pcbs'[i].parent = To(q)
  /\ pcbs'[i].port = pcbs[i].port
  /\ pcbs'[i].foreign = pcbs[i].foreign /\ pcbs'[i].backlog = <<>>
  /\ pcbs'[q].state = "LISTEN" /\ pcbs'[q].parent = pcbs[q].parent
  /\ pcbs'[q].port = pcbs[q].port /\ pcbs'[q].foreign = pcbs[q].foreign
  /\ \A k \in DOMAIN pcbs'[q].backlog :
       \/ k \in DOMAIN pcbs[q].backlog /\ pcbs'[q].backlog[k] = pcbs[q].backlog[k]
       \/ k = n /\ pcbs'[q].backlog[k] = To(i)

LEMMA QueuedFacts ==
  ASSUME IInv, NEW i \in Slot, NEW q \in Slot, NEW n \in {"ESTABLISHED", "CLOSE_WAIT"},
         pcbs[i].state = "SYN_RECEIVED", pcbs[i].parent = To(q),
         pcbs' = [pcbs EXCEPT ![i].state = n, ![q].backlog = Append(@, To(i))]
  PROVE  Queued(i, q, Len(pcbs[q].backlog) + 1)
  <1>1. /\ pcbs \in [Slot -> Pcb] /\ pcbs[i] \in Pcb /\ pcbs[q] \in Pcb /\ PcbOk(i)
    BY DEF IInv, TypeOK, TcpTypeOK, TableInv
  <1>2. pcbs[q].state = "LISTEN" /\ q # i /\ pcbs[i].backlog = <<>>
    BY <1>1, RefFacts DEF PcbOk, FreeOk, ChildOk
  <1>3. PICK b \in Seq(Ref) : b = pcbs[q].backlog
    BY <1>1 DEF Pcb
  <1>4. PICK e \in Seq(Ref) :
          /\ e = Append(b, To(i))
          /\ \A k \in DOMAIN e : \/ k \in DOMAIN b /\ e[k] = b[k]
                                 \/ k = Len(b) + 1 /\ e[k] = To(i)
    <2>1. PICK r \in Ref : r = To(i)
      BY RefFacts
    <2>2. PICK e : e = Append(b, r)
      OBVIOUS
    <2>3. /\ e \in Seq(Ref)
          /\ \A k \in DOMAIN e : \/ k \in DOMAIN b /\ e[k] = b[k]
                                 \/ k = Len(b) + 1 /\ e[k] = r
      BY <2>2, AppendFacts, Zenon
    <2> QED
      BY <2>1, <2>2, <2>3, Zenon
  <1>5. PICK p : p = [pcbs[i] EXCEPT !.state = n]
    OBVIOUS
  <1>6. PICK u : u = [pcbs[q] EXCEPT !.backlog = e]
    OBVIOUS
  <1>7. /\ p \in Pcb /\ p.state = n /\ p.parent = pcbs[i].parent /\ p.port = pcbs[i].port
        /\ p.foreign = pcbs[i].foreign /\ p.backlog = pcbs[i].backlog
    BY <1>1, <1>5 DEF Pcb, States
  <1>8. /\ u \in Pcb /\ u.state = pcbs[q].state /\ u.parent = pcbs[q].parent
        /\ u.port = pcbs[q].port /\ u.foreign = pcbs[q].foreign /\ u.backlog = e
    BY <1>1, <1>4, <1>6 DEF Pcb
  <1>9. pcbs'[i] = p /\ pcbs'[q] = u
    BY <1>1, <1>2, <1>3, <1>4, <1>5, <1>6
  <1>10. pcbs' = [j \in Slot |-> pcbs'[j]] /\ \A j \in Slot \ {i, q} : pcbs'[j] = pcbs[j]
    BY <1>1
  <1>11. pcbs' \in [Slot -> Pcb]
    <2>1. \A j \in Slot : pcbs'[j] \in Pcb
      BY <1>1, <1>7, <1>8, <1>9, <1>10, Zenon
    <2> QED
      BY <1>10, <2>1, Zenon
  <1>12. pcbs'[i].state \in {"ESTABLISHED", "CLOSE_WAIT"}
    BY <1>7, <1>9
  <1>13. \A k \in DOMAIN pcbs'[q].backlog :
           \/ k \in DOMAIN pcbs[q].backlog /\ pcbs'[q].backlog[k] = pcbs[q].backlog[k]
           \/ k = Len(pcbs[q].backlog) + 1 /\ pcbs'[q].backlog[k] = To(i)
    BY <1>3, <1>4, <1>8, <1>9, Zenon
  <1> QED
    BY <1>2, <1>7, <1>8, <1>9, <1>10, <1>11, <1>12, <1>13, Zenon DEF Queued

\* The sleepers on both are woken.
LEMMA QueuedInv ==
  ASSUME IInv, faults' \in 0..MaxFaults, KeepSocks, stuck = "no", UNCHANGED stuck,
         NEW i \in Slot, NEW q \in Slot, NEW n,
         pcbs[i].state = "SYN_RECEIVED", pcbs[i].parent = To(q),
         Queued(i, q, n), NEW S, S = {i, q}, thread' = Broadcast(S)
  PROVE  IInv'
  <1>1. PcbOk(i) /\ PcbOk(q) /\ TypeOK /\ OwnerInv
    BY DEF IInv, TableInv
  <1>2. /\ pcbs[i].parent.live /\ pcbs[i].parent.to = q /\ q # 0
        /\ pcbs[q].state = "LISTEN" /\ pcbs[q].port = pcbs[i].port /\ q # i
        /\ pcbs[i].backlog = <<>> /\ pcbs[i].foreign # Unset
    BY <1>1, RefFacts DEF PcbOk, FreeOk, ChildOk
  <1>5. /\ pcbs' \in [Slot -> Pcb] /\ \A j \in Slot \ {i, q} : pcbs'[j] = pcbs[j]
        /\ pcbs'[i].state \in {"ESTABLISHED", "CLOSE_WAIT"} /\ pcbs'[i].parent = To(q)
        /\ pcbs'[i].port = pcbs[i].port
        /\ pcbs'[i].foreign = pcbs[i].foreign /\ pcbs'[i].backlog = <<>>
        /\ pcbs'[q].state = "LISTEN" /\ pcbs'[q].parent = pcbs[q].parent
        /\ pcbs'[q].port = pcbs[q].port /\ pcbs'[q].foreign = pcbs[q].foreign
    BY DEF Queued
  <1>3. \A k \in DOMAIN pcbs'[q].backlog :
          \/ k \in DOMAIN pcbs[q].backlog /\ pcbs'[q].backlog[k] = pcbs[q].backlog[k]
          \/ k = n /\ pcbs'[q].backlog[k] = To(i)
    BY DEF Queued
  \* What waits in a backlog is neither i nor q.
  <1>6. ASSUME NEW j \in Slot, NEW k \in DOMAIN pcbs[j].backlog, pcbs[j].backlog[k].live
        PROVE  pcbs[j].backlog[k].to \in Slot \ {i, q} /\ pcbs[j].backlog[k] # To(i)
    <2>1. PICK c : c = pcbs[j].backlog[k].to
      OBVIOUS
    <2>4. BacklogOk(j)
      BY DEF IInv, TableInv, PcbOk
    <2>2. c \in Slot /\ pcbs[c].parent = To(j) /\ pcbs[c].state # "SYN_RECEIVED"
      BY <1>6, <2>1, <2>4 DEF BacklogOk
    <2>5. ChildOk(c)
      BY <2>2 DEF IInv, TableInv, PcbOk
    <2>3. pcbs[c].state # "LISTEN"
      BY <2>2, <2>5, RefFacts DEF ChildOk
    <2> QED
      BY <1>2, <2>1, <2>2, <2>3, RefFacts
  <1>7. TableInv'
    <2> SUFFICES ASSUME NEW j \in Slot
                 PROVE  PcbOk(j)'
      BY DEF TableInv
    <2>1. PcbOk(j) /\ pcbs[j].parent \in Ref
      BY DEF IInv, TableInv, TypeOK, TcpTypeOK, Pcb
    <2>2. /\ pcbs'[j].parent = pcbs[j].parent /\ pcbs'[j].port = pcbs[j].port
          /\ pcbs'[j].foreign = pcbs[j].foreign
          /\ j # i => pcbs'[j].state = pcbs[j].state
          /\ j # q => pcbs'[j].backlog = pcbs[j].backlog
      BY <1>2, <1>5
    <2>3. pcbs'[j].parent.live => /\ pcbs'[j].parent.to \in Slot
                                  /\ pcbs'[pcbs'[j].parent.to].state = "LISTEN"
                                  /\ pcbs'[pcbs'[j].parent.to].port = pcbs'[j].port
      <3> SUFFICES ASSUME pcbs[j].parent.live
                   PROVE  /\ pcbs[j].parent.to \in Slot
                          /\ pcbs'[pcbs[j].parent.to].state = "LISTEN"
                          /\ pcbs'[pcbs[j].parent.to].port = pcbs[j].port
        BY <2>2
      <3>1. PICK c : c = pcbs[j].parent.to
        OBVIOUS
      <3>2. c \in Slot /\ pcbs[c].state = "LISTEN" /\ pcbs[c].port = pcbs[j].port
        BY <2>1, <3>1 DEF PcbOk, ChildOk
      <3> QED
        BY <1>5, <3>1, <3>2
    <2>4. ASSUME NEW k \in DOMAIN pcbs'[j].backlog, pcbs'[j].backlog[k].live
          PROVE  /\ pcbs'[j].backlog[k].to \in Slot
                 /\ pcbs'[pcbs'[j].backlog[k].to].parent = To(j)
                 /\ pcbs'[pcbs'[j].backlog[k].to].state # "SYN_RECEIVED"
      <3>1. CASE k \in DOMAIN pcbs[j].backlog /\ pcbs'[j].backlog[k] = pcbs[j].backlog[k]
        <4>1. PICK c : c = pcbs[j].backlog[k].to
          OBVIOUS
        <4>2. pcbs[j].backlog[k].live /\ c \in Slot \ {i, q}
          BY <1>6, <2>4, <3>1, <4>1
        <4>3. pcbs[c].parent = To(j) /\ pcbs[c].state # "SYN_RECEIVED"
          BY <2>1, <3>1, <4>1, <4>2 DEF PcbOk, BacklogOk
        <4> QED
          BY <1>5, <3>1, <4>1, <4>2, <4>3
      <3>2. CASE j = q /\ pcbs'[j].backlog[k] = To(i)
        BY <1>5, <3>2, RefFacts
      <3>3. CASE j = q
        BY <1>3, <2>4, <3>1, <3>2, <3>3
      <3>4. CASE j # q
        BY <2>2, <2>4, <3>1, <3>4
      <3> QED
        BY <3>3, <3>4
    <2>5. /\ pcbs'[j].state = "FREE" => pcbs'[j].parent.to = 0 /\ pcbs'[j].backlog = <<>>
          /\ pcbs'[j].backlog # <<>> => pcbs'[j].state = "LISTEN"
          /\ pcbs'[j].parent.to # 0 => /\ pcbs'[j].foreign # Unset
                                       /\ pcbs'[j].state \notin {"LISTEN", "SYN_SENT"}
      BY <1>2, <1>5, <2>1, <2>2 DEF PcbOk, FreeOk, ChildOk
    <2>6. FreeOk(j)'
      BY <2>5 DEF FreeOk
    <2>7. ChildOk(j)'
      BY <2>3, <2>5 DEF ChildOk
    <2>8. BacklogOk(j)'
      BY <2>4 DEF BacklogOk
    <2> QED
      BY <2>6, <2>7, <2>8 DEF PcbOk
  <1>9. /\ thread' \in [Threads -> Thread]
        /\ \A t \in Threads :
             /\ thread'[t].on = thread[t].on /\ thread'[t].got = thread[t].got
             /\ thread'[t].call = thread[t].call /\ thread'[t].saved = thread[t].saved
             /\ \/ thread'[t].wait = thread[t].wait
                \/ thread'[t].wait = "woken" /\ thread[t].wait = "asleep"
             /\ thread'[t].wait = "asleep" => thread[t].on.to \notin {i, q}
    BY <1>1, BroadcastFacts
  <1>10. ThreadInv'
    <2> SUFFICES ASSUME NEW t \in Threads
                 PROVE  ThreadOk(t)'
      BY DEF ThreadInv
    <2>1. ThreadOk(t)
      BY DEF IInv, ThreadInv
    <2>2. \A j \in Slot : /\ pcbs[j].state = "LISTEN" => pcbs'[j].state = "LISTEN"
                          /\ pcbs[j].state # "FREE" => pcbs'[j].state # "FREE"
      BY <1>5
    <2>4. /\ thread'[t].on = thread[t].on /\ thread'[t].got = thread[t].got
          /\ thread'[t].call = thread[t].call /\ thread'[t].saved = thread[t].saved
          /\ \/ thread'[t].wait = thread[t].wait
             \/ thread'[t].wait = "woken" /\ thread[t].wait = "asleep"
      BY <1>9
    <2>5. thread'[t].wait = "asleep" /\ thread'[t].on.live =>
            thread[t].on.to \in Slot /\ pcbs'[thread[t].on.to] = pcbs[thread[t].on.to]
      BY <1>5, <1>9, <2>1, <2>4, Zenon DEF ThreadOk, NamesOk
    <2>3. Carried(t)
      BY <2>1, <2>2, <2>4, <2>5, Zenon DEF Carried, ThreadOk, NamesOk
    <2> QED
      BY <2>1, <2>3, CarriedOk
  <1>11. /\ socks' \in [Sd -> Socket] /\ found' \in [Threads -> Sd \cup {0}]
         /\ DescInv' /\ ShrinkSocks
    BY KeepSocksFacts DEF IInv
  <1>12. TypeOK'
    BY <1>1, <1>5, <1>9, <1>11 DEF TypeOK, TcpTypeOK
  <1>13. ASSUME NEW s, s.live, Unowned(s)
         PROVE  Unowned(s)'
    <2>3. \A u \in Threads : thread[u].got # s
      BY <1>13, Zenon DEF Unowned
    <2>1. \A u \in Threads : thread'[u].got # s
      BY <1>9, <2>3, Zenon
    <2>2. \A j \in Sd : socks'[j].desc # s
      BY <1>11, <1>13 DEF Unowned, ShrinkSocks
    <2> QED
      BY <2>1, <2>2 DEF Unowned
  <1>17. SocksApart'
    BY <1>1, <1>11 DEF OwnerInv, SocksApart, ShrinkSocks
  <1>14. TakersApart'
    <2>1. \A u \in Threads : thread'[u].got = thread[u].got
      BY <1>9
    <2>2. ASSUME NEW u \in Threads, NEW v \in Threads,
                 thread'[u].got.live, thread'[u].got = thread'[v].got
          PROVE  u = v
      <3>1. thread[u].got.live /\ thread[u].got = thread[v].got
        BY <2>1, <2>2
      <3> QED
        BY <1>1, <3>1 DEF OwnerInv, TakersApart
    <2>3. \A j \in Sd, u \in Threads :
            ~(socks'[j].desc.live /\ socks'[j].desc = thread'[u].got)
      BY <1>1, <1>11, <2>1, ZenonT(30) DEF OwnerInv, TakersApart, ShrinkSocks
    <2> QED
      BY <2>2, <2>3 DEF TakersApart
  <1>15. QueuesApart'
    <2> SUFFICES ASSUME NEW j \in Slot, NEW k \in DOMAIN pcbs'[j].backlog,
                        pcbs'[j].backlog[k].live
                 PROVE  /\ Unowned(pcbs[j].backlog[k])'
                        /\ \A m \in DOMAIN pcbs'[j].backlog :
                             pcbs'[j].backlog[k] = pcbs'[j].backlog[m] => k = m
      BY DEF QueuesApart
    <2>1. \A m \in DOMAIN pcbs'[j].backlog :
            \/ m \in DOMAIN pcbs[j].backlog /\ pcbs'[j].backlog[m] = pcbs[j].backlog[m]
            \/ j = q /\ m = n /\ pcbs'[j].backlog[m] = To(i)
      BY <1>2, <1>3, <1>5
    <2>2. PICK s : s = pcbs'[j].backlog[k]
      OBVIOUS
    <2>3. Unowned(s)
      <3>1. Unowned(To(i))
        BY <1>1, <1>2 DEF OwnerInv, HalfUnowned
      <3> QED
        BY <1>1, <2>1, <2>2, <3>1 DEF OwnerInv, QueuesApart
    <2>4. Unowned(s)'
      BY <1>13, <2>2, <2>3
    <2>5. ASSUME NEW m \in DOMAIN pcbs'[j].backlog, pcbs'[j].backlog[k] = pcbs'[j].backlog[m]
          PROVE  k = m
      BY <1>1, <1>6, <2>1, <2>5 DEF OwnerInv, QueuesApart
    <2> QED
      BY <2>2, <2>4, <2>5 DEF Unowned
  <1>16. HalfUnowned'
    <2> SUFFICES ASSUME NEW j \in Slot, pcbs'[j].state = "SYN_RECEIVED", pcbs'[j].parent.to # 0
                 PROVE  Unowned(To(j))'
      BY DEF HalfUnowned
    <2>1. PICK s : s = To(j) /\ s.live /\ Unowned(s)
      BY <1>1, <1>5, RefFacts DEF OwnerInv, HalfUnowned
    <2>2. Unowned(s)'
      BY <1>13, <2>1
    <2> QED
      BY <2>1, <2>2 DEF Unowned
  <1> QED
    BY <1>7, <1>10, <1>11, <1>12, <1>14, <1>15, <1>16, <1>17 DEF IInv, OwnerInv

LEMMA ArriveSynReceivedInv ==
  ASSUME IInv, faults' \in 0..MaxFaults, NEW i \in Slot, ArriveSynReceived(i), KeepSocks
  PROVE  IInv'
  <1>1. stuck = "no" /\ pcbs[i].state = "SYN_RECEIVED" /\ pcbs[i].parent \in Ref
    BY DEF ArriveSynReceived, Reached, IInv, TypeOK, TcpTypeOK, Pcb
  <1>2. ASSUME NEW n \in {"ESTABLISHED", "CLOSE_WAIT"}, pcbs' = [pcbs EXCEPT ![i].state = n],
               thread' = Broadcast({i}), UNCHANGED stuck
        PROVE  IInv'
    <2>1. /\ pcbs' \in [Slot -> Pcb] /\ thread' \in [Threads -> Thread] /\ stuck' = "no"
          /\ TableInv' /\ ThreadInv' /\ ShrinkTcp
      BY <1>1, <1>2, StateStep
    <2> QED
      BY <1>1, <2>1, StepOfTcp
  <1>3. ASSUME pcbs[i].parent.live, NEW n \in {"ESTABLISHED", "CLOSE_WAIT"},
               pcbs' = [pcbs EXCEPT ![i].state = n,
                                    ![pcbs[i].parent.to].backlog = Append(@, To(i))],
               thread' = Broadcast({i, pcbs[i].parent.to}), UNCHANGED stuck
        PROVE  IInv'
    <2>1. PICK q : q = pcbs[i].parent.to
      OBVIOUS
    <2>2. q \in Slot /\ pcbs[i].parent = To(q)
      BY <1>1, <1>3, <2>1, RefFacts, Zenon DEF IInv, TableInv, PcbOk, ChildOk
    <2>3. Queued(i, q, Len(pcbs[q].backlog) + 1)
      BY <1>1, <1>3, <2>1, <2>2, QueuedFacts
    <2>4. PICK S : S = {i, q}
      OBVIOUS
    <2>5. thread' = Broadcast(S)
      BY <1>3, <2>1, <2>4
    <2> QED
      BY <1>1, <1>3, <2>2, <2>3, <2>4, <2>5, QueuedInv
  <1>4. ASSUME stuck' = "stale", UNCHANGED <<pcbs, thread>>
        PROVE  IInv'
    <2>1. /\ pcbs' \in [Slot -> Pcb] /\ thread' \in [Threads -> Thread]
          /\ TableInv' /\ ThreadInv' /\ ShrinkTcp
      BY <1>4, Stops
    <2> QED
      BY <1>1, <1>4, <2>1, StepOfTcp
  <1> QED
    BY <1>2, <1>3, <1>4, Zenon DEF ArriveSynReceived
-----------------------------------------------------------------------------
(* The invariant *)

LEMMA InitInv == Init => IInv
  <1> SUFFICES ASSUME Init
               PROVE  IInv
    OBVIOUS
  <1>1. /\ \A i \in Slot : pcbs[i] = Zeroed
        /\ \A t \in Threads : thread[t] = Returned
        /\ \A j \in Sd : socks[j] = Unused /\ ~socks[j].desc.live
    BY RefFacts DEF Init, TcpInit, Unused
  <1>2. TypeOK
    <2>1. Unused \in Socket
      BY RefFacts DEF Socket, Unused
    <2>2. faults \in 0..MaxFaults
      BY SockAssumption DEF Init
    <2> QED
      BY <2>1, <2>2, Initials DEF Init, TcpInit, TypeOK, TcpTypeOK
  <1>3. TableInv
    BY <1>1, Initials, RefFacts DEF TableInv, PcbOk, FreeOk, ChildOk, BacklogOk
  <1>4. ThreadInv
    BY <1>1, Initials DEF ThreadInv, ThreadOk, NamesOk, SleeperOk
  <1>5. DescInv
    BY <1>1 DEF DescInv
  <1>6. SocksApart /\ TakersApart
    BY <1>1, Initials DEF SocksApart, TakersApart
  <1>7. QueuesApart /\ HalfUnowned
    BY <1>1, Initials DEF QueuesApart, HalfUnowned
  <1> QED
    BY <1>2, <1>3, <1>4, <1>5, <1>6, <1>7 DEF IInv, OwnerInv

LEMMA UserInv ==
  ASSUME IInv, NEW t \in Threads, User(t)
  PROVE  IInv'
  <1>1. faults' \in 0..MaxFaults
    BY SockAssumption DEF User, Fault, IInv, TypeOK
  <1>2. CASE Open(t)
    BY <1>1, <1>2, FindInv DEF Open, Running
  <1>3. CASE Opened(t)
    BY <1>1, <1>3, OpenedInv
  <1>4. CASE AcceptResume(t)
    BY <1>1, <1>4, AcceptResumeInv
  <1>5. CASE AllocAccepted(t)
    BY <1>1, <1>5, AllocAcceptedInv
  <1>6. CASE Accepted(t)
    BY <1>1, <1>6, AcceptedInv
  <1>7. CASE ConnectResume(t)
    BY <1>1, <1>7, ConnectResumeInv
  <1>8. ASSUME NEW j \in Sd, Bind(t, j) \/ Listen(t, j) \/ Accept(t, j) \/ Close(t, j)
        PROVE  IInv'
    BY <1>1, <1>8, BindInv, ListenInv, AcceptInv, CloseInv
  <1>9. ASSUME NEW j \in Sd, NEW f \in Foreign, Connect(t, j, f)
        PROVE  IInv'
    BY <1>1, <1>9, ConnectInv
  <1>10. CASE FollowStale(t)
    BY <1>1, <1>10, FollowStaleInv
  <1>11. ASSUME NEW j \in Sd, ConnectFails(t, j)
         PROVE  IInv'
    BY <1>1, <1>11, ConnectFailsInv
  <1>12. CASE Take(t)
    BY <1>1, <1>12, TakeInv
  <1> QED
    BY <1>2, <1>3, <1>4, <1>5, <1>6, <1>7, <1>8, <1>9, <1>10, <1>11, <1>12 DEF User

LEMMA SegmentInv ==
  ASSUME IInv, Segment
  PROVE  IInv'
  <1>1. faults' \in 0..MaxFaults
    BY SockAssumption DEF Segment, Fault, IInv, TypeOK
  <1>2. PICK i \in Slot :
          /\ \/ \E a \in Addrs, f \in Foreign : ArriveListen(i, a, f)
             \/ ArriveSynSent(i) \/ ArriveSynReceived(i) \/ ArriveFin(i) \/ Over(i)
             \/ ArriveReset(i) \/ Deadline(i)
          /\ KeepSocks
    BY DEF Segment
  <1>3. ASSUME NEW a \in Addrs, NEW f \in Foreign, ArriveListen(i, a, f)
        PROVE  IInv'
    BY <1>1, <1>2, <1>3, ArriveListenInv
  <1>4. CASE ArriveSynSent(i)
    BY <1>1, <1>2, <1>4, ArriveSynSentInv
  <1>5. CASE ArriveSynReceived(i)
    BY <1>1, <1>2, <1>5, ArriveSynReceivedInv
  <1>6. CASE ArriveFin(i) \/ Deadline(i)
    BY <1>1, <1>2, <1>6, ChangesInv
  <1>7. CASE Over(i) \/ ArriveReset(i)
    BY <1>1, <1>2, <1>7, ReleasesInv
  <1> QED
    BY <1>2, <1>3, <1>4, <1>5, <1>6, <1>7

LEMMA StepInv == IInv /\ [Next]_vars => IInv'
  <1> SUFFICES ASSUME IInv, [Next]_vars
               PROVE  IInv'
    OBVIOUS
  <1>1. ASSUME NEW t \in Threads, User(t)
        PROVE  IInv'
    BY <1>1, UserInv
  <1>2. CASE Segment
    BY <1>2, SegmentInv
  <1>3. CASE Event
    <2>1. faults' \in 0..MaxFaults
      BY <1>3, SockAssumption DEF Event, Fault, IInv, TypeOK
    <2> QED
      BY <1>3, <2>1, InterruptInv DEF Event
  <1>4. CASE UNCHANGED vars
    <2>1. UNCHANGED <<pcbs, thread, stuck, socks, found, faults>>
      BY <1>4 DEF vars
    <2>2. /\ pcbs' \in [Slot -> Pcb] /\ thread' \in [Threads -> Thread]
          /\ TableInv' /\ ThreadInv' /\ ShrinkTcp
      BY <2>1, Stops
    <2>3. DescInv' /\ ShrinkSocks
      BY <2>1 DEF DescInv, ShrinkSocks, IInv
    <2>4. TypeOK'
      BY <2>1, <2>2 DEF IInv, TypeOK, TcpTypeOK
    <2>5. OwnerInv'
      BY <2>2, <2>3, ShrinkOwners DEF IInv, Shrink
    <2> QED
      BY <2>2, <2>3, <2>4, <2>5 DEF IInv
  <1> QED
    BY <1>1, <1>2, <1>3, <1>4 DEF Next

THEOREM Invariance == Spec => []IInv
  BY InitInv, StepInv, PTL DEF Spec

LEMMA InvOwnership == IInv => Ownership
  <1> SUFFICES ASSUME IInv, NEW i \in Slot
               PROVE  /\ \A x, y \in Owners(i) : x = y
                      /\ pcbs[i].state = "FREE" => Owners(i) = {}
                      /\ \A k, m \in DOMAIN pcbs[i].backlog :
                           (/\ pcbs[i].backlog[k].live
                            /\ pcbs[i].backlog[k] = pcbs[i].backlog[m]) => k = m
    BY DEF Ownership
  <1>1. PICK r : r = To(i) /\ r.live
    BY RefFacts
  <1>2. /\ \A j, k \in Sd : (socks[j].desc = r /\ socks[k].desc = r) => j = k
        /\ \A t, u \in Threads : (thread[t].got = r /\ thread[u].got = r) => t = u
        /\ \A j \in Sd, t \in Threads :
             ~(socks[j].desc = r /\ thread[t].got = r)
    BY <1>1 DEF IInv, OwnerInv, SocksApart, TakersApart
  <1>3. ASSUME NEW q \in Slot, NEW k \in DOMAIN pcbs[q].backlog, pcbs[q].backlog[k] = r
        PROVE  Unowned(r) /\ pcbs[i].parent = To(q)
    <2>1. Unowned(r)
      BY <1>1, <1>3 DEF IInv, OwnerInv, QueuesApart
    <2>2. pcbs[r.to].parent = To(q)
      BY <1>1, <1>3 DEF IInv, TableInv, PcbOk, BacklogOk
    <2> QED
      BY <1>1, <2>1, <2>2, RefFacts
  <1>4. \A q \in Queues(i) : q \in Slot /\ Unowned(r) /\ pcbs[i].parent = To(q)
    BY <1>1, <1>3 DEF Queues
  <1>5. \A q, s \in Queues(i) : q = s
    BY <1>4, RefFacts
  <1>6. Queues(i) # {} => SockOwners(i) = {} /\ Takers(i) = {}
    BY <1>1, <1>4 DEF Unowned, SockOwners, Takers
  <1>7. /\ \A j, k \in SockOwners(i) : j = k
        /\ \A t, u \in Takers(i) : t = u
        /\ SockOwners(i) # {} => Takers(i) = {}
    BY <1>1, <1>2 DEF SockOwners, Takers
  <1>8. ASSUME NEW x \in Owners(i)
        PROVE  \/ \E j \in SockOwners(i) : x = <<j, "sock">>
               \/ \E q \in Queues(i) : x = <<q, "queue">>
               \/ \E t \in Takers(i) : x = <<t, "taker">>
    BY DEF Owners
  <1>9. ASSUME NEW x \in Owners(i), NEW y \in Owners(i)
        PROVE  x = y
    BY <1>5, <1>6, <1>7, <1>8
  <1>10. ASSUME pcbs[i].state = "FREE"
         PROVE  Owners(i) = {}
    <2>1. SockOwners(i) = {} /\ Queues(i) = {} /\ Takers(i) = {}
      BY <1>10, FreeRefs DEF SockOwners, Queues, Takers
    <2> QED
      BY <1>8, <2>1
  <1>11. \A k, m \in DOMAIN pcbs[i].backlog :
           (pcbs[i].backlog[k].live /\ pcbs[i].backlog[k] = pcbs[i].backlog[m]) => k = m
    BY DEF IInv, OwnerInv, QueuesApart
  <1> QED
    BY <1>9, <1>10, <1>11

\* However the calls of several threads on the descriptor table, arriving segments,
\* timers and interrupts interleave, tcp_accept hands every connection to one owner:
\* no two descriptors, backlogs or threads returning from accept own a PCB, and
\* nobody owns a free one.  For every size of both tables and every set of threads.
THEOREM ConnectionsOwnedOnce == Spec => []Ownership
  BY Invariance, InvOwnership, PTL

LEMMA InvBacklogSound == IInv => BacklogSound
  <1> SUFFICES ASSUME IInv, NEW i \in Slot, NEW k \in DOMAIN pcbs[i].backlog
               PROVE  /\ pcbs[i].state = "LISTEN"
                      /\ pcbs[i].backlog[k].live =>
                           /\ pcbs[pcbs[i].backlog[k].to].parent = To(i)
                           /\ pcbs[pcbs[i].backlog[k].to].port = pcbs[i].port
    BY DEF BacklogSound
  <1>1. PcbOk(i)
    BY DEF IInv, TableInv
  <1>2. pcbs[i].backlog # <<>>
    OBVIOUS
  <1>3. ASSUME pcbs[i].backlog[k].live
        PROVE  /\ pcbs[pcbs[i].backlog[k].to].parent = To(i)
               /\ pcbs[pcbs[i].backlog[k].to].port = pcbs[i].port
    <2>1. PICK c \in Slot : c = pcbs[i].backlog[k].to /\ pcbs[c].parent = To(i)
      BY <1>1, <1>3 DEF PcbOk, BacklogOk
    <2>2. ChildOk(c)
      BY DEF IInv, TableInv, PcbOk
    <2>3. pcbs[c].port = pcbs[i].port
      BY <2>1, <2>2, RefFacts DEF ChildOk
    <2> QED
      BY <2>1, <2>3
  <1>4. pcbs[i].state = "LISTEN"
    BY <1>1, <1>2 DEF PcbOk, FreeOk
  <1> QED
    BY <1>3, <1>4

\* What tcp_accept takes from a backlog belongs to the socket it was called on: a
\* backlog holds children of its own PCB, with its port, as long as they live.
THEOREM BacklogsSound == Spec => []BacklogSound
  BY Invariance, InvBacklogSound, PTL

LEMMA InvSleepers == IInv => SleepersHaveReason
  BY DEF IInv, ThreadInv, ThreadOk, NamesOk, SleeperOk, SleepersHaveReason

\* No wake-up is lost between tcp_accept or tcp_connect and the segments, timers,
\* closes and interrupts they wait for: a thread asleep on a PCB that was not released
\* has nothing to take, a handshake that is not over, and no interrupt pending.
THEOREM NoWakeupLost == Spec => []SleepersHaveReason
  BY Invariance, InvSleepers, PTL
=============================================================================
