--------------------------- MODULE SockInvariant ----------------------------
(* The invariant of Sock, for every size of the PCB and the descriptor       *)
(* table, set of threads, addresses, ports and remote endpoints, and what    *)
(* the parts of an action do to it.                                          *)
EXTENDS Sock, SequenceTheorems, WellFoundedInduction, TLAPS

\* The table.  A free PCB has no parent and no backlog; only a listening PCB has a
\* backlog.
FreeOk(i) ==
  /\ pcbs[i].state = "FREE" => pcbs[i].parent.to = 0 /\ pcbs[i].backlog = <<>>
  /\ pcbs[i].backlog # <<>> => pcbs[i].state = "LISTEN"

\* A child has a peer and never listens or connects; its parent, until it is
\* released, listens on the child's port.
ChildOk(i) ==
  /\ pcbs[i].parent.to # 0 => /\ pcbs[i].foreign # Unset
                              /\ pcbs[i].state \notin {"LISTEN", "SYN_SENT"}
  /\ pcbs[i].parent.live => /\ pcbs[i].parent.to \in Slot
                            /\ pcbs[pcbs[i].parent.to].state = "LISTEN"
                            /\ pcbs[pcbs[i].parent.to].port = pcbs[i].port

\* What waits in a backlog is a child of its PCB with its handshake behind it.
BacklogOk(i) ==
  \A k \in DOMAIN pcbs[i].backlog :
    pcbs[i].backlog[k].live => /\ pcbs[i].backlog[k].to \in Slot
                               /\ pcbs[pcbs[i].backlog[k].to].parent = To(i)
                               /\ pcbs[pcbs[i].backlog[k].to].state # "SYN_RECEIVED"

PcbOk(i) == FreeOk(i) /\ ChildOk(i) /\ BacklogOk(i)

TableInv == \A i \in Slot : PcbOk(i)

\* The threads.  What a live reference names is in use, and a PCB on which accept
\* waits is listening.
NamesOk(t) ==
  /\ thread[t].on.live => /\ thread[t].on.to \in Slot
                          /\ pcbs[thread[t].on.to].state # "FREE"
                          /\ thread[t].call = "accept" => pcbs[thread[t].on.to].state = "LISTEN"
  /\ thread[t].got.live => /\ thread[t].got.to \in Slot
                           /\ pcbs[thread[t].got.to].state # "FREE"

\* A sleeper has its reason.
SleeperOk(t) ==
  /\ thread[t].wait \in {"asleep", "woken"} =>
       /\ thread[t].on.to \in Slot
       /\ thread[t].call = "connect" => thread[t].saved \in {"SYN_SENT", "SYN_RECEIVED"}
  /\ thread[t].wait = "asleep" /\ thread[t].on.live =>
       /\ ~pcbs[thread[t].on.to].interrupted
       /\ thread[t].call = "accept" => pcbs[thread[t].on.to].backlog = <<>>
       /\ thread[t].call = "connect"
            => pcbs[thread[t].on.to].state \in {"SYN_SENT", "SYN_RECEIVED"}

ThreadOk(t) == NamesOk(t) /\ SleeperOk(t)

ThreadInv == \A t \in Threads : ThreadOk(t)

\* The descriptors.
DescInv ==
  \A j \in Sd : socks[j].desc.live => /\ socks[j].desc.to \in Slot
                                      /\ pcbs[socks[j].desc.to].state # "FREE"

\* No PCB has two owners, and a child whose handshake is not complete has none.
SocksApart ==
  \A j, k \in Sd : (socks[j].desc.live /\ socks[j].desc = socks[k].desc) => j = k

TakersApart ==
  /\ \A t, u \in Threads : (thread[t].got.live /\ thread[t].got = thread[u].got) => t = u
  /\ \A j \in Sd, t \in Threads :
       ~(socks[j].desc.live /\ socks[j].desc = thread[t].got)

Unowned(ref) ==
  /\ \A j \in Sd : socks[j].desc # ref
  /\ \A t \in Threads : thread[t].got # ref

QueuesApart ==
  \A i \in Slot : \A k \in DOMAIN pcbs[i].backlog :
    pcbs[i].backlog[k].live =>
      /\ Unowned(pcbs[i].backlog[k])
      /\ \A m \in DOMAIN pcbs[i].backlog : pcbs[i].backlog[k] = pcbs[i].backlog[m] => k = m

HalfUnowned ==
  \A i \in Slot :
    (pcbs[i].state = "SYN_RECEIVED" /\ pcbs[i].parent.to # 0) => Unowned(To(i))

OwnerInv == SocksApart /\ TakersApart /\ QueuesApart /\ HalfUnowned

IInv == TypeOK /\ TableInv /\ ThreadInv /\ DescInv /\ OwnerInv
-----------------------------------------------------------------------------
(* References *)

LEMMA RefFacts ==
  /\ Null \in Ref /\ ~Null.live /\ Null.to = 0
  /\ \A i \in Slot : To(i) \in Ref /\ To(i).live /\ To(i).to = i /\ i # 0
  /\ \A r \in Ref : r.live \in BOOLEAN /\ r.to \in Slot \cup {0}
  /\ \A r \in Ref : r.live => r = To(r.to)
  BY DEF Null, To, Ref, Slot

LEMMA StaleFacts ==
  ASSUME NEW r \in Ref, NEW D
  PROVE  /\ Stale(r, D) \in Ref
         /\ Stale(r, D).to = r.to
         /\ Stale(r, D).live => Stale(r, D) = r /\ r.live /\ r.to \notin D
         /\ r.to \notin D => Stale(r, D) = r
  BY DEF Stale, Ref

LEMMA Initials ==
  /\ Zeroed \in Pcb /\ Returned \in Thread
  /\ ~Returned.on.live /\ ~Returned.got.live /\ Returned.wait = "no"
  /\ Zeroed.state = "FREE" /\ Zeroed.parent = Null /\ Zeroed.backlog = <<>>
  <1>1. <<>> \in Seq(Ref)
    OBVIOUS
  <1>2. 0 \in 0..MaxPort
    BY TcpTableAssumption
  <1>3. ~Null.live
    BY RefFacts
  <1> QED
    BY <1>1, <1>2, <1>3, RefFacts DEF Zeroed, Pcb, States, ANY, Returned, Thread

LEMMA LostFacts ==
  ASSUME TypeOK, NEW t \in Threads
  PROVE  /\ Lost(t) \in Thread /\ ~Lost(t).on.live /\ ~Lost(t).got.live
         /\ Lost(t).wait = "lost"
  BY Initials DEF Lost, Thread, TypeOK, TcpTypeOK

LEMMA MapSeq ==
  ASSUME NEW s \in Seq(Ref), NEW D
  PROVE  /\ [k \in DOMAIN s |-> Stale(s[k], D)] \in Seq(Ref)
         /\ s = <<>> => [k \in DOMAIN s |-> Stale(s[k], D)] = <<>>
  <1> DEFINE m == [k \in DOMAIN s |-> Stale(s[k], D)]
  <1>1. DOMAIN s = 1..Len(s) /\ Len(s) \in Nat /\ \A k \in 1..Len(s) : s[k] \in Ref
    OBVIOUS
  <1>2. m \in [1..Len(s) -> Ref]
    BY <1>1, StaleFacts
  <1>3. m \in Seq(Ref)
    BY <1>1, <1>2, SeqDef
  <1>4. s = <<>> => m = <<>>
    BY <1>1, <1>2, <1>3, EmptySeq
  <1> QED
    BY <1>3, <1>4
-----------------------------------------------------------------------------
(* The first free element of a table *)

LEMMA SmallestFacts ==
  ASSUME NEW S, S \subseteq Nat, S # {}
  PROVE  Smallest(S) \in S
  <1>1. \A i, j \in Nat : j < i => <<j, i>> \in OpToRel(<, Nat)
    BY DEF OpToRel
  <1>2. PICK R : IsWellFoundedOn(R, Nat) /\ \A i, j \in Nat : j < i => <<j, i>> \in R
    BY <1>1, NatLessThanWellFounded, Zenon
  <1>3. \E i \in S : \A j \in S : i <= j
    <2>1. PICK i \in S : \A j \in S : ~(<<j, i>> \in R)
      BY <1>2, WFMin, Zenon
    <2>2. ASSUME NEW j \in S
          PROVE  i <= j
      <3>1. i \in Nat /\ j \in Nat
        OBVIOUS
      <3>2. ~(j < i)
        BY <1>2, <2>1, <3>1, Zenon
      <3> QED
        BY <3>1, <3>2
    <2> QED
      BY <2>2
  <1> QED
    BY <1>3 DEF Smallest

-----------------------------------------------------------------------------
(* What a step may do without harm *)

\* No reference is made, a listening PCB stays as it is, and a child does not start
\* anew.
GentleOn(i, p) ==
  /\ p.parent = pcbs[i].parent
  /\ pcbs[i].backlog = <<>> => p.backlog = <<>>
  /\ \A k \in DOMAIN p.backlog : \E m \in DOMAIN pcbs[i].backlog : p.backlog[k] = pcbs[i].backlog[m]
  /\ p.state = "FREE" => pcbs[i].state = "FREE"
  /\ pcbs[i].state = "LISTEN" => p.state = "LISTEN" /\ p.port = pcbs[i].port
  /\ pcbs[i].parent.to # 0 =>
       /\ p.foreign = pcbs[i].foreign /\ p.port = pcbs[i].port
       /\ p.state \notin {"LISTEN", "SYN_SENT"}
       /\ p.state = "SYN_RECEIVED" => pcbs[i].state = "SYN_RECEIVED"

Gentle == \A i \in Slot : GentleOn(i, pcbs'[i])

LEMMA GentleTable ==
  ASSUME TypeOK, TableInv, Gentle
  PROVE  TableInv'
  <1> SUFFICES ASSUME NEW i \in Slot
               PROVE  PcbOk(i)'
    BY DEF TableInv
  <1>1. PcbOk(i)
    BY DEF TableInv
  <1>2. pcbs[i].parent \in Ref /\ \A k \in DOMAIN pcbs[i].backlog : pcbs[i].backlog[k] \in Ref
    BY DEF TypeOK, TcpTypeOK, Pcb
  <1>3. \A k \in DOMAIN pcbs[i].backlog :
          pcbs[i].backlog[k].live => pcbs[pcbs[i].backlog[k].to].parent.to # 0
    BY <1>1, <1>2, RefFacts DEF PcbOk, BacklogOk
  <1>4. ASSUME NEW k \in DOMAIN pcbs'[i].backlog, pcbs'[i].backlog[k].live
        PROVE  /\ pcbs'[i].backlog[k].to \in Slot
               /\ pcbs'[pcbs'[i].backlog[k].to].parent = To(i)
               /\ pcbs'[pcbs'[i].backlog[k].to].state # "SYN_RECEIVED"
    <2>1. PICK m \in DOMAIN pcbs[i].backlog : pcbs'[i].backlog[k] = pcbs[i].backlog[m]
      BY DEF Gentle, GentleOn
    <2>2. PICK c : c = pcbs[i].backlog[m].to
      OBVIOUS
    <2>3. /\ c \in Slot /\ pcbs[c].parent = To(i) /\ pcbs[c].state # "SYN_RECEIVED"
          /\ pcbs[c].parent.to # 0
      BY <1>1, <1>3, <1>4, <2>1, <2>2 DEF PcbOk, BacklogOk
    <2>4. pcbs'[c].parent = To(i) /\ pcbs'[c].state # "SYN_RECEIVED"
      BY <2>3 DEF Gentle, GentleOn
    <2> QED
      BY <2>1, <2>2, <2>3, <2>4
  <1>5. pcbs'[i].parent.live => /\ pcbs'[i].parent.to \in Slot
                                /\ pcbs'[pcbs'[i].parent.to].state = "LISTEN"
                                /\ pcbs'[pcbs'[i].parent.to].port = pcbs'[i].port
    BY <1>1, <1>2, RefFacts DEF PcbOk, ChildOk, Gentle, GentleOn
  <1>6. GentleOn(i, pcbs'[i])
    BY DEF Gentle
  <1> QED
    BY <1>1, <1>4, <1>5, <1>6 DEF PcbOk, FreeOk, ChildOk, BacklogOk, GentleOn

\* Every live reference to a PCB was there before the step, and nobody owns the child
\* that a step makes.
ShrinkTcp ==
  /\ \A i \in Slot : \A k \in DOMAIN pcbs'[i].backlog :
       pcbs'[i].backlog[k].live => /\ k \in DOMAIN pcbs[i].backlog
                                   /\ pcbs'[i].backlog[k] = pcbs[i].backlog[k]
  /\ \A t \in Threads : thread'[t].got.live => thread'[t].got = thread[t].got
  /\ \A i \in Slot : pcbs'[i].state = "SYN_RECEIVED" /\ pcbs'[i].parent.to # 0 =>
       \/ pcbs[i].state = "SYN_RECEIVED" /\ pcbs[i].parent.to # 0
       \/ Unowned(To(i))

ShrinkSocks ==
  \A j \in Sd : socks'[j].desc.live => socks'[j].desc = socks[j].desc

Shrink == ShrinkTcp /\ ShrinkSocks

LEMMA UnownedKept ==
  ASSUME NEW r, r.live, Unowned(r), Shrink
  PROVE  /\ \A j \in Sd : socks'[j].desc # r
         /\ \A t \in Threads : thread'[t].got # r
  BY DEF Unowned, Shrink, ShrinkTcp, ShrinkSocks

LEMMA ShrinkOwners ==
  ASSUME TypeOK, OwnerInv, Shrink
  PROVE  OwnerInv'
  <1>1. SocksApart'
    BY DEF OwnerInv, SocksApart, Shrink, ShrinkTcp, ShrinkSocks
  <1>2. TakersApart'
    BY DEF OwnerInv, TakersApart, Shrink, ShrinkTcp, ShrinkSocks
  <1>3. QueuesApart'
    <2> SUFFICES ASSUME NEW i \in Slot, NEW k \in DOMAIN pcbs'[i].backlog,
                        pcbs'[i].backlog[k].live
                 PROVE  /\ Unowned(pcbs[i].backlog[k])'
                        /\ \A m \in DOMAIN pcbs'[i].backlog :
                             pcbs'[i].backlog[k] = pcbs'[i].backlog[m] => k = m
      BY DEF QueuesApart
    <2>1. /\ k \in DOMAIN pcbs[i].backlog /\ pcbs'[i].backlog[k] = pcbs[i].backlog[k]
          /\ pcbs[i].backlog[k].live
      BY DEF Shrink, ShrinkTcp
    <2>2. Unowned(pcbs[i].backlog[k])
      BY <2>1 DEF OwnerInv, QueuesApart
    <2>3. Unowned(pcbs[i].backlog[k])'
      BY <2>1, <2>2, UnownedKept DEF Unowned
    <2>4. ASSUME NEW m \in DOMAIN pcbs'[i].backlog, pcbs'[i].backlog[k] = pcbs'[i].backlog[m]
          PROVE  k = m
      BY <2>1, <2>4 DEF OwnerInv, QueuesApart, Shrink, ShrinkTcp, ShrinkSocks
    <2> QED
      BY <2>3, <2>4
  <1>4. HalfUnowned'
    <2> SUFFICES ASSUME NEW i \in Slot, pcbs'[i].state = "SYN_RECEIVED", pcbs'[i].parent.to # 0
                 PROVE  Unowned(To(i))'
      BY DEF HalfUnowned
    <2>1. Unowned(To(i))
      BY DEF Shrink, ShrinkTcp, OwnerInv, HalfUnowned
    <2> QED
      BY <2>1, UnownedKept, RefFacts DEF Unowned
  <1> QED
    BY <1>1, <1>2, <1>3, <1>4 DEF OwnerInv

\* A thread that the step does not move, or wakes.
Carried(t) ==
  /\ \/ thread'[t].call = thread[t].call
     \/ thread'[t].call \notin {"accept", "connect"}
  /\ thread'[t].saved = thread[t].saved /\ thread'[t].on.to = thread[t].on.to
  /\ \/ thread'[t].wait = thread[t].wait
     \/ thread'[t].wait = "woken" /\ thread[t].wait = "asleep"
  /\ thread'[t].on.live =>
       /\ thread'[t].on = thread[t].on
       /\ pcbs'[thread[t].on.to].state # "FREE"
       /\ pcbs[thread[t].on.to].state = "LISTEN" => pcbs'[thread[t].on.to].state = "LISTEN"
  /\ thread'[t].got.live => /\ thread'[t].got = thread[t].got
                            /\ pcbs'[thread[t].got.to].state # "FREE"
  /\ thread'[t].wait = "asleep" /\ thread'[t].on.live =>
       /\ pcbs'[thread[t].on.to].interrupted => pcbs[thread[t].on.to].interrupted
       /\ pcbs[thread[t].on.to].backlog = <<>> => pcbs'[thread[t].on.to].backlog = <<>>
       /\ pcbs[thread[t].on.to].state \in {"SYN_SENT", "SYN_RECEIVED"}
            => pcbs'[thread[t].on.to].state \in {"SYN_SENT", "SYN_RECEIVED"}

LEMMA CarriedOk ==
  ASSUME NEW t \in Threads, ThreadOk(t), Carried(t)
  PROVE  ThreadOk(t)'
  BY DEF ThreadOk, NamesOk, SleeperOk, Carried
-----------------------------------------------------------------------------
(* The parts of an action *)

LEMMA KeepSocksFacts ==
  ASSUME TypeOK, DescInv, KeepSocks
  PROVE  /\ socks' \in [Sd -> Socket] /\ found' \in [Threads -> Sd \cup {0}]
         /\ DescInv' /\ ShrinkSocks
  <1>1. \A j \in Sd :
          /\ socks[j] \in Socket /\ [socks[j] EXCEPT !.desc.live = FALSE] \in Socket
          /\ ~[socks[j] EXCEPT !.desc.live = FALSE].desc.live
    BY DEF TypeOK, Socket, Ref
  <1>2. \A j \in Sd :
          \/ socks'[j] = [socks[j] EXCEPT !.desc.live = FALSE]
          \/ /\ socks'[j] = socks[j]
             /\ ~(/\ socks[j].desc.to # 0 /\ pcbs[socks[j].desc.to].state # "FREE"
                  /\ pcbs'[socks[j].desc.to].state = "FREE")
    BY DEF KeepSocks
  <1>3. socks' \in [Sd -> Socket]
    <2>1. socks' = [j \in Sd |-> socks'[j]]
      BY DEF KeepSocks
    <2> QED
      BY <1>1, <1>2, <2>1
  <1>4. DescInv'
    <2> SUFFICES ASSUME NEW j \in Sd, socks'[j].desc.live
                 PROVE  socks'[j].desc.to \in Slot /\ pcbs'[socks'[j].desc.to].state # "FREE"
      BY DEF DescInv
    <2>1. socks'[j] = socks[j] /\ socks[j].desc.to \in Slot
      BY <1>1, <1>2 DEF DescInv
    <2>2. pcbs[socks[j].desc.to].state # "FREE" /\ socks[j].desc.to # 0
      BY <2>1, RefFacts DEF DescInv
    <2> QED
      BY <1>1, <1>2, <2>1, <2>2
  <1>5. ShrinkSocks
    BY <1>1, <1>2 DEF ShrinkSocks
  <1> QED
    BY <1>3, <1>4, <1>5 DEF KeepSocks, TypeOK

\* A step of tcp.c that makes no reference keeps the invariant.
LEMMA StepOfTcp ==
  ASSUME IInv, stuck = "no", KeepSocks, faults' \in 0..MaxFaults,
         pcbs' \in [Slot -> Pcb], thread' \in [Threads -> Thread],
         stuck' \in {"no", "hung", "stale"}, TableInv', ThreadInv', ShrinkTcp
  PROVE  IInv'
  <1>1. /\ socks' \in [Sd -> Socket] /\ found' \in [Threads -> Sd \cup {0}]
        /\ DescInv' /\ ShrinkSocks
    BY KeepSocksFacts DEF IInv
  <1>2. TypeOK'
    BY <1>1 DEF TypeOK, TcpTypeOK
  <1>3. OwnerInv'
    BY <1>1, ShrinkOwners DEF IInv, Shrink
  <1> QED
    BY <1>1, <1>2, <1>3 DEF IInv

LEMMA BroadcastFacts ==
  ASSUME TypeOK, NEW S
  PROVE  /\ Broadcast(S) \in [Threads -> Thread]
         /\ \A t \in Threads :
              /\ Broadcast(S)[t].on = thread[t].on /\ Broadcast(S)[t].got = thread[t].got
              /\ Broadcast(S)[t].call = thread[t].call
              /\ Broadcast(S)[t].saved = thread[t].saved
              /\ \/ Broadcast(S)[t].wait = thread[t].wait
                 \/ Broadcast(S)[t].wait = "woken" /\ thread[t].wait = "asleep"
              /\ Broadcast(S)[t].wait = "asleep" => thread[t].on.to \notin S
  BY DEF Broadcast, TypeOK, TcpTypeOK, Thread

LEMMA OrphanedFacts ==
  ASSUME TypeOK, NEW i
  PROVE  /\ Orphaned(i) \in [Threads -> Thread]
         /\ \A t \in Threads : Orphaned(i)[t] \in {thread[t], Lost(t)}
  BY LostFacts DEF Orphaned, TypeOK, TcpTypeOK

\* A gentle step on the PCBs in S that wakes those who wait for them.
LEMMA GentleWake ==
  ASSUME IInv, stuck = "no", stuck' = stuck, NEW S,
         pcbs' \in [Slot -> Pcb], Gentle,
         \A i \in Slot \ S : pcbs'[i] = pcbs[i],
         \A i \in Slot : pcbs'[i].backlog = pcbs[i].backlog,
         thread' = Broadcast(S)
  PROVE  /\ thread' \in [Threads -> Thread] /\ stuck' = "no"
         /\ TableInv' /\ ThreadInv' /\ ShrinkTcp
  <1>1. TableInv'
    BY GentleTable DEF IInv
  <1>2. thread' \in [Threads -> Thread]
    BY BroadcastFacts DEF IInv
  <1>3. ThreadInv'
    <2> SUFFICES ASSUME NEW t \in Threads
                 PROVE  ThreadOk(t)'
      BY DEF ThreadInv
    <2>1. ThreadOk(t)
      BY DEF IInv, ThreadInv
    <2>2. Carried(t)
      <3>1. \A i \in Slot : /\ pcbs[i].state = "LISTEN" => pcbs'[i].state = "LISTEN"
                            /\ pcbs[i].state # "FREE" => pcbs'[i].state # "FREE"
        BY DEF Gentle, GentleOn
      <3>2. /\ thread'[t].on = thread[t].on /\ thread'[t].got = thread[t].got
            /\ thread'[t].call = thread[t].call /\ thread'[t].saved = thread[t].saved
            /\ \/ thread'[t].wait = thread[t].wait
               \/ thread'[t].wait = "woken" /\ thread[t].wait = "asleep"
            /\ thread'[t].wait = "asleep" => thread[t].on.to \notin S
        BY BroadcastFacts DEF IInv
      <3> QED
        BY <2>1, <3>1, <3>2 DEF Carried, ThreadOk, NamesOk
    <2> QED
      BY <2>1, <2>2, CarriedOk
  <1>4. ShrinkTcp
    BY BroadcastFacts DEF ShrinkTcp, Gentle, GentleOn, IInv
  <1> QED
    BY <1>1, <1>2, <1>3, <1>4

\* What is left of a PCB after the PCBs in D were released.
LEMMA ReleasedFacts ==
  ASSUME TypeOK, NEW D, NEW i \in Slot
  PROVE  /\ Released(pcbs, D)[i] \in Pcb
         /\ i \in D => Released(pcbs, D)[i] = Zeroed
         /\ i \notin D =>
              /\ Released(pcbs, D)[i].state = pcbs[i].state
              /\ Released(pcbs, D)[i].port = pcbs[i].port
              /\ Released(pcbs, D)[i].foreign = pcbs[i].foreign
              /\ Released(pcbs, D)[i].interrupted <=> pcbs[i].interrupted
              /\ Released(pcbs, D)[i].parent = Stale(pcbs[i].parent, D)
              /\ DOMAIN Released(pcbs, D)[i].backlog = DOMAIN pcbs[i].backlog
              /\ \A k \in DOMAIN pcbs[i].backlog :
                   Released(pcbs, D)[i].backlog[k] = Stale(pcbs[i].backlog[k], D)
              /\ pcbs[i].backlog = <<>> => Released(pcbs, D)[i].backlog = <<>>
  <1>1. pcbs[i] \in Pcb /\ pcbs[i].parent \in Ref /\ pcbs[i].backlog \in Seq(Ref)
    BY DEF TypeOK, TcpTypeOK, Pcb
  <1> DEFINE m == [k \in DOMAIN pcbs[i].backlog |-> Stale(pcbs[i].backlog[k], D)]
             r == Stale(pcbs[i].parent, D)
  <1>2. m \in Seq(Ref) /\ (pcbs[i].backlog = <<>> => m = <<>>) /\ r \in Ref
    BY <1>1, MapSeq, StaleFacts
  <1>3. /\ DOMAIN m = DOMAIN pcbs[i].backlog
        /\ \A k \in DOMAIN pcbs[i].backlog : m[k] = Stale(pcbs[i].backlog[k], D)
    OBVIOUS
  <1>4. Released(pcbs, D)[i] = IF i \in D THEN Zeroed
                               ELSE [pcbs[i] EXCEPT !.parent = r, !.backlog = m]
    BY DEF Released
  <1> HIDE DEF m, r
  <1>5. [pcbs[i] EXCEPT !.parent = r, !.backlog = m] \in Pcb
    BY <1>1, <1>2, Zenon DEF Pcb
  <1>6. i \notin D =>
          /\ Released(pcbs, D)[i].state = pcbs[i].state
          /\ Released(pcbs, D)[i].port = pcbs[i].port
          /\ Released(pcbs, D)[i].foreign = pcbs[i].foreign
          /\ Released(pcbs, D)[i].interrupted <=> pcbs[i].interrupted
          /\ Released(pcbs, D)[i].parent = r
          /\ Released(pcbs, D)[i].backlog = m
    BY <1>1, <1>4 DEF Pcb
  <1>7. r = Stale(pcbs[i].parent, D)
    BY DEF r
  <1> QED
    BY <1>2, <1>3, <1>4, <1>5, <1>6, <1>7, Initials

LEMMA ReleasedTable ==
  ASSUME TypeOK, TableInv, NEW D, pcbs' = Released(pcbs, D)
  PROVE  TableInv'
  <1> SUFFICES ASSUME NEW i \in Slot
               PROVE  PcbOk(i)'
    BY DEF TableInv
  <1>1. CASE i \in D
    <2>1. pcbs'[i] = Zeroed
      BY <1>1, ReleasedFacts
    <2> QED
      BY <2>1, Initials, RefFacts DEF PcbOk, FreeOk, ChildOk, BacklogOk
  <1>2. CASE i \notin D
    <2>1. /\ PcbOk(i) /\ pcbs[i].parent \in Ref
          /\ \A k \in DOMAIN pcbs[i].backlog : pcbs[i].backlog[k] \in Ref
      BY DEF TableInv, TypeOK, TcpTypeOK, Pcb
    <2>2. /\ pcbs'[i].state = pcbs[i].state /\ pcbs'[i].port = pcbs[i].port
          /\ pcbs'[i].foreign = pcbs[i].foreign
          /\ pcbs'[i].parent = Stale(pcbs[i].parent, D)
          /\ DOMAIN pcbs'[i].backlog = DOMAIN pcbs[i].backlog
          /\ \A k \in DOMAIN pcbs[i].backlog :
               pcbs'[i].backlog[k] = Stale(pcbs[i].backlog[k], D)
          /\ pcbs[i].backlog = <<>> => pcbs'[i].backlog = <<>>
      BY <1>2, ReleasedFacts
    <2>3. /\ pcbs'[i].parent.to = pcbs[i].parent.to
          /\ pcbs'[i].parent.live =>
               pcbs'[i].parent = pcbs[i].parent /\ pcbs[i].parent.to \notin D
      BY <2>1, <2>2, StaleFacts
    <2>4. pcbs'[i].parent.live => /\ pcbs'[i].parent.to \in Slot
                                  /\ pcbs'[pcbs'[i].parent.to].state = "LISTEN"
                                  /\ pcbs'[pcbs'[i].parent.to].port = pcbs'[i].port
      <3> SUFFICES ASSUME pcbs'[i].parent.live
                   PROVE  /\ pcbs[i].parent.to \in Slot
                          /\ pcbs'[pcbs[i].parent.to].state = "LISTEN"
                          /\ pcbs'[pcbs[i].parent.to].port = pcbs[i].port
        BY <2>2, <2>3
      <3>1. /\ pcbs[i].parent.to \in Slot \ D
            /\ pcbs[pcbs[i].parent.to].state = "LISTEN"
            /\ pcbs[pcbs[i].parent.to].port = pcbs[i].port
        BY <2>1, <2>3 DEF PcbOk, ChildOk
      <3> QED
        BY <3>1, ReleasedFacts
    <2>5. ASSUME NEW k \in DOMAIN pcbs'[i].backlog, pcbs'[i].backlog[k].live
          PROVE  /\ pcbs'[i].backlog[k].to \in Slot
                 /\ pcbs'[pcbs'[i].backlog[k].to].parent = To(i)
                 /\ pcbs'[pcbs'[i].backlog[k].to].state # "SYN_RECEIVED"
      <3>1. PICK c : c = pcbs[i].backlog[k].to
        OBVIOUS
      <3>2. pcbs'[i].backlog[k] = pcbs[i].backlog[k] /\ c \notin D /\ pcbs[i].backlog[k].live
        BY <2>1, <2>2, <2>5, <3>1, StaleFacts
      <3>3. c \in Slot /\ pcbs[c].parent = To(i) /\ pcbs[c].state # "SYN_RECEIVED"
        BY <2>1, <2>2, <2>5, <3>1, <3>2 DEF PcbOk, BacklogOk
      <3>4. pcbs'[c].state = pcbs[c].state /\ pcbs'[c].parent = Stale(To(i), D)
        BY <3>2, <3>3, ReleasedFacts
      <3>5. Stale(To(i), D) = To(i)
        BY <1>2, RefFacts, StaleFacts
      <3> QED
        BY <3>1, <3>2, <3>3, <3>4, <3>5
    <2> QED
      BY <2>1, <2>2, <2>3, <2>4, <2>5 DEF PcbOk, FreeOk, ChildOk, BacklogOk
  <1> QED
    BY <1>1, <1>2

\* A thread that waits for nothing and holds nothing.
LEMMA OutOk ==
  ASSUME NEW t \in Threads, ~thread'[t].on.live, ~thread'[t].got.live,
         thread'[t].wait \notin {"asleep", "woken"}
  PROVE  ThreadOk(t)'
  BY DEF ThreadOk, NamesOk, SleeperOk

LEMMA ReleasedThread ==
  ASSUME IInv, NEW D, pcbs' = Released(pcbs, D),
         NEW thr \in [Threads -> Thread], NEW t \in Threads,
         thr[t] = thread[t] \/ thr[t] = Returned,
         \/ thread'[t] = Lost(t)
         \/ /\ thread'[t] = [thr[t] EXCEPT !.on = Stale(@, D), !.got = Stale(@, D)]
            /\ ~(thr[t].wait = "asleep" /\ thr[t].on.to \in D)
  PROVE  /\ thread'[t] \in Thread /\ ThreadOk(t)'
         /\ thread'[t].got.live => thread'[t].got = thread[t].got
  <1>1. CASE thread'[t] = Lost(t)
    BY <1>1, LostFacts, OutOk DEF IInv
  <1>2. CASE /\ thread'[t] = [thr[t] EXCEPT !.on = Stale(@, D), !.got = Stale(@, D)]
             /\ ~(thr[t].wait = "asleep" /\ thr[t].on.to \in D)
    <2>1. thr[t] \in Thread /\ thr[t].on \in Ref /\ thr[t].got \in Ref
      BY DEF Thread
    <2>2. PICK on \in Ref, got \in Ref : on = Stale(thr[t].on, D) /\ got = Stale(thr[t].got, D)
      BY <2>1, StaleFacts
    <2>0. thread'[t] = [thr[t] EXCEPT !.on = on, !.got = got]
      BY <1>2, <2>1, <2>2 DEF Thread
    <2>3. /\ thread'[t] \in Thread
          /\ thread'[t].on = Stale(thr[t].on, D) /\ thread'[t].got = Stale(thr[t].got, D)
          /\ thread'[t].call = thr[t].call /\ thread'[t].wait = thr[t].wait
          /\ thread'[t].saved = thr[t].saved
      <3>1. PICK h \in Thread : h = thr[t]
        BY <2>1
      <3>2. thread'[t] = [h EXCEPT !.on = on, !.got = got]
        BY <2>0, <3>1
      <3> QED
        BY <2>2, <3>1, <3>2 DEF Thread
    <2>4. /\ thread'[t].on.to = thr[t].on.to
          /\ thread'[t].on.live =>
               thread'[t].on = thr[t].on /\ thr[t].on.live /\ thr[t].on.to \notin D
          /\ thread'[t].got.live =>
               thread'[t].got = thr[t].got /\ thr[t].got.live /\ thr[t].got.to \notin D
      BY <2>1, <2>3, StaleFacts
    <2>5. CASE thr[t] = Returned
      BY <2>3, <2>4, <2>5, Initials, OutOk
    <2>6. CASE thr[t] = thread[t]
      <3>1. ThreadOk(t)
        BY DEF IInv, ThreadInv
      <3>2. /\ thread'[t].on.live => thread[t].on.to \in Slot \ D
            /\ thread'[t].got.live => thread[t].got.to \in Slot \ D
        BY <2>4, <2>6, <3>1 DEF ThreadOk, NamesOk
      <3>3. \A i \in Slot \ D :
              /\ pcbs'[i].state = pcbs[i].state
              /\ pcbs'[i].interrupted <=> pcbs[i].interrupted
              /\ pcbs[i].backlog = <<>> => pcbs'[i].backlog = <<>>
        BY ReleasedFacts DEF IInv
      <3>4. Carried(t)
        BY <2>3, <2>4, <2>6, <3>1, <3>2, <3>3 DEF Carried, ThreadOk, NamesOk
      <3> QED
        BY <2>3, <2>4, <2>6, <3>1, <3>4, CarriedOk
    <2> QED
      BY <2>5, <2>6
  <1> QED
    BY <1>1, <1>2

LEMMA TableKept ==
  ASSUME TableInv, pcbs' = pcbs
  PROVE  TableInv'
  <1> SUFFICES ASSUME NEW i \in Slot
               PROVE  PcbOk(i)'
    BY DEF TableInv
  <1>1. PcbOk(i)
    BY DEF TableInv
  <1>2. FreeOk(i)'
    BY <1>1 DEF PcbOk, FreeOk
  <1>3. ChildOk(i)'
    BY <1>1 DEF PcbOk, ChildOk
  <1>4. BacklogOk(i)'
    BY <1>1 DEF PcbOk, BacklogOk
  <1> QED
    BY <1>2, <1>3, <1>4 DEF PcbOk

LEMMA ThreadKept ==
  ASSUME NEW t \in Threads, ThreadOk(t), thread'[t] = thread[t], pcbs' = pcbs
  PROVE  ThreadOk(t)'
  <1>1. NamesOk(t)'
    BY DEF ThreadOk, NamesOk
  <1>2. SleeperOk(t)'
    BY DEF ThreadOk, SleeperOk
  <1> QED
    BY <1>1, <1>2 DEF ThreadOk

\* Nothing but stuck changes.
LEMMA Stops ==
  ASSUME IInv, UNCHANGED <<pcbs, thread>>
  PROVE  /\ pcbs' \in [Slot -> Pcb] /\ thread' \in [Threads -> Thread]
         /\ TableInv' /\ ThreadInv' /\ ShrinkTcp
  <1>1. pcbs' = pcbs /\ thread' = thread
    OBVIOUS
  <1>2. pcbs' \in [Slot -> Pcb] /\ thread' \in [Threads -> Thread]
    BY <1>1 DEF IInv, TypeOK, TcpTypeOK
  <1>3. TableInv'
    BY <1>1, TableKept DEF IInv
  <1>4. ThreadInv'
    BY <1>1, ThreadKept DEF IInv, ThreadInv
  <1>5. ShrinkTcp
    BY <1>1 DEF ShrinkTcp
  <1> QED
    BY <1>2, <1>3, <1>4, <1>5

LEMMA ReleaseStep ==
  ASSUME IInv, stuck = "no", NEW i \in Slot, NEW thr \in [Threads -> Thread],
         \A t \in Threads : thr[t] = thread[t] \/ thr[t] = Returned,
         Release(thr, i)
  PROVE  /\ pcbs' \in [Slot -> Pcb] /\ thread' \in [Threads -> Thread]
         /\ stuck' \in {"no", "hung", "stale"}
         /\ TableInv' /\ ThreadInv' /\ ShrinkTcp
  <1>1. CASE stuck' \in {"hung", "stale"} /\ UNCHANGED <<pcbs, thread>>
    BY <1>1, Stops
  <1>2. CASE /\ pcbs' = Released(pcbs, Doomed(i))
             /\ thread' = [t \in Threads |->
                            IF t \in {u \in Threads : thr[u].wait = "asleep"
                                                      /\ thr[u].on.to \in Doomed(i)}
                            THEN Lost(t)
                            ELSE [thr[t] EXCEPT !.on = Stale(@, Doomed(i)),
                                                !.got = Stale(@, Doomed(i))]]
             /\ UNCHANGED stuck
    <2>1. PICK D : D = Doomed(i)
      OBVIOUS
    <2>2. pcbs' = Released(pcbs, D)
      BY <1>2, <2>1, Zenon
    <2>3. \A t \in Threads :
            \/ thread'[t] = Lost(t)
            \/ /\ thread'[t] = [thr[t] EXCEPT !.on = Stale(@, D), !.got = Stale(@, D)]
               /\ ~(thr[t].wait = "asleep" /\ thr[t].on.to \in D)
      BY <1>2, <2>1, Zenon
    <2>4. \A t \in Threads :
            /\ thread'[t] \in Thread /\ ThreadOk(t)'
            /\ thread'[t].got.live => thread'[t].got = thread[t].got
      BY <2>2, <2>3, ReleasedThread, ZenonT(30)
    <2>5. thread' \in [Threads -> Thread] /\ ThreadInv'
      <3>1. thread' = [t \in Threads |-> thread'[t]]
        BY <1>2
      <3> QED
        BY <2>4, <3>1, Zenon DEF ThreadInv
    <2>6. pcbs' \in [Slot -> Pcb] /\ TableInv'
      <3>1. pcbs' = [j \in Slot |-> pcbs'[j]]
        BY <2>2 DEF Released
      <3> QED
        BY <2>2, <3>1, ReleasedFacts, ReleasedTable DEF IInv
    <2>7. ShrinkTcp
      <3>1. ASSUME NEW j \in Slot, NEW k \in DOMAIN pcbs'[j].backlog, pcbs'[j].backlog[k].live
            PROVE  k \in DOMAIN pcbs[j].backlog /\ pcbs'[j].backlog[k] = pcbs[j].backlog[k]
        <4>1. j \notin D
          BY <2>2, <3>1, ReleasedFacts, Initials DEF IInv
        <4>2. /\ k \in DOMAIN pcbs[j].backlog
              /\ pcbs'[j].backlog[k] = Stale(pcbs[j].backlog[k], D)
          BY <2>2, <3>1, <4>1, ReleasedFacts DEF IInv
        <4>3. pcbs[j].backlog[k] \in Ref
          BY <4>2 DEF IInv, TypeOK, TcpTypeOK, Pcb
        <4> QED
          BY <3>1, <4>2, <4>3, StaleFacts
      <3>2. ASSUME NEW j \in Slot, pcbs'[j].state = "SYN_RECEIVED", pcbs'[j].parent.to # 0
            PROVE  pcbs[j].state = "SYN_RECEIVED" /\ pcbs[j].parent.to # 0
        <4>1. j \notin D
          BY <2>2, <3>2, ReleasedFacts, Initials DEF IInv
        <4>2. pcbs[j].parent \in Ref
          BY DEF IInv, TypeOK, TcpTypeOK, Pcb
        <4> QED
          BY <2>2, <3>2, <4>1, <4>2, ReleasedFacts, StaleFacts DEF IInv
      <3> QED
        BY <2>4, <3>1, <3>2, Zenon DEF ShrinkTcp
    <2> QED
      BY <1>2, <2>5, <2>6, <2>7
  <1> QED
    BY <1>1, <1>2 DEF Release

\* A PCB changes under threads that may sleep on it.
Quiet(i, p) ==
  /\ p.interrupted => pcbs[i].interrupted
  /\ pcbs[i].state \in {"SYN_SENT", "SYN_RECEIVED"} => p.state \in {"SYN_SENT", "SYN_RECEIVED"}

LEMMA GentleTables ==
  ASSUME IInv, NEW i \in Slot, NEW p \in Pcb, GentleOn(i, p), Quiet(i, p),
         pcbs' = [pcbs EXCEPT ![i] = p], thread' \in [Threads -> Thread],
         \A t \in Threads :
           \/ thread'[t] = thread[t]
           \/ ThreadOk(t)'
  PROVE  /\ pcbs' \in [Slot -> Pcb] /\ TableInv' /\ ThreadInv'
         /\ \A j \in Slot : pcbs'[j].state = "SYN_RECEIVED" /\ pcbs'[j].parent.to # 0 =>
                              pcbs[j].state = "SYN_RECEIVED" /\ pcbs[j].parent.to # 0
  <1>1. pcbs' \in [Slot -> Pcb] /\ pcbs'[i] = p /\ \A j \in Slot \ {i} : pcbs'[j] = pcbs[j]
    BY DEF IInv, TypeOK, TcpTypeOK
  <1>2. Gentle
    <2> SUFFICES ASSUME NEW j \in Slot
                 PROVE  GentleOn(j, pcbs'[j])
      BY DEF Gentle
    <2>1. CASE j = i
      BY <1>1, <2>1
    <2>2. CASE j # i
      <3>1. pcbs'[j] = pcbs[j] /\ PcbOk(j)
        BY <1>1, <2>2 DEF IInv, TableInv
      <3> QED
        BY <3>1 DEF GentleOn, PcbOk, ChildOk
    <2> QED
      BY <2>1, <2>2
  <1>3. TableInv'
    BY <1>2, GentleTable DEF IInv
  <1>4. ThreadInv'
    <2> SUFFICES ASSUME NEW t \in Threads, thread'[t] = thread[t]
                 PROVE  ThreadOk(t)'
      BY DEF ThreadInv
    <2>1. ThreadOk(t)
      BY DEF IInv, ThreadInv
    <2>2. \A j \in Slot :
            /\ pcbs[j].state = "LISTEN" => pcbs'[j].state = "LISTEN"
            /\ pcbs[j].state # "FREE" => pcbs'[j].state # "FREE"
            /\ pcbs[j].backlog = <<>> => pcbs'[j].backlog = <<>>
            /\ pcbs'[j].interrupted => pcbs[j].interrupted
            /\ pcbs[j].state \in {"SYN_SENT", "SYN_RECEIVED"}
                 => pcbs'[j].state \in {"SYN_SENT", "SYN_RECEIVED"}
      BY <1>1, <1>2 DEF Gentle, GentleOn, Quiet
    <2>3. Carried(t)
      BY <2>1, <2>2 DEF Carried, ThreadOk, NamesOk
    <2> QED
      BY <2>1, <2>3, CarriedOk
  <1>5. \A j \in Slot : pcbs'[j].state = "SYN_RECEIVED" /\ pcbs'[j].parent.to # 0 =>
                          pcbs[j].state = "SYN_RECEIVED" /\ pcbs[j].parent.to # 0
    BY <1>2 DEF Gentle, GentleOn
  <1> QED
    BY <1>1, <1>3, <1>4, <1>5

LEMMA GentleStep ==
  ASSUME IInv, NEW i \in Slot, NEW p \in Pcb, GentleOn(i, p), Quiet(i, p),
         p.backlog = pcbs[i].backlog,
         pcbs' = [pcbs EXCEPT ![i] = p], thread' \in [Threads -> Thread],
         \A t \in Threads :
           \/ thread'[t] = thread[t]
           \/ ThreadOk(t)' /\ (thread'[t].got.live => thread'[t].got = thread[t].got)
  PROVE  pcbs' \in [Slot -> Pcb] /\ TableInv' /\ ThreadInv' /\ ShrinkTcp
  <1>1. /\ pcbs' \in [Slot -> Pcb] /\ TableInv' /\ ThreadInv'
        /\ \A j \in Slot : pcbs'[j].state = "SYN_RECEIVED" /\ pcbs'[j].parent.to # 0 =>
                             pcbs[j].state = "SYN_RECEIVED" /\ pcbs[j].parent.to # 0
    BY GentleTables
  <1>2. \A j \in Slot : pcbs'[j].backlog = pcbs[j].backlog
    BY DEF IInv, TypeOK, TcpTypeOK
  <1>3. \A t \in Threads : thread'[t].got.live => thread'[t].got = thread[t].got
    OBVIOUS
  <1> QED
    BY <1>1, <1>2, <1>3 DEF ShrinkTcp

\* sched_sleep keeps everything of a PCB but its wait context.
LEMMA LeftFacts ==
  ASSUME IInv, NEW i \in Slot
  PROVE  /\ Left(i) \in Pcb
         /\ Left(i).state = pcbs[i].state /\ Left(i).backlog = pcbs[i].backlog
         /\ GentleOn(i, Left(i)) /\ Quiet(i, Left(i))
  <1>1. pcbs[i] \in Pcb /\ PcbOk(i)
    BY DEF IInv, TypeOK, TcpTypeOK, TableInv
  <1>2. PICK w \in Int : w = pcbs[i].wc - 1
    BY <1>1 DEF Pcb
  <1>3. PICK b \in BOOLEAN : b = (pcbs[i].interrupted /\ pcbs[i].wc # 1)
    OBVIOUS
  <1>4. Left(i) = [pcbs[i] EXCEPT !.wc = w, !.interrupted = b]
    BY <1>2, <1>3 DEF Left
  <1>5. b => pcbs[i].interrupted
    BY <1>3
  <1> QED
    BY <1>1, <1>2, <1>4, <1>5 DEF GentleOn, Quiet, PcbOk, ChildOk, Pcb

\* A thread goes to sleep on a PCB for a reason that sched_sleep keeps.
LEMMA SleepStep ==
  ASSUME IInv, stuck = "no", NEW t \in Threads, NEW call \in {"accept", "connect"},
         NEW ref \in Ref, ref.to \in Slot, NEW pcb \in Pcb, NEW saved \in States,
         GentleOn(ref.to, pcb), Quiet(ref.to, pcb), pcb.backlog = pcbs[ref.to].backlog,
         call = "connect" => saved \in {"SYN_SENT", "SYN_RECEIVED"},
         ref.live => /\ pcb.state # "FREE" /\ ~pcb.interrupted
                     /\ call = "accept" => pcb.state = "LISTEN" /\ pcb.backlog = <<>>
                     /\ call = "connect" => pcb.state \in {"SYN_SENT", "SYN_RECEIVED"},
         Sleep(t, call, ref, pcb, saved)
  PROVE  /\ pcbs' \in [Slot -> Pcb] /\ thread' \in [Threads -> Thread] /\ stuck' = "no"
         /\ TableInv' /\ ThreadInv' /\ ShrinkTcp
  <1>1. PICK w \in Int : w = pcb.wc + 1
    BY DEF Pcb
  <1>9. PICK p : p = [pcb EXCEPT !.wc = w]
    BY Zenon
  <1>2. /\ p \in Pcb /\ pcbs' = [pcbs EXCEPT ![ref.to] = p]
        /\ p.state = pcb.state /\ p.port = pcb.port /\ p.foreign = pcb.foreign
        /\ p.parent = pcb.parent /\ p.backlog = pcb.backlog
        /\ p.interrupted <=> pcb.interrupted
    <2>1. pcbs' = [pcbs EXCEPT ![ref.to] = p]
      BY <1>1, <1>9 DEF Sleep
    <2>2. /\ p \in Pcb
          /\ p.state = pcb.state /\ p.port = pcb.port /\ p.foreign = pcb.foreign
          /\ p.parent = pcb.parent /\ p.backlog = pcb.backlog
          /\ p.interrupted <=> pcb.interrupted
      BY <1>9 DEF Pcb
    <2> QED
      BY <2>1, <2>2
  <1>3. GentleOn(ref.to, p) /\ Quiet(ref.to, p)
    BY <1>2 DEF GentleOn, Quiet
  <1>4. PICK h \in Thread :
          /\ thread' = [thread EXCEPT ![t] = h]
          /\ h.on = ref /\ h.call = call /\ h.wait = "asleep" /\ h.saved = saved
          /\ ~h.got.live
    <2>1. PICK h : h = [Returned EXCEPT !.call = call, !.wait = "asleep",
                                        !.on = ref, !.saved = saved]
      OBVIOUS
    <2>2. /\ h \in Thread
          /\ h.on = ref /\ h.call = call /\ h.wait = "asleep" /\ h.saved = saved
          /\ h.got = Returned.got
      BY <2>1, Initials DEF Thread
    <2>3. thread' = [thread EXCEPT ![t] = h]
      BY <2>1 DEF Sleep
    <2> QED
      BY <2>2, <2>3, Initials
  <1>5. /\ thread' \in [Threads -> Thread] /\ thread'[t] = h
        /\ \A u \in Threads \ {t} : thread'[u] = thread[u]
    BY <1>4 DEF IInv, TypeOK, TcpTypeOK
  <1>6. ThreadOk(t)'
    <2>1. pcbs'[ref.to] = p
      BY <1>2 DEF IInv, TypeOK, TcpTypeOK
    <2> QED
      BY <1>2, <1>4, <1>5, <2>1 DEF ThreadOk, NamesOk, SleeperOk
  <1>7. ~thread'[t].got.live
    BY <1>4, <1>5
  <1>8. pcbs' \in [Slot -> Pcb] /\ TableInv' /\ ThreadInv' /\ ShrinkTcp
    BY <1>2, <1>3, <1>5, <1>6, <1>7, GentleStep
  <1> QED
    BY <1>5, <1>8 DEF Sleep
=============================================================================
