------------------------ MODULE TcpConnectionProofs ------------------------
(***************************************************************************)
(* Proofs about TcpConnection, for all values of its constants.            *)
(***************************************************************************)
EXTENDS TcpConnection, FiniteSetTheorems, TLAPS

-----------------------------------------------------------------------------
(* The operators the handlers are built from return values of their types *)

LEMMA PeerType == \A h \in Host : Peer(h) \in Host /\ Peer(h) # h
  BY HostAssumption DEF Peer, Host

LEMMA PlusType == \A a \in Nat, b \in Nat : Plus(a, b) \in SeqNum
  BY SizeAssumption DEF Plus, SeqNum

LEMMA IssType == \A i \in Iss : i \in SeqNum
  BY SizeAssumption DEF SeqNum

LEMMA SegLenType == \A s \in Segment : SegLen(s) \in Nat
  <1> SUFFICES ASSUME NEW s \in Segment PROVE SegLen(s) \in Nat
    OBVIOUS
  <1>1. Len(s.data) \in Nat
    BY DEF Segment
  <1>2. (IF "SYN" \in s.flg THEN 1 ELSE 0) \in Nat
    OBVIOUS
  <1>3. (IF "FIN" \in s.flg THEN 1 ELSE 0) \in Nat
    OBVIOUS
  <1>4. \A a, b, c \in Nat : a + b + c \in Nat
    OBVIOUS
  <1> QED
    BY <1>1, <1>2, <1>3, <1>4, Zenon DEF SegLen

LEMMA EndType == \A s \in Segment : Plus(s.seq, SegLen(s)) \in SeqNum
  <1> SUFFICES ASSUME NEW s \in Segment PROVE Plus(s.seq, SegLen(s)) \in SeqNum
    OBVIOUS
  <1>1. s.seq \in Nat
    BY SizeAssumption DEF Segment, SeqNum
  <1>2. SegLen(s) \in Nat
    BY SegLenType
  <1> QED
    BY <1>1, <1>2, PlusType

LEMMA ModBelow ==
  \A b \in Nat, n \in Nat : \A w \in 0..b :
    (w - n) % (b + 1) \in 0..b /\ (w - n) % (b + 1) >= w - n
  OBVIOUS

LEMMA OutputType ==
  ASSUME NEW p \in Pcb, NEW flg \in SUBSET Flag, NEW data \in Seq(Byte)
  PROVE  Output(p, flg, data) \in Segment
  BY DEF Output, Segment, Pcb

\* The segments without payload that the handlers and user calls send.
LEMMA ControlOutput ==
  ASSUME NEW p \in Pcb,
         NEW flg \in {{"SYN"}, {"SYN", "ACK"}, {"ACK"}, {"RST"}, {"ACK", "FIN"}}
  PROVE  Output(p, flg, <<>>) \in Segment
  <1>1. flg \in SUBSET Flag
    BY DEF Flag
  <1>2. <<>> \in Seq(Byte)
    OBVIOUS
  <1> QED
    BY <1>1, <1>2, OutputType

LEMMA SuccType == \A x \in SeqNum : Plus(x, 1) \in SeqNum
  BY PlusType, SizeAssumption DEF SeqNum

LEMMA QueueAddType ==
  ASSUME NEW p \in Pcb, NEW s \in Segment
  PROVE  QueueAdd(p, s) \in Seq(Entry)
  BY BoundAssumption DEF QueueAdd, Segment, Pcb, Entry

LEMMA QueueCleanupType ==
  ASSUME NEW q \in Seq(Entry), NEW una \in SeqNum
  PROVE  QueueCleanup(q, una) \in Seq(Entry)
  <1> DEFINE acked == {k \in 1..Len(q) : \A j \in 1..k : q[j].seq < una}
  <1>1. Len(q) \in Nat
    OBVIOUS
  <1>2. IsFiniteSet(1..Len(q))
    BY <1>1, FS_Interval
  <1>3. IsFiniteSet(acked)
    BY <1>2, FS_Subset
  <1>4. Cardinality(acked) \in Nat
    BY <1>3, FS_CardinalityType
  <1>5. QueueCleanup(q, una) = SubSeq(q, Cardinality(acked) + 1, Len(q))
    BY DEF QueueCleanup
  <1> QED
    <2> HIDE DEF acked
    <2> QED
      BY <1>1, <1>4, <1>5

LEMMA RstType == \A s \in Segment : Rst(s) \in Segment
  <1> SUFFICES ASSUME NEW s \in Segment PROVE Rst(s) \in Segment
    OBVIOUS
  <1>1. Plus(s.seq, SegLen(s)) \in SeqNum
    BY EndType
  <1>2. 0 \in SeqNum /\ 0 \in Wnd
    BY SizeAssumption DEF SeqNum, Wnd
  <1> QED
    BY <1>1, <1>2 DEF Rst, Segment, Flag

LEMMA ZeroedType == Zeroed \in Pcb
  BY SizeAssumption DEF Zeroed, Pcb, PcbState, SeqNum, Wnd

LEMMA StartedType == Started \in Thread
  BY DEF Started, Thread, PcbState

LEMMA ThreadOps ==
  ASSUME NEW t \in Thread
  PROVE  Idle(t) \in Thread /\ Wakeup(t) \in Thread
         /\ \A p \in Pcb : Sleep(p, t) \in Thread
  BY DEF Idle, Wakeup, Sleep, Thread

LEMMA RemoveSegType ==
  ASSUME NEW q \in Seq(Segment), NEW i \in 1..Len(q)
  PROVE  RemoveSeg(q, i) \in Seq(Segment)
  BY DEF RemoveSeg

-----------------------------------------------------------------------------
(* The steps of tcp_segment_arrives on a PCB *)

\* The receive buffer holds at least the bytes rcv.wnd says it holds.
Holds(p) == Connected(p) => Len(p.buf) >= Remain(p)

LEMMA AckStepType ==
  ASSUME NEW p \in Pcb, NEW s \in Segment
  PROVE  /\ AckStep(p, s) \in Pcb
         /\ AckStep(p, s).buf = p.buf /\ AckStep(p, s).rcv_wnd = p.rcv_wnd
         /\ Connected(p) => Connected(AckStep(p, s))
  <1>1. QueueCleanup(p.queue, s.ack) \in Seq(Entry)
    BY QueueCleanupType DEF Pcb, Segment
  <1>2. AckNew(p, s) \in Pcb /\ AckNew(p, s).buf = p.buf /\ AckNew(p, s).rcv_wnd = p.rcv_wnd
    BY <1>1 DEF AckNew, Pcb, Segment
  <1>3. AckState(p, s) \in PcbState
    BY DEF AckState, PcbState, Pcb
  <1>4. Connected(p) => AckState(p, s) \in Synchronized \cup {"SYN_SENT"}
    BY DEF AckState, Connected, Synchronized, PcbState
  <1> QED
    BY <1>2, <1>3, <1>4 DEF AckStep, Pcb, Connected

LEMMA TextStepType ==
  ASSUME NEW p \in Pcb, NEW s \in Segment, Holds(p)
  PROVE  TextStep(p, s) \in Pcb /\ Holds(TextStep(p, s)) /\ TextStep(p, s).state = p.state
  <1>1. CASE ~TakesText(p, s)
    BY <1>1 DEF TextStep
  <1>2. CASE TakesText(p, s)
    <2> DEFINE w == (p.rcv_wnd - Len(s.data)) % (BufSize + 1)
    <2>1. Plus(s.seq, SegLen(s)) \in SeqNum
      BY EndType
    <2>2. Len(s.data) \in Nat /\ p.rcv_wnd \in 0..BufSize /\ BufSize \in Nat
      BY SizeAssumption DEF Segment, Pcb, Wnd
    <2>3. w \in 0..BufSize /\ w >= p.rcv_wnd - Len(s.data)
      BY <2>2, ModBelow
    <2>4. p.buf \o s.data \in Seq(Byte) /\ Len(p.buf \o s.data) = Len(p.buf) + Len(s.data)
      BY DEF Pcb, Segment
    <2>5. BufSize - w <= (BufSize - p.rcv_wnd) + Len(s.data)
      <3> HIDE DEF w
      <3> QED
        BY <2>2, <2>3
    <2>6. TextStep(p, s) \in Pcb
      BY <1>2, <2>1, <2>3, <2>4 DEF TextStep, Pcb, Wnd
    <2>7. /\ TextStep(p, s).buf = p.buf \o s.data
          /\ TextStep(p, s).rcv_wnd = w
          /\ TextStep(p, s).state = p.state
      BY <1>2 DEF TextStep, Pcb
    <2>8. Len(p.buf) \in Nat
      BY DEF Pcb
    <2>9. Connected(p)
      BY <1>2 DEF TakesText, Connected, Synchronized, PcbState
    <2>10. Len(p.buf) >= BufSize - p.rcv_wnd
      BY <2>9 DEF Holds, Remain
    <2> HIDE DEF w
    <2>11. Len(TextStep(p, s).buf) = Len(p.buf) + Len(s.data)
      BY <2>4, <2>7
    <2>12. \A a, b, c, d, e \in Int :
             a >= b - c /\ b - e <= (b - c) + d => a + d >= b - e
      OBVIOUS
    <2>13. Len(p.buf) + Len(s.data) >= BufSize - w
      <3>1. /\ p.rcv_wnd \in Int /\ w \in Int /\ BufSize \in Int
            /\ Len(p.buf) \in Int /\ Len(s.data) \in Int
        BY <2>2, <2>3, <2>8
      <3> QED
        BY <2>5, <2>10, <2>12, <3>1, Zenon
    <2> QED
      BY <2>6, <2>7, <2>11, <2>13 DEF Holds, Remain
  <1> QED
    BY <1>1, <1>2

LEMMA FinStepType ==
  ASSUME NEW p \in Pcb, NEW s \in Segment, Holds(p), Connected(p)
  PROVE  FinStep(p, s) \in Pcb /\ Holds(FinStep(p, s))
  <1>1. Plus(s.seq, 1) \in SeqNum
    BY PlusType DEF Segment, SeqNum
  <1>2. FinState(p, s) \in PcbState
    BY DEF FinState, PcbState, Pcb
  <1>3. FinStep(p, s) \in Pcb
    BY <1>1, <1>2 DEF FinStep, Pcb
  <1>4. FinStep(p, s).buf = p.buf /\ FinStep(p, s).rcv_wnd = p.rcv_wnd
    BY DEF FinStep, Pcb
  <1> QED
    BY <1>3, <1>4 DEF Holds, Remain
-----------------------------------------------------------------------------
(* The inductive invariant behind type correctness: tcp_receive copies       *)
(* sizeof(buf) - rcv.wnd bytes, so the buffer must hold that many.           *)

BufInv == \A h \in Host : Holds(pcb[h])

IInv == TypeOK /\ BufInv

LEMMA ExchangeType ==
  ASSUME TypeOK, NEW h \in Host, NEW i, Arriving(h, i),
         NEW out \in Seq(Segment), Exchange(h, i, out)
  PROVE  net' \in [Host -> Seq(Segment)]
  <1>1. i \in 1..Len(net[h]) /\ net[h] \in Seq(Segment) /\ Peer(h) \in Host
    BY PeerType DEF TypeOK, Arriving
  <1>2. RemoveSeg(net[h], i) \in Seq(Segment)
    BY <1>1, RemoveSegType
  <1>3. net[Peer(h)] \o out \in Seq(Segment)
    BY <1>1 DEF TypeOK
  <1>4. net' = [[net EXCEPT ![h] = RemoveSeg(net[h], i)]
                  EXCEPT ![Peer(h)] = net[Peer(h)] \o out]
    BY <1>1, PeerType DEF Exchange, TypeOK
  <1> QED
    BY <1>1, <1>2, <1>3, <1>4 DEF TypeOK

LEMMA HandledType ==
  ASSUME IInv, NEW h \in Host, NEW i, Arriving(h, i),
         NEW p \in Pcb, Holds(p), NEW out \in Seq(Segment), NEW wake \in BOOLEAN,
         Handled(h, i, p, out, wake)
  PROVE  IInv'
  <1>1. pcb' = [pcb EXCEPT ![h] = p] /\ Exchange(h, i, out)
        /\ UNCHANGED <<sent, got, hung, faults>>
    BY DEF Handled
  <1>2. thread' \in [Host -> Thread]
    BY ThreadOps DEF Handled, IInv, TypeOK
  <1>3. pcb' \in [Host -> Pcb]
    BY <1>1 DEF IInv, TypeOK
  <1>4. net' \in [Host -> Seq(Segment)]
    BY <1>1, ExchangeType DEF IInv
  <1>5. BufInv'
    BY <1>1 DEF IInv, BufInv, TypeOK
  <1> QED
    BY <1>1, <1>2, <1>3, <1>4, <1>5 DEF IInv, TypeOK

LEMMA ReleaseType ==
  ASSUME IInv, NEW h \in Host, NEW p \in Pcb, ~Connected(p) \/ Holds(p), Release(h, p)
  PROVE  pcb' \in [Host -> Pcb] /\ BufInv' /\ hung' \in [Host -> BOOLEAN]
  <1>1. Holds(Zeroed) /\ Holds(p)
    BY DEF Holds, Connected, Zeroed, Synchronized
  <1>2. PICK q \in Pcb : Holds(q) /\ pcb' = [pcb EXCEPT ![h] = q]
    BY <1>1, ZeroedType DEF Release
  <1>3. hung' \in [Host -> BOOLEAN]
    BY DEF Release, IInv, TypeOK
  <1> QED
    BY <1>2, <1>3 DEF IInv, TypeOK, BufInv

LEMMA AbortedType ==
  ASSUME IInv, NEW h \in Host, NEW i, Arriving(h, i), NEW out \in Seq(Segment),
         Aborted(h, i, out)
  PROVE  IInv'
  <1> DEFINE p == [pcb[h] EXCEPT !.state = "CLOSED"]
  <1>1. p \in Pcb /\ p.state = "CLOSED"
    <2>1. pcb[h] \in Pcb
      BY DEF IInv, TypeOK
    <2> QED
      BY <2>1 DEF Pcb, PcbState
  <1>2. ~Connected(p)
    BY <1>1 DEF Connected, Synchronized
  <1>3. Release(h, p) /\ Exchange(h, i, out) /\ UNCHANGED <<thread, sent, got, faults>>
    BY DEF Aborted
  <1> HIDE DEF p
  <1>4. pcb' \in [Host -> Pcb] /\ BufInv' /\ hung' \in [Host -> BOOLEAN]
    BY <1>1, <1>2, <1>3, ReleaseType
  <1>5. net' \in [Host -> Seq(Segment)]
    BY <1>3, ExchangeType DEF IInv
  <1> QED
    BY <1>3, <1>4, <1>5 DEF IInv, TypeOK

LEMMA InContext ==
  ASSUME IInv, NEW h \in Host
  PROVE  /\ pcb[h] \in Pcb /\ Holds(pcb[h]) /\ thread[h] \in Thread
         /\ \A i : Arriving(h, i) => net[h][i] \in Segment
  BY DEF IInv, TypeOK, BufInv, Arriving

LEMMA SingleOutput == \A s \in Segment : <<s>> \in Seq(Segment)
  OBVIOUS

LEMMA NothingOut == <<>> \in Seq(Segment)
  OBVIOUS

\* Each path of tcp_segment_arrives preserves the invariant.
LEMMA TcpInputType ==
  ASSUME IInv, NEW h \in Host, NEW i, TcpInput(h, i)
  PROVE  IInv'
  <1> DEFINE p == pcb[h]
             s == net[h][i]
  <1>1. p \in Pcb /\ Holds(p) /\ (Arriving(h, i) => s \in Segment)
    BY InContext
  <1> USE NothingOut
  <1>2. CASE NoConnection(h, i)
    <2>1. Arriving(h, i) /\ s \in Segment
      BY <1>1, <1>2 DEF NoConnection
    <2>2. PICK out \in Seq(Segment) : Handled(h, i, p, out, FALSE)
      BY <1>2, <2>1, RstType, SingleOutput DEF NoConnection
    <2> QED
      BY <1>1, <2>1, <2>2, HandledType
  <1>3. CASE ListenIgnores(h, i)
    <2>1. Arriving(h, i) /\ s \in Segment
      BY <1>1, <1>3 DEF ListenIgnores
    <2>2. PICK out \in Seq(Segment) : Handled(h, i, p, out, FALSE)
      BY <1>3, <2>1, RstType, SingleOutput DEF ListenIgnores
    <2> QED
      BY <1>1, <2>1, <2>2, HandledType
  <1>4. CASE ListenSyn(h, i)
    <2>1. Arriving(h, i) /\ s \in Segment
      BY <1>1, <1>4 DEF ListenSyn
    <2>2. PICK iss \in Iss :
            LET q == [p EXCEPT !.state = "SYN_RECEIVED", !.rcv_wnd = BufSize,
                               !.rcv_nxt = Plus(s.seq, 1), !.irs = s.seq,
                               !.iss = iss, !.snd_una = iss,
                               !.snd_nxt = Plus(iss, 1)]
                o == Output(q, {"SYN", "ACK"}, <<>>)
            IN  Handled(h, i, [q EXCEPT !.queue = QueueAdd(q, o)], <<o>>, FALSE)
      BY <1>4 DEF ListenSyn
    <2> DEFINE q == [p EXCEPT !.state = "SYN_RECEIVED", !.rcv_wnd = BufSize,
                              !.rcv_nxt = Plus(s.seq, 1), !.irs = s.seq,
                              !.iss = iss, !.snd_una = iss,
                              !.snd_nxt = Plus(iss, 1)]
               o == Output(q, {"SYN", "ACK"}, <<>>)
               r == [q EXCEPT !.queue = QueueAdd(q, o)]
    <2>3. /\ iss \in SeqNum /\ Plus(iss, 1) \in SeqNum
          /\ s.seq \in SeqNum /\ Plus(s.seq, 1) \in SeqNum
          /\ BufSize \in Wnd /\ BufSize \in Nat
      BY <2>1, IssType, SuccType, SizeAssumption DEF Segment, Wnd
    <2>4. q \in Pcb /\ q.rcv_wnd = BufSize /\ q.buf = p.buf
      BY <1>1, <2>3 DEF Pcb, PcbState
    <2> HIDE DEF q
    <2>5. o \in Segment
      BY <2>4, ControlOutput
    <2>6. QueueAdd(q, o) \in Seq(Entry)
      BY <2>4, <2>5, QueueAddType
    <2>7. r \in Pcb /\ r.rcv_wnd = BufSize /\ r.buf = p.buf
      BY <2>4, <2>6 DEF Pcb
    <2>8. Holds(r)
      BY <1>1, <2>3, <2>7 DEF Holds, Remain, Pcb
    <2>9. Handled(h, i, r, <<o>>, FALSE)
      BY <2>2 DEF q
    <2> QED
      BY <2>1, <2>5, <2>7, <2>8, <2>9, SingleOutput, HandledType
  <1>5. CASE SynSentBadAck(h, i)
    <2>1. Arriving(h, i) /\ s \in Segment /\ Handled(h, i, p, <<Rst(s)>>, FALSE)
      BY <1>1, <1>5 DEF SynSentBadAck
    <2> QED
      BY <1>1, <2>1, RstType, SingleOutput, HandledType
  <1>6. CASE SynSentReset(h, i)
    BY <1>6, AbortedType DEF SynSentReset
  <1>7. CASE SynSentDrop(h, i)
    <2>1. Arriving(h, i) /\ Handled(h, i, p, <<>>, FALSE)
      BY <1>7 DEF SynSentDrop
    <2> QED
      BY <1>1, <2>1, HandledType
  <1>8. CASE SynSentSyn(h, i)
    <2>1. Arriving(h, i) /\ s \in Segment
      BY <1>1, <1>8 DEF SynSentSyn
    <2> DEFINE acked == "ACK" \in s.flg /\ p.snd_una <= s.ack
               una == IF acked THEN s.ack ELSE p.snd_una
               q == [p EXCEPT !.rcv_nxt = Plus(s.seq, 1), !.irs = s.seq,
                              !.snd_una = una,
                              !.queue = IF acked THEN QueueCleanup(@, una) ELSE @]
               e == [q EXCEPT !.state = "ESTABLISHED", !.snd_wnd = s.wnd,
                              !.snd_wl1 = s.seq, !.snd_wl2 = s.ack]
               o == Output(q, {"SYN", "ACK"}, <<>>)
               r == [q EXCEPT !.state = "SYN_RECEIVED", !.queue = QueueAdd(q, o)]
    <2>2. /\ s.seq \in SeqNum /\ s.ack \in SeqNum /\ s.wnd \in Wnd
          /\ Plus(s.seq, 1) \in SeqNum /\ p.snd_una \in SeqNum /\ p.queue \in Seq(Entry)
      BY <1>1, <2>1, SuccType DEF Segment, Pcb
    <2>3. una \in SeqNum
      BY <2>2
    <2>4. QueueCleanup(p.queue, una) \in Seq(Entry)
      BY <2>2, <2>3, QueueCleanupType
    <2>5. (IF acked THEN QueueCleanup(p.queue, una) ELSE p.queue) \in Seq(Entry)
      BY <2>2, <2>4
    <2>6. p.state = "SYN_SENT"
      BY <1>8 DEF SynSentSyn
    <2>7. \/ Handled(h, i, e, <<Output(q, {"ACK"}, <<>>)>>, TRUE)
          \/ Handled(h, i, r, <<o>>, FALSE)
      BY <1>8 DEF SynSentSyn
    <2> HIDE DEF una, acked
    <2>8. /\ q \in Pcb /\ q.rcv_wnd = p.rcv_wnd /\ q.buf = p.buf
      BY <1>1, <2>2, <2>3, <2>5 DEF Pcb
    <2> HIDE DEF q
    <2>9. o \in Segment /\ Output(q, {"ACK"}, <<>>) \in Segment
      BY <2>8, ControlOutput
    <2>10. QueueAdd(q, o) \in Seq(Entry)
      BY <2>8, <2>9, QueueAddType
    <2>11. e \in Pcb /\ e.rcv_wnd = p.rcv_wnd /\ e.buf = p.buf
      BY <2>2, <2>8 DEF Pcb, PcbState
    <2>12. r \in Pcb /\ r.rcv_wnd = p.rcv_wnd /\ r.buf = p.buf
      BY <2>8, <2>10 DEF Pcb, PcbState
    <2>13. Len(p.buf) >= Remain(p)
      BY <1>1, <2>6 DEF Holds, Connected
    <2>14. Holds(e) /\ Holds(r)
      BY <2>11, <2>12, <2>13 DEF Holds, Remain
    <2> HIDE DEF e, r, o
    <2> QED
      BY <2>1, <2>7, <2>9, <2>11, <2>12, <2>14, SingleOutput, HandledType
  <1>9. CASE Unacceptable(h, i)
    <2>1. Arriving(h, i) /\ s \in Segment /\ Output(p, {"ACK"}, <<>>) \in Segment
      BY <1>1, <1>9, ControlOutput DEF Unacceptable
    <2>2. PICK out \in Seq(Segment) : Handled(h, i, p, out, FALSE)
      BY <1>9, <2>1, SingleOutput DEF Unacceptable
    <2> QED
      BY <1>1, <2>1, <2>2, HandledType
  <1>10. CASE Reset(h, i)
    BY <1>10, AbortedType DEF Reset, Accepted
  <1>11. CASE SynInWindow(h, i)
    <2>1. Output(p, {"RST"}, <<>>) \in Segment
      BY <1>1, ControlOutput
    <2> QED
      BY <1>11, <2>1, SingleOutput, AbortedType DEF SynInWindow, Accepted
  <1>12. CASE SynReceivedBadAck(h, i)
    <2>1. Arriving(h, i) /\ s \in Segment /\ Handled(h, i, p, <<Rst(s)>>, FALSE)
      BY <1>1, <1>12 DEF SynReceivedBadAck, Acked, Accepted
    <2> QED
      BY <1>1, <2>1, RstType, SingleOutput, HandledType
  <1>13. CASE AckOfUnsent(h, i)
    <2>1. /\ Arriving(h, i) /\ Output(p, {"ACK"}, <<>>) \in Segment
          /\ Handled(h, i, p, <<Output(p, {"ACK"}, <<>>)>>, FALSE)
      BY <1>1, <1>13, ControlOutput DEF AckOfUnsent, Acked, Accepted
    <2> QED
      BY <1>1, <2>1, SingleOutput, HandledType
  <1>14. CASE LastAck(h, i)
    BY <1>14, AbortedType DEF LastAck, Acked, Accepted
  <1>15. CASE Dropped(h, i)
    <2>1. Arriving(h, i) /\ Handled(h, i, p, <<>>, FALSE)
      BY <1>15 DEF Dropped, Accepted
    <2> QED
      BY <1>1, <2>1, HandledType
  <1>16. CASE AckTextFin(h, i)
    <2> DEFINE a == AckStep(p, s)
               t == TextStep(a, s)
               f == FinStep(t, s)
    <2>1. Arriving(h, i) /\ s \in Segment /\ Connected(p)
      BY <1>1, <1>16 DEF AckTextFin, Acked, Accepted, Connected
    <2>2. a \in Pcb /\ Connected(a) /\ Holds(a)
      BY <1>1, <2>1, AckStepType DEF Holds, Remain
    <2>3. t \in Pcb /\ Holds(t) /\ Connected(t)
      <3> HIDE DEF a
      <3> QED
        BY <2>1, <2>2, TextStepType DEF Connected
    <2>4. f \in Pcb /\ Holds(f)
      <3> HIDE DEF t
      <3> QED
        BY <2>1, <2>3, FinStepType
    <2>5. Output(t, {"ACK"}, <<>>) \in Segment /\ Output(f, {"ACK"}, <<>>) \in Segment
      <3> HIDE DEF t, f
      <3> QED
        BY <2>3, <2>4, ControlOutput
    <2> DEFINE o1 == IF TakesText(a, s) THEN <<Output(t, {"ACK"}, <<>>)>> ELSE <<>>
               o2 == IF "FIN" \in s.flg THEN <<Output(f, {"ACK"}, <<>>)>> ELSE <<>>
               w == Signals(p, a, t, s)
    <2>6. o1 \in Seq(Segment) /\ o2 \in Seq(Segment)
      <3> HIDE DEF a, t, f
      <3> QED
        BY <2>5, SingleOutput
    <2>7. Handled(h, i, f, o1 \o o2, w)
      BY <1>16 DEF AckTextFin
    <2>8. w \in BOOLEAN
      BY DEF Signals
    <2> HIDE DEF f, o1, o2, w
    <2>9. o1 \o o2 \in Seq(Segment)
      BY <2>6
    <2> QED
      BY <2>1, <2>4, <2>7, <2>8, <2>9, HandledType
  <1> QED
    BY <1>2, <1>3, <1>4, <1>5, <1>6, <1>7, <1>8, <1>9, <1>10, <1>11, <1>12, <1>13, <1>14,
       <1>15, <1>16 DEF TcpInput

LEMMA TimerRetransmitType ==
  ASSUME IInv, NEW h \in Host, TimerRetransmit(h)
  PROVE  IInv'
  <1> DEFINE p == pcb[h]
             q == p.queue
  <1>1. p \in Pcb /\ q \in Seq(Entry) /\ Holds(p) /\ Peer(h) \in Host
    BY InContext, PeerType DEF Pcb
  <1>2. PICK due \in DueEntries(Len(q)), late \in BOOLEAN :
          LET Due(k) == \E j \in DOMAIN due : due[j] = k IN
          /\ \A k \in 1..Len(q) : Due(k) => q[k].tries < MaxRtx /\ Fires(q[k])
          /\ late => \E k \in 1..Len(q) : q[k].tries = MaxRtx /\ Fires(q[k])
          /\ pcb' = [pcb EXCEPT
                       ![h].state = IF late THEN "CLOSED" ELSE @,
                       ![h].queue = [k \in 1..Len(q) |->
                          [q[k] EXCEPT !.tries = IF Due(k) THEN @ + 1 ELSE @]]]
          /\ net' = [net EXCEPT ![Peer(h)] =
                       @ \o [j \in DOMAIN due |-> Retransmission(pcb[h], q[due[j]])]]
          /\ thread' = IF late THEN [thread EXCEPT ![h] = Wakeup(@)] ELSE thread
    BY DEF TimerRetransmit
  <1> DEFINE Due(k) == \E j \in DOMAIN due : due[j] = k
             q2 == [k \in 1..Len(q) |->
                      [q[k] EXCEPT !.tries = IF Due(k) THEN @ + 1 ELSE @]]
             out == [j \in DOMAIN due |-> Retransmission(p, q[due[j]])]
  <1>3. PICK n \in 0..Len(q) : due \in [1..n -> 1..Len(q)]
    BY DEF DueEntries
  <1>4. \A k \in 1..Len(q) : q[k] \in Entry
    BY <1>1
  <1>5. \A k \in 1..Len(q) : q2[k] \in Entry
    <2> SUFFICES ASSUME NEW k \in 1..Len(q) PROVE q2[k] \in Entry
      OBVIOUS
    <2>1. Due(k) => q[k].tries < MaxRtx
      BY <1>2
    <2>2. q[k] \in Entry /\ q2[k] = [q[k] EXCEPT !.tries = IF Due(k) THEN @ + 1 ELSE @]
      BY <1>4
    <2> HIDE DEF Due, q2, q
    <2>3. (IF Due(k) THEN q[k].tries + 1 ELSE q[k].tries) \in 0..MaxRtx
      BY <2>1, <2>2, BoundAssumption DEF Entry
    <2> QED
      BY <2>2, <2>3 DEF Entry
  <1>6. q2 \in Seq(Entry)
    <2> DEFINE E(k) == [q[k] EXCEPT !.tries = IF Due(k) THEN @ + 1 ELSE @]
    <2>1. \A k \in 1..Len(q) : E(k) \in Entry
      BY <1>5
    <2>2. Len(q) \in Nat
      BY <1>1
    <2>3. q2 = [k \in 1..Len(q) |-> E(k)]
      OBVIOUS
    <2> HIDE DEF E, q2, q
    <2>4. q2 \in [1..Len(q) -> Entry]
      BY <2>1, <2>3
    <2> QED
      BY <2>2, <2>4
  <1>7. \A e \in Entry : Retransmission(p, e) \in Segment
    BY <1>1 DEF Retransmission, Segment, Entry, Pcb
  <1>8. out \in Seq(Segment)
    <2>1. n \in Nat /\ DOMAIN due = 1..n
      BY <1>1, <1>3
    <2>2. \A j \in 1..n : Retransmission(p, q[due[j]]) \in Segment
      BY <1>3, <1>4, <1>7
    <2>3. out \in [1..n -> Segment]
      BY <2>1, <2>2
    <2> HIDE DEF out
    <2> QED
      BY <2>1, <2>3
  <1>9. pcb' = [pcb EXCEPT ![h] = [p EXCEPT !.state = IF late THEN "CLOSED" ELSE @,
                                            !.queue = q2]]
    BY <1>2 DEF IInv, TypeOK
  <1> DEFINE r == [p EXCEPT !.state = IF late THEN "CLOSED" ELSE @, !.queue = q2]
  <1>10. r \in Pcb /\ r.buf = p.buf /\ r.rcv_wnd = p.rcv_wnd
         /\ (r.state = p.state \/ r.state = "CLOSED")
    <2> HIDE DEF q2
    <2> QED
      BY <1>1, <1>6 DEF Pcb, PcbState
  <1>11. Holds(r)
    <2> HIDE DEF r
    <2> QED
      BY <1>1, <1>10 DEF Holds, Remain, Connected, Synchronized
  <1>12. net' = [net EXCEPT ![Peer(h)] = @ \o out]
    BY <1>2
  <1>13. thread' \in [Host -> Thread]
    BY <1>2, ThreadOps DEF IInv, TypeOK
  <1> HIDE DEF r, out
  <1>14. net[Peer(h)] \o out \in Seq(Segment)
    BY <1>1, <1>8 DEF IInv, TypeOK
  <1>15. net' \in [Host -> Seq(Segment)]
    BY <1>12, <1>14 DEF IInv, TypeOK
  <1>16. pcb' \in [Host -> Pcb] /\ BufInv'
    BY <1>9, <1>10, <1>11 DEF IInv, TypeOK, BufInv, r
  <1>17. UNCHANGED <<sent, got, hung, faults>>
    BY DEF TimerRetransmit
  <1> QED
    BY <1>13, <1>15, <1>16, <1>17 DEF IInv, TypeOK

LEMMA TimerTimeWaitType ==
  ASSUME IInv, NEW h \in Host, TimerTimeWait(h)
  PROVE  IInv'
  <1>1. pcb' \in [Host -> Pcb] /\ BufInv' /\ hung' \in [Host -> BOOLEAN]
    BY InContext, ReleaseType DEF TimerTimeWait
  <1> QED
    BY <1>1 DEF TimerTimeWait, IInv, TypeOK

LEMMA InterruptType ==
  ASSUME IInv, NEW h \in Host, Interrupt(h)
  PROVE  IInv'
  <1> DEFINE p == [pcb[h] EXCEPT !.interrupted = TRUE]
  <1>1. pcb' = [pcb EXCEPT ![h] = p]
    BY DEF Interrupt, IInv, TypeOK
  <1>2. p \in Pcb /\ Holds(p)
    BY InContext DEF Holds, Remain, Connected, Pcb
  <1> HIDE DEF p
  <1>3. pcb' \in [Host -> Pcb] /\ BufInv'
    BY <1>1, <1>2 DEF IInv, TypeOK, BufInv
  <1>4. thread' \in [Host -> Thread]
    BY ThreadOps DEF Interrupt, IInv, TypeOK
  <1> QED
    BY <1>3, <1>4 DEF Interrupt, IInv, TypeOK

LEMMA OpenType ==
  ASSUME IInv, NEW h \in Host, OpenPassive(h) \/ OpenActive(h) \/ OpenFails(h) \/ OpenResume(h)
  PROVE  IInv'
  <1> DEFINE p == pcb[h]
  <1>1. p \in Pcb /\ Holds(p) /\ thread[h] \in Thread /\ Peer(h) \in Host
    BY InContext, PeerType
  <1>2. CASE OpenPassive(h)
    <2> DEFINE r == [p EXCEPT !.state = "LISTEN"]
    <2>1. pcb' = [pcb EXCEPT ![h] = r]
      BY <1>2 DEF OpenPassive, IInv, TypeOK
    <2>2. r \in Pcb /\ Holds(r)
      BY <1>1 DEF Pcb, PcbState, Holds, Connected, Synchronized
    <2> HIDE DEF r
    <2>3. pcb' \in [Host -> Pcb] /\ BufInv'
      BY <2>1, <2>2 DEF IInv, TypeOK, BufInv
    <2>4. thread' \in [Host -> Thread]
      BY <1>1, <1>2 DEF OpenPassive, IInv, TypeOK, Thread, PcbState
    <2> QED
      BY <1>2, <2>3, <2>4 DEF OpenPassive, IInv, TypeOK
  <1>3. CASE OpenActive(h)
    <2>1. PICK iss \in Iss :
            LET q == [p EXCEPT !.rcv_wnd = BufSize, !.iss = iss]
                o == Output(q, {"SYN"}, <<>>)
            IN  /\ pcb' = [pcb EXCEPT ![h] =
                     [q EXCEPT !.state = "SYN_SENT", !.queue = QueueAdd(q, o),
                               !.snd_una = iss, !.snd_nxt = Plus(iss, 1)]]
                /\ net' = [net EXCEPT ![Peer(h)] = Append(@, o)]
      BY <1>3 DEF OpenActive
    <2> DEFINE q == [p EXCEPT !.rcv_wnd = BufSize, !.iss = iss]
               o == Output(q, {"SYN"}, <<>>)
               r == [q EXCEPT !.state = "SYN_SENT", !.queue = QueueAdd(q, o),
                              !.snd_una = iss, !.snd_nxt = Plus(iss, 1)]
    <2>2. iss \in SeqNum /\ Plus(iss, 1) \in SeqNum /\ BufSize \in Wnd /\ BufSize \in Nat
      BY IssType, SuccType, SizeAssumption DEF Wnd
    <2>3. q \in Pcb /\ q.rcv_wnd = BufSize /\ q.buf = p.buf
      BY <1>1, <2>2 DEF Pcb
    <2>4. pcb' = [pcb EXCEPT ![h] = r] /\ net' = [net EXCEPT ![Peer(h)] = Append(@, o)]
      BY <2>1
    <2> HIDE DEF q
    <2>5. o \in Segment
      BY <2>3, ControlOutput
    <2>6. QueueAdd(q, o) \in Seq(Entry)
      BY <2>3, <2>5, QueueAddType
    <2>7. r \in Pcb /\ r.rcv_wnd = BufSize /\ r.buf = p.buf
      BY <2>2, <2>3, <2>6 DEF Pcb, PcbState
    <2>8. Holds(r)
      BY <1>1, <2>2, <2>7 DEF Holds, Remain, Pcb
    <2> HIDE DEF r, o
    <2>9. pcb' \in [Host -> Pcb] /\ BufInv'
      BY <2>4, <2>7, <2>8 DEF IInv, TypeOK, BufInv
    <2>10. Append(net[Peer(h)], o) \in Seq(Segment)
      BY <1>1, <2>5 DEF IInv, TypeOK
    <2>11. net' \in [Host -> Seq(Segment)]
      BY <2>4, <2>10 DEF IInv, TypeOK
    <2>12. thread' \in [Host -> Thread]
      BY <1>1, <1>3 DEF OpenActive, IInv, TypeOK, Thread, PcbState
    <2> QED
      BY <1>3, <2>9, <2>11, <2>12 DEF OpenActive, IInv, TypeOK
  <1>4. CASE OpenFails(h)
    <2>1. thread' \in [Host -> Thread]
      BY <1>1, <1>4 DEF OpenFails, IInv, TypeOK, Thread
    <2> QED
      BY <1>4, <2>1 DEF OpenFails, IInv, TypeOK, BufInv
  <1>5. CASE OpenResume(h)
    <2>1. [thread[h] EXCEPT !.wait = "asleep", !.saved = p.state] \in Thread
      BY <1>1 DEF Thread, Pcb
    <2>2. thread' \in [Host -> Thread]
      <3>1. CASE thread' = [thread EXCEPT ![h].wait = "asleep", ![h].saved = p.state]
        BY <2>1, <3>1 DEF IInv, TypeOK
      <3>2. CASE thread' = [thread EXCEPT ![h] = Idle(@)]
        BY <1>1, <3>2, ThreadOps DEF IInv, TypeOK
      <3> QED
        BY <1>5, <3>1, <3>2 DEF OpenResume
    <2>3. pcb' = pcb \/ pcb' = [pcb EXCEPT ![h] = Zeroed]
      BY <1>5 DEF OpenResume
    <2>4. Holds(Zeroed)
      BY DEF Holds, Connected, Zeroed, Synchronized
    <2>5. pcb' \in [Host -> Pcb] /\ BufInv'
      BY <2>3, <2>4, ZeroedType DEF IInv, TypeOK, BufInv
    <2> QED
      BY <1>5, <2>2, <2>5 DEF OpenResume, IInv, TypeOK
  <1> QED
    BY <1>2, <1>3, <1>4, <1>5

LEMMA ChunkType ==
  ASSUME IInv, NEW h \in Host, NEW j \in Nat \ {0}, NEW m \in Nat
  PROVE  Chunk(h, j, m) \in Seq(Byte)
  <1> DEFINE first == (j - 1) * Mss
             last == IF j * Mss < m THEN j * Mss ELSE m
             d == last - first
             F == [k \in 1..d |-> sent[h] + first + k]
  <1>1. first \in Nat /\ j * Mss \in Nat /\ sent[h] \in Nat
    BY SizeAssumption DEF IInv, TypeOK
  <1>2. d \in Int
    BY <1>1
  <1>3. F = Chunk(h, j, m)
    BY DEF Chunk
  <1> HIDE DEF first, d
  <1>4. \A k \in 1..d : sent[h] + first + k \in Nat
    BY <1>1, <1>2
  <1>5. CASE d \in Nat
    <2>1. F \in [1..d -> Nat]
      BY <1>4
    <2> HIDE DEF F
    <2> QED
      BY <1>3, <1>5, <2>1 DEF Byte
  <1>6. CASE d \notin Nat
    <2>1. 1..d = 1..0
      BY <1>2, <1>6
    <2>2. F \in [1..0 -> Nat]
      BY <1>4, <2>1
    <2> HIDE DEF F
    <2> QED
      BY <1>3, <2>2 DEF Byte
  <1> QED
    BY <1>5, <1>6

LEMMA BurstType ==
  ASSUME IInv, NEW h \in Host, NEW m \in Nat
  PROVE  Burst(h, m) \in Seq(Segment)
  <1> DEFINE n == (m + Mss - 1) \div Mss
             S(j) == [Output(pcb[h], {"ACK", "PSH"}, Chunk(h, j, m))
                        EXCEPT !.seq = Plus(@, (j - 1) * Mss)]
  <1>1. n \in Nat
    <2>1. m + Mss - 1 \in Nat /\ Mss \in Nat \ {0}
      BY SizeAssumption
    <2>2. \A a \in Nat, b \in Nat \ {0} : a \div b \in Nat
      OBVIOUS
    <2> QED
      BY <2>1, <2>2
  <1>2. ASSUME NEW j \in 1..n PROVE S(j) \in Segment
    <2> DEFINE o == Output(pcb[h], {"ACK", "PSH"}, Chunk(h, j, m))
    <2>1. j \in Nat \ {0} /\ (j - 1) * Mss \in Nat
      BY <1>1, SizeAssumption
    <2>2. pcb[h] \in Pcb /\ Chunk(h, j, m) \in Seq(Byte) /\ {"ACK", "PSH"} \in SUBSET Flag
      BY <2>1, InContext, ChunkType DEF Flag
    <2>3. o \in Segment
      BY <2>2, OutputType
    <2> HIDE DEF o
    <2>4. o.seq \in Nat
      BY <2>3, SizeAssumption DEF Segment, SeqNum
    <2>5. Plus(o.seq, (j - 1) * Mss) \in SeqNum
      BY <2>1, <2>4, PlusType
    <2>6. [o EXCEPT !.seq = Plus(@, (j - 1) * Mss)] \in Segment
      BY <2>3, <2>5 DEF Segment
    <2> QED
      BY <2>6 DEF o
  <1>3. Burst(h, m) = [j \in 1..n |-> S(j)]
    BY DEF Burst
  <1> HIDE DEF n, S
  <1>4. Burst(h, m) \in [1..n -> Segment]
    BY <1>2, <1>3
  <1> QED
    BY <1>1, <1>4

LEMMA CapType == \A p \in Pcb : Cap(p) \in Nat
  <1>1. \A x \in Int : x % SeqSpace \in Nat
    BY SizeAssumption
  <1>2. \A p \in Pcb : p.snd_wnd \in Wnd /\ p.snd_nxt \in SeqNum /\ p.snd_una \in SeqNum
    BY DEF Pcb
  <1>3. \A a \in Wnd, b, c \in SeqNum : a - (b - c) \in Int
    BY SizeAssumption DEF Wnd, SeqNum
  <1> QED
    BY <1>1, <1>2, <1>3, Zenon DEF Cap

LEMMA SendLoopType ==
  ASSUME IInv, NEW h \in Host, NEW n \in Nat, SendLoop(h, n)
  PROVE  IInv'
  <1> DEFINE p == pcb[h]
             m == IF n <= Cap(p) THEN n ELSE Cap(p)
             out == Burst(h, m)
             add == [j \in DOMAIN out |->
                       [seq |-> out[j].seq, flg |-> out[j].flg, data |-> out[j].data,
                        tries |-> 0]]
             t == [thread[h] EXCEPT !.pc = "send", !.togo = n - m]
             r == [p EXCEPT !.queue = @ \o add, !.snd_nxt = Plus(@, m)]
  <1>1. p \in Pcb /\ Holds(p) /\ thread[h] \in Thread /\ Peer(h) \in Host
    BY InContext, PeerType
  <1>2. m \in Nat /\ n - m \in Nat
    BY <1>1, CapType
  <1>3. /\ pcb' = [pcb EXCEPT ![h] = r]
        /\ net' = [net EXCEPT ![Peer(h)] = @ \o out]
        /\ sent' = [sent EXCEPT ![h] = @ + m]
        /\ thread' = [thread EXCEPT ![h] = IF m = n THEN Idle(t) ELSE Sleep(p, t)]
        /\ UNCHANGED <<got, hung, faults>>
    BY DEF SendLoop, IInv, TypeOK
  <1>4. t \in Thread
    <2> HIDE DEF m
    <2> QED
      BY <1>1, <1>2 DEF Thread
  <1> HIDE DEF m
  <1>5. out \in Seq(Segment)
    BY <1>2, BurstType
  <1> HIDE DEF out
  <1>6. add \in Seq(Entry)
    <2> DEFINE E(j) == [seq |-> out[j].seq, flg |-> out[j].flg, data |-> out[j].data,
                        tries |-> 0]
    <2>1. Len(out) \in Nat /\ DOMAIN out = 1..Len(out)
      BY <1>5
    <2>2. \A j \in 1..Len(out) : out[j] \in Segment
      BY <1>5
    <2>3. \A j \in 1..Len(out) : E(j) \in Entry
      BY <2>2, BoundAssumption DEF Segment, Entry
    <2>4. add = [j \in 1..Len(out) |-> E(j)]
      BY <2>1
    <2> HIDE DEF E, add
    <2>5. add \in [1..Len(out) -> Entry]
      BY <2>3, <2>4
    <2> QED
      BY <2>1, <2>5
  <1> HIDE DEF add, t
  <1>7. p.snd_nxt \in Nat /\ p.queue \o add \in Seq(Entry)
    BY <1>1, <1>6, SizeAssumption DEF Pcb, SeqNum
  <1>8. Plus(p.snd_nxt, m) \in SeqNum
    BY <1>2, <1>7, PlusType
  <1>9. r \in Pcb /\ r.buf = p.buf /\ r.rcv_wnd = p.rcv_wnd /\ r.state = p.state
    BY <1>1, <1>7, <1>8 DEF Pcb
  <1> HIDE DEF r
  <1>10. Holds(r)
    BY <1>1, <1>9 DEF Holds, Remain, Connected
  <1>11. pcb' \in [Host -> Pcb] /\ BufInv'
    BY <1>3, <1>9, <1>10 DEF IInv, TypeOK, BufInv
  <1>12. net[Peer(h)] \o out \in Seq(Segment)
    BY <1>1, <1>5 DEF IInv, TypeOK
  <1>13. net' \in [Host -> Seq(Segment)]
    BY <1>3, <1>12 DEF IInv, TypeOK
  <1>14. thread' \in [Host -> Thread]
    BY <1>1, <1>3, <1>4, ThreadOps DEF IInv, TypeOK
  <1>15. sent' \in [Host -> Nat]
    BY <1>2, <1>3 DEF IInv, TypeOK
  <1> QED
    BY <1>3, <1>11, <1>13, <1>14, <1>15 DEF IInv, TypeOK

LEMMA ZeroedHolds == Holds(Zeroed)
  BY DEF Holds, Connected, Zeroed, Synchronized

LEMMA SendFailsType ==
  ASSUME IInv, NEW h \in Host, NEW n \in Nat, SendFails(h, n)
  PROVE  IInv'
  <1> DEFINE p == pcb[h]
             m == IF n <= Cap(p) THEN n ELSE Cap(p)
             out == Burst(h, m)
  <1>1. p \in Pcb /\ thread[h] \in Thread /\ Peer(h) \in Host
    BY InContext, PeerType
  <1>2. m \in Nat
    BY <1>1, CapType
  <1>3. PICK j \in DOMAIN out :
          /\ net' = [net EXCEPT ![Peer(h)] = @ \o SubSeq(out, 1, j - 1)]
          /\ sent' = [sent EXCEPT ![h] = @ + (j - 1) * Mss]
    BY DEF SendFails
  <1>4. /\ pcb' = [pcb EXCEPT ![h] = Zeroed] /\ thread' = [thread EXCEPT ![h] = Idle(@)]
        /\ UNCHANGED <<got, hung, faults>>
    BY DEF SendFails
  <1> HIDE DEF m
  <1>5. out \in Seq(Segment)
    BY <1>2, BurstType
  <1> HIDE DEF out
  <1>6. j \in 1..Len(out) /\ Len(out) \in Nat
    BY <1>3, <1>5
  <1>7. SubSeq(out, 1, j - 1) \in Seq(Segment)
    BY <1>5, <1>6
  <1>8. net[Peer(h)] \o SubSeq(out, 1, j - 1) \in Seq(Segment)
    BY <1>1, <1>7 DEF IInv, TypeOK
  <1>9. net' \in [Host -> Seq(Segment)]
    BY <1>3, <1>8 DEF IInv, TypeOK
  <1>10. (j - 1) * Mss \in Nat
    BY <1>6, SizeAssumption
  <1>11. sent' \in [Host -> Nat]
    BY <1>3, <1>10 DEF IInv, TypeOK
  <1>12. pcb' \in [Host -> Pcb] /\ BufInv'
    BY <1>4, ZeroedType, ZeroedHolds DEF IInv, TypeOK, BufInv
  <1>13. thread' \in [Host -> Thread]
    BY <1>1, <1>4, ThreadOps DEF IInv, TypeOK
  <1> QED
    BY <1>4, <1>9, <1>11, <1>12, <1>13 DEF IInv, TypeOK

LEMMA ReturnsType ==
  ASSUME IInv, NEW h \in Host, Returns(h, pcb[h]) \/ Returns(h, Cleared(pcb[h]))
  PROVE  IInv'
  <1>1. pcb[h] \in Pcb /\ Holds(pcb[h]) /\ thread[h] \in Thread
    BY InContext
  <1>2. Cleared(pcb[h]) \in Pcb /\ Holds(Cleared(pcb[h]))
    BY <1>1 DEF Cleared, Pcb, Holds, Remain, Connected
  <1>3. PICK q \in Pcb : Holds(q) /\ Returns(h, q)
    BY <1>1, <1>2
  <1>4. pcb' \in [Host -> Pcb] /\ BufInv'
    BY <1>3 DEF Returns, IInv, TypeOK, BufInv
  <1>5. thread' \in [Host -> Thread]
    BY <1>1, <1>3, ThreadOps DEF Returns, IInv, TypeOK
  <1> QED
    BY <1>3, <1>4, <1>5 DEF Returns, IInv, TypeOK

LEMMA SendType ==
  ASSUME IInv, NEW h \in Host, Send(h) \/ SendResume(h)
  PROVE  IInv'
  <1>1. CASE Send(h)
    <2>1. PICK n \in 1..(Stream[h] - sent[h]) : SendLoop(h, n) \/ SendFails(h, n)
      BY <1>1 DEF Send
    <2>2. n \in Nat
      BY SizeAssumption DEF IInv, TypeOK
    <2> QED
      BY <2>1, <2>2, SendLoopType, SendFailsType
  <1>2. CASE SendResume(h)
    <2>1. thread[h].togo \in Nat
      BY InContext DEF Thread
    <2>2. CASE Returns(h, pcb[h]) \/ Returns(h, Cleared(pcb[h]))
      BY <2>2, ReturnsType
    <2>3. CASE SendLoop(h, thread[h].togo) \/ SendFails(h, thread[h].togo)
      BY <2>1, <2>3, SendLoopType, SendFailsType
    <2> QED
      BY <1>2, <2>2, <2>3 DEF SendResume
  <1> QED
    BY <1>1, <1>2

LEMMA ReadType ==
  ASSUME IInv, NEW h \in Host, NEW k \in 1..BufSize, Read(h, k)
  PROVE  IInv'
  <1> DEFINE p == pcb[h]
             b == SubSeq(p.buf, k + 1, Len(p.buf))
             w == (p.rcv_wnd + k) % (BufSize + 1)
             r == [p EXCEPT !.buf = b, !.rcv_wnd = w]
  <1>1. p \in Pcb /\ Holds(p) /\ thread[h] \in Thread
    BY InContext
  <1>2. /\ p.rcv_wnd \in Nat /\ BufSize \in Nat /\ k \in Nat
        /\ 1 <= k /\ k <= BufSize - p.rcv_wnd
    BY <1>1, SizeAssumption DEF Read, Remain, Pcb, Wnd
  <1>3. Len(p.buf) >= BufSize - p.rcv_wnd /\ p.buf \in Seq(Byte)
    BY <1>1 DEF Read, Readable, Holds, Remain, Connected, Synchronized, PcbState, Pcb
  <1>4. Len(p.buf) \in Nat /\ k <= Len(p.buf)
    BY <1>2, <1>3
  <1>5. w = p.rcv_wnd + k /\ w \in 0..BufSize
    BY <1>2
  <1>6. b \in Seq(Byte) /\ Len(b) = Len(p.buf) - k
    BY <1>2, <1>3, <1>4
  <1>7. SubSeq(p.buf, 1, k) \in Seq(Byte)
    BY <1>2, <1>3, <1>4
  <1>8. /\ pcb' = [pcb EXCEPT ![h] = r]
        /\ got' = [got EXCEPT ![h] = @ \o SubSeq(p.buf, 1, k)]
        /\ thread' = [thread EXCEPT ![h] = Idle(@)]
        /\ UNCHANGED <<net, sent, hung, faults>>
    BY DEF Read, IInv, TypeOK
  <1> HIDE DEF b, w
  <1>9. r \in Pcb /\ r.buf = b /\ r.rcv_wnd = w
    BY <1>1, <1>5, <1>6 DEF Pcb, Wnd
  <1> HIDE DEF r
  <1>10. Holds(r)
    <2> DEFINE l == Len(p.buf)
               v == p.rcv_wnd
    <2>1. /\ l \in Nat /\ v \in Nat /\ k \in Nat /\ BufSize \in Nat
          /\ l >= BufSize - v /\ w = v + k /\ Len(b) = l - k
      BY <1>2, <1>3, <1>4, <1>5, <1>6
    <2> HIDE DEF l, v
    <2>2. Len(b) >= BufSize - w
      BY <2>1
    <2> QED
      BY <1>9, <2>2 DEF Holds, Remain
  <1>11. pcb' \in [Host -> Pcb] /\ BufInv'
    BY <1>8, <1>9, <1>10 DEF IInv, TypeOK, BufInv
  <1>12. got[h] \o SubSeq(p.buf, 1, k) \in Seq(Byte)
    BY <1>7 DEF IInv, TypeOK
  <1>13. got' \in [Host -> Seq(Byte)]
    BY <1>8, <1>12 DEF IInv, TypeOK
  <1>14. thread' \in [Host -> Thread]
    BY <1>1, <1>8, ThreadOps DEF IInv, TypeOK
  <1> QED
    BY <1>8, <1>11, <1>13, <1>14 DEF IInv, TypeOK

LEMMA ReceiveType ==
  ASSUME IInv, NEW h \in Host, Receive(h) \/ ReceiveResume(h)
  PROVE  IInv'
  <1>1. CASE ReceiveSleeps(h)
    <2>1. [thread[h] EXCEPT !.pc = "receive"] \in Thread /\ pcb[h] \in Pcb
      BY InContext DEF Thread
    <2>2. thread' \in [Host -> Thread]
      BY <1>1, <2>1, ThreadOps DEF ReceiveSleeps, IInv, TypeOK
    <2> QED
      BY <1>1, <2>2 DEF ReceiveSleeps, IInv, TypeOK, BufInv
  <1>2. CASE \E k \in 1..BufSize : Read(h, k)
    BY <1>2, ReadType
  <1>3. CASE Returns(h, pcb[h]) \/ Returns(h, Cleared(pcb[h]))
    BY <1>3, ReturnsType
  <1> QED
    BY <1>1, <1>2, <1>3 DEF Receive, ReceiveResume

LEMMA CloseType ==
  ASSUME IInv, NEW h \in Host, CloseFin(h) \/ CloseUnconnected(h)
  PROVE  IInv'
  <1> DEFINE p == pcb[h]
  <1>1. p \in Pcb /\ Holds(p) /\ thread[h] \in Thread /\ Peer(h) \in Host
    BY InContext, PeerType
  <1>2. CASE CloseFin(h)
    <2> DEFINE o == Output(p, {"ACK", "FIN"}, <<>>)
               r == [p EXCEPT !.state = IF @ = "CLOSE_WAIT" THEN "LAST_ACK" ELSE "FIN_WAIT1",
                              !.queue = QueueAdd(p, o), !.snd_nxt = Plus(@, 1)]
    <2>1. /\ pcb' = [pcb EXCEPT ![h] = r]
          /\ net' = [net EXCEPT ![Peer(h)] = Append(@, o)]
          /\ thread' = [thread EXCEPT ![h] = Wakeup(@)]
          /\ UNCHANGED <<sent, got, hung, faults>>
      BY <1>2 DEF CloseFin, IInv, TypeOK
    <2>2. p.state \in {"SYN_RECEIVED", "ESTABLISHED", "CLOSE_WAIT"}
      BY <1>2 DEF CloseFin
    <2>3. o \in Segment
      BY <1>1, ControlOutput
    <2> HIDE DEF o
    <2>4. QueueAdd(p, o) \in Seq(Entry) /\ Plus(p.snd_nxt, 1) \in SeqNum
      BY <1>1, <2>3, QueueAddType, SuccType DEF Pcb
    <2>5. r \in Pcb /\ r.buf = p.buf /\ r.rcv_wnd = p.rcv_wnd
      BY <1>1, <2>4 DEF Pcb, PcbState
    <2> HIDE DEF r
    <2>6. Holds(r)
      BY <1>1, <2>2, <2>5 DEF Holds, Remain, Connected, Synchronized, PcbState
    <2>7. pcb' \in [Host -> Pcb] /\ BufInv'
      BY <2>1, <2>5, <2>6 DEF IInv, TypeOK, BufInv
    <2>8. Append(net[Peer(h)], o) \in Seq(Segment)
      BY <1>1, <2>3 DEF IInv, TypeOK
    <2>9. net' \in [Host -> Seq(Segment)]
      BY <2>1, <2>8 DEF IInv, TypeOK
    <2>10. thread' \in [Host -> Thread]
      BY <1>1, <2>1, ThreadOps DEF IInv, TypeOK
    <2> QED
      BY <2>1, <2>7, <2>9, <2>10 DEF IInv, TypeOK
  <1>3. CASE CloseUnconnected(h)
    <2> DEFINE r == [p EXCEPT !.state = "CLOSED"]
    <2>1. r \in Pcb /\ r.state = "CLOSED"
      BY <1>1 DEF Pcb, PcbState
    <2>2. Release(h, r) /\ UNCHANGED <<thread, net, sent, got, faults>>
      BY <1>3 DEF CloseUnconnected
    <2> HIDE DEF r
    <2>3. ~Connected(r)
      BY <2>1 DEF Connected, Synchronized
    <2>4. pcb' \in [Host -> Pcb] /\ BufInv' /\ hung' \in [Host -> BOOLEAN]
      BY <2>1, <2>2, <2>3, ReleaseType
    <2> QED
      BY <2>2, <2>4 DEF IInv, TypeOK
  <1> QED
    BY <1>2, <1>3

LEMMA FaultType ==
  ASSUME IInv, NEW h \in Host, Lose(h) \/ Restart(h)
  PROVE  IInv'
  <1> USE BoundAssumption
  <1>1. CASE Lose(h)
    <2>1. PICK i \in 1..Len(net[h]) : net' = [net EXCEPT ![h] = RemoveSeg(@, i)]
      BY <1>1 DEF Lose
    <2>2. RemoveSeg(net[h], i) \in Seq(Segment)
      BY <2>1, RemoveSegType DEF IInv, TypeOK
    <2>3. net' \in [Host -> Seq(Segment)]
      BY <2>1, <2>2 DEF IInv, TypeOK
    <2>4. faults' \in [lost : 0..MaxLoss, restarts : 0..MaxRestart]
      <3> DEFINE n == faults.lost + 1
      <3>1. faults \in [lost : 0..MaxLoss, restarts : 0..MaxRestart]
        BY DEF IInv, TypeOK
      <3>2. n \in 0..MaxLoss
        BY <1>1, <3>1 DEF Lose
      <3>3. faults' = [faults EXCEPT !.lost = n]
        BY <1>1 DEF Lose
      <3> HIDE DEF n
      <3> QED
        BY <3>1, <3>2, <3>3
    <2> QED
      BY <1>1, <2>3, <2>4 DEF Lose, IInv, TypeOK, BufInv
  <1>2. CASE Restart(h)
    <2>1. faults' \in [lost : 0..MaxLoss, restarts : 0..MaxRestart]
      <3> DEFINE n == faults.restarts + 1
      <3>1. faults \in [lost : 0..MaxLoss, restarts : 0..MaxRestart]
        BY DEF IInv, TypeOK
      <3>2. n \in 0..MaxRestart
        BY <1>2, <3>1 DEF Restart
      <3>3. faults' = [faults EXCEPT !.restarts = n]
        BY <1>2 DEF Restart
      <3> HIDE DEF n
      <3> QED
        BY <3>1, <3>2, <3>3
    <2>2. pcb' \in [Host -> Pcb] /\ BufInv'
      BY <1>2, ZeroedType, ZeroedHolds DEF Restart, IInv, TypeOK, BufInv
    <2>3. thread' \in [Host -> Thread] /\ hung' \in [Host -> BOOLEAN]
      BY <1>2, StartedType DEF Restart, IInv, TypeOK
    <2>4. sent' \in [Host -> Nat] /\ got' \in [Host -> Seq(Byte)]
      BY <1>2 DEF Restart, IInv, TypeOK
    <2> QED
      BY <1>2, <2>1, <2>2, <2>3, <2>4 DEF Restart, IInv, TypeOK
  <1> QED
    BY <1>1, <1>2

LEMMA InitIInv == Init => IInv
  <1> SUFFICES ASSUME Init PROVE IInv
    OBVIOUS
  <1>1. pcb \in [Host -> Pcb] /\ BufInv
    BY ZeroedType, ZeroedHolds DEF Init, BufInv
  <1>2. thread \in [Host -> Thread]
    BY StartedType DEF Init
  <1>3. faults \in [lost : 0..MaxLoss, restarts : 0..MaxRestart]
    BY BoundAssumption DEF Init
  <1> QED
    BY <1>1, <1>2, <1>3 DEF Init, IInv, TypeOK

LEMMA NextIInv == IInv /\ [Next]_vars => IInv'
  <1> SUFFICES ASSUME IInv, [Next]_vars PROVE IInv'
    OBVIOUS
  <1>1. CASE Next
    <2>1. PICK h \in Host :
            \/ AppStep(h) \/ TcpTimer(h) \/ Interrupt(h) \/ Restart(h) \/ Lose(h)
            \/ \E i \in 1..(MaxSwap + 1) : TcpInput(h, i)
      BY <1>1 DEF Next
    <2>2. CASE AppStep(h)
      BY <2>2, OpenType, SendType, ReceiveType, CloseType DEF AppStep
    <2>3. CASE TcpTimer(h)
      BY <2>3, TimerRetransmitType, TimerTimeWaitType DEF TcpTimer
    <2>4. CASE Interrupt(h)
      BY <2>4, InterruptType
    <2>5. CASE Restart(h) \/ Lose(h)
      BY <2>5, FaultType
    <2>6. CASE \E i \in 1..(MaxSwap + 1) : TcpInput(h, i)
      BY <2>6, TcpInputType
    <2> QED
      BY <2>1, <2>2, <2>3, <2>4, <2>5, <2>6
  <1>2. CASE UNCHANGED vars
    BY <1>2 DEF vars, IInv, TypeOK, BufInv
  <1> QED
    BY <1>1, <1>2

\* The state of tcp.c keeps its types for every size of the sequence space, of
\* the receive buffer and of the segments, and whatever is lost or reordered:
\* in particular rcv.wnd never leaves 0..sizeof(buf) and tcp_receive never
\* reads past the bytes it holds.
THEOREM TypeCorrect == Spec => []TypeOK
  <1>1. IInv => TypeOK
    BY DEF IInv
  <1> QED
    BY InitIInv, NextIInv, <1>1, PTL DEF Spec
=============================================================================
