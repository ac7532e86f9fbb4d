--------------------------- MODULE TcpConnection ---------------------------
(***************************************************************************)
(* One TCP connection between two hosts that both run tcp.c, opened with   *)
(* tcp_open_rfc793 (so that a listening PCB itself becomes the connection).*)
(* Each host has one PCB, one application thread and the interrupt thread  *)
(* that runs tcp_input, tcp_timer and event_handler; every handler and     *)
(* every stretch of a user call between two sleeps holds the TCP mutex and *)
(* is one action.  The network may lose and reorder segments.              *)
(***************************************************************************)
EXTENDS Integers, Sequences, FiniteSets

CONSTANTS
  Client, Server,  \* the two hosts
  Active,          \* the hosts that may open actively
  Passive,         \* the hosts that may open passively
  SeqSpace,        \* 2^32: sequence numbers are uint32_t
  Iss,             \* the initial sequence numbers random() may return
  BufSize,         \* sizeof(pcb->buf); a window is a uint16_t, so it wraps at BufSize + 1
  Mss,             \* segment payload limit (device MTU minus headers)
  Stream,          \* how many bytes each host's application sends at most
  MaxRtx,          \* retransmissions that fit before TCP_RETRANSMIT_DEADLINE
  MaxLoss,         \* bound: segments the network may lose
  MaxSwap,         \* bound: segments a segment may overtake (0: FIFO network)
  MaxRestart,      \* bound: how often a host's process ends and is started again
  Prompt,          \* TRUE: what is in flight arrives or is lost before a timer expires
  Events,          \* the optional events that may happen, a subset of AllEvents
  DestroyBusy      \* what pthread_cond_destroy does while a thread waits: "hang", "return"

Host == {Client, Server}

\* "interrupt": SIGINT; "output": ip_output fails; "close": a second thread of
\* the application calls tcp_close; "refuse": an active open may come before
\* the peer has opened; "early": an application closes before it has sent and
\* received everything; "halfclose": it goes on receiving after its tcp_close.
AllEvents == {"interrupt", "output", "close", "refuse", "early", "halfclose"}

ASSUME HostAssumption == Client # Server /\ Active \subseteq Host /\ Passive \subseteq Host

ASSUME SizeAssumption ==
  /\ SeqSpace \in Nat \ {0} /\ BufSize \in Nat \ {0} /\ Mss \in Nat \ {0}
  /\ BufSize < SeqSpace
  /\ \A i \in Iss : i \in Nat /\ 2 * i < SeqSpace   \* random() returns 31 bits
  /\ Stream \in [Host -> Nat]

ASSUME BoundAssumption ==
  /\ MaxRtx \in Nat /\ MaxLoss \in Nat /\ MaxSwap \in Nat
  /\ MaxRestart \in Nat /\ Prompt \in BOOLEAN
  /\ Events \subseteq AllEvents
  /\ DestroyBusy \subseteq {"hang", "return"} /\ DestroyBusy # {}

VARIABLES
  pcb,     \* pcb[h]: the protocol control block of host h
  thread,  \* thread[h]: the application thread of host h
  net,     \* net[h]: the segments on their way to host h
  sent,    \* sent[h]: bytes of its stream h has handed to the network (history)
  got,     \* got[h]: bytes tcp_receive has returned on h (history)
  hung,    \* hung[h]: a thread of h blocks forever with the TCP mutex held
  faults   \* how many segments were lost and hosts restarted so far

vars == <<pcb, thread, net, sent, got, hung, faults>>

Peer(h) == IF h = Client THEN Server ELSE Client

SeqNum == 0..(SeqSpace - 1)
Wnd == 0..BufSize
Flag == {"SYN", "ACK", "FIN", "RST", "PSH"}
Byte == Nat

PcbState == {"FREE", "CLOSED", "LISTEN", "SYN_SENT", "SYN_RECEIVED",
             "ESTABLISHED", "FIN_WAIT1", "FIN_WAIT2", "CLOSING",
             "TIME_WAIT", "CLOSE_WAIT", "LAST_ACK"}

\* The states in which the sequence numbers of both sides are known.
Synchronized == PcbState \ {"FREE", "CLOSED", "LISTEN", "SYN_SENT"}

Segment == [seq : SeqNum, ack : SeqNum, flg : SUBSET Flag, wnd : Wnd,
            data : Seq(Byte)]

\* struct tcp_queue_entry; its clocks are the number of retransmissions so far.
Entry == [seq : SeqNum, flg : SUBSET Flag, data : Seq(Byte), tries : 0..MaxRtx]

Pcb == [state : PcbState, iss : SeqNum, irs : SeqNum,
        snd_nxt : SeqNum, snd_una : SeqNum, snd_wnd : Wnd,
        snd_wl1 : SeqNum, snd_wl2 : SeqNum,
        rcv_nxt : SeqNum, rcv_wnd : Wnd,
        buf : Seq(Byte), queue : Seq(Entry), interrupted : BOOLEAN]

\* memset(pcb, 0, sizeof(*pcb))
Zeroed == [state |-> "FREE", iss |-> 0, irs |-> 0,
           snd_nxt |-> 0, snd_una |-> 0, snd_wnd |-> 0,
           snd_wl1 |-> 0, snd_wl2 |-> 0,
           rcv_nxt |-> 0, rcv_wnd |-> 0,
           buf |-> <<>>, queue |-> <<>>, interrupted |-> FALSE]

\* An application thread is idle, or inside the user call pc: asleep on the
\* condition variable, or signalled and about to take the mutex again.
Thread == [pc : {"idle", "open", "send", "receive"},
           wait : {"no", "asleep", "woken"},
           saved : PcbState,   \* tcp_open_rfc793's local variable state
           togo : Nat,         \* tcp_send's len - sent
           opened : BOOLEAN]

Started == [pc |-> "idle", wait |-> "no", saved |-> "FREE", togo |-> 0,
            opened |-> FALSE]

Idle(t) == [t EXCEPT !.pc = "idle", !.wait = "no"]

TypeOK ==
  /\ pcb \in [Host -> Pcb]
  /\ thread \in [Host -> Thread]
  /\ net \in [Host -> Seq(Segment)]
  /\ sent \in [Host -> Nat]
  /\ got \in [Host -> Seq(Byte)]
  /\ hung \in [Host -> BOOLEAN]
  /\ faults \in [lost : 0..MaxLoss, restarts : 0..MaxRestart]

Init ==
  /\ pcb = [h \in Host |-> Zeroed]
  /\ thread = [h \in Host |-> Started]
  /\ net = [h \in Host |-> <<>>]
  /\ sent = [h \in Host |-> 0]
  /\ got = [h \in Host |-> <<>>]
  /\ hung = [h \in Host |-> FALSE]
  /\ faults = [lost |-> 0, restarts |-> 0]
-----------------------------------------------------------------------------
(* Sequence numbers, segments and the retransmit queue *)

\* Mutant of Plus: the sum does not wrap.
PlusWide(a, b) == a + b

\* uint32_t addition; comparisons in the code are plain, not modular.
Plus(a, b) == (a + b) % SeqSpace

\* seg.len, as tcp_input computes it: SYN and FIN take a sequence number each.
SegLen(s) == Len(s.data) + (IF "SYN" \in s.flg THEN 1 ELSE 0)
                         + (IF "FIN" \in s.flg THEN 1 ELSE 0)

\* Mutant of Output: tcp_output without the special case for SYN.
OutputSynAtNxt(p, flg, data) ==
  [seq |-> p.snd_nxt, ack |-> p.rcv_nxt, flg |-> flg, wnd |-> p.rcv_wnd, data |-> data]

\* The segment tcp_output builds; a SYN is sent at iss, all else at snd.nxt.
Output(p, flg, data) ==
  [seq |-> IF "SYN" \in flg THEN p.iss ELSE p.snd_nxt, ack |-> p.rcv_nxt,
   flg |-> flg, wnd |-> p.rcv_wnd, data |-> data]

\* tcp_retransmit_queue_add, for the segments tcp_output queues.
QueueAdd(p, s) ==
  Append(p.queue, [seq |-> s.seq, flg |-> s.flg, data |-> s.data, tries |-> 0])

\* Mutant of QueueCleanup: <= for <, so that the entry at una goes too.
QueueCleanupUna(q, una) ==
  LET acked == {k \in 1..Len(q) : \A j \in 1..k : q[j].seq <= una}
  IN  SubSeq(q, Cardinality(acked) + 1, Len(q))

\* tcp_retransmit_queue_cleanup: leading entries that begin before una go.
QueueCleanup(q, una) ==
  LET acked == {k \in 1..Len(q) : \A j \in 1..k : q[j].seq < una}
  IN  SubSeq(q, Cardinality(acked) + 1, Len(q))

\* The reset that answers a segment for which there is no connection.
Rst(s) ==
  IF "ACK" \in s.flg
  THEN [seq |-> s.ack, ack |-> 0, flg |-> {"RST"}, wnd |-> 0, data |-> <<>>]
  ELSE [seq |-> 0, ack |-> Plus(s.seq, SegLen(s)), flg |-> {"RST", "ACK"},
        wnd |-> 0, data |-> <<>>]

\* Mutant of InWindow: no lower bound, old segments pass.
InWindowOld(p, x) == x < Plus(p.rcv_nxt, p.rcv_wnd)

InWindow(p, x) == p.rcv_nxt <= x /\ x < Plus(p.rcv_nxt, p.rcv_wnd)

\* The first check of tcp_segment_arrives: the sequence number.
Acceptable(p, s) ==
  \/ p.rcv_wnd = 0 /\ SegLen(s) = 0 /\ s.seq = p.rcv_nxt
  \/ p.rcv_wnd # 0 /\ InWindow(p, s.seq)
  \/ p.rcv_wnd # 0 /\ SegLen(s) > 0 /\ InWindow(p, Plus(s.seq, SegLen(s) - 1))
-----------------------------------------------------------------------------
(* The fifth, seventh and eighth steps of tcp_segment_arrives on a PCB *)

\* A segment that acknowledges something new: una and the retransmit queue
\* move, and the window if the segment is not older than the last update.
AckNew(p, s) ==
  LET newer == \/ p.snd_wl1 < s.seq
               \/ p.snd_wl1 = s.seq /\ p.snd_wl2 <= s.ack
  IN  [p EXCEPT !.snd_una = s.ack,
                !.queue = QueueCleanup(@, s.ack),
                !.snd_wnd = IF newer THEN s.wnd ELSE @,
                !.snd_wl1 = IF newer THEN s.seq ELSE @,
                !.snd_wl2 = IF newer THEN s.ack ELSE @]

AckState(p, s) ==
  CASE p.state = "SYN_RECEIVED" -> "ESTABLISHED"
    [] p.state = "FIN_WAIT1" /\ s.ack = p.snd_nxt -> "FIN_WAIT2"
    [] p.state = "CLOSING" /\ s.ack = p.snd_nxt -> "TIME_WAIT"
    [] OTHER -> p.state

\* Mutant of AckStep: without the check that the acknowledgment is new.
AckStepOld(p, s) ==
  IF p.state = "TIME_WAIT" THEN p ELSE [AckNew(p, s) EXCEPT !.state = AckState(p, s)]

AckStep(p, s) ==
  LET q == IF p.snd_una < s.ack /\ s.ack <= p.snd_nxt THEN AckNew(p, s) ELSE p
  IN  IF p.state = "TIME_WAIT" THEN p ELSE [q EXCEPT !.state = AckState(p, s)]

TakesText(p, s) ==
  s.data # <<>> /\ p.state \in {"ESTABLISHED", "FIN_WAIT1", "FIN_WAIT2"}

\* The payload is copied behind what the buffer holds, whatever its sequence
\* number; rcv.nxt becomes the end of the segment.
TextStep(p, s) ==
  IF TakesText(p, s)
  THEN [p EXCEPT !.buf = @ \o s.data,
                 !.rcv_nxt = Plus(s.seq, SegLen(s)),
                 !.rcv_wnd = (@ - Len(s.data)) % (BufSize + 1)]
  ELSE p

\* Mutant of FinState: FIN-WAIT-2 stays.
FinStateStuck(p, s) ==
  CASE p.state \in {"SYN_RECEIVED", "ESTABLISHED"} -> "CLOSE_WAIT"
    [] p.state = "FIN_WAIT1" -> "CLOSING"
    [] OTHER -> p.state

FinState(p, s) ==
  CASE p.state \in {"SYN_RECEIVED", "ESTABLISHED"} -> "CLOSE_WAIT"
    [] p.state = "FIN_WAIT1" /\ s.ack = p.snd_nxt -> "TIME_WAIT"
    [] p.state = "FIN_WAIT1" /\ s.ack # p.snd_nxt -> "CLOSING"
    [] p.state = "FIN_WAIT2" -> "TIME_WAIT"
    [] OTHER -> p.state

FinStep(p, s) ==
  IF "FIN" \in s.flg
  THEN [p EXCEPT !.rcv_nxt = Plus(s.seq, 1), !.state = FinState(p, s)]
  ELSE p
-----------------------------------------------------------------------------
(* Sleeping, waking and releasing *)

\* sched_wakeup and sched_interrupt broadcast.
Wakeup(t) == [t EXCEPT !.wait = IF @ = "asleep" THEN "woken" ELSE @]

\* Mutants of Signals: no wake-up when the connection is established, when
\* text arrives, and when the FIN arrives.
SignalsNotText(p, a, t, s) ==
  p.state = "SYN_RECEIVED" \/ ("FIN" \in s.flg /\ t.state = "ESTABLISHED")
SignalsNotFin(p, a, t, s) ==
  p.state = "SYN_RECEIVED" \/ TakesText(a, s)

\* Where the fifth, seventh and eighth steps wake the sleepers: p, a and t are
\* the PCB before, after the acknowledgment and after the text.
Signals(p, a, t, s) ==
  \/ p.state = "SYN_RECEIVED"
  \/ p.state = "CLOSING" /\ a.state = "TIME_WAIT"
  \/ TakesText(a, s)
  \/ "FIN" \in s.flg /\ t.state = "ESTABLISHED"

\* sched_sleep returns at once with -1 when the context is interrupted.
Sleep(p, t) == IF p.interrupted THEN Idle(t) ELSE [t EXCEPT !.wait = "asleep"]

\* tcp_pcb_release of the PCB of h, whose value was set to p before.  With no
\* thread asleep on the condition variable it is destroyed and the PCB zeroed.
\* pthread_cond_destroy never returns -1, so the code that would wake a
\* sleeping thread first never runs: with a thread asleep the outcome is
\* undefined, and the call blocks with the mutex held or returns (and the
\* PCB is zeroed under the sleeper).
Release(h, p) ==
  \/ /\ thread[h].wait = "asleep" => "return" \in DestroyBusy
     /\ pcb' = [pcb EXCEPT ![h] = Zeroed]
     /\ UNCHANGED hung
  \/ /\ thread[h].wait = "asleep" /\ "hang" \in DestroyBusy
     /\ pcb' = [pcb EXCEPT ![h] = p]
     /\ hung' = [hung EXCEPT ![h] = TRUE]
-----------------------------------------------------------------------------
(* Segments arriving: tcp_input takes segment i off the network; each of    *)
(* the actions below is a path through tcp_segment_arrives.                 *)

RemoveSeg(q, i) == SubSeq(q, 1, i - 1) \o SubSeq(q, i + 1, Len(q))

Arriving(h, i) == ~hung[h] /\ i \in 1..Len(net[h])

Exchange(h, i, out) ==
  net' = [net EXCEPT ![h] = RemoveSeg(@, i), ![Peer(h)] = @ \o out]

\* The PCB becomes p, out is sent, and wake says whether ctx is signalled.
Handled(h, i, p, out, wake) ==
  /\ pcb' = [pcb EXCEPT ![h] = p]
  /\ Exchange(h, i, out)
  /\ thread' = IF wake THEN [thread EXCEPT ![h] = Wakeup(@)] ELSE thread
  /\ UNCHANGED <<sent, got, hung, faults>>

\* The connection is closed and its PCB released after out is sent.
Aborted(h, i, out) ==
  /\ Release(h, [pcb[h] EXCEPT !.state = "CLOSED"])
  /\ Exchange(h, i, out)
  /\ UNCHANGED <<thread, sent, got, faults>>

NoConnection(h, i) ==
  LET s == net[h][i] IN
  /\ Arriving(h, i)
  /\ pcb[h].state \in {"FREE", "CLOSED"}
  /\ Handled(h, i, pcb[h], IF "RST" \in s.flg THEN <<>> ELSE <<Rst(s)>>, FALSE)

ListenIgnores(h, i) ==
  LET s == net[h][i] IN
  /\ Arriving(h, i)
  /\ pcb[h].state = "LISTEN"
  /\ "RST" \in s.flg \/ s.flg \cap {"ACK", "SYN"} # {"SYN"}
  /\ Handled(h, i, pcb[h],
             IF "ACK" \in s.flg /\ "RST" \notin s.flg THEN <<Rst(s)>> ELSE <<>>,
             FALSE)

\* A SYN makes the listening PCB the connection (mode RFC793).
ListenSyn(h, i) ==
  LET s == net[h][i] IN
  /\ Arriving(h, i)
  /\ pcb[h].state = "LISTEN"
  /\ "SYN" \in s.flg /\ s.flg \cap {"ACK", "RST"} = {}
  /\ \E iss \in Iss :
       LET p == [pcb[h] EXCEPT !.state = "SYN_RECEIVED",
                               !.rcv_wnd = BufSize,
                               !.rcv_nxt = Plus(s.seq, 1), !.irs = s.seq,
                               !.iss = iss, !.snd_una = iss,
                               !.snd_nxt = Plus(iss, 1)]
           o == Output(p, {"SYN", "ACK"}, <<>>)
       IN  Handled(h, i, [p EXCEPT !.queue = QueueAdd(p, o)], <<o>>, FALSE)

\* In SYN-SENT: is the acknowledgment, when there is one, for our SYN?
SynSentAckOk(p, s) == p.iss < s.ack /\ s.ack <= p.snd_nxt

SynSentBadAck(h, i) ==
  LET s == net[h][i] IN
  /\ Arriving(h, i)
  /\ pcb[h].state = "SYN_SENT"
  /\ "ACK" \in s.flg /\ ~SynSentAckOk(pcb[h], s)
  /\ Handled(h, i, pcb[h], <<Rst(s)>>, FALSE)

SynSentReset(h, i) ==
  LET s == net[h][i] IN
  /\ Arriving(h, i)
  /\ pcb[h].state = "SYN_SENT"
  /\ {"RST", "ACK"} \subseteq s.flg /\ SynSentAckOk(pcb[h], s)
  /\ pcb[h].snd_una <= s.ack
  /\ Aborted(h, i, <<>>)

\* The remaining segments that SYN-SENT drops: a reset without an acceptable
\* acknowledgment, and what is neither SYN nor RST.
SynSentDrop(h, i) ==
  LET s == net[h][i] IN
  /\ Arriving(h, i)
  /\ pcb[h].state = "SYN_SENT"
  /\ \/ "ACK" \notin s.flg /\ ("RST" \in s.flg \/ "SYN" \notin s.flg)
     \/ /\ "ACK" \in s.flg /\ SynSentAckOk(pcb[h], s)
        /\ \/ "RST" \in s.flg /\ s.ack < pcb[h].snd_una
           \/ s.flg \cap {"RST", "SYN"} = {}
  /\ Handled(h, i, pcb[h], <<>>, FALSE)

SynSentSyn(h, i) ==
  LET s == net[h][i]
      acked == "ACK" \in s.flg /\ pcb[h].snd_una <= s.ack
      una == IF acked THEN s.ack ELSE pcb[h].snd_una
      p == [pcb[h] EXCEPT !.rcv_nxt = Plus(s.seq, 1), !.irs = s.seq,
                          !.snd_una = una,
                          !.queue = IF acked THEN QueueCleanup(@, una) ELSE @]
  IN
  /\ Arriving(h, i)
  /\ pcb[h].state = "SYN_SENT"
  /\ "SYN" \in s.flg /\ "RST" \notin s.flg
  /\ "ACK" \in s.flg => SynSentAckOk(pcb[h], s)
  /\ \/ /\ una > pcb[h].iss
        /\ Handled(h, i,
                   [p EXCEPT !.state = "ESTABLISHED", !.snd_wnd = s.wnd,
                             !.snd_wl1 = s.seq, !.snd_wl2 = s.ack],
                   <<Output(p, {"ACK"}, <<>>)>>, TRUE)
     \/ LET o == Output(p, {"SYN", "ACK"}, <<>>) IN
        /\ una <= pcb[h].iss
        /\ Handled(h, i,
                   [p EXCEPT !.state = "SYN_RECEIVED", !.queue = QueueAdd(p, o)],
                   <<o>>, FALSE)

Unacceptable(h, i) ==
  LET s == net[h][i] IN
  /\ Arriving(h, i)
  /\ pcb[h].state \in Synchronized
  /\ ~Acceptable(pcb[h], s)
  /\ Handled(h, i, pcb[h],
             IF "RST" \in s.flg THEN <<>> ELSE <<Output(pcb[h], {"ACK"}, <<>>)>>,
             FALSE)

\* Past the first check.
Accepted(h, i) ==
  /\ Arriving(h, i)
  /\ pcb[h].state \in Synchronized
  /\ Acceptable(pcb[h], net[h][i])

Reset(h, i) ==
  /\ Accepted(h, i)
  /\ "RST" \in net[h][i].flg
  /\ Aborted(h, i, <<>>)

SynInWindow(h, i) ==
  /\ Accepted(h, i)
  /\ net[h][i].flg \cap {"RST", "SYN"} = {"SYN"}
  /\ Aborted(h, i, <<Output(pcb[h], {"RST"}, <<>>)>>)

\* Past the fourth check, with the ACK bit set.
Acked(h, i) ==
  /\ Accepted(h, i)
  /\ net[h][i].flg \cap {"RST", "SYN", "ACK"} = {"ACK"}

\* Mutant of SynReceivedAckOk: only the upper bound is checked.
SynReceivedAckMax(p, s) == s.ack <= p.snd_nxt

SynReceivedAckOk(p, s) == p.snd_una <= s.ack /\ s.ack <= p.snd_nxt

SynReceivedBadAck(h, i) ==
  LET s == net[h][i] IN
  /\ Acked(h, i)
  /\ pcb[h].state = "SYN_RECEIVED"
  /\ ~SynReceivedAckOk(pcb[h], s)
  /\ Handled(h, i, pcb[h], <<Rst(s)>>, FALSE)

AckOfUnsent(h, i) ==
  /\ Acked(h, i)
  /\ pcb[h].state \in {"ESTABLISHED", "FIN_WAIT1", "FIN_WAIT2", "CLOSE_WAIT", "CLOSING"}
  /\ net[h][i].ack > pcb[h].snd_nxt
  /\ Handled(h, i, pcb[h], <<Output(pcb[h], {"ACK"}, <<>>)>>, FALSE)

\* The acknowledgment of our FIN ends the connection.
LastAck(h, i) ==
  /\ Acked(h, i)
  /\ pcb[h].state = "LAST_ACK"
  /\ net[h][i].ack = pcb[h].snd_nxt
  /\ Aborted(h, i, <<>>)

\* Dropped at the fifth check: no ACK bit, or LAST-ACK and not for our FIN.
Dropped(h, i) ==
  LET s == net[h][i] IN
  /\ Accepted(h, i)
  /\ \/ s.flg \cap {"RST", "SYN", "ACK"} = {}
     \/ Acked(h, i) /\ pcb[h].state = "LAST_ACK" /\ s.ack # pcb[h].snd_nxt
  /\ Handled(h, i, pcb[h], <<>>, FALSE)

\* The fifth, seventh and eighth steps for the segments that pass them all.
AckTextFin(h, i) ==
  LET s == net[h][i]
      a == AckStep(pcb[h], s)
      t == TextStep(a, s)
      f == FinStep(t, s)
  IN
  /\ Acked(h, i)
  /\ \/ pcb[h].state = "TIME_WAIT"
     \/ pcb[h].state = "SYN_RECEIVED" /\ SynReceivedAckOk(pcb[h], s)
     \/ /\ pcb[h].state \notin {"TIME_WAIT", "SYN_RECEIVED", "LAST_ACK"}
        /\ s.ack <= pcb[h].snd_nxt
  /\ Handled(h, i, f,
             (IF TakesText(a, s) THEN <<Output(t, {"ACK"}, <<>>)>> ELSE <<>>)
               \o (IF "FIN" \in s.flg THEN <<Output(f, {"ACK"}, <<>>)>> ELSE <<>>),
             Signals(pcb[h], a, t, s))

TcpInput(h, i) ==
  \/ NoConnection(h, i)
  \/ ListenIgnores(h, i)
  \/ ListenSyn(h, i)
  \/ SynSentBadAck(h, i)
  \/ SynSentReset(h, i)
  \/ SynSentDrop(h, i)
  \/ SynSentSyn(h, i)
  \/ Unacceptable(h, i)
  \/ Reset(h, i)
  \/ SynInWindow(h, i)
  \/ SynReceivedBadAck(h, i)
  \/ AckOfUnsent(h, i)
  \/ LastAck(h, i)
  \/ Dropped(h, i)
  \/ AckTextFin(h, i)
-----------------------------------------------------------------------------
(* tcp_timer *)

Expiring(h) == ~hung[h] /\ (Prompt => \A g \in Host : hung[g] \/ net[g] = <<>>)

\* tcp_retransmit_queue_emit sends the entry again with the current rcv
\* variables.
Retransmission(p, e) ==
  [seq |-> e.seq, ack |-> p.rcv_nxt, flg |-> e.flg, wnd |-> p.rcv_wnd,
   data |-> e.data]

\* Mutant of DueEntries: the timer never finds an entry due.
DueEntriesNone(n) == {<<>>}

\* The entries of a queue of length n whose time has come, in queue order.
DueEntries(n) ==
  UNION {{f \in [1..k -> 1..n] : \A i, j \in 1..k : i < j => f[i] < f[j]} :
         k \in 0..n}

\* The rto doubles with every retransmission, so that on a prompt network an
\* entry fires only when none that was sent fewer times is waiting.
Fires(e) ==
  Prompt => \A g \in Host : \A k \in 1..Len(pcb[g].queue) :
              hung[g] \/ e.tries <= pcb[g].queue[k].tries

\* Every entry that is due is sent again; an entry that has been sent again as
\* often as the deadline allows closes the connection instead (late), which
\* keeps the PCB and its queue.  A FREE PCB has an empty queue: nothing is due.
TimerRetransmit(h) ==
  LET q == pcb[h].queue IN
  /\ Expiring(h)
  /\ \E due \in DueEntries(Len(q)), late \in BOOLEAN :
       LET Due(k) == \E j \in DOMAIN due : due[j] = k IN
       /\ \A k \in 1..Len(q) : Due(k) => q[k].tries < MaxRtx /\ Fires(q[k])
       /\ late => \E k \in 1..Len(q) : q[k].tries = MaxRtx /\ Fires(q[k])
       /\ pcb' = [pcb EXCEPT
                    ![h].state = IF late THEN "CLOSED" ELSE @,
                    ![h].queue = [k \in 1..Len(q) |->
                       [q[k] EXCEPT !.tries = IF Due(k) THEN @ + 1 ELSE @]]]
       /\ net' = [net EXCEPT ![Peer(h)] =
                    @ \o [j \in DOMAIN due |-> Retransmission(pcb[h], q[due[j]])]]
       /\ thread' = IF late THEN [thread EXCEPT ![h] = Wakeup(@)] ELSE thread
  /\ UNCHANGED <<sent, got, hung, faults>>

\* TCP_TIMEWAIT_SEC have passed in TIME-WAIT.
TimerTimeWait(h) ==
  /\ Expiring(h)
  /\ pcb[h].state = "TIME_WAIT"
  /\ Release(h, pcb[h])
  /\ UNCHANGED <<thread, net, sent, got, faults>>

TcpTimer(h) == TimerRetransmit(h) \/ TimerTimeWait(h)

\* event_handler: SIGINT reaches every PCB in use through sched_interrupt.
Interrupt(h) ==
  /\ "interrupt" \in Events /\ ~hung[h]
  /\ pcb[h].state # "FREE"
  /\ pcb' = [pcb EXCEPT ![h].interrupted = TRUE]
  /\ thread' = [thread EXCEPT ![h] = Wakeup(@)]
  /\ UNCHANGED <<net, sent, got, hung, faults>>
-----------------------------------------------------------------------------
(* User calls.  A call begins on an idle thread; a thread that was woken    *)
(* resumes inside its call.                                                 *)

Calling(h) == ~hung[h] /\ thread[h].pc = "idle"
Resuming(h, call) == ~hung[h] /\ thread[h].pc = call /\ thread[h].wait = "woken"

\* sched_sleep after the wait: the only waiter clears the interrupted flag.
Interrupted(h) == pcb[h].interrupted
Cleared(p) == [p EXCEPT !.interrupted = FALSE]

OpenPassive(h) ==
  /\ Calling(h) /\ ~thread[h].opened
  /\ h \in Passive
  /\ pcb' = [pcb EXCEPT ![h].state = "LISTEN"]
  /\ thread' = [thread EXCEPT ![h] =
       [@ EXCEPT !.pc = "open", !.wait = "asleep", !.saved = "LISTEN", !.opened = TRUE]]
  /\ UNCHANGED <<net, sent, got, hung, faults>>

OpenActive(h) ==
  /\ Calling(h) /\ ~thread[h].opened
  /\ h \in Active
  /\ thread[Peer(h)].opened \/ "refuse" \in Events
  /\ \E iss \in Iss :
       LET p == [pcb[h] EXCEPT !.rcv_wnd = BufSize, !.iss = iss]
           o == Output(p, {"SYN"}, <<>>)
       IN
       /\ pcb' = [pcb EXCEPT ![h] =
            [p EXCEPT !.state = "SYN_SENT", !.queue = QueueAdd(p, o),
                      !.snd_una = iss, !.snd_nxt = Plus(iss, 1)]]
       /\ net' = [net EXCEPT ![Peer(h)] = Append(@, o)]
  /\ thread' = [thread EXCEPT ![h] =
       [@ EXCEPT !.pc = "open", !.wait = "asleep", !.saved = "SYN_SENT", !.opened = TRUE]]
  /\ UNCHANGED <<sent, got, hung, faults>>

\* tcp_output of the SYN fails: the PCB is released again.
OpenFails(h) ==
  /\ "output" \in Events
  /\ Calling(h) /\ ~thread[h].opened
  /\ h \in Active
  /\ thread' = [thread EXCEPT ![h].opened = TRUE]
  /\ UNCHANGED <<pcb, net, sent, got, hung, faults>>

\* The loop around sched_sleep in tcp_open_rfc793: sleep on while the state is
\* the saved one, or has become SYN_RECEIVED; return once it is ESTABLISHED;
\* give the PCB up when it is anything else, or when interrupted.
OpenResume(h) ==
  LET p == pcb[h] IN
  /\ Resuming(h, "open")
  /\ \/ /\ ~Interrupted(h) /\ p.state \in {thread[h].saved, "SYN_RECEIVED"}
        /\ thread' = [thread EXCEPT ![h].wait = "asleep", ![h].saved = p.state]
        /\ UNCHANGED pcb
     \/ /\ ~Interrupted(h) /\ p.state = "ESTABLISHED"
        /\ thread' = [thread EXCEPT ![h] = Idle(@)]
        /\ UNCHANGED pcb
     \/ /\ \/ Interrupted(h)
           \/ p.state \notin {thread[h].saved, "SYN_RECEIVED", "ESTABLISHED"}
        /\ thread' = [thread EXCEPT ![h] = Idle(@)]
        /\ pcb' = [pcb EXCEPT ![h] = Zeroed]
  /\ UNCHANGED <<net, sent, got, hung, faults>>

\* Mutant of Cap: what is in flight is not subtracted.
CapWindow(p) == p.snd_wnd

\* What the peer's window still allows, in uint32_t arithmetic.
Cap(p) == (p.snd_wnd - (p.snd_nxt - p.snd_una)) % SeqSpace

\* The payload of the j-th segment when m bytes go out: the byte at position
\* k of a host's stream is k.
Chunk(h, j, m) ==
  LET first == (j - 1) * Mss
      last == IF j * Mss < m THEN j * Mss ELSE m
  IN  [k \in 1..(last - first) |-> sent[h] + first + k]

\* The segments in which m bytes go out.
Burst(h, m) ==
  [j \in 1..((m + Mss - 1) \div Mss) |->
     [Output(pcb[h], {"ACK", "PSH"}, Chunk(h, j, m))
        EXCEPT !.seq = Plus(@, (j - 1) * Mss)]]

\* The while loop of tcp_send: n bytes remain, min(n, cap) of them go out
\* now, and the thread sleeps when the window does not take the rest.
SendLoop(h, n) ==
  LET m == IF n <= Cap(pcb[h]) THEN n ELSE Cap(pcb[h])
      out == Burst(h, m)
      t == [thread[h] EXCEPT !.pc = "send", !.togo = n - m]
  IN
  /\ pcb[h].state \in {"ESTABLISHED", "CLOSE_WAIT"}
  /\ pcb' = [pcb EXCEPT
               ![h].queue = @ \o [j \in DOMAIN out |->
                  [seq |-> out[j].seq, flg |-> out[j].flg, data |-> out[j].data,
                   tries |-> 0]],
               ![h].snd_nxt = Plus(@, m)]
  /\ net' = [net EXCEPT ![Peer(h)] = @ \o out]
  /\ sent' = [sent EXCEPT ![h] = @ + m]
  /\ thread' = [thread EXCEPT ![h] = IF m = n THEN Idle(t) ELSE Sleep(pcb[h], t)]
  /\ UNCHANGED <<got, hung, faults>>

\* tcp_output fails for the j-th segment of the loop: the PCB is released.
SendFails(h, n) ==
  LET m == IF n <= Cap(pcb[h]) THEN n ELSE Cap(pcb[h])
      out == Burst(h, m)
  IN
  /\ "output" \in Events
  /\ pcb[h].state \in {"ESTABLISHED", "CLOSE_WAIT"}
  /\ \E j \in DOMAIN out :
       /\ net' = [net EXCEPT ![Peer(h)] = @ \o SubSeq(out, 1, j - 1)]
       /\ sent' = [sent EXCEPT ![h] = @ + (j - 1) * Mss]
  /\ pcb' = [pcb EXCEPT ![h] = Zeroed]
  /\ thread' = [thread EXCEPT ![h] = Idle(@)]
  /\ UNCHANGED <<got, hung, faults>>

\* tcp_send and tcp_receive return at once.
Returns(h, p) ==
  /\ pcb' = [pcb EXCEPT ![h] = p]
  /\ thread' = [thread EXCEPT ![h] = Idle(@)]
  /\ UNCHANGED <<net, sent, got, hung, faults>>

Send(h) ==
  /\ Calling(h)
  /\ \E n \in 1..(Stream[h] - sent[h]) : SendLoop(h, n) \/ SendFails(h, n)

SendResume(h) ==
  /\ Resuming(h, "send")
  /\ \/ Interrupted(h) /\ Returns(h, Cleared(pcb[h]))
     \/ /\ ~Interrupted(h)
        /\ \/ SendLoop(h, thread[h].togo)
           \/ SendFails(h, thread[h].togo)
           \/ /\ pcb[h].state \notin {"ESTABLISHED", "CLOSE_WAIT"}
              /\ Returns(h, pcb[h])

Remain(p) == BufSize - p.rcv_wnd

Readable(p) ==
  Remain(p) > 0 /\ p.state \in {"ESTABLISHED", "FIN_WAIT1", "FIN_WAIT2", "CLOSE_WAIT"}

\* tcp_receive hands k bytes to the application and opens the window.
Read(h, k) ==
  /\ Readable(pcb[h])
  /\ k \in 1..Remain(pcb[h])
  /\ got' = [got EXCEPT ![h] = @ \o SubSeq(pcb[h].buf, 1, k)]
  /\ pcb' = [pcb EXCEPT ![h].buf = SubSeq(@, k + 1, Len(@)),
                        ![h].rcv_wnd = (@ + k) % (BufSize + 1)]
  /\ thread' = [thread EXCEPT ![h] = Idle(@)]
  /\ UNCHANGED <<net, sent, hung, faults>>

ReceiveSleeps(h) ==
  /\ Remain(pcb[h]) = 0
  /\ pcb[h].state \in {"ESTABLISHED", "FIN_WAIT1", "FIN_WAIT2"}
  /\ thread' = [thread EXCEPT ![h] = Sleep(pcb[h], [@ EXCEPT !.pc = "receive"])]
  /\ UNCHANGED <<pcb, net, sent, got, hung, faults>>

Receive(h) ==
  /\ Calling(h)
  /\ pcb[h].state \in {"ESTABLISHED", "CLOSE_WAIT"} \/ "halfclose" \in Events
  /\ ReceiveSleeps(h) \/ \E k \in 1..BufSize : Read(h, k)

ReceiveResume(h) ==
  /\ Resuming(h, "receive")
  /\ \/ Interrupted(h) /\ Returns(h, Cleared(pcb[h]))
     \/ /\ ~Interrupted(h)
        /\ \/ ReceiveSleeps(h)
           \/ \E k \in 1..BufSize : Read(h, k)
           \/ /\ ~Readable(pcb[h])
              /\ pcb[h].state \notin {"ESTABLISHED", "FIN_WAIT1", "FIN_WAIT2"}
              /\ Returns(h, pcb[h])

\* When tcp_close is called: by the idle thread, or by another thread of the
\* application while the first one is blocked; when the exchange is complete,
\* or before.
Closing(h) ==
  /\ ~hung[h]
  /\ thread[h].pc = "idle" \/ "close" \in Events
  /\ \/ sent[h] = Stream[h] /\ Len(got[h]) = Stream[Peer(h)]
     \/ "early" \in Events

\* A FIN goes out behind everything sent so far, and a sleeper is woken.
CloseFin(h) ==
  LET o == Output(pcb[h], {"ACK", "FIN"}, <<>>) IN
  /\ Closing(h)
  /\ pcb[h].state \in {"SYN_RECEIVED", "ESTABLISHED", "CLOSE_WAIT"}
  /\ pcb' = [pcb EXCEPT
               ![h].state = IF @ = "CLOSE_WAIT" THEN "LAST_ACK" ELSE "FIN_WAIT1",
               ![h].queue = QueueAdd(pcb[h], o),
               ![h].snd_nxt = Plus(@, 1)]
  /\ net' = [net EXCEPT ![Peer(h)] = Append(@, o)]
  /\ thread' = [thread EXCEPT ![h] = Wakeup(@)]
  /\ UNCHANGED <<sent, got, hung, faults>>

\* Nothing was established yet: the PCB is released.
CloseUnconnected(h) ==
  /\ Closing(h)
  /\ pcb[h].state \in {"LISTEN", "SYN_SENT"}
  /\ Release(h, [pcb[h] EXCEPT !.state = "CLOSED"])
  /\ UNCHANGED <<thread, net, sent, got, faults>>
-----------------------------------------------------------------------------
\* A segment is lost: on the way, or because arp_resolve does not know the
\* link address yet, or because an ip_output whose result is ignored failed.
Lose(h) ==
  /\ faults.lost < MaxLoss
  /\ faults' = [faults EXCEPT !.lost = @ + 1]
  /\ \E i \in 1..Len(net[h]) : net' = [net EXCEPT ![h] = RemoveSeg(@, i)]
  /\ UNCHANGED <<pcb, thread, sent, got, hung>>

\* The process of h ends (crash, kill) and is started again; nothing is kept.
Restart(h) ==
  /\ faults.restarts < MaxRestart
  /\ faults' = [faults EXCEPT !.restarts = @ + 1]
  /\ pcb' = [pcb EXCEPT ![h] = Zeroed]
  /\ thread' = [thread EXCEPT ![h] = Started]
  /\ hung' = [hung EXCEPT ![h] = FALSE]
  /\ sent' = [sent EXCEPT ![h] = 0]
  /\ got' = [got EXCEPT ![h] = <<>>]
  /\ UNCHANGED net

AppStep(h) ==
  \/ OpenPassive(h) \/ OpenActive(h) \/ OpenFails(h) \/ OpenResume(h)
  \/ Send(h) \/ SendResume(h)
  \/ Receive(h) \/ ReceiveResume(h)
  \/ CloseFin(h) \/ CloseUnconnected(h)

Next ==
  \E h \in Host :
    \/ AppStep(h)
    \/ TcpTimer(h)
    \/ Interrupt(h)
    \/ Restart(h)
    \/ Lose(h)
    \/ \E i \in 1..(MaxSwap + 1) : TcpInput(h, i)

Spec == Init /\ [][Next]_vars

\* The interrupt thread handles what has arrived and runs the timer, and a
\* thread that was woken gets the mutex; the applications open, read what has
\* arrived, send what they have to send and close at the end.
Fairness ==
  \A h \in Host :
    /\ WF_vars(\E i \in 1..(MaxSwap + 1) : TcpInput(h, i))
    /\ WF_vars(TimerRetransmit(h)) /\ WF_vars(TimerTimeWait(h))
    /\ WF_vars(OpenResume(h)) /\ WF_vars(SendResume(h)) /\ WF_vars(ReceiveResume(h))
    /\ WF_vars(OpenPassive(h)) /\ WF_vars(OpenActive(h))
    /\ WF_vars(Send(h)) /\ WF_vars(\E k \in 1..BufSize : Calling(h) /\ Read(h, k))
    /\ WF_vars(CloseFin(h))

FairSpec == Spec /\ Fairness
-----------------------------------------------------------------------------
(* Properties *)

\* A PCB that takes part in a connection.
Connected(p) == p.state \in Synchronized \cup {"SYN_SENT"}

\* On a network that loses nothing and keeps the order, the memcpy of
\* tcp_segment_arrives and the memmove of tcp_receive keep "bytes held + rcv.wnd =
\* sizeof(buf)" exactly, because the peer's tcp_send stays inside the window it
\* was offered, whatever is sent again and however the calls interleave.
BufferAccounting ==
  \A h \in Host : Connected(pcb[h]) =>
    Len(pcb[h].buf) + pcb[h].rcv_wnd = BufSize

\* Each side has acknowledged at most what the other has sent, and the other
\* knows of at most what has been acknowledged:
\* snd.una <= peer's rcv.nxt <= snd.nxt.
SeqAgreement ==
  \A h \in Host :
    LET p == pcb[h]
        q == pcb[Peer(h)]
    IN  p.state \in Synchronized /\ Connected(q) =>
          /\ p.irs = q.iss
          /\ q.snd_una <= p.rcv_nxt /\ p.rcv_nxt <= q.snd_nxt

\* Nothing unacknowledged is forgotten: every sequence number in
\* [snd.una, snd.nxt) belongs to an entry of the retransmit queue, although
\* tcp_retransmit_queue_cleanup drops an entry as soon as its first number is
\* acknowledged.
UnackedQueued ==
  \A h \in Host : Connected(pcb[h]) =>
    \A x \in pcb[h].snd_una..(pcb[h].snd_nxt - 1) :
      \E k \in 1..Len(pcb[h].queue) :
        LET e == pcb[h].queue[k] IN e.seq <= x /\ x < e.seq + SegLen(e)

\* The three-way handshake: when both hosts can exchange data each has the
\* initial sequence number of the other, although a host may have restarted
\* while the other went on, and segments of the lost connection still arrive.
HandshakeAgreement ==
  (\A h \in Host : pcb[h].state \in {"ESTABLISHED", "CLOSE_WAIT"}) =>
    \A h \in Host : pcb[h].irs = pcb[Peer(h)].iss

\* What the application on h has read or can read.
Delivered(h) == got[h] \o pcb[h].buf

\* Stream integrity: the bytes delivered are the first bytes the peer sent, in
\* order, without gap or repetition, as long as both processes live.
StreamPrefix ==
  faults.restarts = 0 => \A h \in Host :
    /\ Len(Delivered(h)) <= sent[Peer(h)]
    /\ \A k \in 1..Len(Delivered(h)) : Delivered(h)[k] = k

\* The application on h has read everything and tcp_receive reports the end.
AtEnd(h) == pcb[h].state \in {"CLOSE_WAIT", "LAST_ACK"} /\ pcb[h].buf = <<>>

B == INSTANCE ByteStream WITH written <- sent, read <- got,
                              ended <- [h \in Host |-> AtEnd(h)],
                              kept <- faults.lost = 0 /\ faults.restarts = 0

\* The connection implements the byte stream, as long as the network loses nothing
\* and both processes live: what the applications read and the end of file they
\* see are those of the abstract stream.
ImplementsByteStream == B!ByteStreamSpec

\* No wake-up is missed: while its PCB is in use, a thread that sleeps without
\* having been signalled still has a reason to.  tcp_open_rfc793 waits for a
\* state it has not seen, tcp_receive for data or for the end of the stream.
SleeperHasReason ==
  \A h \in Host :
    thread[h].wait = "asleep" /\ ~hung[h] /\ pcb[h].state # "FREE" =>
      /\ thread[h].pc = "open" =>
           pcb[h].state \in {"LISTEN", "SYN_SENT", "SYN_RECEIVED"}
      /\ thread[h].pc = "receive" =>
           /\ Remain(pcb[h]) = 0
           /\ pcb[h].state \in {"ESTABLISHED", "FIN_WAIT1", "FIN_WAIT2"}

\* No step of a live connection moves rcv.nxt or snd.una backwards, so that no
\* byte is taken twice and no acknowledgment is withdrawn.
NeverBackwards ==
  [][\A h \in Host :
       Connected(pcb[h]) /\ Connected(pcb[h])' =>
         /\ pcb'[h].snd_una >= pcb[h].snd_una
         /\ pcb[h].state # "SYN_SENT" => pcb'[h].rcv_nxt >= pcb[h].rcv_nxt]_vars

\* tcp_open_rfc793 returns.
OpenReturns == \A h \in Host : thread[h].pc = "open" ~> thread[h].pc # "open"

\* Every byte tcp_send has put out reaches the peer's application, as long as the
\* network loses nothing.
AllDelivered ==
  \A h \in Host : \A n \in 1..Stream[h] :
    sent[h] >= n ~> Len(got[Peer(h)]) >= n \/ faults.lost > 0

\* Once both sides have closed, both PCBs become free again.
CloseCompletes ==
  (\A h \in Host : pcb[h].state \in
      {"FIN_WAIT1", "FIN_WAIT2", "CLOSING", "TIME_WAIT", "LAST_ACK"})
    ~> (\A h \in Host : pcb[h].state = "FREE")
=============================================================================
