--------------------------- MODULE TcpWakeupProofs ---------------------------
(* No wake-up is missed in tcp.c as long as one thread uses a PCB: whatever *)
(* arrives, expires or is lost, a thread that sleeps without having been    *)
(* signalled still waits for something that has not happened.               *)
EXTENDS TcpConnectionProofs

\* One thread per connection, which does not read any more once it has closed.
OneThread == Events \cap {"close", "halfclose"} = {}

Opening == {"LISTEN", "SYN_SENT", "SYN_RECEIVED"}
Ending == {"FIN_WAIT1", "FIN_WAIT2", "CLOSING", "TIME_WAIT", "LAST_ACK"}

\* SleeperHasReason for one host with PCB p, thread t and hung = u,
\* strengthened: a thread that has closed is in no call, the state saved by
\* tcp_open_rfc793 is one of an unfinished opening, and a reader sleeps in
\* ESTABLISHED only.
WakeOk(p, t, u) ==
  /\ t.pc = "idle" => t.wait = "no"
  /\ p.state \in Ending => t.pc = "idle"
  /\ t.pc = "open" => t.saved \in Opening
  /\ t.wait = "asleep" /\ ~u /\ p.state # "FREE" =>
       /\ t.pc = "open" => p.state \in Opening
       /\ t.pc = "receive" => p.state = "ESTABLISHED" /\ Remain(p) = 0

WakeInv == \A h \in Host : WakeOk(pcb[h], thread[h], hung[h])
-----------------------------------------------------------------------------
LEMMA WakeupFacts ==
  ASSUME NEW t \in Thread
  PROVE  /\ Wakeup(t).pc = t.pc /\ Wakeup(t).saved = t.saved
         /\ Wakeup(t).wait # "asleep"
         /\ t.wait = "no" => Wakeup(t).wait = "no"
  BY DEF Wakeup, Thread

LEMMA IdleFacts ==
  ASSUME NEW t \in Thread
  PROVE  Idle(t).pc = "idle" /\ Idle(t).wait = "no"
  BY DEF Idle, Thread

\* An idle thread is no concern.
LEMMA IdleOk ==
  ASSUME NEW t \in Thread, NEW p, NEW u
  PROVE  WakeOk(p, Idle(t), u)
  BY IdleFacts DEF WakeOk

\* A thread that has just been signalled may find any state, except that the
\* connection is closed only when it is idle.
LEMMA WokenOk ==
  ASSUME NEW t \in Thread, NEW p, NEW q, NEW u, WakeOk(p, t, u),
         q.state \in Ending => t.pc = "idle"
  PROVE  WakeOk(q, Wakeup(t), u)
  BY WakeupFacts DEF WakeOk

\* A step that changes the PCB, the thread and the flag of h only.
LEMMA LocalStep ==
  ASSUME TypeOK, WakeInv, NEW h \in Host, NEW p, NEW t, NEW u,
         pcb' = [pcb EXCEPT ![h] = p], thread' = [thread EXCEPT ![h] = t],
         hung' = [hung EXCEPT ![h] = u], WakeOk(p, t, u)
  PROVE  WakeInv'
  BY DEF WakeInv, TypeOK

\* Handled: the segment leaves the PCB q, and wake says whether it signals.
LEMMA HandledOk ==
  ASSUME TypeOK, WakeInv, NEW h \in Host, NEW i, NEW q, NEW out,
         NEW wake \in BOOLEAN, Handled(h, i, q, out, wake),
         q.state \in Ending => thread[h].pc = "idle",
         wake \/ WakeOk(q, thread[h], hung[h])
  PROVE  WakeInv'
  <1>1. WakeOk(pcb[h], thread[h], hung[h]) /\ thread[h] \in Thread
    BY DEF WakeInv, TypeOK
  <1>2. hung' = [hung EXCEPT ![h] = hung[h]] /\ pcb' = [pcb EXCEPT ![h] = q]
    BY DEF Handled, TypeOK
  <1>3. CASE wake
    <2>1. thread' = [thread EXCEPT ![h] = Wakeup(thread[h])]
      BY <1>3 DEF Handled
    <2>2. WakeOk(q, Wakeup(thread[h]), hung[h])
      BY <1>1, WokenOk
    <2> QED
      BY <1>2, <2>1, <2>2, LocalStep
  <1>4. CASE ~wake
    <2>1. thread' = [thread EXCEPT ![h] = thread[h]]
      BY <1>4 DEF Handled, TypeOK
    <2> QED
      BY <1>2, <1>4, <2>1, LocalStep
  <1> QED
    BY <1>3, <1>4

\* Release leaves a FREE PCB, or a thread that hangs.
LEMMA ReleaseOk ==
  ASSUME TypeOK, WakeInv, NEW h \in Host, NEW p, Release(h, p), UNCHANGED thread,
         p.state \in Ending => thread[h].pc = "idle"
  PROVE  WakeInv'
  <1>1. WakeOk(pcb[h], thread[h], hung[h])
    BY DEF WakeInv
  <1>2. thread' = [thread EXCEPT ![h] = thread[h]]
    BY DEF TypeOK
  <1>3. CASE pcb' = [pcb EXCEPT ![h] = Zeroed] /\ UNCHANGED hung
    <2>1. WakeOk(Zeroed, thread[h], hung[h])
      BY <1>1 DEF WakeOk, Zeroed, Ending
    <2>2. hung' = [hung EXCEPT ![h] = hung[h]]
      BY <1>3 DEF TypeOK
    <2> QED
      BY <1>2, <1>3, <2>1, <2>2, LocalStep
  <1>4. CASE pcb' = [pcb EXCEPT ![h] = p] /\ hung' = [hung EXCEPT ![h] = TRUE]
    <2>1. WakeOk(p, thread[h], TRUE)
      BY <1>1 DEF WakeOk
    <2> QED
      BY <1>2, <1>4, <2>1, LocalStep
  <1> QED
    BY <1>3, <1>4 DEF Release

\* The paths that leave the PCB as it is and signal nobody.
LEMMA QuietOk ==
  ASSUME TypeOK, WakeInv, NEW h \in Host, NEW i, NEW out,
         Handled(h, i, pcb[h], out, FALSE)
  PROVE  WakeInv'
  <1>1. WakeOk(pcb[h], thread[h], hung[h])
    BY DEF WakeInv
  <1>2. pcb[h].state \in Ending => thread[h].pc = "idle"
    BY <1>1 DEF WakeOk
  <1> QED
    BY <1>1, <1>2, HandledOk

LEMMA AbortedOk ==
  ASSUME TypeOK, WakeInv, NEW h \in Host, NEW i, NEW out, Aborted(h, i, out)
  PROVE  WakeInv'
  <1> DEFINE r == [pcb[h] EXCEPT !.state = "CLOSED"]
  <1>1. r.state = "CLOSED"
    BY DEF TypeOK, Pcb
  <1>2. Release(h, r) /\ UNCHANGED thread
    BY DEF Aborted
  <1> HIDE DEF r
  <1>3. r.state \notin Ending
    BY <1>1 DEF Ending
  <1> QED
    BY <1>2, <1>3, ReleaseOk

\* The fifth, seventh and eighth steps do not close the connection on our side,
\* and leave ESTABLISHED or fill the buffer only with a signal.
LEMMA AckTextFinStates ==
  ASSUME NEW p \in Pcb, NEW s \in Segment, NEW a, NEW t, NEW f,
         a = AckStep(p, s), t = TextStep(a, s), f = FinStep(t, s)
  PROVE  /\ f.state \in Ending => p.state \in Ending
         /\ p.state = "ESTABLISHED" /\ ~Signals(p, a, t, s) =>
              f.state = "ESTABLISHED" /\ f.rcv_wnd = p.rcv_wnd
  <1> DEFINE n == AckNew(p, s)
  <1>1. n \in Pcb /\ n.state = p.state /\ n.rcv_wnd = p.rcv_wnd
    BY QueueCleanupType DEF AckNew, Pcb, Segment
  <1>2. /\ a.rcv_wnd = p.rcv_wnd /\ a \in Pcb
        /\ a.state = (IF p.state = "TIME_WAIT" THEN p.state ELSE AckState(p, s))
    <2> HIDE DEF n
    <2>1. AckState(p, s) \in PcbState
      BY DEF AckState, Pcb, PcbState
    <2> QED
      BY <1>1, <2>1 DEF AckStep, Pcb, n
  <1>3. /\ p.state = "ESTABLISHED" => a.state = p.state
        /\ a.state \in Ending => p.state \in Ending
    BY <1>2 DEF AckState, Ending
  <1>4. /\ t.state = a.state /\ (~TakesText(a, s) => t.rcv_wnd = a.rcv_wnd)
        /\ "state" \in DOMAIN t /\ "rcv_wnd" \in DOMAIN t
    BY <1>2 DEF TextStep, Pcb
  <1>5. /\ f.rcv_wnd = t.rcv_wnd
        /\ f.state = (IF "FIN" \in s.flg THEN FinState(t, s) ELSE t.state)
    BY <1>4 DEF FinStep
  <1>6. t.state \notin Ending => FinState(t, s) \notin Ending
    BY DEF FinState, Ending
  <1> QED
    BY <1>2, <1>3, <1>4, <1>5, <1>6 DEF Signals

LEMMA AckTextFinOk ==
  ASSUME IInv, WakeInv, NEW h \in Host, NEW i, AckTextFin(h, i)
  PROVE  WakeInv'
  <1> DEFINE p == pcb[h]
             s == net[h][i]
             a == AckStep(p, s)
             t == TextStep(a, s)
             f == FinStep(t, s)
             wake == Signals(p, a, t, s)
             out == (IF TakesText(a, s) THEN <<Output(t, {"ACK"}, <<>>)>> ELSE <<>>)
                      \o (IF "FIN" \in s.flg THEN <<Output(f, {"ACK"}, <<>>)>> ELSE <<>>)
  <1>1. p \in Pcb /\ s \in Segment /\ thread[h] \in Thread /\ p.state \in Synchronized
    BY InContext DEF AckTextFin, Acked, Accepted
  <1>2. Handled(h, i, f, out, wake)
    BY DEF AckTextFin
  <1>3. /\ f.state \in Ending => p.state \in Ending
        /\ p.state = "ESTABLISHED" /\ ~wake => f.state = "ESTABLISHED" /\ f.rcv_wnd = p.rcv_wnd
    BY <1>1, AckTextFinStates
  <1>4. p.state = "SYN_RECEIVED" => wake
    BY DEF Signals
  <1>5. wake \in BOOLEAN
    BY DEF Signals
  <1> HIDE DEF out, wake, f
  <1>6. WakeOk(p, thread[h], hung[h])
    BY DEF WakeInv
  <1> HIDE DEF p
  <1>7. wake \/ WakeOk(f, thread[h], hung[h])
    BY <1>1, <1>3, <1>4, <1>6 DEF WakeOk, Synchronized, Opening, Remain
  <1>8. f.state \in Ending => thread[h].pc = "idle"
    BY <1>3, <1>6 DEF WakeOk
  <1> QED
    BY <1>2, <1>5, <1>7, <1>8, HandledOk DEF IInv

LEMMA TcpInputOk ==
  ASSUME IInv, WakeInv, NEW h \in Host, NEW i, TcpInput(h, i)
  PROVE  WakeInv'
  <1> DEFINE p == pcb[h]
             s == net[h][i]
  <1>1. p \in Pcb /\ thread[h] \in Thread /\ WakeOk(p, thread[h], hung[h]) /\ TypeOK
    BY InContext DEF WakeInv, IInv
  <1>2. CASE \/ NoConnection(h, i) \/ ListenIgnores(h, i) \/ SynSentBadAck(h, i)
             \/ SynSentDrop(h, i) \/ Unacceptable(h, i) \/ SynReceivedBadAck(h, i)
             \/ AckOfUnsent(h, i) \/ Dropped(h, i)
    <2>1. \E out : Handled(h, i, pcb[h], out, FALSE)
      BY <1>2 DEF NoConnection, ListenIgnores, SynSentBadAck, SynSentDrop,
                  Unacceptable, SynReceivedBadAck, AckOfUnsent, Dropped
    <2> QED
      BY <1>1, <2>1, QuietOk
  <1>3. CASE SynSentReset(h, i) \/ Reset(h, i) \/ SynInWindow(h, i) \/ LastAck(h, i)
    <2>1. \E out : Aborted(h, i, out)
      BY <1>3 DEF SynSentReset, Reset, SynInWindow, LastAck
    <2> QED
      BY <1>1, <2>1, AbortedOk
  <1>4. CASE ListenSyn(h, i)
    <2>1. PICK iss \in Iss :
            LET c == [p EXCEPT !.state = "SYN_RECEIVED", !.rcv_wnd = BufSize,
                               !.rcv_nxt = Plus(s.seq, 1), !.irs = s.seq, !.iss = iss,
                               !.snd_una = iss, !.snd_nxt = Plus(iss, 1)]
                o == Output(c, {"SYN", "ACK"}, <<>>)
            IN  Handled(h, i, [c EXCEPT !.queue = QueueAdd(c, o)], <<o>>, FALSE)
      BY <1>4 DEF ListenSyn
    <2> DEFINE c == [p EXCEPT !.state = "SYN_RECEIVED", !.rcv_wnd = BufSize,
                              !.rcv_nxt = Plus(s.seq, 1), !.irs = s.seq, !.iss = iss,
                              !.snd_una = iss, !.snd_nxt = Plus(iss, 1)]
               o == Output(c, {"SYN", "ACK"}, <<>>)
               r == [c EXCEPT !.queue = QueueAdd(c, o)]
               out == <<o>>
    <2>2. Handled(h, i, r, out, FALSE)
      BY <2>1
    <2>3. c.state = "SYN_RECEIVED" /\ DOMAIN c = DOMAIN p
      BY <1>1 DEF Pcb
    <2>4. r.state = "SYN_RECEIVED"
      <3> HIDE DEF c, o
      <3> QED
        BY <1>1, <2>3 DEF Pcb
    <2> HIDE DEF r, out
    <2>5. p.state = "LISTEN"
      BY <1>4 DEF ListenSyn
    <2>6. WakeOk(r, thread[h], hung[h]) /\ r.state \notin Ending
      BY <1>1, <2>5, <2>4 DEF WakeOk, Opening, Ending
    <2> QED
      BY <1>1, <2>6, <2>2, HandledOk
  <1>5. CASE SynSentSyn(h, i)
    <2> DEFINE acked == "ACK" \in s.flg /\ p.snd_una <= s.ack
               una == IF acked THEN s.ack ELSE p.snd_una
               c == [p EXCEPT !.rcv_nxt = Plus(s.seq, 1), !.irs = s.seq, !.snd_una = una,
                              !.queue = IF acked THEN QueueCleanup(@, una) ELSE @]
               e == [c EXCEPT !.state = "ESTABLISHED", !.snd_wnd = s.wnd,
                              !.snd_wl1 = s.seq, !.snd_wl2 = s.ack]
               o == Output(c, {"SYN", "ACK"}, <<>>)
               r == [c EXCEPT !.state = "SYN_RECEIVED", !.queue = QueueAdd(c, o)]
               ack == <<Output(c, {"ACK"}, <<>>)>>
               synack == <<o>>
    <2>1. Handled(h, i, e, ack, TRUE) \/ Handled(h, i, r, synack, FALSE)
      BY <1>5 DEF SynSentSyn
    <2>2. p.state = "SYN_SENT"
      BY <1>5 DEF SynSentSyn
    <2>3. DOMAIN c = DOMAIN p
      BY <1>1 DEF Pcb
    <2>4. e.state = "ESTABLISHED" /\ r.state = "SYN_RECEIVED"
      <3> HIDE DEF c, o
      <3> QED
        BY <1>1, <2>3 DEF Pcb
    <2> HIDE DEF e, r, ack, synack
    <2>5. e.state \notin Ending /\ r.state \notin Ending /\ WakeOk(r, thread[h], hung[h])
      BY <1>1, <2>2, <2>4 DEF WakeOk, Opening, Ending
    <2>6. CASE Handled(h, i, e, ack, TRUE)
      BY <1>1, <2>5, <2>6, HandledOk
    <2>7. CASE Handled(h, i, r, synack, FALSE)
      BY <1>1, <2>5, <2>7, HandledOk
    <2> QED
      BY <2>1, <2>6, <2>7
  <1>6. CASE AckTextFin(h, i)
    BY <1>6, AckTextFinOk
  <1> QED
    BY <1>2, <1>3, <1>4, <1>5, <1>6 DEF TcpInput

-----------------------------------------------------------------------------
LEMMA TimerOk ==
  ASSUME IInv, WakeInv, NEW h \in Host, TcpTimer(h)
  PROVE  WakeInv'
  <1> DEFINE p == pcb[h]
  <1>1. p \in Pcb /\ thread[h] \in Thread /\ WakeOk(p, thread[h], hung[h]) /\ TypeOK
    BY InContext DEF WakeInv, IInv
  <1>2. CASE TimerTimeWait(h)
    <2>1. p.state \in Ending => thread[h].pc = "idle"
      BY <1>1 DEF WakeOk
    <2> QED
      BY <1>1, <1>2, <2>1, ReleaseOk DEF TimerTimeWait
  <1>3. CASE TimerRetransmit(h)
    <2>1. PICK late \in BOOLEAN :
            /\ \E q : pcb' = [pcb EXCEPT ![h].state = IF late THEN "CLOSED" ELSE @,
                                         ![h].queue = q]
            /\ thread' = IF late THEN [thread EXCEPT ![h] = Wakeup(@)] ELSE thread
      BY <1>3 DEF TimerRetransmit
    <2>2. PICK q : pcb' = [pcb EXCEPT ![h].state = IF late THEN "CLOSED" ELSE @,
                                      ![h].queue = q]
      BY <2>1
    <2> DEFINE st == IF late THEN "CLOSED" ELSE p.state
               r == [p EXCEPT !.state = st, !.queue = q]
               t == IF late THEN Wakeup(thread[h]) ELSE thread[h]
    <2>3. pcb' = [pcb EXCEPT ![h] = r] /\ thread' = [thread EXCEPT ![h] = t]
      BY <1>1, <2>1, <2>2 DEF TypeOK
    <2>4. hung' = [hung EXCEPT ![h] = hung[h]]
      BY <1>1, <1>3 DEF TimerRetransmit, TypeOK
    <2>5. r.state = st /\ r.rcv_wnd = p.rcv_wnd
      BY <1>1 DEF Pcb
    <2> HIDE DEF r
    <2>6. WakeOk(r, t, hung[h])
      <3>1. CASE late
        BY <1>1, <2>5, <3>1, WokenOk DEF Ending
      <3>2. CASE ~late
        BY <1>1, <2>5, <3>2 DEF WakeOk, Remain
      <3> QED
        BY <3>1, <3>2
    <2> HIDE DEF t
    <2> QED
      BY <1>1, <2>3, <2>4, <2>6, LocalStep
  <1> QED
    BY <1>2, <1>3 DEF TcpTimer

LEMMA InterruptOk ==
  ASSUME IInv, WakeInv, NEW h \in Host, Interrupt(h)
  PROVE  WakeInv'
  <1> DEFINE p == pcb[h]
             r == [p EXCEPT !.interrupted = TRUE]
             t == Wakeup(thread[h])
  <1>1. p \in Pcb /\ thread[h] \in Thread /\ WakeOk(p, thread[h], hung[h]) /\ TypeOK
    BY InContext DEF WakeInv, IInv
  <1>2. /\ pcb' = [pcb EXCEPT ![h] = r] /\ thread' = [thread EXCEPT ![h] = t]
        /\ hung' = [hung EXCEPT ![h] = hung[h]]
    BY <1>1 DEF Interrupt, TypeOK
  <1>3. r.state = p.state
    BY <1>1 DEF Pcb
  <1> HIDE DEF r
  <1>4. r.state \in Ending => thread[h].pc = "idle"
    BY <1>1, <1>3 DEF WakeOk
  <1>5. WakeOk(r, t, hung[h])
    BY <1>1, <1>4, WokenOk
  <1> HIDE DEF t
  <1> QED
    BY <1>1, <1>2, <1>5, LocalStep

LEMMA OpenOk ==
  ASSUME IInv, WakeInv, NEW h \in Host,
         OpenPassive(h) \/ OpenActive(h) \/ OpenFails(h) \/ OpenResume(h)
  PROVE  WakeInv'
  <1> DEFINE p == pcb[h]
  <1>1. p \in Pcb /\ thread[h] \in Thread /\ WakeOk(p, thread[h], hung[h]) /\ TypeOK
    BY InContext DEF WakeInv, IInv
  <1>2. hung' = [hung EXCEPT ![h] = hung[h]]
    BY <1>1 DEF OpenPassive, OpenActive, OpenFails, OpenResume, TypeOK
  <1>3. CASE OpenPassive(h)
    <2> DEFINE r == [p EXCEPT !.state = "LISTEN"]
               t == [thread[h] EXCEPT !.pc = "open", !.wait = "asleep",
                                      !.saved = "LISTEN", !.opened = TRUE]
    <2>1. pcb' = [pcb EXCEPT ![h] = r] /\ thread' = [thread EXCEPT ![h] = t]
      BY <1>1, <1>3 DEF OpenPassive, TypeOK
    <2>2. r.state = "LISTEN" /\ t.pc = "open" /\ t.saved = "LISTEN"
      BY <1>1 DEF Pcb, Thread
    <2> HIDE DEF r, t
    <2>3. WakeOk(r, t, hung[h])
      BY <2>2 DEF WakeOk, Opening, Ending
    <2> QED
      BY <1>1, <1>2, <2>1, <2>3, LocalStep
  <1>4. CASE OpenActive(h)
    <2>1. PICK c, q, una, nxt :
            pcb' = [pcb EXCEPT ![h] =
              [c EXCEPT !.state = "SYN_SENT", !.queue = q, !.snd_una = una, !.snd_nxt = nxt]]
            /\ DOMAIN c = DOMAIN p
      <3>1. PICK iss \in Iss :
              LET c == [p EXCEPT !.rcv_wnd = BufSize, !.iss = iss] IN
              pcb' = [pcb EXCEPT ![h] =
                [c EXCEPT !.state = "SYN_SENT", !.queue = QueueAdd(c, Output(c, {"SYN"}, <<>>)),
                          !.snd_una = iss, !.snd_nxt = Plus(iss, 1)]]
        BY <1>4 DEF OpenActive
      <3> DEFINE c == [p EXCEPT !.rcv_wnd = BufSize, !.iss = iss]
      <3>2. DOMAIN c = DOMAIN p
        BY <1>1 DEF Pcb
      <3> QED
        BY <3>1, <3>2
    <2> DEFINE r == [c EXCEPT !.state = "SYN_SENT", !.queue = q, !.snd_una = una, !.snd_nxt = nxt]
               t == [thread[h] EXCEPT !.pc = "open", !.wait = "asleep",
                                      !.saved = "SYN_SENT", !.opened = TRUE]
    <2>2. pcb' = [pcb EXCEPT ![h] = r] /\ thread' = [thread EXCEPT ![h] = t]
      BY <1>1, <1>4, <2>1 DEF OpenActive, TypeOK
    <2>3. r.state = "SYN_SENT" /\ t.pc = "open" /\ t.saved = "SYN_SENT"
      BY <1>1, <2>1 DEF Pcb, Thread
    <2> HIDE DEF r, t
    <2>4. WakeOk(r, t, hung[h])
      BY <2>3 DEF WakeOk, Opening, Ending
    <2> QED
      BY <1>1, <1>2, <2>2, <2>4, LocalStep
  <1>5. CASE OpenFails(h)
    <2> DEFINE t == [thread[h] EXCEPT !.opened = TRUE]
    <2>1. pcb' = [pcb EXCEPT ![h] = p] /\ thread' = [thread EXCEPT ![h] = t]
      BY <1>1, <1>5 DEF OpenFails, TypeOK
    <2>2. t.pc = thread[h].pc /\ t.wait = thread[h].wait /\ t.saved = thread[h].saved
      BY <1>1 DEF Thread
    <2> HIDE DEF t
    <2>3. WakeOk(p, t, hung[h])
      BY <1>1, <2>2 DEF WakeOk
    <2> QED
      BY <1>1, <1>2, <2>1, <2>3, LocalStep
  <1>6. CASE OpenResume(h)
    <2>1. CASE /\ p.state \in {thread[h].saved, "SYN_RECEIVED"} /\ UNCHANGED pcb
               /\ thread' = [thread EXCEPT ![h].wait = "asleep", ![h].saved = p.state]
      <3> DEFINE t == [thread[h] EXCEPT !.wait = "asleep", !.saved = p.state]
      <3>1. pcb' = [pcb EXCEPT ![h] = p] /\ thread' = [thread EXCEPT ![h] = t]
        BY <1>1, <2>1 DEF TypeOK
      <3>2. thread[h].pc = "open"
        BY <1>6 DEF OpenResume, Resuming
      <3>3. t.pc = "open" /\ t.saved = p.state
        BY <1>1, <3>2 DEF Thread
      <3> HIDE DEF t
      <3>4. WakeOk(p, t, hung[h])
        BY <1>1, <2>1, <3>2, <3>3 DEF WakeOk, Opening, Ending
      <3> QED
        BY <1>1, <1>2, <3>1, <3>4, LocalStep
    <2>2. CASE \E r : pcb' = [pcb EXCEPT ![h] = r] /\ thread' = [thread EXCEPT ![h] = Idle(@)]
      BY <1>1, <1>2, <2>2, IdleOk, LocalStep
    <2> QED
      <3>1. UNCHANGED pcb => pcb' = [pcb EXCEPT ![h] = p]
        BY <1>1 DEF TypeOK
      <3> QED
        BY <1>6, <2>1, <2>2, <3>1 DEF OpenResume
  <1> QED
    BY <1>3, <1>4, <1>5, <1>6

LEMMA ReturnsOk ==
  ASSUME IInv, WakeInv, NEW h \in Host, NEW r,
         pcb' = [pcb EXCEPT ![h] = r], thread' = [thread EXCEPT ![h] = Idle(@)],
         UNCHANGED hung
  PROVE  WakeInv'
  <1>1. thread[h] \in Thread /\ TypeOK
    BY InContext DEF IInv
  <1>2. hung' = [hung EXCEPT ![h] = hung[h]]
    BY <1>1 DEF TypeOK
  <1> QED
    BY <1>1, <1>2, IdleOk, LocalStep

LEMMA SleepOk ==
  ASSUME NEW p, NEW u, NEW t \in Thread, p.state \notin Ending,
         \/ t.pc = "send"
         \/ t.pc = "receive" /\ p.state = "ESTABLISHED" /\ Remain(p) = 0,
         NEW q
  PROVE  WakeOk(p, Sleep(q, t), u)
  <1>1. CASE q.interrupted
    BY <1>1, IdleOk DEF Sleep
  <1>2. CASE ~q.interrupted
    <2> DEFINE s == [t EXCEPT !.wait = "asleep"]
    <2>1. s.pc = t.pc
      BY DEF Thread
    <2> HIDE DEF s
    <2>2. WakeOk(p, s, u)
      BY <2>1 DEF WakeOk
    <2> QED
      BY <1>2, <2>2 DEF Sleep, s
  <1> QED
    BY <1>1, <1>2

LEMMA SendOk ==
  ASSUME IInv, WakeInv, NEW h \in Host, Send(h) \/ SendResume(h)
  PROVE  WakeInv'
  <1> DEFINE p == pcb[h]
  <1>1. p \in Pcb /\ thread[h] \in Thread /\ TypeOK
    BY InContext DEF IInv
  <1>2. ASSUME NEW n \in Nat, SendLoop(h, n)
        PROVE  WakeInv'
    <2>1. PICK m, q, x :
            LET t == [thread[h] EXCEPT !.pc = "send", !.togo = n - m] IN
            /\ m \in Nat /\ m <= n
            /\ pcb' = [pcb EXCEPT ![h].queue = q, ![h].snd_nxt = x]
            /\ thread' = [thread EXCEPT ![h] = IF m = n THEN Idle(t) ELSE Sleep(p, t)]
      <3> DEFINE m == IF n <= Cap(p) THEN n ELSE Cap(p)
      <3>1. m \in Nat /\ m <= n
        BY <1>1, CapType
      <3> HIDE DEF m
      <3> QED
        BY <1>2, <3>1 DEF SendLoop, m
    <2> DEFINE t == [thread[h] EXCEPT !.pc = "send", !.togo = n - m]
               r == [p EXCEPT !.queue = q, !.snd_nxt = x]
    <2>2. pcb' = [pcb EXCEPT ![h] = r]
      BY <1>1, <2>1 DEF TypeOK
    <2>3. r.state = p.state /\ p.state \in {"ESTABLISHED", "CLOSE_WAIT"}
      BY <1>1, <1>2 DEF Pcb, SendLoop
    <2>4. hung' = [hung EXCEPT ![h] = hung[h]]
      BY <1>1, <1>2 DEF SendLoop, TypeOK
    <2>5. t.pc = "send" /\ t \in Thread
      <3>1. n - m \in Nat
        BY <2>1
      <3> QED
        BY <1>1, <3>1 DEF Thread
    <2> HIDE DEF r
    <2>6. r.state \notin Ending
      BY <2>3 DEF Ending
    <2>7. thread' = [thread EXCEPT ![h] = IF m = n THEN Idle(t) ELSE Sleep(p, t)]
      BY <2>1
    <2> HIDE DEF t
    <2>8. WakeOk(r, IF m = n THEN Idle(t) ELSE Sleep(p, t), hung[h])
      BY <2>5, <2>6, IdleOk, SleepOk
    <2> QED
      BY <1>1, <2>2, <2>4, <2>7, <2>8, LocalStep
  <1>3. ASSUME NEW n \in Nat, SendFails(h, n)
        PROVE  WakeInv'
    BY <1>3, ReturnsOk DEF SendFails
  <1>4. ASSUME NEW r, Returns(h, r)
        PROVE  WakeInv'
    BY <1>4, ReturnsOk DEF Returns
  <1>5. thread[h].togo \in Nat /\ sent[h] \in Nat /\ Stream[h] \in Nat
    BY <1>1, SizeAssumption DEF Thread, TypeOK
  <1>6. \A n \in 1..(Stream[h] - sent[h]) : n \in Nat
    BY <1>5
  <1> QED
    BY <1>2, <1>3, <1>4, <1>5, <1>6 DEF Send, SendResume

LEMMA ReceiveOk ==
  ASSUME OneThread, IInv, WakeInv, NEW h \in Host, Receive(h) \/ ReceiveResume(h)
  PROVE  WakeInv'
  <1> DEFINE p == pcb[h]
  <1>1. p \in Pcb /\ thread[h] \in Thread /\ WakeOk(p, thread[h], hung[h]) /\ TypeOK
    BY InContext DEF WakeInv, IInv
  <1>2. ASSUME ReceiveSleeps(h)
        PROVE  WakeInv'
    <2> DEFINE t == [thread[h] EXCEPT !.pc = "receive"]
    <2>1. /\ pcb' = [pcb EXCEPT ![h] = p] /\ hung' = [hung EXCEPT ![h] = hung[h]]
          /\ thread' = [thread EXCEPT ![h] = Sleep(p, t)]
      BY <1>1, <1>2 DEF ReceiveSleeps, TypeOK
    <2>2. t \in Thread /\ t.pc = "receive"
      BY <1>1 DEF Thread
    <2>3. p.state = "ESTABLISHED" /\ Remain(p) = 0
      <3>1. /\ Remain(p) = 0
            /\ p.state \in {"ESTABLISHED", "FIN_WAIT1", "FIN_WAIT2"}
        BY <1>2 DEF ReceiveSleeps
      <3>2. CASE Receive(h)
        BY <3>1, <3>2 DEF Receive, OneThread
      <3>3. CASE ReceiveResume(h)
        BY <1>1, <3>1, <3>3 DEF ReceiveResume, Resuming, WakeOk, Ending
      <3> QED
        BY <3>2, <3>3
    <2> HIDE DEF t
    <2>4. WakeOk(p, Sleep(p, t), hung[h])
      BY <2>2, <2>3, SleepOk DEF Ending
    <2> QED
      BY <1>1, <2>1, <2>4, LocalStep
  <1>3. ASSUME NEW k, Read(h, k)
        PROVE  WakeInv'
    <2> DEFINE r == [p EXCEPT !.buf = SubSeq(@, k + 1, Len(@)),
                              !.rcv_wnd = (@ + k) % (BufSize + 1)]
    <2>1. pcb' = [pcb EXCEPT ![h] = r]
      BY <1>1, <1>3 DEF Read, TypeOK
    <2> HIDE DEF r
    <2> QED
      BY <1>3, <2>1, ReturnsOk DEF Read
  <1>4. ASSUME NEW r, Returns(h, r)
        PROVE  WakeInv'
    BY <1>4, ReturnsOk DEF Returns
  <1> QED
    BY <1>2, <1>3, <1>4 DEF Receive, ReceiveResume

LEMMA CloseOk ==
  ASSUME OneThread, IInv, WakeInv, NEW h \in Host, CloseFin(h) \/ CloseUnconnected(h)
  PROVE  WakeInv'
  <1> DEFINE p == pcb[h]
  <1>1. p \in Pcb /\ thread[h] \in Thread /\ WakeOk(p, thread[h], hung[h]) /\ TypeOK
    BY InContext DEF WakeInv, IInv
  <1>2. thread[h].pc = "idle" /\ thread[h].wait = "no"
    BY <1>1 DEF CloseFin, CloseUnconnected, Closing, OneThread, WakeOk
  <1>3. CASE CloseFin(h)
    <2>1. PICK r : pcb' = [pcb EXCEPT ![h] = r]
      <3> DEFINE o == Output(p, {"ACK", "FIN"}, <<>>)
                 r == [p EXCEPT !.state = IF @ = "CLOSE_WAIT" THEN "LAST_ACK" ELSE "FIN_WAIT1",
                                !.queue = QueueAdd(p, o), !.snd_nxt = Plus(@, 1)]
      <3>1. pcb' = [pcb EXCEPT ![h] = r]
        BY <1>1, <1>3 DEF CloseFin, TypeOK
      <3> QED
        BY <3>1
    <2>2. /\ thread' = [thread EXCEPT ![h] = Wakeup(thread[h])]
          /\ hung' = [hung EXCEPT ![h] = hung[h]]
      BY <1>1, <1>3 DEF CloseFin, TypeOK
    <2>3. WakeOk(r, Wakeup(thread[h]), hung[h])
      BY <1>1, <1>2, WokenOk
    <2> QED
      BY <1>1, <2>1, <2>2, <2>3, LocalStep
  <1>4. CASE CloseUnconnected(h)
    BY <1>1, <1>2, <1>4, ReleaseOk DEF CloseUnconnected
  <1> QED
    BY <1>3, <1>4

LEMMA FaultOk ==
  ASSUME IInv, WakeInv, NEW h \in Host, Lose(h) \/ Restart(h)
  PROVE  WakeInv'
  <1>1. CASE Lose(h)
    BY <1>1 DEF Lose, WakeInv, WakeOk, Remain
  <1>2. CASE Restart(h)
    <2>1. WakeOk(Zeroed, Started, FALSE)
      BY DEF WakeOk, Zeroed, Started, Ending
    <2> QED
      BY <1>2, <2>1, LocalStep DEF Restart, IInv
  <1> QED
    BY <1>1, <1>2

\* No wake-up is missed.  With one thread per connection, sched_wakeup is called
\* at every place where a sleeper's reason ends: the handshake completes, text
\* or the FIN arrives, the retransmission deadline closes the connection, the
\* application is interrupted.
THEOREM NoMissedWakeup ==
  ASSUME OneThread
  PROVE  Spec => []SleeperHasReason
  <1>1. Init => WakeInv
    BY DEF Init, WakeInv, WakeOk, Zeroed, Started, Ending
  <1>2. IInv /\ WakeInv /\ [Next]_vars => WakeInv'
    <2> SUFFICES ASSUME IInv, WakeInv, [Next]_vars PROVE WakeInv'
      OBVIOUS
    <2>1. CASE Next
      <3>1. PICK h \in Host :
              \/ AppStep(h) \/ TcpTimer(h) \/ Interrupt(h) \/ Restart(h) \/ Lose(h)
              \/ \E i \in 1..(MaxSwap + 1) : TcpInput(h, i)
        BY <2>1 DEF Next
      <3>2. CASE AppStep(h)
        BY <3>2, OpenOk, SendOk, ReceiveOk, CloseOk DEF AppStep
      <3>3. CASE TcpTimer(h) \/ Interrupt(h)
        BY <3>3, TimerOk, InterruptOk
      <3>4. CASE Restart(h) \/ Lose(h)
        BY <3>4, FaultOk
      <3>5. CASE \E i \in 1..(MaxSwap + 1) : TcpInput(h, i)
        BY <3>5, TcpInputOk
      <3> QED
        BY <3>1, <3>2, <3>3, <3>4, <3>5
    <2>2. CASE UNCHANGED vars
      BY <2>2 DEF vars, WakeInv, WakeOk, Remain
    <2> QED
      BY <2>1, <2>2
  <1>3. WakeInv => SleeperHasReason
    BY DEF WakeInv, WakeOk, SleeperHasReason, Opening
  <1> QED
    BY InitIInv, NextIInv, <1>1, <1>2, <1>3, PTL DEF Spec
=============================================================================
