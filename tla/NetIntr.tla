------------------------------ MODULE NetIntr ------------------------------
(* The interrupt thread of platform/linux/intr.c and what it drives in net.c: *)
(* device interrupts, the protocol queues and their soft interrupt, the timer *)
(* and the event handlers.  A signal that is already pending is not queued    *)
(* again.  (The kernel queues the real-time signal of the device, but a       *)
(* second one that finds the device empty changes nothing.)  Frames that an   *)
(* application thread sends through the loopback device are in module         *)
(* PacketQueue, since their push on a protocol queue is not locked.           *)
EXTENDS Integers, Sequences

CONSTANTS
  Protocols,    \* number of registered protocols, in the order of the list
  Subscribers,  \* number of event handlers, in the order of the list
  Timers,       \* number of timers, in the order of the list
  MaxFrames     \* bound: frames that arrive or are looped back

ASSUME IntrAssumption ==
  /\ Protocols \in Nat \ {0} /\ Subscribers \in Nat \ {0} /\ Timers \in Nat \ {0}
  /\ MaxFrames \in Nat

VARIABLES
  pending,   \* signals pending for the process
  device,    \* frames in the device, each the number of its protocol
  queue,     \* the queue of each protocol
  intr,      \* where the interrupt thread is
  dev,       \* how far the device is open
  early,     \* ghost: frames in the device that no signal announced
  frames,    \* number of frames so far
  handled,   \* history: the frames each protocol handler was given
  owed       \* event handlers that an interrupt has not reached yet

vars == <<pending, device, queue, intr, dev, early, frames, handled, owed>>

\* SIGUSR1, SIGUSR2, SIGALRM and the signal of the device, by their numbers:
\* sigwait takes the lowest one.
SOFTIRQ == 1
EVENT == 2
ALARM == 3
IRQ == 4
Signal == {SOFTIRQ, EVENT, ALARM, IRQ}

Protocol == 1..Protocols
Frame == [id : 1..MaxFrames, type : Protocol \cup {0}]   \* type 0: not registered

\* ether_tap_open: "attached" after TUNSETIFF, "async" after O_ASYNC, "armed" after
\* F_SETSIG.  "shut": the descriptor was closed; "killed": SIGIO, whose default
\* action nobody changed, ended the process.
Device == {"closed", "attached", "async", "armed", "shut", "killed"}
Readable == {"attached", "async", "armed"}

At == {"sigwait", "isr", "protocol", "event", "timer"}

TypeOK ==
  /\ pending \subseteq Signal
  /\ device \in Seq(Frame)
  /\ queue \in [Protocol -> Seq(Frame)]
  /\ intr \in [at : At, pos : Nat]
  /\ dev \in Device
  /\ early \in Nat
  /\ frames \in 0..MaxFrames
  /\ handled \subseteq 1..MaxFrames
  /\ owed \subseteq 1..Subscribers

\* In net_run, after intr_run.
Init ==
  /\ pending = {}
  /\ device = <<>>
  /\ queue = [p \in Protocol |-> <<>>]
  /\ intr = [at |-> "sigwait", pos |-> 1]
  /\ dev = "closed"
  /\ early = 0
  /\ frames = 0
  /\ handled = {}
  /\ owed = {}

Waits == [at |-> "sigwait", pos |-> 1]
-----------------------------------------------------------------------------
(* Outside the interrupt thread *)

\* net_device_open, ether_tap_open: the device is opened in steps, each of which
\* may fail.
OpenDevice ==
  /\ \/ dev = "closed" /\ dev' = "attached"
     \/ dev = "attached" /\ dev' = "async"
     \/ dev = "async" /\ dev' = "armed"
     \/ dev \in Readable /\ dev' = "shut"
  /\ UNCHANGED <<pending, device, queue, intr, early, frames, handled, owed>>

\* A frame reaches the device.  It raises no signal, SIGIO or the signal of the
\* device, whatever ether_tap_open has asked for so far.
Arrive(type) ==
  /\ frames < MaxFrames
  /\ device' = Append(device, [id |-> frames + 1, type |-> type])
  /\ frames' = frames + 1
  /\ \/ /\ dev = "attached"
        /\ early' = early + 1
        /\ UNCHANGED <<pending, dev>>
     \/ /\ dev = "async"
        /\ dev' = "killed"
        /\ UNCHANGED <<pending, early>>
     \/ /\ dev = "armed"
        /\ pending' = pending \cup {IRQ}
        /\ UNCHANGED <<dev, early>>
  /\ UNCHANGED <<queue, intr, handled, owed>>

\* The timer of intr_timer_setup expires.
Expire ==
  /\ pending' = pending \cup {ALARM}
  /\ UNCHANGED <<device, queue, intr, dev, early, frames, handled, owed>>

\* Mutant of Interrupt: nothing is requested while net_event_handler runs.
InterruptIdle ==
  /\ pending' = IF intr.at = "event" THEN pending ELSE pending \cup {EVENT}
  /\ owed' = 1..Subscribers
  /\ UNCHANGED <<device, queue, intr, dev, early, frames, handled>>

\* net_interrupt
Interrupt ==
  /\ pending' = pending \cup {EVENT}
  /\ owed' = 1..Subscribers
  /\ UNCHANGED <<device, queue, intr, dev, early, frames, handled>>

\* net_shutdown, net_device_close
Shutdown ==
  /\ dev = "armed"
  /\ dev' = "shut"
  /\ UNCHANGED <<pending, device, queue, intr, early, frames, handled, owed>>
-----------------------------------------------------------------------------
(* The interrupt thread *)

Handler(sig) == CASE sig = SOFTIRQ -> "protocol" [] sig = EVENT -> "event"
                  [] sig = ALARM -> "timer"      [] sig = IRQ -> "isr"

\* sigwait returns, and intr_thread calls the handler.
Sigwait(sig) ==
  /\ intr.at = "sigwait"
  /\ sig \in pending /\ \A s \in pending : sig <= s
  /\ pending' = pending \ {sig}
  /\ intr' = [at |-> Handler(sig), pos |-> 1]
  /\ UNCHANGED <<device, queue, dev, early, frames, handled, owed>>

\* Mutant of Raised: a soft interrupt is not raised while the handler runs.
RaisedIdle(sigs) == IF intr.at = "protocol" THEN sigs ELSE sigs \cup {SOFTIRQ}

\* raise_softirq
Raised(sigs) == sigs \cup {SOFTIRQ}

\* net_input_handler: the frame is pushed on the queue of its protocol, unless
\* nobody registered it or memory is short.
InputHandler(f, q) ==
  \/ /\ f.type # 0
     /\ queue' = [q EXCEPT ![f.type] = Append(@, f)]
     /\ pending' = Raised(pending)
  \/ queue' = q /\ UNCHANGED pending

\* ether_tap_read and net_input_handler for the first frame.
ReadFrame ==
  /\ device # <<>> /\ dev \in Readable
  /\ device' = Tail(device)
  /\ early' = IF early > 0 THEN early - 1 ELSE 0
  /\ InputHandler(Head(device), queue)

\* Mutant of Isr: one frame for one interrupt.
IsrOnce ==
  /\ intr.at = "isr"
  /\ \/ ReadFrame
     \/ /\ device = <<>> \/ dev \notin Readable
        /\ UNCHANGED <<device, early, queue, pending>>
  /\ intr' = Waits
  /\ UNCHANGED <<dev, frames, handled, owed>>

\* ether_tap_isr reads frames until there are none.  (Once the descriptor is
\* closed poll reports it at every call, and the loop never ends.)
Isr ==
  /\ intr.at = "isr"
  /\ \/ ReadFrame /\ UNCHANGED intr
     \/ /\ device = <<>> /\ dev \in Readable
        /\ intr' = Waits
        /\ UNCHANGED <<device, early, queue, pending>>
     \/ dev \notin Readable /\ UNCHANGED <<device, early, queue, pending, intr>>
  /\ UNCHANGED <<dev, frames, handled, owed>>

\* A handler may send through the loopback device, in the same thread:
\* loopback_transmit calls net_input_handler.
Loopback(q) ==
  \/ queue' = q /\ UNCHANGED <<pending, frames>>
  \/ /\ frames < MaxFrames
     /\ frames' = frames + 1
     /\ \E type \in Protocol : InputHandler([id |-> frames + 1, type |-> type], q)

\* Where the thread goes from element pos of a list of n.
Advance(n) == intr' = IF intr.pos < n THEN [intr EXCEPT !.pos = @ + 1] ELSE Waits

\* net_protocol_handler: pops and handles one frame, or goes on in the list.
ProtocolHandler ==
  LET p == intr.pos IN
  /\ intr.at = "protocol"
  /\ \/ /\ queue[p] # <<>>
        /\ handled' = handled \cup {Head(queue[p]).id}
        /\ Loopback([queue EXCEPT ![p] = Tail(@)])
        /\ UNCHANGED intr
     \/ /\ queue[p] = <<>>
        /\ Advance(Protocols)
        /\ UNCHANGED <<queue, pending, frames, handled>>
  /\ UNCHANGED <<device, dev, early, owed>>

\* net_event_handler
EventHandler ==
  /\ intr.at = "event"
  /\ owed' = owed \ {intr.pos}
  /\ Advance(Subscribers)
  /\ UNCHANGED <<pending, device, queue, dev, early, frames, handled>>

\* net_timer_handler: one timer, whose handler may send (a retransmission).
TimerHandler ==
  /\ intr.at = "timer"
  /\ Loopback(queue)
  /\ Advance(Timers)
  /\ UNCHANGED <<device, dev, early, handled, owed>>

IntrThread ==
  \/ \E sig \in Signal : Sigwait(sig)
  \/ Isr
  \/ ProtocolHandler
  \/ EventHandler
  \/ TimerHandler

\* The process has ended.
Ended == dev = "killed" /\ UNCHANGED vars

Alive ==
  \/ \E type \in Protocol \cup {0} : Arrive(type)
  \/ OpenDevice
  \/ Expire
  \/ Interrupt
  \/ Shutdown
  \/ IntrThread

Next == (dev # "killed" /\ Alive) \/ Ended

Spec == Init /\ [][Next]_vars

\* The interrupt thread is scheduled.
FairSpec == Spec /\ WF_vars(dev # "killed" /\ IntrThread)
-----------------------------------------------------------------------------
(* Properties *)

\* A frame in a protocol queue is on its way to the handler: the soft interrupt
\* is pending or net_protocol_handler has still to come to that queue, although
\* signals coalesce and handlers push on queues that were already emptied.
NothingStranded ==
  \A p \in Protocol : queue[p] # <<>> =>
    SOFTIRQ \in pending \/ (intr.at = "protocol" /\ intr.pos <= p)

\* An interrupt that was requested reaches every subscriber, also one requested
\* while net_event_handler is in the middle of its list.
InterruptOwed ==
  owed # {} => \/ EVENT \in pending
               \/ intr.at = "event" /\ \A s \in owed : intr.pos <= s

\* While the device is open a frame that came after ether_tap_open is read: its
\* signal is pending or the interrupt service routine has not finished.  (A frame
\* that came while the device was being opened waits for the next one.)
DeviceServed ==
  Len(device) > early /\ dev = "armed" => IRQ \in pending \/ intr.at = "isr"

\* The frames in the protocol queues.
WaitingFrames == {f.id : f \in UNION {{queue[p][k] : k \in DOMAIN queue[p]} : p \in Protocol}}

\* Every frame in a protocol queue is handled, however often the timer expires,
\* unless the descriptor is closed (the service routine may then never return) or
\* the process is killed while it opens the device.
FramesHandled ==
  \A id \in 1..MaxFrames : id \in WaitingFrames ~> id \in handled \/ dev \in {"shut", "killed"}

\* Every subscriber is told of an interrupt, under the same conditions.
SubscribersTold ==
  \A s \in 1..Subscribers : s \in owed ~> s \notin owed \/ dev \in {"shut", "killed"}
=============================================================================
