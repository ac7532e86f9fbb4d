---------------------------- MODULE NetIntrProofs ----------------------------
(* Proofs about NetIntr for every number of protocols, subscribers, timers. *)
EXTENDS NetIntr, TLAPS

\* The interrupt thread is inside the list it walks.
InList ==
  /\ intr.at = "protocol" => intr.pos \in Protocol
  /\ intr.at = "event" => intr.pos \in 1..Subscribers

\* Until the device is armed no frame in it was announced.
NoneSignalled == dev \in {"closed", "attached", "async"} => Len(device) <= early

IInv ==
  /\ TypeOK /\ InList /\ NothingStranded /\ InterruptOwed /\ DeviceServed /\ NoneSignalled

LEMMA WaitsType == Waits \in [at : At, pos : Nat] /\ Waits.at = "sigwait"
  BY DEF Waits, At

\* net_input_handler pushes at most, and raises the soft interrupt if it does.
LEMMA InputHandlerEffect ==
  ASSUME NEW q \in [Protocol -> Seq(Frame)], NEW f \in Frame, pending \subseteq Signal,
         InputHandler(f, q)
  PROVE  /\ queue' \in [Protocol -> Seq(Frame)] /\ pending' \subseteq Signal
         /\ pending \subseteq pending'
         /\ SOFTIRQ \in pending' \/ queue' = q
  <1>1. CASE /\ f.type # 0
             /\ queue' = [q EXCEPT ![f.type] = Append(@, f)]
             /\ pending' = pending \cup {SOFTIRQ}
    <2>1. f.type \in Protocol /\ q[f.type] \in Seq(Frame)
      BY <1>1 DEF Frame
    <2>2. Append(q[f.type], f) \in Seq(Frame)
      BY <2>1
    <2> QED
      BY <1>1, <2>1, <2>2 DEF Signal
  <1>2. CASE queue' = q /\ pending' = pending
    BY <1>2
  <1> QED
    BY <1>1, <1>2 DEF InputHandler, Raised

LEMMA LoopbackEffect ==
  ASSUME NEW q \in [Protocol -> Seq(Frame)], TypeOK, Loopback(q)
  PROVE  /\ queue' \in [Protocol -> Seq(Frame)] /\ pending' \subseteq Signal
         /\ frames' \in 0..MaxFrames /\ pending \subseteq pending'
         /\ SOFTIRQ \in pending' \/ queue' = q
  <1> USE IntrAssumption
  <1>1. CASE queue' = q /\ pending' = pending /\ frames' = frames
    BY <1>1 DEF TypeOK
  <1>2. CASE /\ frames < MaxFrames /\ frames' = frames + 1
             /\ \E type \in Protocol : InputHandler([id |-> frames + 1, type |-> type], q)
    <2>1. PICK type \in Protocol : InputHandler([id |-> frames + 1, type |-> type], q)
      BY <1>2
    <2>2. [id |-> frames + 1, type |-> type] \in Frame /\ frames' \in 0..MaxFrames
      BY <1>2 DEF TypeOK, Frame
    <2> QED
      BY <2>1, <2>2, InputHandlerEffect DEF TypeOK
  <1> QED
    BY <1>1, <1>2 DEF Loopback

LEMMA AdvanceEffect ==
  ASSUME TypeOK, NEW n \in Nat, Advance(n)
  PROVE  /\ intr' \in [at : At, pos : Nat]
         /\ \/ intr'.at = intr.at /\ intr.pos < n /\ intr'.pos = intr.pos + 1
            \/ intr'.at = "sigwait" /\ intr.pos >= n
  BY WaitsType DEF TypeOK, Advance
-----------------------------------------------------------------------------
LEMMA ArriveIInv ==
  ASSUME IInv, NEW type \in Protocol \cup {0}, Arrive(type)
  PROVE  IInv'
  <1> DEFINE f == [id |-> frames + 1, type |-> type]
  <1>1. f \in Frame /\ frames' \in 0..MaxFrames
    BY IntrAssumption DEF Arrive, IInv, TypeOK, Frame
  <1>2. /\ device' = Append(device, f)
        /\ \/ dev = "attached" /\ early' = early + 1 /\ pending' = pending /\ dev' = dev
           \/ dev' = "killed" /\ early' = early /\ pending' = pending
           \/ dev = "armed" /\ dev' = dev /\ early' = early /\ pending' = pending \cup {IRQ}
    BY DEF Arrive
  <1> HIDE DEF f
  <1>3. device' \in Seq(Frame)
    BY <1>1, <1>2 DEF IInv, TypeOK
  <1>4. TypeOK'
    BY <1>1, <1>2, <1>3 DEF Arrive, IInv, TypeOK, Signal, Device
  <1>5. Len(device') = Len(device) + 1 /\ early \in Nat
    BY <1>1, <1>2 DEF IInv, TypeOK
  <1>6. DeviceServed' /\ NoneSignalled'
    BY <1>2, <1>5 DEF IInv, DeviceServed, NoneSignalled
  <1> QED
    BY <1>2, <1>4, <1>6 DEF Arrive, IInv, InList, NothingStranded, InterruptOwed

LEMMA OutsideIInv ==
  ASSUME IInv, OpenDevice \/ Expire \/ Interrupt \/ Shutdown
  PROVE  IInv'
  <1>1. CASE Expire
    BY <1>1 DEF Expire, IInv, TypeOK, Signal, InList, NothingStranded, InterruptOwed,
       DeviceServed, NoneSignalled
  <1>2. CASE Interrupt
    BY <1>2 DEF Interrupt, IInv, TypeOK, Signal, InList, NothingStranded, InterruptOwed,
                DeviceServed, NoneSignalled
  <1>3. CASE Shutdown
    BY <1>3 DEF Shutdown, IInv, TypeOK, Device, InList, NothingStranded, InterruptOwed,
                DeviceServed, NoneSignalled
  <1>4. CASE OpenDevice
    BY <1>4 DEF OpenDevice, Readable, IInv, TypeOK, Device, InList, NothingStranded,
                InterruptOwed, DeviceServed, NoneSignalled
  <1> QED
    BY <1>1, <1>2, <1>3, <1>4

\* The handler that sigwait starts begins at the head of its list.
LEMMA SigwaitIInv ==
  ASSUME IInv, NEW sig \in Signal, Sigwait(sig)
  PROVE  IInv'
  <1> USE IntrAssumption
  <1>1. /\ intr.at = "sigwait" /\ pending' = pending \ {sig}
        /\ intr' = [at |-> Handler(sig), pos |-> 1]
        /\ UNCHANGED <<device, queue, dev, early, frames, handled, owed>>
    BY DEF Sigwait
  <1>2. /\ sig = SOFTIRQ => Handler(sig) = "protocol"
        /\ sig = EVENT => Handler(sig) = "event"
        /\ sig = ALARM => Handler(sig) = "timer"
        /\ sig = IRQ => Handler(sig) = "isr"
    BY DEF Handler, SOFTIRQ, EVENT, ALARM, IRQ
  <1>3. sig \in {SOFTIRQ, EVENT, ALARM, IRQ}
    BY DEF Signal
  <1>4. intr'.at = Handler(sig) /\ intr'.pos = 1 /\ Handler(sig) \in At
    BY <1>1, <1>2, <1>3 DEF At
  <1>5. TypeOK'
    BY <1>1, <1>4 DEF IInv, TypeOK
  <1>6. InList'
    BY <1>4 DEF InList, Protocol
  <1>7. NothingStranded'
    BY <1>1, <1>2, <1>4 DEF IInv, NothingStranded, Protocol
  <1>8. InterruptOwed'
    BY <1>1, <1>2, <1>4 DEF IInv, InterruptOwed, TypeOK
  <1>9. DeviceServed' /\ NoneSignalled'
    BY <1>1, <1>2, <1>4 DEF IInv, DeviceServed, NoneSignalled
  <1> QED
    BY <1>5, <1>6, <1>7, <1>8, <1>9 DEF IInv

LEMMA IsrIInv ==
  ASSUME IInv, Isr
  PROVE  IInv'
  <1>1. CASE ReadFrame /\ intr' = intr
    <2>1. /\ device # <<>> /\ device' = Tail(device) /\ InputHandler(Head(device), queue)
          /\ early' = IF early > 0 THEN early - 1 ELSE 0
          /\ UNCHANGED <<dev, frames, handled, owed>> /\ intr.at = "isr"
      BY <1>1 DEF ReadFrame, Isr
    <2>2. /\ Head(device) \in Frame /\ device' \in Seq(Frame)
          /\ Len(device') = Len(device) - 1 /\ Len(device) \in Nat
      BY <2>1 DEF IInv, TypeOK
    <2>3. /\ queue' \in [Protocol -> Seq(Frame)] /\ pending' \subseteq Signal
          /\ pending \subseteq pending' /\ (SOFTIRQ \in pending' \/ queue' = queue)
      BY <2>1, <2>2, InputHandlerEffect DEF IInv, TypeOK
    <2>4. TypeOK'
      BY <1>1, <2>1, <2>2, <2>3 DEF IInv, TypeOK
    <2>5. DeviceServed' /\ NoneSignalled'
      BY <1>1, <2>1, <2>2 DEF IInv, TypeOK, DeviceServed, NoneSignalled
    <2> QED
      BY <1>1, <2>1, <2>3, <2>4, <2>5 DEF IInv, InList, NothingStranded, InterruptOwed
  <1>2. CASE device = <<>> /\ intr' = Waits /\ UNCHANGED <<device, early, queue, pending>>
    BY <1>2, WaitsType DEF Isr, IInv, TypeOK, InList, NothingStranded, InterruptOwed,
       DeviceServed, NoneSignalled
  <1>3. CASE UNCHANGED <<device, early, queue, pending, intr>>
    BY <1>3 DEF Isr, IInv, TypeOK, InList, NothingStranded, InterruptOwed, DeviceServed,
       NoneSignalled
  <1> QED
    BY <1>1, <1>2, <1>3 DEF Isr

LEMMA ProtocolHandlerIInv ==
  ASSUME IInv, ProtocolHandler
  PROVE  IInv'
  <1>0. PICK p \in Protocol : p = intr.pos
    BY DEF ProtocolHandler, IInv, InList
  <1>1. CASE /\ queue[p] # <<>> /\ handled' = handled \cup {Head(queue[p]).id}
             /\ Loopback([queue EXCEPT ![p] = Tail(@)]) /\ intr' = intr
    <2> DEFINE q == [queue EXCEPT ![p] = Tail(@)]
    <2>1. queue[p] \in Seq(Frame) /\ Head(queue[p]) \in Frame /\ Tail(queue[p]) \in Seq(Frame)
      BY <1>1 DEF IInv, TypeOK
    <2>2. q \in [Protocol -> Seq(Frame)] /\ Head(queue[p]).id \in 1..MaxFrames
      BY <2>1 DEF IInv, TypeOK, Frame
    <2>3. \A r \in Protocol : r # p => q[r] = queue[r]
      BY DEF IInv, TypeOK
    <2> HIDE DEF q
    <2>4. /\ queue' \in [Protocol -> Seq(Frame)] /\ pending' \subseteq Signal
          /\ frames' \in 0..MaxFrames /\ pending \subseteq pending'
          /\ SOFTIRQ \in pending' \/ queue' = q
      BY <1>1, <2>2, LoopbackEffect DEF IInv, q
    <2>5. TypeOK'
      BY <1>1, <2>2, <2>4 DEF ProtocolHandler, IInv, TypeOK
    <2>6. NothingStranded'
      BY <1>0, <1>1, <2>3, <2>4 DEF ProtocolHandler, IInv, NothingStranded, Protocol
    <2> QED
      BY <1>1, <2>4, <2>5, <2>6 DEF ProtocolHandler, IInv, InList, InterruptOwed,
         DeviceServed, NoneSignalled
  <1>2. CASE queue[p] = <<>> /\ Advance(Protocols) /\ UNCHANGED <<queue, pending, frames, handled>>
    <2>1. /\ intr' \in [at : At, pos : Nat] /\ intr.pos \in Nat
          /\ \/ intr'.at = "protocol" /\ intr.pos < Protocols /\ intr'.pos = intr.pos + 1
             \/ intr'.at = "sigwait" /\ intr.pos >= Protocols
      BY <1>2, AdvanceEffect, IntrAssumption DEF ProtocolHandler, IInv, TypeOK
    <2>2. TypeOK'
      BY <1>2, <2>1 DEF ProtocolHandler, IInv, TypeOK
    <2>3. InList'
      BY <2>1, IntrAssumption DEF InList, Protocol
    <2>4. NothingStranded'
      BY <1>0, <1>2, <2>1, IntrAssumption DEF ProtocolHandler, IInv, NothingStranded, Protocol
    <2>5. InterruptOwed' /\ DeviceServed' /\ NoneSignalled'
      BY <1>2, <2>1 DEF ProtocolHandler, IInv, InterruptOwed, DeviceServed, NoneSignalled
    <2> QED
      BY <2>2, <2>3, <2>4, <2>5 DEF IInv
  <1> QED
    BY <1>0, <1>1, <1>2 DEF ProtocolHandler

LEMMA EventHandlerIInv ==
  ASSUME IInv, EventHandler
  PROVE  IInv'
  <1>1. /\ intr' \in [at : At, pos : Nat] /\ intr.pos \in Nat
        /\ \/ intr'.at = "event" /\ intr.pos < Subscribers /\ intr'.pos = intr.pos + 1
           \/ intr'.at = "sigwait" /\ intr.pos >= Subscribers
    BY AdvanceEffect, IntrAssumption DEF EventHandler, IInv, TypeOK
  <1>2. /\ intr.at = "event" /\ owed' = owed \ {intr.pos}
        /\ UNCHANGED <<pending, device, queue, dev, early, frames, handled>>
    BY DEF EventHandler
  <1>3. TypeOK'
    BY <1>1, <1>2 DEF IInv, TypeOK
  <1>4. InList'
    BY <1>1, IntrAssumption DEF InList
  <1>5. NothingStranded' /\ DeviceServed' /\ NoneSignalled'
    BY <1>1, <1>2 DEF IInv, NothingStranded, DeviceServed, NoneSignalled
  <1>6. InterruptOwed'
    <2>1. \A s \in owed : s \in 1..Subscribers
      BY DEF IInv, TypeOK
    <2> QED
      BY <1>1, <1>2, <2>1, IntrAssumption DEF IInv, InterruptOwed
  <1> QED
    BY <1>3, <1>4, <1>5, <1>6 DEF IInv

LEMMA TimerHandlerIInv ==
  ASSUME IInv, TimerHandler
  PROVE  IInv'
  <1>1. /\ intr' \in [at : At, pos : Nat] /\ intr.at = "timer" /\ intr'.at \in {"timer", "sigwait"}
    BY AdvanceEffect, IntrAssumption DEF TimerHandler, IInv
  <1>2. /\ queue' \in [Protocol -> Seq(Frame)] /\ pending' \subseteq Signal
        /\ frames' \in 0..MaxFrames /\ pending \subseteq pending'
        /\ SOFTIRQ \in pending' \/ queue' = queue
    BY LoopbackEffect DEF TimerHandler, IInv, TypeOK
  <1>3. TypeOK'
    BY <1>1, <1>2 DEF TimerHandler, IInv, TypeOK
  <1> QED
    BY <1>1, <1>2, <1>3
       DEF TimerHandler, IInv, InList, NothingStranded, InterruptOwed, DeviceServed, NoneSignalled

LEMMA InitIInv ==
  Init => IInv
  BY IntrAssumption
     DEF Init, IInv, TypeOK, At, Device, InList, NothingStranded, InterruptOwed,
         DeviceServed, NoneSignalled

LEMMA NextIInv ==
  IInv /\ [Next]_vars => IInv'
  <1> SUFFICES ASSUME IInv, [Next]_vars PROVE IInv'
    OBVIOUS
  <1>1. CASE \E type \in Protocol \cup {0} : Arrive(type)
    BY <1>1, ArriveIInv
  <1>2. CASE OpenDevice \/ Expire \/ Interrupt \/ Shutdown
    BY <1>2, OutsideIInv
  <1>3. CASE \E sig \in Signal : Sigwait(sig)
    BY <1>3, SigwaitIInv
  <1>4. CASE Isr \/ ProtocolHandler \/ EventHandler \/ TimerHandler
    BY <1>4, IsrIInv, ProtocolHandlerIInv, EventHandlerIInv, TimerHandlerIInv
  <1>5. CASE UNCHANGED vars
    BY <1>5 DEF vars, IInv, TypeOK, InList, NothingStranded, InterruptOwed, DeviceServed,
       NoneSignalled
  <1> QED
    BY <1>1, <1>2, <1>3, <1>4, <1>5 DEF Next, Alive, Ended, IntrThread

\* However many protocols there are and however signals coalesce, no frame stays
\* in a protocol queue without a soft interrupt that will come to it.
THEOREM FramesNotStranded == Spec => []NothingStranded
  <1>1. IInv => NothingStranded
    BY DEF IInv
  <1> QED
    BY <1>1, InitIInv, NextIInv, PTL DEF Spec

\* However many subscribers there are, each one is still to be called after every
\* net_interrupt it has not been told of.
THEOREM InterruptsNotLost == Spec => []InterruptOwed
  <1>1. IInv => InterruptOwed
    BY DEF IInv
  <1> QED
    BY <1>1, InitIInv, NextIInv, PTL DEF Spec

\* The interrupt of the device is never lost while frames are in it.
THEOREM DeviceNotForgotten == Spec => []DeviceServed
  <1>1. IInv => DeviceServed
    BY DEF IInv
  <1> QED
    BY <1>1, InitIInv, NextIInv, PTL DEF Spec
=============================================================================
