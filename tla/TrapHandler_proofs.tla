-------------------------- MODULE TrapHandler_proofs --------------------------
(***************************************************************************)
(* Theorems about TrapReceiver and TrapHandler, for every set of packets   *)
(* with any contents, any timers and either comparison of OIDs.            *)
(*                                                                         *)
(* The inductive invariant of the receiver is ReceiverInv.  The bound on   *)
(* late arrivals needs to know that nothing is received any more from a    *)
(* closed socket (ListenerLife), the order needs to know that the listener *)
(* holds a packet exactly while it is pushing it.                          *)
(*                                                                         *)
(* The main loop with everything around it implements the specification    *)
(* of the receiver, so what was proved of the receiver holds there too; it *)
(* uses the command queue as BoundedExecutor allows; HandlerInv, beside    *)
(* ReceiverInv, says where every packet is.                                *)
(***************************************************************************)
EXTENDS TrapHandler, SeqFacts

USE TrapReceiverAssumption DEF TrapReceiverAssumption

\* The initial state satisfies the invariant.
LEMMA InitReceiverInv == ReceiverInit => ReceiverInv
<1> SUFFICES ASSUME ReceiverInit PROVE ReceiverInv
  OBVIOUS
<1>1. ReceiverTypeOK
  <2>1. <<>> \in Seq(Packets)
    OBVIOUS
  <2>2. FALSE \in BOOLEAN
    OBVIOUS
  <2>3. QED
    BY <2>1, <2>2 DEF ReceiverInit, ReceiverTypeOK
<1>2. ListenerLife /\ LateArrivals
  BY DEF ReceiverInit, ListenerLife, LateArrivals
<1>3. ReceiveOrder
  BY DEF ReceiverInit, ReceiveOrder, InHand
<1>4. ReceivedOnce
  BY DEF ReceiverInit, ReceivedOnce, IsInjective, ToSet
<1>5. CountIsCurrent
  BY DEF ReceiverInit, CountIsCurrent
<1>6. QED
  BY <1>1, <1>2, <1>3, <1>4, <1>5 DEF ReceiverInv

\* The network changes net and sent only; a datagram is sent once.
LEMMA NetworkInv ==
  ASSUME ReceiverInv, NEW d \in Packets \cup EmptyDatagrams, Send(d) \/ Lose(d)
  PROVE  ReceiverInv'
<1> USE DEF ReceiverInv
<1>1. /\ UNCHANGED <<objectVars, listenerVars, queueVars>>
      /\ net' \subseteq Packets \cup EmptyDatagrams
      /\ sent' \subseteq Packets \cup EmptyDatagrams
      /\ net' \subseteq sent'
      /\ sent \ net \subseteq sent' \ net'
  BY DEF Send, Lose, ReceiverTypeOK, ListenerLife
<1>2. ReceiverTypeOK' /\ ListenerLife'
  BY <1>1 DEF ReceiverTypeOK, ListenerLife, objectVars, listenerVars, queueVars
<1>3. ReceiveOrder' /\ CountIsCurrent' /\ LateArrivals'
  BY <1>1 DEF ReceiveOrder, InHand, CountIsCurrent, LateArrivals, listenerVars, queueVars
<1>4. ReceivedOnce'
  BY <1>1 DEF ReceivedOnce, listenerVars
<1>5. QED
  BY <1>2, <1>3, <1>4

\* The steps of the caller other than popping touch the object and the socket;
\* a socket that is closed stays closed.
LEMMA CallerInv ==
  ASSUME ReceiverInv,
         ConstructReceiver \/ StartReceiver \/ StopReceiver \/ DeleteReceiver
  PROVE  ReceiverInv'
<1> USE DEF ReceiverInv
<1>1. /\ UNCHANGED <<netVars, queueVars, lsock, newPacket, nReceivedTraps, received, late>>
      /\ lpc' = lpc \/ (lpc = "none" /\ lpc' \in {"entry", "none"})
  BY DEF ConstructReceiver, StartReceiver, StopReceiver, DeleteReceiver, listenerVars,
         ListenerLife
<1>2. ReceiverTypeOK'
  BY <1>1 DEF ReceiverTypeOK, netVars, queueVars, ConstructReceiver, StartReceiver,
              StopReceiver, DeleteReceiver, CloseSocket
<1>3. ListenerLife'
  BY <1>1 DEF ListenerLife, ReceiverTypeOK, netVars, listenerVars, ConstructReceiver,
              StartReceiver, StopReceiver, DeleteReceiver, CloseSocket
<1>4. ReceiveOrder' /\ CountIsCurrent' /\ LateArrivals'
  BY <1>1 DEF ReceiveOrder, InHand, CountIsCurrent, LateArrivals, queueVars
<1>5. ReceivedOnce'
  BY <1>1 DEF ReceivedOnce, netVars
<1>6. QED
  BY <1>2, <1>3, <1>4, <1>5

\* The caller pops the first packet of the queue.
LEMMA TryPopInv ==
  ASSUME ReceiverInv, NEW p \in Packets, TryPopPacket(p)
  PROVE  ReceiverInv'
<1> USE DEF ReceiverInv
<1>1. /\ pQueue # <<>> /\ p = Head(pQueue)
      /\ pQueue' = Tail(pQueue)
      /\ popped' = Append(popped, p)
      /\ UNCHANGED <<netVars, objectVars, listenerVars>>
  BY DEF TryPopPacket
<1>2. pQueue' \in Seq(Packets) /\ popped' \in Seq(Packets)
  BY <1>1, AppendToSet, HeadTailProperties DEF ReceiverTypeOK
<1>3. ReceiverTypeOK' /\ ListenerLife'
  BY <1>1, <1>2 DEF ReceiverTypeOK, ListenerLife, netVars, objectVars, listenerVars
<1>4. popped' \o pQueue' = popped \o pQueue
  BY <1>1, PopKeepsOrder DEF ReceiverTypeOK
<1>5. ReceiveOrder'
  BY <1>1, <1>4 DEF ReceiveOrder, InHand, listenerVars
<1>6. CountIsCurrent' /\ LateArrivals' /\ ReceivedOnce'
  BY <1>1 DEF CountIsCurrent, LateArrivals, ReceivedOnce, listenerVars, netVars
<1>7. QED
  BY <1>3, <1>5, <1>6

\* The listener starts, or ends without a packet in its hands.
LEMMA ListenerControlInv ==
  ASSUME ReceiverInv,
         \/ ListenerEntry \/ ListenerSetup \/ ReceiveClosed \/ ReceiveError
         \/ \E d \in EmptyDatagrams : ReceiveEmpty(d)
  PROVE  ReceiverInv'
<1> USE DEF ReceiverInv
<1>1. /\ UNCHANGED <<sent, objectVars, queueVars, newPacket, received, late>>
      /\ net' \subseteq net
      /\ nReceivedTraps' = nReceivedTraps \/ (lpc = "checked" /\ nReceivedTraps' = 0)
      /\ lsock' = lsock \/ lsock' = ListenSocket
      /\ lpc \in {"entry", "checked", "receiving"}
      /\ lpc' \in {"checked", "receiving", "exited", "faulted"}
      /\ lpc' = "checked" => lpc = "entry"
  BY DEF ListenerEntry, ListenerSetup, ReceiveClosed, ReceiveError, ReceiveEmpty, AfterEmpty,
         TakeDatagram, netVars
<1>2. ReceiverTypeOK'
  BY <1>1 DEF ReceiverTypeOK, objectVars, queueVars
<1>3. ListenerLife' /\ LateArrivals'
  BY <1>1 DEF ListenerLife, LateArrivals, objectVars
<1>4. ReceiveOrder'
  BY <1>1 DEF ReceiveOrder, InHand, queueVars
<1>5. CountIsCurrent'
  <2>1. received = <<>> => Len(received) = 0
    OBVIOUS
  <2>2. QED
    BY <1>1, <2>1 DEF CountIsCurrent, ListenerLife
<1>6. ReceivedOnce'
  BY <1>1 DEF ReceivedOnce
<1>7. QED
  BY <1>2, <1>3, <1>4, <1>5, <1>6

\* recvfrom takes a datagram off the network, which was not received before.
LEMMA ReceivePacketInv ==
  ASSUME ReceiverInv, NEW p \in Packets, ReceivePacket(p)
  PROVE  ReceiverInv'
<1> USE DEF ReceiverInv
<1>1. /\ lpc = "receiving" /\ lpc' = "pushing"
      /\ sockOpen
      /\ p \in net /\ net' = net \ {p}
      /\ newPacket' = p
      /\ received' = Append(received, p)
      /\ UNCHANGED <<sent, objectVars, lsock, nReceivedTraps, late, queueVars>>
  BY DEF ReceivePacket, CanReceive, TakeDatagram
<1>2. /\ received' \in Seq(Packets)
      /\ Len(received') = Len(received) + 1
      /\ ToSet(received') = ToSet(received) \cup {p}
      /\ p \notin ToSet(received) => IsInjective(received')
  BY <1>1, AppendToSet DEF ReceiverTypeOK, ReceivedOnce
<1>3. ReceiverTypeOK'
  BY <1>1, <1>2 DEF ReceiverTypeOK, objectVars, queueVars
<1>4. ListenerLife' /\ LateArrivals'
  BY <1>1 DEF ListenerLife, LateArrivals, objectVars
<1>5. ReceiveOrder'
  <2>1. popped \o pQueue \in Seq(Packets)
    BY ConcatProperties DEF ReceiverTypeOK
  <2>2. (popped \o pQueue) \o <<>> = popped \o pQueue
    BY <2>1, ConcatEmptySeq
  <2>3. received = popped \o pQueue
    BY <1>1, <2>2 DEF ReceiveOrder, InHand
  <2>4. Append(popped \o pQueue, p) = (popped \o pQueue) \o <<p>>
    BY <2>1
  <2>5. QED
    BY <1>1, <2>3, <2>4 DEF ReceiveOrder, InHand, queueVars
<1>6. CountIsCurrent'
  BY <1>1, <1>2, LenProperties DEF CountIsCurrent, ReceiverTypeOK
<1>7. ReceivedOnce'
  BY <1>1, <1>2 DEF ReceivedOnce, ListenerLife
<1>8. QED
  BY <1>3, <1>4, <1>5, <1>6, <1>7

\* The packet goes from the listener's hands to the end of the queue.
LEMMA PushPacketInv ==
  ASSUME ReceiverInv, PushPacket
  PROVE  ReceiverInv'
<1> USE DEF ReceiverInv
<1>1. /\ lpc = "pushing" /\ lpc' = "counting"
      /\ pQueue' = Append(pQueue, newPacket)
      /\ late' = IF sockOpen THEN late ELSE late + 1
      /\ newPacket' = NoPacket
      /\ UNCHANGED <<netVars, objectVars, lsock, nReceivedTraps, received, popped>>
  BY DEF PushPacket, Push
<1>2. newPacket \in Packets /\ late = 0
  BY <1>1 DEF ReceiverTypeOK, ListenerLife
<1>3. pQueue' \in Seq(Packets)
  BY <1>1, <1>2, AppendToSet DEF ReceiverTypeOK
<1>4. ReceiverTypeOK'
  BY <1>1, <1>2, <1>3 DEF ReceiverTypeOK, netVars, objectVars
<1>5. ListenerLife' /\ LateArrivals'
  BY <1>1, <1>2 DEF ListenerLife, LateArrivals, netVars, objectVars
<1>6. ReceiveOrder'
  <2>1. popped \o pQueue' = Append(popped \o pQueue, newPacket)
    BY <1>1, <1>2, PushExtendsOrder DEF ReceiverTypeOK
  <2>2. popped \o pQueue \in Seq(Packets) /\ popped \o pQueue' \in Seq(Packets)
    BY <1>3, ConcatProperties DEF ReceiverTypeOK
  <2>3. Append(popped \o pQueue, newPacket) = (popped \o pQueue) \o <<newPacket>>
    BY <1>2, <2>2
  <2>4. (popped \o pQueue') \o <<>> = popped \o pQueue'
    BY <2>2, ConcatEmptySeq
  <2>5. QED
    BY <1>1, <2>1, <2>3, <2>4 DEF ReceiveOrder, InHand
<1>7. CountIsCurrent' /\ ReceivedOnce'
  BY <1>1 DEF CountIsCurrent, ReceivedOnce, netVars
<1>8. QED
  BY <1>4, <1>5, <1>6, <1>7

\* The counter catches up with the queue.
LEMMA CountPacketInv ==
  ASSUME ReceiverInv, CountPacket
  PROVE  ReceiverInv'
<1> USE DEF ReceiverInv
<1>1. /\ lpc = "counting" /\ lpc' = "receiving"
      /\ nReceivedTraps' = nReceivedTraps + 1
      /\ UNCHANGED <<netVars, objectVars, lsock, newPacket, received, late, queueVars>>
  BY DEF CountPacket, Increment
<1>2. ReceiverTypeOK' /\ ListenerLife' /\ LateArrivals'
  BY <1>1 DEF ReceiverTypeOK, ListenerLife, LateArrivals, netVars, objectVars, queueVars
<1>3. ReceiveOrder' /\ ReceivedOnce'
  BY <1>1 DEF ReceiveOrder, InHand, ReceivedOnce, netVars, queueVars
<1>4. CountIsCurrent'
  BY <1>1, LenProperties DEF CountIsCurrent, ReceiverTypeOK
<1>5. QED
  BY <1>2, <1>3, <1>4

\* Every step keeps the invariant.
LEMMA NextReceiverInv ==
  ASSUME ReceiverInv, [ReceiverNext]_rvars
  PROVE  ReceiverInv'
<1>1. CASE Network
  BY <1>1, NetworkInv DEF Network
<1>2. CASE Caller
  BY <1>2, CallerInv, TryPopInv DEF Caller
<1>3. CASE Listener
  BY <1>3, ListenerControlInv, ReceivePacketInv, PushPacketInv, CountPacketInv DEF Listener
<1>4. CASE UNCHANGED rvars
  <2>1. UNCHANGED <<netVars, objectVars, listenerVars, queueVars>>
    BY <1>4 DEF rvars
  <2> USE <2>1 DEF netVars, objectVars, listenerVars, queueVars, ReceiverInv
  <2>2. ReceiverTypeOK' /\ ListenerLife' /\ LateArrivals'
    BY DEF ReceiverTypeOK, ListenerLife, LateArrivals
  <2>3. ReceiveOrder' /\ ReceivedOnce' /\ CountIsCurrent'
    BY DEF ReceiveOrder, InHand, ReceivedOnce, CountIsCurrent
  <2>4. QED
    BY <2>2, <2>3
<1>5. QED
  BY <1>1, <1>2, <1>3, <1>4 DEF ReceiverNext

\* The invariant holds in every reachable state of the receiver.
THEOREM ReceiverInvariant == ReceiverSpec => []ReceiverInv
<1>1. QED
  BY InitReceiverInv, NextReceiverInv, PTL DEF ReceiverSpec

\* Every variable of the receiver keeps its type; the counter never falls below 0.
THEOREM ReceiverTypeCorrect == ReceiverSpec => []ReceiverTypeOK
<1>1. ReceiverInv => ReceiverTypeOK
  BY DEF ReceiverInv
<1>2. QED
  BY <1>1, ReceiverInvariant, PTL

\* Packets leave the queue in the order of recvfrom, none lost, doubled or overtaken.
THEOREM ReceiveOrderHolds == ReceiverSpec => []ReceiveOrder
<1>1. ReceiverInv => ReceiveOrder
  BY DEF ReceiverInv
<1>2. QED
  BY <1>1, ReceiverInvariant, PTL

\* The counter is at most one packet behind.
THEOREM CountIsCurrentHolds == ReceiverSpec => []CountIsCurrent
<1>1. ReceiverInv => CountIsCurrent
  BY DEF ReceiverInv
<1>2. QED
  BY <1>1, ReceiverInvariant, PTL

\* After the socket was closed, one packet at most is still pushed.
THEOREM LateArrivalsHolds == ReceiverSpec => []LateArrivals
<1>1. ReceiverInv => LateArrivals
  BY DEF ReceiverInv
<1>2. QED
  BY <1>1, ReceiverInvariant, PTL

-----------------------------------------------------------------------------
(* The main loop and everything around it. *)

\* Main-loop steps that leave the receiver alone.
LEMMA QuietStep ==
  ASSUME \/ BeginPass \/ WaitEnds \/ Quit \/ GoOn \/ UpdateConfig \/ EndTraps
         \/ \E j \in Timers : ReapCommand(j) \/ TimerExpired(j)
         \/ EndReap \/ EndTimers \/ LaunchCommand \/ EndLaunch
         \/ ReportTraps \/ EndDrain \/ CloseCommandQueue \/ EndCommands \/ EndMain
         \/ RequestShutdown \/ SignalQuit \/ KeyPress \/ Terminated
  PROVE  UNCHANGED rvars
BY DEF BeginPass, WaitEnds, Quit, GoOn, UpdateConfig, EndTraps, ReapCommand, TimerExpired,
       EndReap, EndTimers, LaunchCommand, EndLaunch, ReportTraps, GetTrapCount, EndDrain,
       CloseCommandQueue, EndCommands, EndMain, RequestShutdown, SignalQuit, KeyPress,
       Terminated, vars

\* Every step of the program is a step of the receiver or leaves it alone.
LEMMA StepOfReceiver == [Next]_vars => [ReceiverNext]_rvars
<1> SUFFICES ASSUME [Next]_vars PROVE ReceiverNext \/ UNCHANGED rvars
  OBVIOUS
<1>1. CASE Environment
  BY <1>1 DEF Environment, ReceiverNext, Listener
<1>2. CASE NewReceiver \/ StartListening \/ StopListening \/ DestroyReceiver
  BY <1>2 DEF NewReceiver, StartListening, StopListening, DestroyReceiver, ReceiverNext, Caller
<1>3. CASE \E p \in Packets :
             MalformedTrap(p) \/ UnknownTrap(p) \/ MalformedEvent(p) \/ HandleEvent(p)
             \/ DropTrap(p)
  <2>1. \E p \in Packets : TryPopPacket(p)
    BY <1>3 DEF MalformedTrap, UnknownTrap, MalformedEvent, HandleEvent, DropTrap, PopTrap
  <2>2. QED
    BY <2>1 DEF ReceiverNext, Caller
<1>4. CASE UNCHANGED vars
  BY <1>4 DEF vars
<1>5. QED
  BY <1>1, <1>2, <1>3, <1>4, QuietStep DEF Next, Main, Pass, ProcessTraps, Shutdown

\* The program implements the receiver's specification.
THEOREM RefinesReceiver == Spec => ImplementsReceiver
<1>1. Init => ReceiverInit
  BY DEF Init
<1>2. QED
  BY <1>1, StepOfReceiver, PTL DEF Spec, ImplementsReceiver, ReceiverSpec

\* What was proved of the receiver holds while the main loop runs it.
THEOREM ReceiverSafeInHandler == Spec => []ReceiverInv
BY RefinesReceiver, ReceiverInvariant, PTL DEF ImplementsReceiver

\* Every step of the program is a step of the command queue's specification or
\* leaves the queue alone.
LEMMA StepOfCommandQueue == [Next]_vars => [CommandQueue!Next]_execVars
<1> SUFFICES ASSUME [Next]_vars PROVE CommandQueue!Next \/ UNCHANGED execVars
  OBVIOUS
<1>1. CASE UpdateConfig
  BY <1>1 DEF UpdateConfig, CommandQueue!Next
<1>2. CASE \E j \in Timers : ReapCommand(j) \/ TimerExpired(j)
  BY <1>2 DEF ReapCommand, TimerExpired, CommandQueue!Next
<1>3. CASE LaunchCommand \/ CloseCommandQueue
  BY <1>3 DEF LaunchCommand, NextCommand, CloseCommandQueue, CommandQueue!Next
<1>4. CASE EndCommands
  BY <1>4 DEF EndCommands, CommandQueue!Next
<1>5. CASE Environment \/ RequestShutdown \/ SignalQuit \/ KeyPress \/ Terminated
           \/ UNCHANGED vars
  BY <1>5 DEF Environment, Others, RequestShutdown, SignalQuit, KeyPress, Terminated, vars
<1>6. CASE NewReceiver \/ StartListening \/ BeginPass \/ WaitEnds \/ Quit \/ GoOn
  BY <1>6 DEF NewReceiver, StartListening, BeginPass, WaitEnds, Quit, GoOn
<1>7. CASE ProcessTraps
  BY <1>7 DEF ProcessTraps, MalformedTrap, UnknownTrap, MalformedEvent, HandleEvent, PopTrap,
              EndTraps
<1>8. CASE EndReap \/ EndTimers \/ EndLaunch
  BY <1>8 DEF EndReap, EndTimers, EndLaunch
<1>9. CASE StopListening \/ ReportTraps \/ EndDrain \/ DestroyReceiver \/ EndMain
           \/ \E p \in Packets : DropTrap(p)
  BY <1>9 DEF StopListening, ReportTraps, EndDrain, DestroyReceiver, EndMain, DropTrap
<1>10. QED
  BY <1>1, <1>2, <1>3, <1>4, <1>5, <1>6, <1>7, <1>8, <1>9 DEF Next, Main, Pass, Shutdown

\* The program uses the command queue as the queue's specification allows.
THEOREM UsesCommandQueueHolds == Spec => UsesCommandQueue
<1>1. Init => CommandQueue!Init
  BY DEF Init
<1>2. QED
  BY <1>1, StepOfCommandQueue, PTL
     DEF Spec, UsesCommandQueue, CommandQueue!Spec, CommandQueue!bevars, execVars

-----------------------------------------------------------------------------
(* The packets: deleted once, accounted for at the end, acknowledged in order. *)

\* What left the queue, what is in it and what the listener holds make up what was
\* received; no packet is at two of these places.
LEMMA WhereaboutsOfPackets ==
  ASSUME ReceiverInv
  PROVE  /\ InHand \in Seq(Packets)
         /\ Len(received) = Len(popped) + Len(pQueue) + Len(InHand)
         /\ \A i \in 1 .. Len(popped) : received[i] = popped[i]
         /\ ToSet(popped) \cap (ToSet(pQueue) \cup ToSet(InHand)) = {}
         /\ IsInjective(pQueue)
<1> DEFINE q == popped \o pQueue
<1>1. /\ popped \in Seq(Packets) /\ pQueue \in Seq(Packets) /\ received \in Seq(Packets)
      /\ IsInjective(received)
      /\ newPacket \in Packets \cup {NoPacket}
      /\ q \o InHand = received
  BY DEF ReceiverInv, ReceiverTypeOK, ReceivedOnce, ReceiveOrder
<1>2. InHand \in Seq(Packets)
  <2>1. CASE lpc = "pushing"
    <3>1. newPacket \in Packets
      BY <1>1, <2>1 DEF ReceiverInv, ListenerLife
    <3>2. QED
      BY <2>1, <3>1 DEF InHand
  <2>2. CASE lpc # "pushing"
    BY <2>2 DEF InHand
  <2>3. QED
    BY <2>1, <2>2
<1>3. /\ q \in Seq(Packets)
      /\ Len(q) = Len(popped) + Len(pQueue)
      /\ \A i \in 1 .. Len(popped) + Len(pQueue) :
           q[i] = IF i <= Len(popped) THEN popped[i] ELSE pQueue[i - Len(popped)]
  BY <1>1, ConcatProperties
<1> HIDE DEF q
<1>4. /\ Len(received) = Len(q) + Len(InHand)
      /\ \A i \in 1 .. Len(q) + Len(InHand) :
           received[i] = IF i <= Len(q) THEN q[i] ELSE InHand[i - Len(q)]
  <2>1. q \in Seq(Packets)
    BY <1>3
  <2>2. /\ Len(q \o InHand) = Len(q) + Len(InHand)
        /\ \A i \in 1 .. Len(q) + Len(InHand) :
             (q \o InHand)[i] = IF i <= Len(q) THEN q[i] ELSE InHand[i - Len(q)]
    BY <1>2, <2>1, ConcatProperties, Zenon
  <2>3. QED
    BY <1>1, <2>2, Zenon
<1>5. /\ ToSet(q) \cap ToSet(InHand) = {}
      /\ IsInjective(q)
  BY <1>1, <1>2, <1>3, PartsAreDisjoint
<1>6. /\ ToSet(popped) \cap ToSet(pQueue) = {}
      /\ ToSet(q) = ToSet(popped) \cup ToSet(pQueue)
      /\ IsInjective(pQueue)
  BY <1>1, <1>5, PartsAreDisjoint DEF q
<1>7. Len(popped) \in Nat /\ Len(pQueue) \in Nat /\ Len(InHand) \in Nat
  BY <1>1, <1>2, LenProperties
<1>8. ASSUME NEW i \in 1 .. Len(popped)
      PROVE  received[i] = popped[i]
  <2>1. /\ i \in 1 .. Len(popped) + Len(pQueue) /\ i <= Len(popped)
        /\ i \in 1 .. Len(q) + Len(InHand) /\ i <= Len(q)
    BY <1>3, <1>7
  <2>2. QED
    BY <1>3, <1>4, <2>1
<1>9. QED
  BY <1>2, <1>3, <1>4, <1>5, <1>6, <1>7, <1>8

\* The main loop pops a packet it has never seen.
LEMMA PoppedIsNew ==
  ASSUME ReceiverInv, NEW p \in Packets, TryPopPacket(p)
  PROVE  /\ p \notin ToSet(popped)
         /\ popped' = Append(popped, p)
         /\ Len(popped') = Len(popped) + 1
         /\ \A i \in 1 .. Len(popped) : popped'[i] = popped[i]
         /\ popped'[Len(popped) + 1] = p
         /\ ToSet(popped') = ToSet(popped) \cup {p}
         /\ UNCHANGED <<objectVars, lpc, newPacket, InHand>>
         /\ pQueue # <<>>
<1>1. /\ pQueue # <<>> /\ p = Head(pQueue) /\ popped' = Append(popped, p)
      /\ UNCHANGED <<objectVars, lpc, newPacket>>
  BY DEF TryPopPacket, listenerVars
<1>2. popped \in Seq(Packets) /\ pQueue \in Seq(Packets)
  BY DEF ReceiverInv, ReceiverTypeOK
<1>3. p \in ToSet(pQueue)
  BY <1>1, <1>2, WhereaboutsOfPackets, TailToSet
<1>4. p \notin ToSet(popped)
  BY <1>3, WhereaboutsOfPackets
<1>5. /\ Len(popped') = Len(popped) + 1
      /\ \A i \in 1 .. Len(popped) : popped'[i] = popped[i]
      /\ popped'[Len(popped) + 1] = p
  BY <1>1, <1>2, AppendProperties
<1>6. ToSet(popped') = ToSet(popped) \cup {p}
  BY <1>1, <1>2, AppendToSet
<1>7. QED
  BY <1>1, <1>4, <1>5, <1>6 DEF InHand

\* The initial state satisfies the invariant.
LEMMA InitHandlerInv == Init => HandlerInv
<1> SUFFICES ASSUME Init PROVE HandlerInv
  OBVIOUS
<1>1. /\ mpc = "init" /\ trapPopCount = 0
      /\ processed = <<>> /\ acked = <<>> /\ handled = <<>> /\ freed = <<>>
      /\ popped = <<>> /\ ~sockOpen
  BY DEF Init, ReceiverInit
<1>2. HandlerTypeOK
  BY <1>1 DEF HandlerTypeOK
<1>3. ProcessedThenDropped
  BY <1>1 DEF ProcessedThenDropped
<1>4. DeletedOrHandled
  BY <1>1 DEF DeletedOrHandled, IsInjective, ToSet
<1>5. IsSelection(acked, processed, Informs)
  BY <1>1, SelectionOfNothing
<1>6. SocketLife
  BY <1>1 DEF SocketLife, AfterDrain
<1>7. QED
  BY <1>2, <1>3, <1>4, <1>5, <1>6 DEF HandlerInv

\* A step that pops nothing keeps the account of the packets.
LEMMA AccountsKept ==
  ASSUME HandlerInv, UNCHANGED <<processed, acked, handled, freed, trapPopCount, popped>>,
         mpc' \in {"init", "start", "quitting", "counting", "draining"}
                  \cup Looping \cup AfterDrain,
         mpc \in {"draining"} \cup AfterDrain => mpc' \in {"draining"} \cup AfterDrain
  PROVE  /\ HandlerTypeOK' /\ ProcessedThenDropped' /\ DeletedOrHandled'
         /\ IsSelection(acked, processed, Informs)'
<1>1. HandlerTypeOK' /\ ProcessedThenDropped' /\ DeletedOrHandled'
  BY DEF HandlerInv, HandlerTypeOK, ProcessedThenDropped, DeletedOrHandled
<1>2. Informs' = Informs
  BY DEF Informs
<1>3. QED
  BY <1>1, <1>2 DEF HandlerInv

\* The steps of the main loop that leave the receiver alone, and the requests to quit.
LEMMA QuietInv ==
  ASSUME HandlerInv,
         \/ BeginPass \/ WaitEnds \/ Quit \/ GoOn \/ UpdateConfig \/ EndTraps
         \/ \E j \in Timers : ReapCommand(j) \/ TimerExpired(j)
         \/ EndReap \/ EndTimers \/ LaunchCommand \/ EndLaunch
         \/ ReportTraps \/ EndDrain \/ CloseCommandQueue \/ EndCommands \/ EndMain
         \/ RequestShutdown \/ SignalQuit \/ KeyPress \/ Terminated
  PROVE  HandlerInv'
<1>1. UNCHANGED rvars
  BY QuietStep
<1>2. UNCHANGED <<popped, pQueue, InHand, ListenSocket, sockOpen, bConnected>>
  BY <1>1 DEF rvars, objectVars, listenerVars, queueVars, InHand
<1>3. UNCHANGED <<processed, acked, handled, freed, trapPopCount>>
  BY DEF BeginPass, WaitEnds, Quit, GoOn, UpdateConfig, EndTraps, ReapCommand, TimerExpired,
         EndReap, EndTimers, LaunchCommand, EndLaunch, ReportTraps, EndDrain,
         CloseCommandQueue, EndCommands, EndMain, RequestShutdown, SignalQuit, KeyPress,
         Terminated, vars, trapVars
<1>4. \/ mpc' = mpc
      \/ mpc \in Looping /\ mpc' \in Looping \cup {"quitting"}
      \/ mpc = "counting" /\ mpc' = "draining"
      \/ mpc = "draining" /\ mpc' = "deleting" /\ pQueue = <<>>
      \/ mpc = "closing" /\ mpc' = "dropping"
      \/ mpc = "dropping" /\ mpc' = "ended"
  <2>1. CASE \/ BeginPass \/ WaitEnds \/ Quit \/ GoOn \/ UpdateConfig \/ EndTraps
             \/ EndReap \/ EndTimers \/ EndLaunch
    BY <2>1 DEF BeginPass, WaitEnds, Quit, GoOn, UpdateConfig, EndTraps, EndReap, EndTimers,
                EndLaunch, Goto, Looping
  <2>2. CASE \/ \E j \in Timers : ReapCommand(j) \/ TimerExpired(j)
             \/ LaunchCommand \/ EndCommands \/ RequestShutdown \/ SignalQuit \/ KeyPress
             \/ Terminated
    BY <2>2 DEF ReapCommand, TimerExpired, LaunchCommand, EndCommands, RequestShutdown,
                SignalQuit, KeyPress, Terminated, vars
  <2>3. CASE ReportTraps \/ EndDrain \/ CloseCommandQueue \/ EndMain
    BY <2>3 DEF ReportTraps, EndDrain, DrainEnds, CloseCommandQueue, EndMain, Goto
  <2>4. QED
    BY <2>1, <2>2, <2>3
<1>5. /\ HandlerTypeOK' /\ ProcessedThenDropped' /\ DeletedOrHandled'
      /\ IsSelection(acked, processed, Informs)'
  <2>1. /\ mpc' \in {"init", "start", "quitting", "counting", "draining"}
                    \cup Looping \cup AfterDrain
        /\ mpc \in {"draining"} \cup AfterDrain => mpc' \in {"draining"} \cup AfterDrain
    BY <1>4 DEF HandlerInv, HandlerTypeOK, Looping, AfterDrain
  <2>2. QED
    BY <1>2, <1>3, <2>1, AccountsKept
<1>6. SocketLife'
  <2>1. /\ mpc' \notin {"init", "start"} => bConnected
        /\ mpc' \in {"counting", "draining"} \cup AfterDrain => ~sockOpen
    BY <1>4 DEF HandlerInv, SocketLife, Looping, AfterDrain
  <2>2. mpc' \in AfterDrain => Len(pQueue) + Len(InHand) <= 1
    <3>1. pQueue = <<>> => Len(pQueue) = 0
      OBVIOUS
    <3>2. Len(InHand) \in Nat /\ Len(InHand) <= 1
      BY DEF InHand
    <3>3. CASE pQueue = <<>>
      <4>1. Len(pQueue) = 0
        BY <3>3, <3>1
      <4>2. Len(pQueue) + Len(InHand) <= 1
        BY <3>2, <4>1
      <4>3. QED
        BY <4>2
    <3>4. CASE pQueue # <<>>
      <4>1. mpc' \in AfterDrain => mpc \in AfterDrain
        BY <1>4, <3>4 DEF Looping, AfterDrain
      <4>2. mpc \in AfterDrain => Len(pQueue) + Len(InHand) <= 1
        BY DEF HandlerInv, SocketLife
      <4>3. QED
        BY <4>1, <4>2
    <3>5. QED
      BY <3>3, <3>4
  <2>3. QED
    BY <1>2, <2>1, <2>2 DEF HandlerInv, SocketLife
<1>7. QED
  BY <1>5, <1>6 DEF HandlerInv

\* The listener and the network: nothing arrives through a closed socket, and a push
\* moves a packet from the listener's hand to the queue.
LEMMA EnvironmentInv ==
  ASSUME ReceiverInv, HandlerInv, Environment
  PROVE  HandlerInv'
<1>1. Others
  BY DEF Environment
<1>2. UNCHANGED <<mpc, processed, acked, handled, freed, trapPopCount>>
  BY <1>1 DEF Others, trapVars
<1>3. UNCHANGED <<popped, objectVars>>
  BY DEF Environment, ListenerEntry, ListenerSetup, ReceivePacket, ReceiveEmpty, ReceiveClosed,
         ReceiveError, PushPacket, CountPacket, Network, Send, Lose, queueVars
<1>4. ~sockOpen => Len(pQueue') + Len(InHand') <= Len(pQueue) + Len(InHand)
  <2> SUFFICES ASSUME ~sockOpen
               PROVE  Len(pQueue') + Len(InHand') <= Len(pQueue) + Len(InHand)
    OBVIOUS
  <2>1. CASE PushPacket
    <3>1. /\ lpc = "pushing" /\ lpc' = "counting"
          /\ pQueue' = Append(pQueue, newPacket)
          /\ newPacket \in Packets
          /\ pQueue \in Seq(Packets)
      BY <2>1 DEF PushPacket, Push, ReceiverInv, ListenerLife, ReceiverTypeOK
    <3>2. Len(InHand) = 1 /\ Len(InHand') = 0
      BY <3>1 DEF InHand
    <3>3. Len(pQueue') = Len(pQueue) + 1 /\ Len(pQueue) \in Nat
      BY <3>1, AppendProperties, LenProperties
    <3>4. QED
      BY <3>2, <3>3
  <2>2. CASE ~PushPacket
    <3>1. pQueue' = pQueue
      BY <2>2 DEF Environment, ListenerEntry, ListenerSetup, ReceivePacket, ReceiveEmpty,
                  ReceiveClosed, ReceiveError, CountPacket, Network, Send, Lose, queueVars
    <3>2. UNCHANGED <<lpc, newPacket>> \/ lpc' # "pushing"
      <4>1. CASE Network
        BY <4>1 DEF Network, Send, Lose, listenerVars
      <4>2. CASE ~Network
        BY <2>2, <4>2 DEF Environment, ListenerEntry, ListenerSetup, ReceivePacket, CanReceive,
                    ReceiveEmpty, AfterEmpty, ReceiveClosed, ReceiveError, CountPacket
      <4>3. QED
        BY <4>1, <4>2
    <3>3. Len(InHand') <= Len(InHand)
      BY <3>2 DEF InHand
    <3>4. Len(pQueue) \in Nat /\ Len(InHand) \in {0, 1} /\ Len(InHand') \in {0, 1}
      BY LenProperties DEF InHand, ReceiverInv, ReceiverTypeOK
    <3>5. QED
      BY <3>1, <3>3, <3>4
  <2>3. QED
    BY <2>1, <2>2
<1>5. /\ HandlerTypeOK' /\ ProcessedThenDropped' /\ DeletedOrHandled'
      /\ IsSelection(acked, processed, Informs)'
  BY <1>2, <1>3, AccountsKept DEF HandlerInv, HandlerTypeOK
<1>6. SocketLife'
  <2>1. /\ Len(pQueue) + Len(InHand) \in Nat
        /\ Len(pQueue') + Len(InHand') \in Nat
    <3>1. pQueue' \in Seq(Packets)
      BY NextReceiverInv DEF Environment, ReceiverNext, Listener, ReceiverInv, ReceiverTypeOK
    <3>2. Len(InHand) \in {0, 1} /\ Len(InHand') \in {0, 1}
      BY DEF InHand
    <3>3. QED
      BY <3>1, <3>2, LenProperties DEF ReceiverInv, ReceiverTypeOK
  <2>2. UNCHANGED <<ListenSocket, sockOpen, bConnected>>
    BY <1>3 DEF objectVars
  <2>3. mpc \in AfterDrain => ~sockOpen /\ Len(pQueue) + Len(InHand) <= 1
    BY DEF HandlerInv, SocketLife
  <2>4. mpc \in AfterDrain => Len(pQueue') + Len(InHand') <= 1
    BY <1>4, <2>1, <2>3
  <2>5. QED
    BY <1>2, <2>2, <2>4 DEF HandlerInv, SocketLife
<1>7. QED
  BY <1>5, <1>6 DEF HandlerInv

\* The life of the receiver, from the constructor to the destructor.
LEMMA ObjectInv ==
  ASSUME ReceiverInv, HandlerInv,
         NewReceiver \/ StartListening \/ StopListening \/ DestroyReceiver
  PROVE  HandlerInv'
<1>1. /\ UNCHANGED <<processed, acked, handled, freed, trapPopCount>>
      /\ UNCHANGED <<popped, pQueue, InHand>>
  <2>1. UNCHANGED trapVars /\ UNCHANGED queueVars
    BY DEF NewReceiver, StartListening, StopListening, DestroyReceiver, ConstructReceiver,
           StartReceiver, StopReceiver, DeleteReceiver, rvars
  <2>2. \/ UNCHANGED <<lpc, newPacket>>
        \/ lpc # "pushing" /\ lpc' # "pushing"
    <3>1. CASE StartListening
      BY <3>1 DEF StartListening, StartReceiver, ReceiverInv, ListenerLife
    <3>2. CASE NewReceiver \/ StopListening \/ DestroyReceiver
      BY <3>2 DEF NewReceiver, StopListening, DestroyReceiver, ConstructReceiver,
                  StopReceiver, DeleteReceiver, rvars, listenerVars
    <3>3. QED
      BY <3>1, <3>2
  <2>3. QED
    BY <2>1, <2>2 DEF trapVars, queueVars, InHand
<1>2. CASE NewReceiver \/ StartListening
  <2>1. /\ mpc' \in {"start", "loop"}
        /\ mpc \in {"init", "start"}
    BY <1>2 DEF NewReceiver, StartListening, Goto
  <2>2. SocketLife'
    BY <1>2, <2>1 DEF NewReceiver, StartListening, Goto, ConstructReceiver, StartReceiver,
                 HandlerInv, SocketLife, AfterDrain
  <2>3. QED
    BY <1>1, <2>1, <2>2, AccountsKept DEF HandlerInv, Looping, AfterDrain
<1>3. CASE StopListening
  <2>1. mpc = "quitting" /\ mpc' = "counting"
    BY <1>3 DEF StopListening, Goto
  <2>2. bConnected /\ bConnected' = bConnected /\ ~sockOpen'
    <3>1. bConnected /\ (ListenSocket = "INVALID_SOCKET" => ~sockOpen)
      BY <2>1 DEF HandlerInv, SocketLife
    <3>2. CASE StopReceiver
      BY <3>1, <3>2 DEF StopReceiver, CloseSocket
    <3>3. CASE StopIsVoid /\ UNCHANGED rvars
      BY <3>1, <3>3 DEF StopIsVoid, rvars, objectVars
    <3>4. QED
      BY <1>3, <3>2, <3>3 DEF StopListening
  <2>3. SocketLife'
    BY <2>1, <2>2 DEF SocketLife, AfterDrain
  <2>4. QED
    BY <1>1, <2>1, <2>3, AccountsKept DEF HandlerInv, Looping, AfterDrain
<1>4. CASE DestroyReceiver
  <2>1. mpc = "deleting" /\ mpc' = "closing"
    BY <1>4 DEF DestroyReceiver, Goto
  <2>2. bConnected' = bConnected /\ ~sockOpen'
    BY <1>4, <2>1 DEF DestroyReceiver, DeleteReceiver, HandlerInv, SocketLife, AfterDrain
  <2>3. Len(pQueue) + Len(InHand) <= 1 /\ bConnected
    BY <2>1 DEF HandlerInv, SocketLife, AfterDrain
  <2>4. SocketLife'
    BY <1>1, <2>1, <2>2, <2>3 DEF SocketLife, AfterDrain
  <2>5. QED
    BY <1>1, <2>1, <2>4, AccountsKept DEF HandlerInv, Looping, AfterDrain
<1>5. QED
  BY <1>2, <1>3, <1>4

\* A pop while the loop or the drain runs leaves the life of the socket as it is.
LEMMA PopKeepsSocket ==
  ASSUME ReceiverInv, HandlerInv, mpc \in {"traps", "draining"}, UNCHANGED mpc,
         NEW p \in Packets, TryPopPacket(p)
  PROVE  SocketLife'
BY PoppedIsNew DEF HandlerInv, SocketLife, objectVars, AfterDrain

\* One packet goes through processTraps.
LEMMA ProcessInv ==
  ASSUME ReceiverInv, HandlerInv, NEW p \in Packets,
         MalformedTrap(p) \/ UnknownTrap(p) \/ MalformedEvent(p) \/ HandleEvent(p)
  PROVE  HandlerInv'
<1>1. /\ mpc = "traps" /\ UNCHANGED <<mpc, trapPopCount>>
      /\ TryPopPacket(p)
      /\ processed' = Append(processed, p)
  BY DEF MalformedTrap, UnknownTrap, MalformedEvent, HandleEvent, PopTrap
<1>2. \/ freed' = Append(freed, p) /\ handled' = handled
      \/ freed' = freed /\ handled' = Append(handled, p)
  BY DEF MalformedTrap, UnknownTrap, MalformedEvent, HandleEvent, DeletePacket
<1>3. \/ p \in Informs /\ acked' = Append(acked, p)
      \/ p \notin Informs /\ acked' = acked
  BY DEF MalformedTrap, UnknownTrap, MalformedEvent, HandleEvent, SendAck, Informs
<1>4. /\ processed \in Seq(Packets) /\ acked \in Seq(Packets)
      /\ handled \in Seq(Packets) /\ freed \in Seq(Packets)
      /\ trapPopCount = 0
      /\ Len(processed) \in Nat
      /\ Len(popped) = Len(processed)
      /\ \A i \in 1 .. Len(processed) : processed[i] = popped[i]
  BY <1>1, LenProperties DEF HandlerInv, HandlerTypeOK, ProcessedThenDropped, AfterDrain
<1>5. /\ p \notin ToSet(popped)
      /\ Len(popped') = Len(popped) + 1
      /\ \A i \in 1 .. Len(popped) : popped'[i] = popped[i]
      /\ popped'[Len(popped) + 1] = p
      /\ ToSet(popped') = ToSet(popped) \cup {p}
  BY <1>1, PoppedIsNew
<1>6. HandlerTypeOK'
  <2>1. \A s \in Seq(Packets) : Append(s, p) \in Seq(Packets)
    BY AppendProperties
  <2>2. /\ processed' \in Seq(Packets) /\ acked' \in Seq(Packets)
        /\ handled' \in Seq(Packets) /\ freed' \in Seq(Packets)
    BY <1>1, <1>2, <1>3, <1>4, <2>1
  <2>3. QED
    BY <1>1, <2>2 DEF HandlerInv, HandlerTypeOK
<1>7. ProcessedThenDropped'
  <2>1. /\ Len(processed') = Len(processed) + 1
        /\ \A i \in 1 .. Len(processed) : processed'[i] = processed[i]
        /\ processed'[Len(processed) + 1] = p
    BY <1>1, <1>4, AppendProperties
  <2>2. \A i \in 1 .. Len(processed') : i \in 1 .. Len(processed) \/ i = Len(processed) + 1
    BY <1>4, <2>1
  <2>3. \A i \in 1 .. Len(processed') : processed'[i] = popped'[i]
    BY <1>4, <1>5, <2>1, <2>2
  <2>4. Len(popped') = Len(processed') + 0
    BY <1>4, <1>5, <2>1
  <2>5. QED
    BY <1>1, <1>4, <2>3, <2>4 DEF ProcessedThenDropped
<1>8. DeletedOrHandled'
  <2>1. /\ IsInjective(freed)
        /\ ToSet(freed) \cup ToSet(handled) = ToSet(popped)
        /\ ToSet(freed) \cap ToSet(handled) = {}
    BY DEF HandlerInv, DeletedOrHandled
  <2>2. p \notin ToSet(freed) /\ p \notin ToSet(handled)
    BY <1>5, <2>1
  <2>3. CASE freed' = Append(freed, p) /\ handled' = handled
    <3>1. IsInjective(freed') /\ ToSet(freed') = ToSet(freed) \cup {p}
      BY <1>4, <2>1, <2>2, <2>3, AppendToSet
    <3>2. QED
      BY <1>5, <2>1, <2>2, <2>3, <3>1 DEF DeletedOrHandled
  <2>4. CASE freed' = freed /\ handled' = Append(handled, p)
    <3>1. ToSet(handled') = ToSet(handled) \cup {p}
      BY <1>4, <2>4, AppendToSet
    <3>2. QED
      BY <1>5, <2>1, <2>2, <2>4, <3>1 DEF DeletedOrHandled
  <2>5. QED
    BY <1>2, <2>3, <2>4
<1>9. IsSelection(acked, processed, Informs)'
  <2>1. Informs' = Informs
    BY DEF Informs
  <2>2. IsSelection(acked, processed, Informs)
    BY DEF HandlerInv
  <2>3. QED
    BY <1>1, <1>3, <1>4, <2>1, <2>2, SelectionGrows
<1>10. SocketLife'
  BY <1>1, PopKeepsSocket
<1>11. QED
  BY <1>6, <1>7, <1>8, <1>9, <1>10 DEF HandlerInv

\* One packet is dropped at shutdown.
LEMMA DropInv ==
  ASSUME ReceiverInv, HandlerInv, NEW p \in Packets, DropTrap(p)
  PROVE  HandlerInv'
<1>1. /\ mpc = "draining" /\ UNCHANGED <<mpc, processed, acked, handled>>
      /\ TryPopPacket(p)
      /\ freed' = Append(freed, p)
      /\ trapPopCount' = trapPopCount + 1
  BY DEF DropTrap, DeletePacket, CountDropped, DropUnseen
<1>2. /\ freed \in Seq(Packets) /\ trapPopCount \in Nat
      /\ Len(processed) \in Nat
      /\ Len(popped) = Len(processed) + trapPopCount
      /\ \A i \in 1 .. Len(processed) : processed[i] = popped[i]
  BY LenProperties DEF HandlerInv, HandlerTypeOK, ProcessedThenDropped
<1>3. /\ p \notin ToSet(popped)
      /\ Len(popped') = Len(popped) + 1
      /\ \A i \in 1 .. Len(popped) : popped'[i] = popped[i]
      /\ ToSet(popped') = ToSet(popped) \cup {p}
  BY <1>1, PoppedIsNew
<1>4. HandlerTypeOK'
  BY <1>1, <1>2, AppendProperties DEF HandlerInv, HandlerTypeOK
<1>5. ProcessedThenDropped'
  <2>1. \A i \in 1 .. Len(processed) : i \in 1 .. Len(popped)
    BY <1>2
  <2>2. \A i \in 1 .. Len(processed) : processed[i] = popped'[i]
    BY <1>2, <1>3, <2>1
  <2>3. Len(popped') = Len(processed) + trapPopCount'
    BY <1>1, <1>2, <1>3
  <2>4. QED
    BY <1>1, <2>2, <2>3 DEF ProcessedThenDropped
<1>6. DeletedOrHandled'
  <2>1. /\ IsInjective(freed)
        /\ ToSet(freed) \cup ToSet(handled) = ToSet(popped)
        /\ ToSet(freed) \cap ToSet(handled) = {}
    BY DEF HandlerInv, DeletedOrHandled
  <2>2. IsInjective(freed') /\ ToSet(freed') = ToSet(freed) \cup {p}
    BY <1>1, <1>2, <1>3, <2>1, AppendToSet
  <2>3. QED
    BY <1>1, <1>3, <2>1, <2>2 DEF DeletedOrHandled
<1>7. IsSelection(acked, processed, Informs)'
  <2>1. Informs' = Informs
    BY DEF Informs
  <2>2. QED
    BY <1>1, <2>1 DEF HandlerInv
<1>8. SocketLife'
  BY <1>1, PopKeepsSocket
<1>9. QED
  BY <1>4, <1>5, <1>6, <1>7, <1>8 DEF HandlerInv

\* Every step keeps the invariant.
LEMMA NextHandlerInv ==
  ASSUME ReceiverInv, HandlerInv, [Next]_vars
  PROVE  HandlerInv'
<1>1. CASE Environment
  BY <1>1, EnvironmentInv
<1>2. CASE NewReceiver \/ StartListening \/ StopListening \/ DestroyReceiver
  BY <1>2, ObjectInv
<1>3. CASE \E p \in Packets :
             MalformedTrap(p) \/ UnknownTrap(p) \/ MalformedEvent(p) \/ HandleEvent(p)
             \/ DropTrap(p)
  BY <1>3, ProcessInv, DropInv
<1>4. CASE UNCHANGED vars
  <2>1. /\ UNCHANGED <<mpc, processed, acked, handled, freed, trapPopCount>>
        /\ UNCHANGED <<popped, pQueue, InHand, ListenSocket, sockOpen, bConnected>>
    BY <1>4 DEF vars, trapVars, rvars, objectVars, listenerVars, queueVars, InHand
  <2>2. QED
    BY <2>1, AccountsKept DEF HandlerInv, HandlerTypeOK, SocketLife
<1>5. QED
  BY <1>1, <1>2, <1>3, <1>4, QuietInv DEF Next, Main, Pass, ProcessTraps, Shutdown

\* The invariant holds in every reachable state of the program, with the receiver's.
THEOREM HandlerInvariant == Spec => []HandlerInv
<1>1. HandlerInv /\ ReceiverInv /\ [Next]_vars => HandlerInv'
  BY NextHandlerInv
<1>2. QED
  BY <1>1, InitHandlerInv, ReceiverSafeInHandler, PTL DEF Spec

\* No packet is deleted twice, or while the queue or the listener still holds it.
THEOREM NoUseAfterDeleteHolds == Spec => []NoUseAfterDelete
<1>1. HandlerInv /\ ReceiverInv => NoUseAfterDelete
  BY WhereaboutsOfPackets DEF HandlerInv, DeletedOrHandled, NoUseAfterDelete
<1>2. QED
  BY <1>1, HandlerInvariant, ReceiverSafeInHandler, PTL

\* What the loop has processed is the beginning of what was received.
LEMMA ProcessedIsPrefix ==
  ASSUME ReceiverInv, HandlerInv
  PROVE  /\ IsPrefix(processed, received)
         /\ processed = SubSeq(received, 1, Len(processed))
<1>1. /\ processed \in Seq(Packets) /\ received \in Seq(Packets)
      /\ trapPopCount \in Nat
      /\ Len(popped) = Len(processed) + trapPopCount
      /\ \A i \in 1 .. Len(processed) : processed[i] = popped[i]
  BY DEF HandlerInv, HandlerTypeOK, ProcessedThenDropped, ReceiverInv, ReceiverTypeOK
<1>2. /\ InHand \in Seq(Packets) /\ pQueue \in Seq(Packets)
      /\ Len(received) = Len(popped) + Len(pQueue) + Len(InHand)
      /\ \A i \in 1 .. Len(popped) : received[i] = popped[i]
  BY WhereaboutsOfPackets DEF ReceiverInv, ReceiverTypeOK
<1>3. Len(processed) \in Nat /\ Len(pQueue) \in Nat /\ Len(InHand) \in Nat
  BY <1>1, <1>2, LenProperties
<1>4. Len(processed) <= Len(received)
  BY <1>1, <1>2, <1>3
<1>5. \A i \in 1 .. Len(processed) : i \in 1 .. Len(popped)
  BY <1>1, <1>3
<1>6. \A i \in 1 .. Len(processed) : processed[i] = received[i]
  BY <1>1, <1>2, <1>5
<1>7. QED
  BY <1>1, <1>4, <1>6, PrefixByIndex

\* Every decoded inform is acknowledged once, in the order of arrival, and nothing else is.
THEOREM InformsAcknowledgedHolds == Spec => []InformsAcknowledged
<1>1. HandlerInv /\ ReceiverInv => InformsAcknowledged
  BY ProcessedIsPrefix DEF HandlerInv, InformsAcknowledged
<1>2. QED
  BY <1>1, HandlerInvariant, ReceiverSafeInHandler, PTL

\* After the drain one packet at most is unaccounted for, the one that was in the
\* listener's hands; exactly the packets whose event was processed were not deleted.
THEOREM FinalAccountsHolds == Spec => []FinalAccounts
<1>1. ASSUME HandlerInv, ReceiverInv, mpc \in AfterDrain
      PROVE  /\ IsPrefix(processed, received)
             /\ Len(received) = Len(processed) + trapPopCount + Len(pQueue) + Len(InHand)
             /\ Len(pQueue) + Len(InHand) <= 1
             /\ ToSet(popped) \ ToSet(freed) = ToSet(handled)
  <2>1. IsPrefix(processed, received)
    BY <1>1, ProcessedIsPrefix
  <2>2. Len(received) = Len(processed) + trapPopCount + Len(pQueue) + Len(InHand)
    BY <1>1, WhereaboutsOfPackets DEF HandlerInv, ProcessedThenDropped
  <2>3. Len(pQueue) + Len(InHand) <= 1
    BY <1>1 DEF HandlerInv, SocketLife
  <2>4. ToSet(popped) \ ToSet(freed) = ToSet(handled)
    BY <1>1 DEF HandlerInv, DeletedOrHandled
  <2>5. QED
    BY <2>1, <2>2, <2>3, <2>4
<1>2. HandlerInv /\ ReceiverInv => FinalAccounts
  BY <1>1 DEF FinalAccounts
<1>3. QED
  BY <1>2, HandlerInvariant, ReceiverSafeInHandler, PTL

\* From the decision to quit on no command is started and no trap acknowledged.
THEOREM QuietShutdownHolds == Spec => QuietShutdown
<1>1. ASSUME [Next]_vars, mpc \notin Looping, mpc # "start"
      PROVE  running' \subseteq running /\ acked' = acked
  <2>1. CASE Environment \/ RequestShutdown \/ SignalQuit \/ KeyPress \/ Terminated
             \/ UNCHANGED vars
    BY <2>1 DEF Environment, Others, RequestShutdown, SignalQuit, KeyPress, Terminated, vars,
                trapVars, execVars
  <2>2. CASE NewReceiver \/ StartListening \/ StopListening \/ ReportTraps \/ EndDrain
             \/ DestroyReceiver \/ EndMain
    BY <2>2 DEF NewReceiver, StartListening, StopListening, ReportTraps, EndDrain,
                DestroyReceiver, EndMain, trapVars, execVars
  <2>3. CASE \E p \in Packets : DropTrap(p)
    BY <2>3 DEF DropTrap, DropUnseen, execVars
  <2>4. CASE CloseCommandQueue \/ EndCommands
    BY <2>4 DEF CloseCommandQueue, EndCommands, CommandQueue!Close, CommandQueue!Drop,
                CommandQueue!Finish, trapVars
  <2>5. ~Pass
    BY <1>1 DEF Pass, BeginPass, WaitEnds, Quit, GoOn, UpdateConfig, ProcessTraps,
                MalformedTrap, UnknownTrap, MalformedEvent, HandleEvent, PopTrap, EndTraps,
                ReapCommand, TimerExpired, EndReap, EndTimers, LaunchCommand, EndLaunch,
                Looping
  <2>6. QED
    BY <1>1, <2>1, <2>2, <2>3, <2>4, <2>5 DEF Next, Main, Shutdown
<1>2. [Next]_vars => [mpc \notin Looping /\ mpc # "start" =>
                        running' \subseteq running /\ acked' = acked]_vars
  BY <1>1
<1>3. QED
  BY <1>2, PTL DEF Spec, QuietShutdown
=============================================================================
