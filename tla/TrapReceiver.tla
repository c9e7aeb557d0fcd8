----------------------------- MODULE TrapReceiver -----------------------------
(***************************************************************************)
(* The SNMP trap receiver (trapReceiver.cpp): the UDP socket, the thread   *)
(* that listens on it, and the queue that hands the packets to the main    *)
(* loop.                                                                   *)
(*                                                                         *)
(* Two threads meet here.  The caller constructs, starts, stops and        *)
(* deletes the receiver and pops packets; the listener, ListenerFn,        *)
(* receives and pushes them.  They share the globals pReceiver, pQueue and *)
(* nReceivedTraps and the socket, without a lock, and nobody joins the     *)
(* listener.                                                               *)
(*                                                                         *)
(* A datagram is a member of Packets, or of EmptyDatagrams if it carries   *)
(* no bytes (recvfrom returns 0 for it); each is sent once at most.        *)
(***************************************************************************)
EXTENDS Integers, Sequences, FiniteSets, SequencesExt

CONSTANTS
  Packets,         \* the datagrams that carry data
  EmptyDatagrams,  \* the datagrams of length 0
  NoPacket         \* stands for no packet in the hands of the listener

ASSUME TrapReceiverAssumption ==
  /\ Packets \cap EmptyDatagrams = {}
  /\ NoPacket \notin Packets

VARIABLES
  net,             \* datagrams under way or in the socket's buffer
  sent,            \* history: every datagram that was sent
  receiver,        \* life of the CTrapReceiver: "none", "alive", "deleted"
  bWsaStarted,     \* the constructor has a socket
  bConnected,      \* Start has run
  ListenSocket,    \* the member: "INVALID_SOCKET" or "socket"
  sockOpen,        \* the socket that the handle names is open
  lpc,             \* where the listener thread is
  lsock,           \* ListenerFn's copy of the handle
  newPacket,       \* the packet ListenerFn has built and not yet pushed, or NoPacket
  pQueue,          \* concurrent_queue<SSnmpPacket*>
  nReceivedTraps,  \* the global counter
  received,        \* history: the packets in the order recvfrom returned them
  popped,          \* history: the packets in the order they left pQueue
  late             \* history: the number of packets pushed to pQueue after
                   \* the socket was closed

netVars      == <<net, sent>>
objectVars   == <<receiver, bWsaStarted, bConnected, ListenSocket, sockOpen>>
listenerVars == <<lpc, lsock, newPacket, nReceivedTraps, received, late>>
queueVars    == <<pQueue, popped>>
rvars == <<netVars, objectVars, listenerVars, queueVars>>

\* The listener thread is not running (any more).
ListenerGone == lpc \in {"none", "exited", "faulted"}

\* A fault of the listener ends the process.  It happens only after the receiver
\* was deleted, so that few actions of the caller need this guard.
ProcessAlive == lpc # "faulted"

ReceiverInit ==
  /\ net = {}
  /\ sent = {}
  /\ receiver = "none"
  /\ bWsaStarted = FALSE
  /\ bConnected = FALSE
  /\ ListenSocket = "INVALID_SOCKET"
  /\ sockOpen = FALSE
  /\ lpc = "none"
  /\ lsock = "INVALID_SOCKET"
  /\ newPacket = NoPacket
  /\ pQueue = <<>>
  /\ nReceivedTraps = 0
  /\ received = <<>>
  /\ popped = <<>>
  /\ late = 0

-----------------------------------------------------------------------------
(* The network: UDP loses and reorders. *)

Send(d) ==
  /\ d \notin sent
  /\ net' = net \cup {d}
  /\ sent' = sent \cup {d}
  /\ UNCHANGED <<objectVars, listenerVars, queueVars>>

Lose(d) ==
  /\ d \in net
  /\ net' = net \ {d}
  /\ UNCHANGED <<sent, objectVars, listenerVars, queueVars>>

-----------------------------------------------------------------------------
(* The caller. *)

\* The constructor: WSAStartup or socket fails, or the receiver gets its socket.
ConstructReceiver ==
  /\ receiver = "none"
  /\ receiver' = "alive"
  /\ \/ UNCHANGED <<bWsaStarted, ListenSocket, sockOpen>>
     \/ /\ bWsaStarted' = TRUE
        /\ ListenSocket' = "socket"
        /\ sockOpen' = TRUE
  /\ UNCHANGED <<netVars, bConnected, listenerVars, queueVars>>

\* Start.  A CreateThread that fails returns NULL, which is not the
\* INVALID_HANDLE_VALUE it is compared with: bConnected is set all the same.
StartReceiver ==
  /\ receiver = "alive"
  /\ ~bConnected
  /\ bConnected' = TRUE
  /\ lpc' \in {"entry", "none"}
  /\ UNCHANGED <<netVars, receiver, bWsaStarted, ListenSocket, sockOpen, lsock,
                 newPacket, nReceivedTraps, received, late, queueVars>>

\* The handle is forgotten but not closed.
CloseSocket_Forgotten == UNCHANGED sockOpen
CloseSocket == sockOpen' = FALSE

\* Stop.  It gives the listener 0 milliseconds to end, that is, it does not wait.
StopReceiver ==
  /\ receiver = "alive"
  /\ bConnected
  /\ ListenSocket # "INVALID_SOCKET"
  /\ CloseSocket
  /\ ListenSocket' = "INVALID_SOCKET"
  /\ UNCHANGED <<netVars, receiver, bWsaStarted, bConnected, listenerVars, queueVars>>

\* Stop of a receiver that was not started or has no socket changes nothing.
StopIsVoid == ~bConnected \/ ListenSocket = "INVALID_SOCKET"

\* The destructor: closes the socket if Stop has not, and clears pReceiver.
DeleteReceiver ==
  /\ receiver = "alive"
  /\ receiver' = "deleted"
  /\ IF ListenSocket # "INVALID_SOCKET" THEN sockOpen' = FALSE ELSE UNCHANGED sockOpen
  /\ UNCHANGED <<netVars, bWsaStarted, bConnected, ListenSocket, listenerVars, queueVars>>

\* try_pop of a non-empty queue.
TryPopPacket(p) ==
  /\ ProcessAlive
  /\ pQueue # <<>>
  /\ p = Head(pQueue)
  /\ pQueue' = Tail(pQueue)
  /\ popped' = Append(popped, p)
  /\ UNCHANGED <<netVars, objectVars, listenerVars>>

-----------------------------------------------------------------------------
(* The listener thread, ListenerFn. *)

\* The thread runs for the first time and looks at pReceiver.
ListenerEntry ==
  /\ lpc = "entry"
  /\ lpc' = IF receiver = "alive" THEN "checked" ELSE "exited"
  /\ UNCHANGED <<netVars, objectVars, lsock, newPacket, nReceivedTraps, received,
                 late, queueVars>>

\* It uses pReceiver, which may be NULL by now: WsaStarted, GetSocket, nListenPort.
\* Then the counter is reset and the socket bound; a bind that fails goes unnoticed.
ListenerSetup ==
  /\ lpc = "checked"
  /\ CASE receiver # "alive" -> lpc' = "faulted" /\ UNCHANGED <<lsock, nReceivedTraps>>
       [] receiver = "alive" /\ ~bWsaStarted ->
            lpc' = "exited" /\ UNCHANGED <<lsock, nReceivedTraps>>
       [] OTHER -> /\ lpc' = "receiving"
                   /\ lsock' = ListenSocket
                   /\ nReceivedTraps' = 0
  /\ UNCHANGED <<netVars, objectVars, newPacket, received, late, queueVars>>

\* recvfrom can return data: the handle is valid and its socket open.
CanReceive == lsock # "INVALID_SOCKET" /\ sockOpen

\* The datagram leaves the socket's buffer.
TakeDatagram(d) == net' = net \ {d}

\* recvfrom returns the bytes of a datagram.
ReceivePacket(p) ==
  /\ lpc = "receiving"
  /\ CanReceive
  /\ p \in net
  /\ TakeDatagram(p)
  /\ newPacket' = p
  /\ received' = Append(received, p)
  /\ lpc' = "pushing"
  /\ UNCHANGED <<sent, objectVars, lsock, nReceivedTraps, late, queueVars>>

\* nRecv is 0, and the loop runs while nRecv > 0: the thread ends.
AfterEmpty(d) == lpc' = "exited" /\ UNCHANGED newPacket

\* recvfrom returns 0 for a datagram without data.
ReceiveEmpty(d) ==
  /\ lpc = "receiving"
  /\ CanReceive
  /\ d \in net
  /\ TakeDatagram(d)
  /\ AfterEmpty(d)
  /\ UNCHANGED <<sent, objectVars, lsock, nReceivedTraps, received, late, queueVars>>

\* recvfrom fails because the socket was closed: the thread ends.
ReceiveClosed ==
  /\ lpc = "receiving"
  /\ ~CanReceive
  /\ lpc' = "exited"
  /\ UNCHANGED <<netVars, objectVars, lsock, newPacket, nReceivedTraps, received,
                 late, queueVars>>

\* recvfrom fails though the socket is open: it could not be bound, or it
\* reports an error of the network.  The thread ends as well.
ReceiveError ==
  /\ lpc = "receiving"
  /\ CanReceive
  /\ lpc' = "exited"
  /\ UNCHANGED <<netVars, objectVars, lsock, newPacket, nReceivedTraps, received,
                 late, queueVars>>

\* The packet is pushed in front of the waiting ones.
Push_AtFront == pQueue' = <<newPacket>> \o pQueue
Push == pQueue' = Append(pQueue, newPacket)

PushPacket ==
  /\ lpc = "pushing"
  /\ Push
  /\ late' = IF sockOpen THEN late ELSE late + 1
  /\ newPacket' = NoPacket
  /\ lpc' = "counting"
  /\ UNCHANGED <<netVars, objectVars, lsock, nReceivedTraps, received, popped>>

\* Packets that are still pushed after the socket was closed are not counted.
Increment_WhileOpen ==
  nReceivedTraps' = IF sockOpen THEN nReceivedTraps + 1 ELSE nReceivedTraps
Increment == nReceivedTraps' = nReceivedTraps + 1

\* InterlockedIncrement, after the push: the packet may have been popped by now.
CountPacket ==
  /\ lpc = "counting"
  /\ Increment
  /\ lpc' = "receiving"
  /\ UNCHANGED <<netVars, objectVars, lsock, newPacket, received, late, queueVars>>

Listener ==
  \/ ListenerEntry
  \/ ListenerSetup
  \/ \E p \in Packets : ReceivePacket(p)
  \/ \E d \in EmptyDatagrams : ReceiveEmpty(d)
  \/ ReceiveClosed
  \/ ReceiveError
  \/ PushPacket
  \/ CountPacket

Network == \E d \in Packets \cup EmptyDatagrams : Send(d) \/ Lose(d)

Caller ==
  \/ ConstructReceiver
  \/ StartReceiver
  \/ StopReceiver
  \/ DeleteReceiver
  \/ \E p \in Packets : TryPopPacket(p)

ReceiverNext == Listener \/ Network \/ Caller

ReceiverSpec == ReceiverInit /\ [][ReceiverNext]_rvars

-----------------------------------------------------------------------------
(* Safety. *)

ReceiverTypeOK ==
  /\ net \subseteq Packets \cup EmptyDatagrams
  /\ sent \subseteq Packets \cup EmptyDatagrams
  /\ receiver \in {"none", "alive", "deleted"}
  /\ bWsaStarted \in BOOLEAN
  /\ bConnected \in BOOLEAN
  /\ ListenSocket \in {"INVALID_SOCKET", "socket"}
  /\ sockOpen \in BOOLEAN
  /\ lpc \in {"none", "entry", "checked", "receiving", "pushing", "counting",
              "exited", "faulted"}
  /\ lsock \in {"INVALID_SOCKET", "socket"}
  /\ newPacket \in Packets \cup {NoPacket}
  /\ pQueue \in Seq(Packets)
  /\ nReceivedTraps \in Nat
  /\ received \in Seq(Packets)
  /\ popped \in Seq(Packets)
  /\ late \in Nat

\* What the listener holds between recvfrom and push.
InHand == IF lpc = "pushing" THEN <<newPacket>> ELSE <<>>

\* Across the two threads, packets leave the queue in the order in which
\* recvfrom returned them, and between the socket and the queue none is lost,
\* doubled or overtaken.
ReceiveOrder == popped \o pQueue \o InHand = received

\* No packet reaches the proxy twice, and none that was not sent.
ReceivedOnce ==
  /\ IsInjective(received)
  /\ ToSet(received) \subseteq sent \ net

\* The number the proxy reports, GetTrapCount, misses at most the packet the
\* listener is at: also while the main loop pops, and after Stop.
CountIsCurrent ==
  nReceivedTraps = Len(received) - (IF lpc \in {"pushing", "counting"} THEN 1 ELSE 0)

\* Nobody waits for the listener, but what it can still push after the socket
\* was closed is one packet, the one it had received before.
LateArrivals == late <= 1

\* The life of the listener: it runs only for a receiver that was started,
\* holds a packet exactly while it is pushing, and has received nothing before
\* it looks at the socket.
ListenerLife ==
  /\ net \subseteq sent
  /\ lpc # "none" => bConnected
  /\ receiver = "none" => ~bConnected /\ late = 0
  /\ lpc \in {"none", "entry", "checked"} => received = <<>>
  /\ newPacket # NoPacket <=> lpc = "pushing"
  /\ sockOpen \/ lpc = "pushing" => late = 0

\* The inductive invariant of the proofs.
ReceiverInv ==
  /\ ReceiverTypeOK
  /\ ListenerLife
  /\ ReceiveOrder
  /\ ReceivedOnce
  /\ CountIsCurrent
  /\ LateArrivals

-----------------------------------------------------------------------------
(* Liveness.  The listener thread is scheduled; recvfrom on a closed socket *)
(* returns.  Nothing is assumed of the network or of the caller.            *)

ListenerFairness ==
  /\ WF_rvars(ListenerEntry \/ ListenerSetup)
  /\ WF_rvars(ReceiveClosed)
  /\ WF_rvars(PushPacket \/ CountPacket)

FairReceiverSpec == ReceiverSpec /\ ListenerFairness

\* Closing the socket, by Stop or by the destructor, ends the listener thread,
\* wherever it is, although nobody waits for it.
CloseEndsListener ==
  receiver = "deleted" \/ (bConnected /\ bWsaStarted /\ ListenSocket = "INVALID_SOCKET")
    ~> ListenerGone
=============================================================================
