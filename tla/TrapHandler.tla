------------------------------ MODULE TrapHandler ------------------------------
(***************************************************************************)
(* The main loop of the proxy, HandlerMainFn and processTraps              *)
(* (TrapHandler.cpp), together with the listener thread and the network    *)
(* (TrapReceiver) and with the command queue, taken by what it promises    *)
(* (BoundedExecutor, which CmdQueue implements).                           *)
(*                                                                         *)
(* Three parties act on the loop from outside: the listener pushes         *)
(* packets, the service control handler sets bDoShutdown and signals       *)
(* hQuitEvent, and in debug mode a key is pressed.  mpc says where the     *)
(* loop is.                                                                *)
(*                                                                         *)
(* ftNow is read before it is filled (TrapHandler.cpp:575-577), so whether *)
(* an interval has elapsed or a timer has expired is an arbitrary choice.  *)
(***************************************************************************)
EXTENDS TrapReceiver, Selection

CONSTANTS
  Content,        \* what each packet holds, see PacketContents
  OidComparison,  \* "address": GetEventFromTrap compares the addresses of two OID
                  \* objects, as AgentEventFactory.h does.  "value": it compares
                  \* the OIDs; no packet gets past it otherwise.
  Timers,         \* the timers that may be in ActiveTimers
  Limits,         \* the values of MAXCONCURRENTCMDS
  Allowed(_)      \* the number of running commands that a limit stands for

\* decodes: CSnmpTrap::Decode accepts it; inform: it asks for an acknowledgement;
\* known: its OID is one of those of the factory; parsed: the results ParseTrap
\* of its event may have (both, where ParseTrap ends without a return).
PacketContents ==
  [decodes : BOOLEAN, inform : BOOLEAN, known : BOOLEAN,
   parsed : SUBSET BOOLEAN \ {{}}]

ASSUME TrapHandlerAssumption ==
  /\ Content \in [Packets -> PacketContents]
  /\ OidComparison \in {"address", "value"}

VARIABLES
  mpc,            \* where the main loop is
  serviceMode,    \* wmain was started by the service manager, not with -debug
  bDoShutdown,    \* the global shutdown flag
  hQuitEvent,     \* "INVALID_HANDLE_VALUE", "reset" or "set" (a manual-reset event)
  keyHit,         \* _kbhit() would return true
  dwWaitResult,   \* result of the last wait
  trapPopCount,   \* the packets dropped at shutdown
  reported,       \* GetTrapCount() as logged at shutdown
  processed,      \* history: the packets processTraps has popped
  acked,          \* history: the packets SendAck was called for
  handled,        \* history: the packets whose event was processed
  freed,          \* history: the packets deleted, in order
  ActiveTimers,   \* the timers of the main loop
  pending, running, past, limit, closed   \* the command queue (BoundedExecutor)

execVars == <<pending, running, past, limit, closed>>
quitVars == <<serviceMode, bDoShutdown, hQuitEvent, keyHit, dwWaitResult>>
trapVars == <<processed, acked, handled, freed, trapPopCount, reported>>
vars == <<rvars, mpc, quitVars, trapVars, ActiveTimers, execVars>>

CommandQueue == INSTANCE BoundedExecutor WITH Jobs <- Timers

\* TrapHandler::consoleMode: initialized to true and never assigned.
consoleMode == TRUE

Looping == {"loop", "waiting", "deciding", "config", "traps", "reap", "timers", "launch"}
AfterDrain == {"deleting", "closing", "dropping", "ended"}

Init ==
  /\ ReceiverInit
  /\ mpc = "init"
  /\ serviceMode \in BOOLEAN
  /\ bDoShutdown = FALSE
  /\ hQuitEvent = IF serviceMode THEN "reset" ELSE "INVALID_HANDLE_VALUE"
  /\ keyHit = FALSE
  /\ dwWaitResult = "WAIT_TIMEOUT"
  /\ trapPopCount = 0
  /\ reported = 0
  /\ processed = <<>>
  /\ acked = <<>>
  /\ handled = <<>>
  /\ freed = <<>>
  /\ ActiveTimers \in SUBSET Timers
  /\ CommandQueue!Init

-----------------------------------------------------------------------------
(* The other parties. *)

Others == UNCHANGED <<mpc, quitVars, trapVars, ActiveTimers, execVars>>

Environment ==
  \/ ListenerEntry /\ Others
  \/ ListenerSetup /\ Others
  \/ \E p \in Packets : ReceivePacket(p) /\ Others
  \/ \E d \in EmptyDatagrams : ReceiveEmpty(d) /\ Others
  \/ (ReceiveClosed \/ ReceiveError) /\ Others
  \/ PushPacket /\ Others
  \/ CountPacket /\ Others
  \/ Network /\ Others

\* SCMHandler, SERVICE_CONTROL_STOP: the flag first, the event up to 10 s later.
RequestShutdown ==
  /\ ProcessAlive
  /\ serviceMode
  /\ ~bDoShutdown
  /\ bDoShutdown' = TRUE
  /\ UNCHANGED <<rvars, mpc, serviceMode, hQuitEvent, keyHit, dwWaitResult, trapVars,
                 ActiveTimers, execVars>>

SignalQuit ==
  /\ ProcessAlive
  /\ bDoShutdown
  /\ hQuitEvent = "reset"
  /\ hQuitEvent' = "set"
  /\ UNCHANGED <<rvars, mpc, serviceMode, bDoShutdown, keyHit, dwWaitResult, trapVars,
                 ActiveTimers, execVars>>

KeyPress ==
  /\ ~serviceMode
  /\ ~keyHit
  /\ mpc \in Looping
  /\ keyHit' = TRUE
  /\ UNCHANGED <<rvars, mpc, serviceMode, bDoShutdown, hQuitEvent, dwWaitResult, trapVars,
                 ActiveTimers, execVars>>

-----------------------------------------------------------------------------
(* The main loop. *)

Goto(l) == mpc' = l

NewReceiver ==
  /\ mpc = "init"
  /\ ConstructReceiver
  /\ Goto("start")
  /\ UNCHANGED <<quitVars, trapVars, ActiveTimers, execVars>>

StartListening ==
  /\ mpc = "start"
  /\ StartReceiver
  /\ Goto("loop")
  /\ UNCHANGED <<quitVars, trapVars, ActiveTimers, execVars>>

\* The loop sleeps only if no command is queued.
BeginPass ==
  /\ mpc = "loop"
  /\ IF pending = <<>> THEN Goto("waiting") ELSE Goto("deciding")
  /\ dwWaitResult' = "WAIT_TIMEOUT"
  /\ UNCHANGED <<rvars, serviceMode, bDoShutdown, hQuitEvent, keyHit, trapVars,
                 ActiveTimers, execVars>>

WaitEnds ==
  /\ mpc = "waiting"
  /\ dwWaitResult' = IF hQuitEvent = "set" THEN "WAIT_OBJECT_0" ELSE "WAIT_TIMEOUT"
  /\ Goto("deciding")
  /\ UNCHANGED <<rvars, serviceMode, bDoShutdown, hQuitEvent, keyHit, trapVars,
                 ActiveTimers, execVars>>

\* The service's flag is forgotten.
MustQuit_FlagIgnored ==
  \/ ~consoleMode /\ dwWaitResult = "WAIT_OBJECT_0"
  \/ consoleMode /\ keyHit
MustQuit ==
  \/ bDoShutdown
  \/ ~consoleMode /\ dwWaitResult = "WAIT_OBJECT_0"
  \/ consoleMode /\ keyHit

\* SetEvent, unless the event was seen to be signalled.
SetQuitEvent ==
  hQuitEvent' = IF dwWaitResult # "WAIT_OBJECT_0" /\ hQuitEvent = "reset"
                THEN "set" ELSE hQuitEvent

Quit ==
  /\ mpc = "deciding"
  /\ MustQuit
  /\ SetQuitEvent
  /\ keyHit' = (keyHit /\ ~consoleMode)
  /\ Goto("quitting")
  /\ UNCHANGED <<rvars, serviceMode, bDoShutdown, dwWaitResult, trapVars, ActiveTimers,
                 execVars>>

GoOn ==
  /\ mpc = "deciding"
  /\ ~MustQuit
  /\ Goto("config")
  /\ UNCHANGED <<rvars, quitVars, trapVars, ActiveTimers, execVars>>

\* UpdateConfig, if the interval has elapsed: it may change the limit.
UpdateConfig ==
  /\ mpc = "config"
  /\ Goto("traps")
  /\ \/ \E n \in Limits : CommandQueue!ChangeLimit(n)
     \/ UNCHANGED execVars
  /\ UNCHANGED <<rvars, quitVars, trapVars, ActiveTimers>>

-----------------------------------------------------------------------------
(* processTraps, one action per way through an iteration of its loop. *)

\* The acknowledgement is left to the end, for the traps that are known.
SendAck_WhenKnown(p) ==
  acked' = IF Content[p].inform /\ Content[p].known THEN Append(acked, p) ELSE acked
\* An inform is acknowledged as soon as it is decoded, whatever becomes of it.
SendAck(p) == acked' = IF Content[p].inform THEN Append(acked, p) ELSE acked

\* AgentEventFactory::GetEventFromTrap returns true.
GetEventFromTrap(p) == OidComparison = "value" /\ Content[p].known

\* The packet is deleted and, as no continue follows, deleted again.
DeletePacket_Twice(p) == freed' = freed \o <<p, p>>
DeletePacket(p) == freed' = Append(freed, p)

PopTrap(p) ==
  /\ mpc = "traps"
  /\ TryPopPacket(p)
  /\ processed' = Append(processed, p)
  /\ UNCHANGED <<mpc, quitVars, trapPopCount, reported, ActiveTimers, execVars>>

\* Decode fails.
MalformedTrap(p) ==
  /\ PopTrap(p)
  /\ ~Content[p].decodes
  /\ DeletePacket(p)
  /\ UNCHANGED <<acked, handled>>

\* The factory does not know the OID.
UnknownTrap(p) ==
  /\ PopTrap(p)
  /\ Content[p].decodes
  /\ SendAck(p)
  /\ ~GetEventFromTrap(p)
  /\ DeletePacket(p)
  /\ UNCHANGED handled

\* ParseTrap returns false.
MalformedEvent(p) ==
  /\ PopTrap(p)
  /\ Content[p].decodes
  /\ SendAck(p)
  /\ GetEventFromTrap(p)
  /\ FALSE \in Content[p].parsed
  /\ DeletePacket(p)
  /\ UNCHANGED handled


\* The event is processed.  ProcessTrap of every event returns an empty command
\* and TouchTimer touches no timer.  Neither the packet nor the event is deleted.
HandleEvent(p) ==
  /\ PopTrap(p)
  /\ Content[p].decodes
  /\ SendAck(p)
  /\ GetEventFromTrap(p)
  /\ TRUE \in Content[p].parsed
  /\ handled' = Append(handled, p)
  /\ UNCHANGED freed

EndTraps ==
  /\ mpc = "traps"
  /\ pQueue = <<>>
  /\ Goto("reap")
  /\ UNCHANGED <<rvars, quitVars, trapVars, ActiveTimers, execVars>>

ProcessTraps ==
  \/ \E p \in Packets :
       MalformedTrap(p) \/ UnknownTrap(p) \/ MalformedEvent(p) \/ HandleEvent(p)
  \/ EndTraps

-----------------------------------------------------------------------------
(* The rest of a pass: reap commands, look at the timers, launch commands. *)

ReapCommand(j) ==
  /\ mpc = "reap"
  /\ CommandQueue!Finish(j)
  /\ UNCHANGED <<rvars, mpc, quitVars, trapVars, ActiveTimers>>

EndReap ==
  /\ mpc = "reap"
  /\ Goto("timers")
  /\ UNCHANGED <<rvars, quitVars, trapVars, ActiveTimers, execVars>>

\* A timer has expired: its command is queued and it is erased.
TimerExpired(t) ==
  /\ mpc = "timers"
  /\ t \in ActiveTimers
  /\ CommandQueue!Submit(t)
  /\ ActiveTimers' = ActiveTimers \ {t}
  /\ UNCHANGED <<rvars, mpc, quitVars, trapVars>>

EndTimers ==
  /\ mpc = "timers"
  /\ Goto("launch")
  /\ UNCHANGED <<rvars, quitVars, trapVars, ActiveTimers, execVars>>

\* A waiting command is started without a look at the limit.
NextCommand_Unlimited ==
  /\ pending # <<>>
  /\ pending' = Tail(pending)
  /\ running' = running \cup {Head(pending)}
  /\ UNCHANGED <<past, limit, closed>>
NextCommand == CommandQueue!Turn

LaunchCommand ==
  /\ mpc = "launch"
  /\ NextCommand
  /\ UNCHANGED <<rvars, mpc, quitVars, trapVars, ActiveTimers>>

EndLaunch ==
  /\ mpc = "launch"
  /\ pending = <<>> \/ Cardinality(running) >= Allowed(limit)
  /\ Goto("loop")
  /\ UNCHANGED <<rvars, quitVars, trapVars, ActiveTimers, execVars>>

-----------------------------------------------------------------------------
(* Shutdown. *)

StopListening ==
  /\ mpc = "quitting"
  /\ StopReceiver \/ (StopIsVoid /\ UNCHANGED rvars)
  /\ Goto("counting")
  /\ UNCHANGED <<quitVars, trapVars, ActiveTimers, execVars>>

\* The counter is reset, as the comment in trapReceiver.h:36 has it.
GetTrapCount_Resets ==
  /\ reported' = nReceivedTraps
  /\ nReceivedTraps' = 0
  /\ UNCHANGED <<netVars, objectVars, queueVars, lpc, lsock, newPacket, received, late>>
\* The counter is read while the listener may still be at a packet.
GetTrapCount ==
  /\ reported' = nReceivedTraps
  /\ UNCHANGED rvars

ReportTraps ==
  /\ mpc = "counting"
  /\ GetTrapCount
  /\ Goto("draining")
  /\ UNCHANGED <<quitVars, processed, acked, handled, freed, trapPopCount,
                 ActiveTimers, execVars>>

\* What is dropped is counted.
CountDropped == trapPopCount' = trapPopCount + 1

\* Informs are acknowledged also when they are dropped.
DropUnseen_Acked(p) == SendAck(p) /\ UNCHANGED <<processed, handled>>
DropUnseen(p) == UNCHANGED <<processed, acked, handled>>

DropTrap(p) ==
  /\ mpc = "draining"
  /\ TryPopPacket(p)
  /\ DeletePacket(p)
  /\ CountDropped
  /\ DropUnseen(p)
  /\ UNCHANGED <<mpc, quitVars, reported, ActiveTimers, execVars>>

\* Only one packet is dropped.
DrainEnds_AfterOne == pQueue = <<>> \/ trapPopCount > 0
DrainEnds == pQueue = <<>>

EndDrain ==
  /\ mpc = "draining"
  /\ DrainEnds
  /\ Goto("deleting")
  /\ UNCHANGED <<rvars, quitVars, trapVars, ActiveTimers, execVars>>

DestroyReceiver ==
  /\ mpc = "deleting"
  /\ DeleteReceiver
  /\ Goto("closing")
  /\ UNCHANGED <<quitVars, trapVars, ActiveTimers, execVars>>

\* HandlerMainFn returns: its TrapHandler, and with it the command queue, is
\* destroyed.  Waiting commands are dropped, running ones are ended.
CloseCommandQueue ==
  /\ ProcessAlive
  /\ mpc = "closing"
  /\ CommandQueue!Close
  /\ Goto("dropping")
  /\ UNCHANGED <<rvars, quitVars, trapVars, ActiveTimers>>

EndCommands ==
  /\ ProcessAlive
  /\ mpc = "dropping"
  /\ CommandQueue!Drop \/ (pending = <<>> /\ \E j \in Timers : CommandQueue!Finish(j))
  /\ UNCHANGED <<rvars, mpc, quitVars, trapVars, ActiveTimers>>

EndMain ==
  /\ ProcessAlive
  /\ mpc = "dropping"
  /\ pending = <<>>
  /\ running = {}
  /\ Goto("ended")
  /\ UNCHANGED <<rvars, quitVars, trapVars, ActiveTimers, execVars>>

Pass ==
  \/ BeginPass \/ WaitEnds \/ Quit \/ GoOn \/ UpdateConfig
  \/ ProcessTraps
  \/ \E j \in Timers : ReapCommand(j) \/ TimerExpired(j)
  \/ EndReap \/ EndTimers
  \/ LaunchCommand \/ EndLaunch

Shutdown ==
  \/ StopListening
  \/ ReportTraps
  \/ \E p \in Packets : DropTrap(p)
  \/ EndDrain
  \/ DestroyReceiver
  \/ CloseCommandQueue
  \/ EndCommands
  \/ EndMain

Main == NewReceiver \/ StartListening \/ Pass \/ Shutdown

\* The loop has ended, or a fault of the listener has ended the process.
Terminated ==
  /\ mpc = "ended" \/ ~ProcessAlive
  /\ UNCHANGED vars

Next ==
  \/ Main
  \/ Environment
  \/ RequestShutdown \/ SignalQuit \/ KeyPress
  \/ Terminated

Spec == Init /\ [][Next]_vars

-----------------------------------------------------------------------------
(* Safety. *)

\* The packets that ask for an acknowledgement and can be decoded.
Informs == {p \in Packets : Content[p].decodes /\ Content[p].inform}

\* Every inform that was decoded is acknowledged once, in the order of arrival,
\* known trap or not, and before the next packet is looked at; a packet that is
\* dropped at shutdown, malformed, or no inform is never acknowledged.
InformsAcknowledged ==
  IsSelection(acked, SubSeq(received, 1, Len(processed)), Informs)

\* A packet is deleted once at most, and not while the listener or the queue
\* still hold it.
NoUseAfterDelete ==
  /\ IsInjective(freed)
  /\ ToSet(freed) \cap (ToSet(pQueue) \cup ToSet(InHand)) = {}

\* After the drain nothing that was received is unaccounted for but one packet,
\* the one that the listener had in its hands when the socket was closed: what left
\* the queue was processed, in order, or dropped after that, and of it exactly the
\* packets whose event was processed were not deleted.
FinalAccounts ==
  mpc \in AfterDrain =>
    /\ IsPrefix(processed, received)
    /\ Len(received) = Len(processed) + trapPopCount + Len(pQueue) + Len(InHand)
    /\ Len(pQueue) + Len(InHand) <= 1
    /\ ToSet(popped) \ ToSet(freed) = ToSet(handled)

\* Once the loop has decided to quit it starts no command and acknowledges no
\* trap any more.
QuietShutdown ==
  [][mpc \notin Looping /\ mpc # "start" =>
       running' \subseteq running /\ acked' = acked]_vars

\* The inductive invariant of the proofs, besides ReceiverInv.

HandlerTypeOK ==
  /\ mpc \in {"init", "start", "quitting", "counting", "draining"} \cup Looping \cup AfterDrain
  /\ trapPopCount \in Nat
  /\ {processed, acked, handled, freed} \subseteq Seq(Packets)

\* What left the queue was processed first and dropped then, and only the drain drops.
ProcessedThenDropped ==
  /\ Len(popped) = Len(processed) + trapPopCount
  /\ \A i \in 1 .. Len(processed) : processed[i] = popped[i]
  /\ mpc \in {"draining"} \cup AfterDrain \/ trapPopCount = 0

\* What left the queue was deleted, once, or its event was processed.
DeletedOrHandled ==
  /\ IsInjective(freed)
  /\ ToSet(freed) \cup ToSet(handled) = ToSet(popped)
  /\ ToSet(freed) \cap ToSet(handled) = {}

\* A handle that is gone names no open socket; the receiver lives while the loop
\* runs; once Stop was called nothing more is received; and when the drain ends
\* the queue is empty.
SocketLife ==
  /\ ListenSocket = "INVALID_SOCKET" => ~sockOpen
  /\ mpc \notin {"init", "start"} => bConnected
  /\ mpc \in {"counting", "draining"} \cup AfterDrain => ~sockOpen
  /\ mpc \in AfterDrain => Len(pQueue) + Len(InHand) <= 1

HandlerInv ==
  /\ HandlerTypeOK
  /\ ProcessedThenDropped
  /\ DeletedOrHandled
  /\ IsSelection(acked, processed, Informs)
  /\ SocketLife

\* Whatever the main loop does, the receiver sees only what its own module
\* lets a caller do.
ImplementsReceiver == ReceiverSpec

\* The commands of the timers go through the queue as BoundedExecutor says.
UsesCommandQueue == CommandQueue!Spec

\* AgentEventFactory.h:20 says "Factory that spawns the correct agent event,
\* given an incomming snmp trap": a known trap that decodes and parses is handled.
KnownTrapHandled ==
  \A p \in ToSet(processed) :
    Content[p].decodes /\ Content[p].known /\ Content[p].parsed = {TRUE}
      => p \in ToSet(handled)

-----------------------------------------------------------------------------
(* Liveness.  The main loop runs, its wait ends after 100 ms at the latest,  *)
(* a method that has begun ends, and the listener thread is scheduled.       *)

MainFairness ==
  /\ WF_vars(NewReceiver \/ StartListening)
  /\ WF_vars(BeginPass \/ WaitEnds \/ Quit \/ GoOn \/ UpdateConfig)
  /\ WF_vars(ProcessTraps)
  /\ WF_vars(EndReap)
  /\ WF_vars(EndTimers)
  /\ WF_vars(LaunchCommand \/ EndLaunch)
  /\ WF_vars(Shutdown)

FairSpec == Spec /\ MainFairness

\* A packet the listener pushed before the drain ended leaves the queue: it is
\* processed or dropped, unless a fault of the listener ends the process.
PushedPacketPopped ==
  \A p \in Packets :
    p \in ToSet(pQueue) /\ mpc \notin AfterDrain
      ~> p \notin ToSet(pQueue) \/ ~ProcessAlive

\* A request to shut down, or a key in debug mode, ends the loop and everything
\* after it, wherever the listener is, and in service mode the thread that waits for
\* the quit event, ServiceMainFn, can go on.
ShutdownEnds ==
  bDoShutdown \/ keyHit
    ~> (mpc = "ended" /\ (serviceMode => hQuitEvent = "set")) \/ ~ProcessAlive
=============================================================================
