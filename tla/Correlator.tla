----------------------------- MODULE Correlator -----------------------------
(***************************************************************************)
(* The correlator (Correlator.h): other programs create, renew and cancel  *)
(* timers through a piece of shared memory; a listener thread takes the    *)
(* requests from it; the main loop keeps the list of timers and starts the *)
(* command of every timer that expires.                                    *)
(*                                                                         *)
(* The programs that send requests are not in the repository.  They are    *)
(* modelled from the listener: take the mutex, find the event reset ("we   *)
(* are ready to receive a new event"), write the action and then the body, *)
(* set the event, release the mutex.  They may die anywhere in between.    *)
(*                                                                         *)
(* The classes Correlation and SimpleQueue are not in the repository       *)
(* either: a correlation expires when more than its duration has passed    *)
(* since its start; Push of a full queue stores nothing.                   *)
(***************************************************************************)
EXTENDS Integers, Sequences, FiniteSets, SequencesExt, Selection

CONSTANTS
  Messages,     \* the requests that are ever sent, each at most once
  Ids,          \* the ids of the correlations
  Requests,     \* what the messages may say: functions from Messages to
                \* [id, delete, action, duration]
  Mortal,       \* the messages whose sender may die while it holds the mutex
  MAXQSIZE,     \* capacity of the queue between listener and main loop
  MAXCOMMANDS,  \* limit of commands running at a time
  ExitCodes,    \* the exit codes the commands return
  STILL_ACTIVE, \* what GetExitCodeProcess reports of a running process (259)
  MaxTime,      \* bound of the clock
  None          \* neither a message nor a timer

ASSUME CorrelatorAssumption ==
  /\ Requests \subseteq [Messages -> [id : Ids, delete : BOOLEAN, action : BOOLEAN, duration : Nat]]
  /\ Mortal \subseteq Messages
  /\ {MAXQSIZE, MAXCOMMANDS} \subseteq Nat \ {0}
  /\ ExitCodes \subseteq Nat /\ STILL_ACTIVE \in Nat \ (ExitCodes \cup {0})
  /\ MaxTime \in Nat
  /\ None \notin Messages \cup [start : Nat, dur : Nat]
  /\ Messages \cap {"free", "listener", "abandoned"} = {}

VARIABLES
  request,           \* what the messages say
  msgIncomming,      \* the event: a request is in the shared memory
  msgBufLocked,      \* the mutex: "free", "listener", "abandoned", or the message
                     \* whose sender holds it
  shared,            \* the shared memory [action, body]
  stamp,             \* start time in the body of each message
  spc,               \* sender of each message: "new", "half" (it holds the mutex and
                     \* wrote the action), "written", "sent", or "dead"
  lpc,               \* the listener: "setup", "waiting", "locking", "reading",
                     \* "pushing", "logging", "ended"
  newevent,          \* the correlation in the hand of the listener
  queue,             \* the SimpleQueue
  mpc,               \* the main loop: "waiting", "popping", "reaping", "timing",
                     \* "stopping", "joining", "clearing", "ended"
  pos,               \* the iterator of the present loop
  Timers,            \* list<Correlation*>
  TimerCommands,     \* list<ExecObj*>, the n-th command started has the number n
  dwCurrentCommands,
  commandBeginCount,
  commandEndCount,
  exitCode,          \* what GetCmdState returns of each command started
  hQuitEvent,        \* the service was told to stop, or a key was hit
  bDoShutdown,
  now,
  fault,             \* the process died of the use of a deleted correlation
  sent, taken, lost  \* history: the messages whose sender set the event, those the
                     \* main loop took, both in order, and those a full queue lost

senderVars   == <<request, stamp, spc, sent>>
sharedVars   == <<msgIncomming, msgBufLocked, shared>>
listenerVars == <<lpc, newevent, lost>>
commandVars  == <<TimerCommands, dwCurrentCommands, commandBeginCount, commandEndCount>>
mainVars     == <<mpc, pos, Timers, commandVars, taken, bDoShutdown>>
world        == <<hQuitEvent, now, fault>>
vars == <<senderVars, sharedVars, listenerVars, queue, mainVars, exitCode, world>>

-----------------------------------------------------------------------------
(***************************************************************************)
(* Helpers.  An operator named Operation_Variant is a deliberately wrong   *)
(* form of the Operation defined after it; no action uses it.              *)
(***************************************************************************)

\* The correlation the listener builds from what it read.
Correlation(action, m) == [delete |-> action = 1, body |-> m]

ActionOf(m) == IF request[m].delete THEN 1 ELSE 0

\* No timer has the id: every request makes a new one.
GetIteratorFromList_End(i) == Len(Timers) + 1
\* The position of the timer with id i, or the one after the last.
GetIteratorFromList(i) ==
  IF \E k \in DOMAIN Timers : Timers[k].id = i
  THEN CHOOSE k \in DOMAIN Timers : Timers[k].id = i
  ELSE Len(Timers) + 1

RemoveFromList(i) ==
  LET k == GetIteratorFromList(i) IN IF k > Len(Timers) THEN Timers ELSE RemoveAt(Timers, k)

IsExpired(t) == now - t.start > t.dur

\* ExecObj: GetCmdState is the exit code, 259 for a running command and 0 for one
\* that could not be started.
GetCmdState(c) == exitCode[c]

\* it = erase(it), and the ++it of the for loop: the element behind the erased one
\* is skipped.
AfterErase == pos + 1

-----------------------------------------------------------------------------
Init ==
  /\ request \in Requests
  /\ msgIncomming = FALSE
  /\ msgBufLocked = "free"
  /\ shared = [action |-> 0, body |-> None]
  /\ stamp = [m \in Messages |-> 0]
  /\ spc = [m \in Messages |-> "new"]
  /\ lpc = "setup"
  /\ newevent = None
  /\ queue = <<>>
  /\ mpc = "waiting"
  /\ pos = 1
  /\ Timers = <<>>
  /\ TimerCommands = <<>>
  /\ dwCurrentCommands = 0
  /\ commandBeginCount = 0
  /\ commandEndCount = 0
  /\ exitCode = <<>>
  /\ hQuitEvent = FALSE
  /\ bDoShutdown = FALSE
  /\ now = 0
  /\ fault = FALSE
  /\ sent = <<>> /\ taken = <<>> /\ lost = {}

-----------------------------------------------------------------------------
(* The senders (external). *)

SenderWriteAction(m) ==
  /\ spc[m] = "new"
  /\ lpc # "setup"
  /\ msgBufLocked \in {"free", "abandoned"}
  /\ ~msgIncomming
  /\ msgBufLocked' = m
  /\ shared' = [shared EXCEPT !.action = ActionOf(m)]
  /\ spc' = [spc EXCEPT ![m] = "half"]
  /\ UNCHANGED <<request, msgIncomming, stamp, sent, listenerVars, queue, mainVars, exitCode, world>>

SenderWriteBody(m) ==
  /\ spc[m] = "half"
  /\ shared' = [shared EXCEPT !.body = m]
  /\ stamp' = [stamp EXCEPT ![m] = now]
  /\ msgIncomming' = TRUE
  /\ spc' = [spc EXCEPT ![m] = "written"]
  /\ sent' = Append(sent, m)
  /\ UNCHANGED <<request, msgBufLocked, listenerVars, queue, mainVars, exitCode, world>>

SenderRelease(m) ==
  /\ spc[m] = "written"
  /\ msgBufLocked' = "free"
  /\ spc' = [spc EXCEPT ![m] = "sent"]
  /\ UNCHANGED <<request, msgIncomming, shared, stamp, sent, listenerVars, queue, mainVars, exitCode, world>>

\* A sender dies; a mutex it holds is abandoned.
SenderDies(m) ==
  /\ m \in Mortal
  /\ spc[m] \in {"half", "written"}
  /\ msgBufLocked' = "abandoned"
  /\ spc' = [spc EXCEPT ![m] = "dead"]
  /\ UNCHANGED <<request, msgIncomming, shared, stamp, sent, listenerVars, queue, mainVars, exitCode, world>>

-----------------------------------------------------------------------------
(* The listener: queueFunc. *)

\* The security descriptor, the event, the mutex and the shared memory, which is
\* filled with zeroes; a failure ends the thread.
ListenerSetup(ok) ==
  /\ lpc = "setup"
  /\ lpc' = IF ok THEN "waiting" ELSE "ended"
  /\ UNCHANGED <<senderVars, sharedVars, newevent, lost, queue, mainVars, exitCode, world>>

\* while(!bDoShutdown): the event may also end a wait that began before the shutdown.
ListenerWait ==
  /\ lpc = "waiting"
  /\ \/ bDoShutdown /\ lpc' = "ended"
     \/ msgIncomming /\ lpc' = "locking"
  /\ UNCHANGED <<senderVars, sharedVars, newevent, lost, queue, mainVars, exitCode, world>>

\* After 5 s without the mutex the listener reads all the same.
ListenerLock_Anyway ==
  /\ lpc = "locking"
  /\ lpc' = "reading"
  /\ msgBufLocked' = "listener"
  /\ newevent' = Correlation(shared.action, None)
  /\ UNCHANGED <<senderVars, msgIncomming, shared, lost, queue, mainVars, exitCode, world>>

\* Only WAIT_OBJECT_0 goes on, and the action is copied: after 5 s without the mutex,
\* and if a sender died with it, the thread ends.  A mutex it was given as abandoned
\* stays abandoned.
ListenerLock ==
  /\ lpc = "locking"
  /\ IF msgBufLocked = "free"
     THEN /\ lpc' = "reading"
          /\ msgBufLocked' = "listener"
          /\ newevent' = Correlation(shared.action, None)
     ELSE lpc' = "ended" /\ UNCHANGED <<msgBufLocked, newevent>>
  /\ UNCHANGED <<senderVars, msgIncomming, shared, lost, queue, mainVars, exitCode, world>>

\* The body is copied; ResetEvent, ReleaseMutex.
ListenerRead ==
  /\ lpc = "reading"
  /\ newevent' = [newevent EXCEPT !.body = shared.body]
  /\ msgIncomming' = FALSE
  /\ msgBufLocked' = "free"
  /\ lpc' = "pushing"
  /\ UNCHANGED <<senderVars, shared, lost, queue, mainVars, exitCode, world>>

\* queue->Push; its result is not looked at.
ListenerPush ==
  /\ lpc = "pushing"
  /\ IF Len(queue) < MAXQSIZE THEN queue' = Append(queue, newevent) /\ UNCHANGED lost
     ELSE lost' = lost \cup {newevent.body} /\ UNCHANGED queue
  /\ lpc' = "logging"
  /\ UNCHANGED <<senderVars, sharedVars, newevent, mainVars, exitCode, world>>

\* The correlation was taken by the main loop and is no timer: it was deleted.
Deleted(m) == /\ m \in ToSet(taken)
              /\ \A k \in DOMAIN Timers : Timers[k].origin # m

\* print of the id after the push: the main loop may have deleted it, and what
\* the use of a deleted object does is open.
ListenerLog ==
  /\ lpc = "logging"
  /\ fault' \in (IF Deleted(newevent.body) THEN BOOLEAN ELSE {FALSE})
  /\ lpc' = "waiting"
  /\ newevent' = None
  /\ UNCHANGED <<senderVars, sharedVars, lost, queue, mainVars, exitCode, hQuitEvent, now>>

-----------------------------------------------------------------------------
(* The main loop: CorrelatorMainFn. *)

\* The wait of 100 ms, ended by the quit event (or, in debug mode, by a key).
MainWait ==
  /\ mpc = "waiting"
  /\ mpc' = IF hQuitEvent THEN "stopping" ELSE "popping"
  /\ UNCHANGED <<senderVars, sharedVars, listenerVars, queue, pos, Timers, commandVars, taken,
                 bDoShutdown, exitCode, world>>

\* A message that finds its timer renews it and is deleted; the timer keeps the
\* action string of the first.
CreateOrRenew(m) ==
  LET k == GetIteratorFromList(request[m].id)
      t == [id |-> request[m].id, origin |-> m, start |-> stamp[m], dur |-> request[m].duration]
  IN  Timers' = IF k > Len(Timers) THEN Append(Timers, t)
                ELSE [Timers EXCEPT ![k].start = t.start, ![k].dur = t.dur]

\* One round of while(queue.Pop).
PopRequest ==
  /\ mpc = "popping"
  /\ queue # <<>>
  /\ LET c == Head(queue)
     IN  /\ IF c.delete THEN Timers' = RemoveFromList(request[c.body].id) ELSE CreateOrRenew(c.body)
         /\ taken' = Append(taken, c.body)
  /\ queue' = Tail(queue)
  /\ UNCHANGED <<senderVars, sharedVars, listenerVars, mpc, pos, commandVars, bDoShutdown,
                 exitCode, world>>

QueueEmpty ==
  /\ mpc = "popping"
  /\ queue = <<>>
  /\ mpc' = "reaping"
  /\ pos' = 1
  /\ UNCHANGED <<senderVars, sharedVars, listenerVars, queue, Timers, commandVars, taken,
                 bDoShutdown, exitCode, world>>

\* The command is deleted and its slot kept.
DeleteCommand_SlotKept ==
  /\ TimerCommands' = RemoveAt(TimerCommands, pos)
  /\ commandEndCount' = commandEndCount + 1
  /\ pos' = AfterErase
  /\ UNCHANGED <<dwCurrentCommands, commandBeginCount>>

\* delete *cit, erase, count.  The destructor of ExecObj leaves the process alone.
DeleteCommand ==
  /\ TimerCommands' = RemoveAt(TimerCommands, pos)
  /\ commandEndCount' = commandEndCount + 1
  /\ dwCurrentCommands' = dwCurrentCommands - 1
  /\ pos' = AfterErase
  /\ UNCHANGED commandBeginCount

\* One round of the loop over the commands: a command whose state is not 0 is
\* taken for completed.
ReapCommand ==
  /\ mpc = "reaping"
  /\ pos <= Len(TimerCommands)
  /\ IF GetCmdState(TimerCommands[pos]) # 0 THEN DeleteCommand
     ELSE pos' = pos + 1 /\ UNCHANGED commandVars
  /\ UNCHANGED <<senderVars, sharedVars, listenerVars, queue, mpc, Timers, taken, bDoShutdown,
                 exitCode, world>>

\* The loop over the timers starts with the second.
ReapEnds_FromSecond ==
  /\ mpc = "reaping"
  /\ pos > Len(TimerCommands)
  /\ mpc' = "timing"
  /\ pos' = 2
  /\ UNCHANGED <<senderVars, sharedVars, listenerVars, queue, Timers, commandVars, taken,
                 bDoShutdown, exitCode, world>>

ReapEnds ==
  /\ mpc = "reaping"
  /\ pos > Len(TimerCommands)
  /\ mpc' = "timing"
  /\ pos' = 1
  /\ UNCHANGED <<senderVars, sharedVars, listenerVars, queue, Timers, commandVars, taken,
                 bDoShutdown, exitCode, world>>

\* The command is started without a look at its result: a start that fails has
\* the state 0, a process that runs 259.
StartCommand ==
  /\ TimerCommands' = Append(TimerCommands, commandBeginCount + 1)
  /\ dwCurrentCommands' = dwCurrentCommands + 1
  /\ commandBeginCount' = commandBeginCount + 1
  /\ \E code \in {0, STILL_ACTIVE} : exitCode' = Append(exitCode, code)
  /\ UNCHANGED commandEndCount

HasSlot == dwCurrentCommands < MAXCOMMANDS

\* One round of the loop over the timers.
CheckTimer ==
  /\ mpc = "timing"
  /\ pos <= Len(Timers) /\ HasSlot
  /\ IF IsExpired(Timers[pos])
     THEN /\ IF request[Timers[pos].origin].action THEN StartCommand
             ELSE UNCHANGED <<commandVars, exitCode>>
          /\ Timers' = RemoveAt(Timers, pos)
          /\ pos' = AfterErase
     ELSE pos' = pos + 1 /\ UNCHANGED <<Timers, commandVars, exitCode>>
  /\ UNCHANGED <<senderVars, sharedVars, listenerVars, queue, mpc, taken, bDoShutdown, world>>

TimingEnds ==
  /\ mpc = "timing"
  /\ pos > Len(Timers) \/ ~HasSlot
  /\ mpc' = "waiting"
  /\ UNCHANGED <<senderVars, sharedVars, listenerVars, queue, pos, Timers, commandVars, taken,
                 bDoShutdown, exitCode, world>>

BeginShutdown ==
  /\ mpc = "stopping"
  /\ bDoShutdown' = TRUE
  /\ mpc' = "joining"
  /\ UNCHANGED <<senderVars, sharedVars, listenerVars, queue, pos, Timers, commandVars, taken,
                 exitCode, world>>

\* The listener ends within 0.5 s + 5 s, before the wait of 10 s is over.  The
\* requests and the timers that are left are deleted.
JoinAndClear ==
  /\ mpc = "joining"
  /\ lpc = "ended"
  /\ queue' = <<>>
  /\ Timers' = <<>>
  /\ mpc' = "clearing"
  /\ pos' = 1
  /\ UNCHANGED <<senderVars, sharedVars, listenerVars, commandVars, taken, bDoShutdown, exitCode,
                 world>>

\* Both branches of the last loop delete the command, so it skips every other.
ClearCommand ==
  /\ mpc = "clearing"
  /\ IF pos <= Len(TimerCommands) THEN DeleteCommand /\ UNCHANGED mpc
     ELSE mpc' = "ended" /\ UNCHANGED <<pos, commandVars>>
  /\ UNCHANGED <<senderVars, sharedVars, listenerVars, queue, Timers, taken, bDoShutdown, exitCode,
                 world>>

-----------------------------------------------------------------------------
(* The world. *)

CommandEnds(c, code) ==
  /\ exitCode[c] = STILL_ACTIVE
  /\ exitCode' = [exitCode EXCEPT ![c] = code]
  /\ UNCHANGED <<senderVars, sharedVars, listenerVars, queue, mainVars, world>>

Tick ==
  /\ now < MaxTime
  /\ now' = now + 1
  /\ UNCHANGED <<senderVars, sharedVars, listenerVars, queue, mainVars, exitCode, hQuitEvent, fault>>

Quit ==
  /\ ~hQuitEvent
  /\ hQuitEvent' = TRUE
  /\ UNCHANGED <<senderVars, sharedVars, listenerVars, queue, mainVars, exitCode, now, fault>>

Terminated == /\ fault \/ mpc = "ended"
              /\ UNCHANGED vars

Sender == \E m \in Messages : \/ SenderWriteAction(m) \/ SenderWriteBody(m) \/ SenderRelease(m)
                              \/ SenderDies(m)

Listener == \/ \E ok \in BOOLEAN : ListenerSetup(ok)
            \/ ListenerWait \/ ListenerLock \/ ListenerRead \/ ListenerPush \/ ListenerLog

Main == \/ MainWait \/ PopRequest \/ QueueEmpty \/ ReapCommand \/ ReapEnds \/ CheckTimer
        \/ TimingEnds \/ BeginShutdown \/ JoinAndClear \/ ClearCommand

World == \/ \E c \in DOMAIN exitCode, code \in ExitCodes : CommandEnds(c, code)
         \/ Tick \/ Quit

Running == ~fault /\ mpc # "ended"

Next == \/ Running /\ (Sender \/ Listener \/ Main \/ World)
        \/ Terminated

Spec == Init /\ [][Next]_vars

\* Both threads are scheduled.  Nothing is assumed of senders, commands or clock.
FairSpec == Spec /\ WF_vars(Running /\ Listener) /\ WF_vars(Running /\ Main)

-----------------------------------------------------------------------------
Bodies(q) == [k \in DOMAIN q |-> q[k].body]

Held == IF lpc = "pushing" THEN <<newevent>> ELSE <<>>

\* The requests the listener has read: all but the one in the shared memory.
ReadSoFar == IF msgIncomming THEN Front(sent) ELSE sent

\* Every request reaches the main loop once, whole and in the order the senders
\* set the event: the action belongs to the body although two programs write them
\* one after the other, only a full queue loses a request, and besides those on
\* their way at most one waits in the shared memory (queueFunc, Correlator.h:454-482).
RequestsFaithful ==
  mpc \notin {"clearing", "ended"} =>
    /\ IsSelection(taken \o Bodies(queue) \o Bodies(Held), ReadSoFar, Messages \ lost)
    /\ \A c \in ToSet(queue) \cup ToSet(Held) : c.delete <=> request[c.body].delete

\* The counter beside the list is its length, through erasing and skipping, never
\* above the limit, and no command is in the list twice (Correlator.h:170-214).
CommandSlots ==
  /\ dwCurrentCommands = Len(TimerCommands)
  /\ dwCurrentCommands <= MAXCOMMANDS
  /\ commandBeginCount = commandEndCount + dwCurrentCommands
  /\ \A k \in 2..Len(TimerCommands) : TimerCommands[k - 1] < TimerCommands[k]

\* The list of timers is a table by id, whose timers fire when they are due.
TimerIn(list, i) ==
  LET at == {k \in DOMAIN list : list[k].id = i}
  IN  IF at = {} THEN None
      ELSE LET t == list[Min(at)] IN [start |-> t.start, dur |-> t.dur]

TimerOf(i) == TimerIn(Timers, i)

\* What a request may ask for.
Durations == {r[m].duration : r \in Requests, m \in Messages}

Table == INSTANCE TimerTable WITH table <- [i \in Ids |-> TimerOf(i)], handled <- Len(taken)

\* The correlator is a table of timers, whatever the list, the queue and the shared
\* memory in front of it do: no second timer for an id comes to light when one is
\* removed, none is lost, none fires early (Correlator.h:141-214).
ImplementsTimerTable == Table!Spec

Due(i) == TimerOf(i) # None /\ IsExpired(TimerOf(i))

-----------------------------------------------------------------------------
(* The inductive invariants of the proofs. *)

Events == [delete : BOOLEAN, body : Messages]

MailTypeOK ==
  /\ request \in Requests
  /\ msgIncomming \in BOOLEAN
  /\ msgBufLocked \in {"free", "listener", "abandoned"} \cup Messages
  /\ shared \in [action : {0, 1}, body : Messages \cup {None}]
  /\ spc \in [Messages -> {"new", "half", "written", "sent", "dead"}]
  /\ lpc \in {"setup", "waiting", "locking", "reading", "pushing", "logging", "ended"}
  /\ queue \in Seq(Events)
  /\ {sent, taken} \subseteq Seq(Messages)
  /\ lost \subseteq Messages

\* Who holds the mutex, and that a sender sends once and finds the event reset.
MutexHeld ==
  /\ \A m \in Messages : spc[m] \in {"half", "written"} <=> msgBufLocked = m
  /\ lpc = "reading" <=> msgBufLocked = "listener"
  /\ \A m \in Messages : spc[m] = "half" => ~msgIncomming /\ shared.action = ActionOf(m)
  /\ \A m \in Messages : spc[m] \in {"new", "half"} => m \notin ToSet(sent)
  /\ IsInjective(sent)

\* What the shared memory and the listener hold while the event is set and after.
SharedMemory ==
  /\ msgIncomming => sent # <<>> /\ shared.body = Last(sent)
                       /\ shared.action = ActionOf(Last(sent))
  /\ lpc \in {"locking", "reading"} => msgIncomming
  /\ lpc = "reading" => newevent = Correlation(shared.action, None)
  /\ lpc = "pushing" => /\ newevent \in Events
                        /\ ReadSoFar # <<>> /\ newevent.body = Last(ReadSoFar)
                        /\ newevent.body \notin lost
                        /\ newevent.delete <=> request[newevent.body].delete
  /\ lost \subseteq ToSet(ReadSoFar)

MailInv ==
  /\ MailTypeOK
  /\ MutexHeld
  /\ SharedMemory
  /\ RequestsFaithful

TimerRecords == [id : Ids, origin : Messages, start : Nat, dur : Durations]

DistinctIds(list) == \A j, k \in DOMAIN list : list[j].id = list[k].id => j = k

\* The timers have different ids and none starts in the future.
TimersInv ==
  /\ now \in Nat
  /\ stamp \in [Messages -> Nat] /\ \A m \in Messages : stamp[m] <= now
  /\ Timers \in Seq(TimerRecords)
  /\ \A k \in DOMAIN Timers : Timers[k].start <= now
  /\ DistinctIds(Timers)

\* The numbers in the list of commands rise and were given out.
CommandsInv ==
  /\ pos \in Nat \ {0}
  /\ TimerCommands \in Seq(Nat)
  /\ {commandBeginCount, commandEndCount} \subseteq Nat
  /\ dwCurrentCommands = Len(TimerCommands)
  /\ dwCurrentCommands <= MAXCOMMANDS
  /\ commandBeginCount = commandEndCount + dwCurrentCommands
  /\ \A k \in DOMAIN TimerCommands : TimerCommands[k] <= commandBeginCount
  /\ \A j, k \in DOMAIN TimerCommands : j < k => TimerCommands[j] < TimerCommands[k]

-----------------------------------------------------------------------------
(* Liveness. *)

\* Although the loop skips the timer behind one that fired, a timer that is due is
\* handled in one of the next passes, unless the command slots are gone for good or
\* the program ends (Correlator.h:191-214).
DueTimerHandled ==
  []<>HasSlot => \A i \in Ids : Due(i) ~> ~Due(i) \/ ~Running

=============================================================================
