------------------------------- MODULE CmdQueue -------------------------------
(***************************************************************************)
(* The command queue of the proxy (CmdQueue.h) and the external processes  *)
(* it launches (ExecObj.h).                                                *)
(*                                                                         *)
(* One thread, the main loop, calls the methods; the processes it starts   *)
(* run concurrently and may exit between any two of its steps.  Therefore  *)
(* each iteration of the loops inside ProcessCommands, ProcessQueue and    *)
(* the destructor is a step of its own, and pc says which method runs.     *)
(*                                                                         *)
(* A command string is a member of Cmds, used once; the ExecObj that       *)
(* carries it has the same name.                                           *)
(***************************************************************************)
EXTENDS Integers, Sequences, FiniteSets, SequencesExt

CONSTANTS
  Cmds,          \* the commands that are ever queued
  Limits,        \* the values the configuration gives MAXCONCURRENTCMDS (an int)
  SizeTModulus,  \* 2^w for the width w of size_t, the type of nCommands
  ExitCodes,     \* the exit codes the commands return
  STILL_ACTIVE   \* what GetExitCodeProcess reports of a running process (259)

ASSUME CmdQueueAssumption ==
  /\ Limits \subseteq Int
  /\ SizeTModulus \in Nat
  /\ \A n \in Limits : -SizeTModulus < n
  /\ ExitCodes \subseteq Nat
  /\ 0 \in ExitCodes
  /\ STILL_ACTIVE \in Nat \ {0}

VARIABLES
  pc,                 \* the method the main loop is in, "idle" between calls
  cmdIt,              \* the iterator of ProcessCommands, a position in runningCommands
  cmdQueue,           \* concurrent_queue<ExecObj*>
  runningCommands,    \* list<ExecObj*>
  nCommands,          \* the number of command slots taken
  dwExecutedCommands, \* the number of commands reaped
  MAXCONCURRENTCMDS,  \* the global the configuration reader overwrites
  obj,                \* life of each ExecObj: "none", "live" or "deleted"
  proc,               \* state of each process: "none", "active", "terminating", "exited"
  exitCode,           \* what GetExitCodeProcess reports of it
  submitted,          \* history: the commands in the order they were queued
  popped,             \* history: the commands in the order they left cmdQueue
  completedBefore     \* history: the running commands that had completed when
                      \* the present pass of ProcessCommands began

queueVars == <<cmdQueue, runningCommands, nCommands, dwExecutedCommands, obj>>
procVars  == <<proc, exitCode>>
history   == <<submitted, popped, completedBefore>>
vars == <<pc, cmdIt, queueVars, MAXCONCURRENTCMDS, procVars, history>>

-----------------------------------------------------------------------------
(***************************************************************************)
(* Helpers.  An operator named Operation_Variant is a deliberately wrong   *)
(* form of the Operation defined after it; no action uses it.  The         *)
(* properties are run against these variants to show that each can fail.   *)
(***************************************************************************)

\* The int limit as it is compared with the size_t counter.
AsSizeT(n) == IF n < 0 THEN SizeTModulus + n ELSE n

\* The guard of the launch loop.
HasSlot == nCommands < AsSizeT(MAXCONCURRENTCMDS)

\* Completion with 0 taken for "still running", as the destructor of ExecObj takes it.
Completed_NonZero(c) == exitCode[c] # 0

\* GetCmdState: a process that returned 259 looks as if it still ran.
Completed(c) == exitCode[c] # STILL_ACTIVE

Active == {c \in Cmds : proc[c] \in {"active", "terminating"}}

-----------------------------------------------------------------------------
Init ==
  /\ pc = "idle"
  /\ cmdIt = 1
  /\ cmdQueue = <<>>
  /\ runningCommands = <<>>
  /\ nCommands = 0
  /\ dwExecutedCommands = 0
  /\ MAXCONCURRENTCMDS \in Limits
  /\ obj = [c \in Cmds |-> "none"]
  /\ proc = [c \in Cmds |-> "none"]
  /\ exitCode = [c \in Cmds |-> STILL_ACTIVE]
  /\ submitted = <<>>
  /\ popped = <<>>
  /\ completedBefore = {}

\* A new command is pushed in front of the waiting ones.
Enqueue_AtFront(c) == cmdQueue' = <<c>> \o cmdQueue

\* A new command goes to the end of the queue; nothing bounds its length.
Enqueue(c) == cmdQueue' = Append(cmdQueue, c)

\* The life of an ExecObj.  Its destructor terminates the process only when
\* GetCmdState() is 0, that is when the process has already ended, so deleting
\* the object leaves the process as it is.
NewExecObj(c)    == obj' = [obj EXCEPT ![c] = "live"]
DeleteExecObj(c) == obj' = [obj EXCEPT ![c] = "deleted"]

\* QueueCommand(cmd) with a non-empty command (an empty one changes nothing).
QueueCommand(c) ==
  /\ pc = "idle"
  /\ obj[c] = "none"
  /\ NewExecObj(c)
  /\ Enqueue(c)
  /\ submitted' = Append(submitted, c)
  /\ UNCHANGED <<pc, cmdIt, runningCommands, nCommands, dwExecutedCommands,
                 MAXCONCURRENTCMDS, procVars, popped, completedBefore>>

\* The configuration reader replaces the limit between two calls.
SetLimit(n) ==
  /\ pc = "idle"
  /\ MAXCONCURRENTCMDS' = n
  /\ UNCHANGED <<pc, cmdIt, queueVars, procVars, history>>

-----------------------------------------------------------------------------
(* ProcessCommands: reap the commands that have completed. *)

BeginProcessCommands ==
  /\ pc = "idle"
  /\ pc' = "reaping"
  /\ cmdIt' = 1
  /\ completedBefore' = {c \in ToSet(runningCommands) : Completed(c)}
  /\ UNCHANGED <<queueVars, MAXCONCURRENTCMDS, procVars, submitted, popped>>

\* The slot of a reaped command is not given back.
ReleaseSlot_Kept == nCommands' = nCommands
\* A reaped command gives its slot back.
ReleaseSlot == nCommands' = nCommands - 1

\* Every reaped command is counted.
CountExecuted(c) == dwExecutedCommands' = dwExecutedCommands + 1

\* The iterator is advanced past the element that follows the erased one.
AfterErase_Skips == cmdIt' = cmdIt + 1
\* erase() returns the iterator to the element that follows the erased one.
AfterErase == cmdIt' = cmdIt

ReapCommand ==
  /\ pc = "reaping"
  /\ cmdIt <= Len(runningCommands)
  /\ LET c == runningCommands[cmdIt]
     IN  IF Completed(c)
         THEN /\ DeleteExecObj(c)
              /\ runningCommands' = RemoveAt(runningCommands, cmdIt)
              /\ AfterErase
              /\ ReleaseSlot
              /\ CountExecuted(c)
         ELSE /\ cmdIt' = cmdIt + 1
              /\ UNCHANGED <<obj, runningCommands, nCommands, dwExecutedCommands>>
  /\ UNCHANGED <<pc, cmdQueue, MAXCONCURRENTCMDS, procVars, history>>

EndProcessCommands ==
  /\ pc = "reaping"
  /\ cmdIt > Len(runningCommands)
  /\ pc' = "idle"
  /\ UNCHANGED <<cmdIt, queueVars, MAXCONCURRENTCMDS, procVars, history>>

-----------------------------------------------------------------------------
(* ProcessQueue: launch waiting commands while there are free slots. *)

BeginProcessQueue ==
  /\ pc = "idle"
  /\ pc' = "launching"
  /\ UNCHANGED <<cmdIt, queueVars, MAXCONCURRENTCMDS, procVars, history>>

\* try_pop of a non-empty queue.
TryPop(c) ==
  /\ cmdQueue # <<>>
  /\ c = Head(cmdQueue)
  /\ cmdQueue' = Tail(cmdQueue)
  /\ popped' = Append(popped, c)

\* The object of the failed command is not deleted.
Discard_Leaked(c) ==
  /\ obj' = obj
  /\ nCommands' = nCommands
\* The failed command is counted as a running one.
Discard_Counted(c) ==
  /\ DeleteExecObj(c)
  /\ nCommands' = nCommands + 1
\* A command whose launch failed is deleted and takes no slot.
Discard(c) ==
  /\ DeleteExecObj(c)
  /\ nCommands' = nCommands

\* RunCmd: the process is created, or one of the two pipes or the process is not.
RunCmd(c)  == proc' = [proc EXCEPT ![c] = "active"] /\ UNCHANGED exitCode
RunCmdFails == UNCHANGED procVars

\* RunCmd returned 0: the command joins the running ones and takes a slot.
LaunchCommand(c) ==
  /\ pc = "launching"
  /\ HasSlot
  /\ TryPop(c)
  /\ RunCmd(c)
  /\ runningCommands' = Append(runningCommands, c)
  /\ nCommands' = nCommands + 1
  /\ UNCHANGED <<pc, cmdIt, dwExecutedCommands, MAXCONCURRENTCMDS, obj, submitted,
                 completedBefore>>

\* RunCmd failed.
LaunchError(c) ==
  /\ pc = "launching"
  /\ HasSlot
  /\ TryPop(c)
  /\ RunCmdFails
  /\ Discard(c)
  /\ UNCHANGED <<pc, cmdIt, runningCommands, dwExecutedCommands, MAXCONCURRENTCMDS,
                 submitted, completedBefore>>

EndProcessQueue ==
  /\ pc = "launching"
  /\ ~HasSlot \/ cmdQueue = <<>>
  /\ pc' = "idle"
  /\ UNCHANGED <<cmdIt, queueVars, MAXCONCURRENTCMDS, procVars, history>>

-----------------------------------------------------------------------------
(* ~CmdQueue: drop what waits, end what runs. *)

BeginDestroy ==
  /\ pc = "idle"
  /\ pc' = "draining"
  /\ UNCHANGED <<cmdIt, queueVars, MAXCONCURRENTCMDS, procVars, history>>

DropCommand(c) ==
  /\ pc = "draining"
  /\ TryPop(c)
  /\ DeleteExecObj(c)
  /\ UNCHANGED <<pc, cmdIt, runningCommands, nCommands, dwExecutedCommands,
                 MAXCONCURRENTCMDS, procVars, submitted, completedBefore>>

EndDrain ==
  /\ pc = "draining"
  /\ cmdQueue = <<>>
  /\ pc' = IF nCommands > 0 THEN "ending" ELSE "destroyed"
  /\ UNCHANGED <<cmdIt, queueVars, MAXCONCURRENTCMDS, procVars, history>>

\* The running commands are deleted without GetCmdReturn: nothing ends their processes.
GetCmdReturn_Skipped(c) == UNCHANGED procVars

\* GetCmdReturn(1000): a process that outlasts the wait is terminated; the
\* second wait, of 500 ms, may end before the process has.
GetCmdReturn(c) ==
  \/ /\ proc[c] = "exited"
     /\ UNCHANGED procVars
  \/ /\ proc[c] = "active"
     /\ \/ /\ proc' = [proc EXCEPT ![c] = "exited"]
           /\ exitCode' = [exitCode EXCEPT ![c] = 0]
        \/ /\ proc' = [proc EXCEPT ![c] = "terminating"]
           /\ UNCHANGED exitCode

\* One iteration: wait for or terminate the first running command, delete it.
EndCommand ==
  /\ pc = "ending"
  /\ runningCommands # <<>>
  /\ LET c == Head(runningCommands)
     IN  /\ GetCmdReturn(c)
         /\ DeleteExecObj(c)
  /\ runningCommands' = Tail(runningCommands)
  /\ dwExecutedCommands' = dwExecutedCommands + 1
  /\ UNCHANGED <<pc, cmdIt, cmdQueue, nCommands, MAXCONCURRENTCMDS, history>>

EndDestroy ==
  /\ pc = "ending"
  /\ runningCommands = <<>>
  /\ pc' = "destroyed"
  /\ UNCHANGED <<cmdIt, queueVars, MAXCONCURRENTCMDS, procVars, history>>

-----------------------------------------------------------------------------
\* The operating system: a process ends, by itself or because it was terminated.
ProcessExit(c, code) ==
  /\ \/ proc[c] = "active"
     \/ proc[c] = "terminating" /\ code = 0
  /\ proc' = [proc EXCEPT ![c] = "exited"]
  /\ exitCode' = [exitCode EXCEPT ![c] = code]
  /\ UNCHANGED <<pc, cmdIt, queueVars, MAXCONCURRENTCMDS, history>>

\* The object is gone and every process has ended: nothing is left to happen.
Terminated ==
  /\ pc = "destroyed"
  /\ Active = {}
  /\ UNCHANGED vars

ProcessCommands == BeginProcessCommands \/ ReapCommand \/ EndProcessCommands
ProcessQueue ==
  \/ BeginProcessQueue
  \/ \E c \in Cmds : LaunchCommand(c) \/ LaunchError(c)
  \/ EndProcessQueue
Destructor ==
  \/ BeginDestroy
  \/ \E c \in Cmds : DropCommand(c)
  \/ EndDrain
  \/ EndCommand
  \/ EndDestroy

Next ==
  \/ \E c \in Cmds : QueueCommand(c)
  \/ \E n \in Limits : SetLimit(n)
  \/ ProcessCommands
  \/ ProcessQueue
  \/ Destructor
  \/ \E c \in Cmds, code \in ExitCodes : ProcessExit(c, code)
  \/ Terminated

Spec == Init /\ [][Next]_vars

-----------------------------------------------------------------------------
(* Safety. *)

TypeOK ==
  /\ pc \in {"idle", "reaping", "launching", "draining", "ending", "destroyed"}
  /\ cmdIt \in Nat \ {0}
  /\ cmdQueue \in Seq(Cmds)
  /\ runningCommands \in Seq(Cmds)
  /\ nCommands \in Nat
  /\ dwExecutedCommands \in Nat
  /\ MAXCONCURRENTCMDS \in Limits
  /\ obj \in [Cmds -> {"none", "live", "deleted"}]
  /\ proc \in [Cmds -> {"none", "active", "terminating", "exited"}]
  /\ exitCode \in [Cmds -> ExitCodes \cup {STILL_ACTIVE}]
  /\ submitted \in Seq(Cmds)
  /\ popped \in Seq(Cmds)
  /\ completedBefore \in SUBSET Cmds

\* The slot counter ProcessQueue is guarded by is the length of the list it
\* stands for, through every launch, failed launch and erase (nCommands is
\* kept by hand beside runningCommands; the destructor no longer keeps it).
SlotAccounting ==
  pc \notin {"ending", "destroyed"} => nCommands = Len(runningCommands)

\* Every ExecObj that was created and not deleted is in exactly one of the
\* two lists, once: none leaks and no list holds a deleted one.
Ownership ==
  /\ {c \in Cmds : obj[c] = "live"} = ToSet(cmdQueue) \cup ToSet(runningCommands)
  /\ ToSet(cmdQueue) \cap ToSet(runningCommands) = {}
  /\ IsInjective(cmdQueue)
  /\ IsInjective(runningCommands)

\* Commands leave the queue in the order in which QueueCommand received them,
\* and none is lost, doubled or overtaken.
LaunchOrder == popped \o cmdQueue = submitted

\* A process that runs and was not asked to end belongs to a command in
\* runningCommands: no slot is given back while the process runs, and the
\* destructor leaves no command running on its own.
NoOrphans == \A c \in Cmds : proc[c] = "active" => c \in ToSet(runningCommands)

\* A pass of ProcessCommands leaves no command behind that had completed
\* before the pass began: erasing an element does not skip its successor.
PassIsComplete ==
  pc \in {"reaping", "idle"} =>
    \A i \in 1 .. Len(runningCommands) :
      i < cmdIt \/ pc = "idle" => runningCommands[i] \notin completedBefore

\* The life of a process: it reports STILL_ACTIVE until it has exited, it was
\* started for a command that is in the list or was deleted since, and only
\* the destructor terminates one.
ProcessLife ==
  /\ \A c \in Cmds : proc[c] # "exited" => exitCode[c] = STILL_ACTIVE
  /\ \A c \in Cmds : proc[c] # "none" => c \in ToSet(runningCommands) \/ obj[c] = "deleted"
  /\ \A c \in Cmds : proc[c] = "terminating" => pc \in {"ending", "destroyed"}

\* Commands that had completed stay completed; behind the iterator none of them is
\* left, and after the pass none at all.
PassUnderWay ==
  /\ \A c \in completedBefore : proc[c] = "exited" /\ Completed(c)
  /\ pc = "reaping" => \A i \in 1 .. Len(runningCommands) :
                          i < cmdIt => runningCommands[i] \notin completedBefore
  /\ pc # "reaping" => completedBefore \cap ToSet(runningCommands) = {}

\* The inductive invariant of the proofs; PassUnderWay is added to it where
\* PassIsComplete is proved.
IInv ==
  /\ TypeOK
  /\ SlotAccounting
  /\ Ownership
  /\ LaunchOrder
  /\ NoOrphans
  /\ ProcessLife

\* A process is started only while fewer processes than the present limit are
\* active.  The guard compares a counter; the property counts processes.  (The
\* number may exceed a limit that was lowered afterwards.)
StartsUnderLimit ==
  [][\A c \in Cmds :
       proc[c] # "active" /\ proc'[c] = "active" =>
         Cardinality(Active) < AsSizeT(MAXCONCURRENTCMDS)]_vars

\* The queue implements BoundedExecutor: the lists, the counter and the
\* iterator together promise what that module says.
Executor == INSTANCE BoundedExecutor WITH
  Jobs    <- Cmds,
  Allowed <- AsSizeT,
  pending <- cmdQueue,
  running <- ToSet(runningCommands),
  past    <- {c \in Cmds : obj[c] = "deleted"},
  limit   <- MAXCONCURRENTCMDS,
  closed  <- pc \in {"draining", "ending", "destroyed"}
ImplementsExecutor == Executor!Spec

-----------------------------------------------------------------------------
(* Liveness.  The main loop calls ProcessCommands and ProcessQueue in every *)
(* pass, and a method that has begun goes on.                               *)

LoopFairness ==
  /\ SF_vars(BeginProcessCommands)
  /\ SF_vars(BeginProcessQueue)
  /\ WF_vars(ReapCommand \/ EndProcessCommands)
  /\ WF_vars((\E c \in Cmds : LaunchCommand(c) \/ LaunchError(c)) \/ EndProcessQueue)
  /\ WF_vars((\E c \in Cmds : DropCommand(c)) \/ EndDrain \/ EndCommand \/ EndDestroy)

\* The commands themselves come to an end.
CommandsEnd ==
  \A c \in Cmds : WF_vars(\E code \in ExitCodes : ProcessExit(c, code))

LoopSpec == Spec /\ LoopFairness
FairSpec == LoopSpec /\ CommandsEnd

\* Every queued command leaves the queue: it is launched, its launch fails, or
\* the queue is destroyed.  Holds while every command ends with a code other
\* than STILL_ACTIVE and the limit is never 0.
EveryCommandLeavesQueue ==
  \A c \in Cmds : c \in ToSet(cmdQueue) ~> c \notin ToSet(cmdQueue)

\* A command whose exit code shows that it has ended gives its slot back.
EndedCommandReaped ==
  \A c \in Cmds :
    c \in ToSet(runningCommands) /\ Completed(c) ~> c \notin ToSet(runningCommands)

=============================================================================
