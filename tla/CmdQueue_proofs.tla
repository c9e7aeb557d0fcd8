---------------------------- MODULE CmdQueue_proofs ----------------------------
(***************************************************************************)
(* Theorems about CmdQueue for every set of commands, every set of limits  *)
(* and every set of exit codes.                                            *)
(*                                                                         *)
(* The inductive invariant is IInv.  SlotAccounting needs Ownership (an    *)
(* erased element occurs once), Ownership needs the types, NoOrphans needs *)
(* ProcessLife (a command that is reaped has no active process), so the    *)
(* parts are proved together, one step per action.                         *)
(***************************************************************************)
EXTENDS CmdQueue, SeqFacts

\* One-line operations on one object or process, visible in every step below.
USE DEF NewExecObj, DeleteExecObj, RunCmd, RunCmdFails, CountExecuted

\* The initial states satisfy the invariant.
LEMMA InitIInv == Init => IInv
<1> SUFFICES ASSUME Init PROVE IInv
  OBVIOUS
<1> USE CmdQueueAssumption
<1>1. TypeOK
  BY DEF Init, TypeOK
<1>2. ToSet(cmdQueue) = {} /\ ToSet(runningCommands) = {}
  BY DEF Init, ToSet
<1>3. IsInjective(cmdQueue) /\ IsInjective(runningCommands)
  BY DEF Init, IsInjective
<1>4. Ownership
  BY <1>2, <1>3 DEF Init, Ownership
<1>5. LaunchOrder
  BY DEF Init, LaunchOrder
<1>6. SlotAccounting /\ NoOrphans /\ ProcessLife
  BY DEF Init, SlotAccounting, NoOrphans, ProcessLife
<1>7. QED
  BY <1>1, <1>4, <1>5, <1>6 DEF IInv

\* QueueCommand: a fresh object joins the end of the queue.
LEMMA QueueCommandIInv ==
  ASSUME IInv, NEW c \in Cmds, QueueCommand(c)
  PROVE  IInv'
<1> USE DEF IInv
<1>1. c \notin ToSet(cmdQueue) /\ c \notin ToSet(runningCommands)
  BY DEF QueueCommand, Ownership
<1>2. /\ cmdQueue' \in Seq(Cmds)
      /\ ToSet(cmdQueue') = ToSet(cmdQueue) \cup {c}
      /\ IsInjective(cmdQueue')
  BY <1>1, AppendToSet DEF QueueCommand, Enqueue, TypeOK, Ownership
<1>3. TypeOK'
  BY <1>2, AppendToSet DEF QueueCommand, TypeOK, procVars
<1>4. Ownership'
  <2>1. {d \in Cmds : obj'[d] = "live"} = {d \in Cmds : obj[d] = "live"} \cup {c}
    BY DEF QueueCommand, TypeOK
  <2>2. runningCommands' = runningCommands
    BY DEF QueueCommand
  <2>3. QED
    BY <1>1, <1>2, <2>1, <2>2 DEF Ownership
<1>5. LaunchOrder'
  <2>1. popped \o Append(cmdQueue, c) = Append(popped \o cmdQueue, c)
    BY PushExtendsOrder DEF TypeOK
  <2>2. QED
    BY <2>1 DEF QueueCommand, Enqueue, LaunchOrder
<1>6. SlotAccounting' /\ NoOrphans'
  BY DEF QueueCommand, SlotAccounting, NoOrphans, procVars
<1>7. ProcessLife'
  BY DEF QueueCommand, ProcessLife, procVars, TypeOK
<1>8. QED
  BY <1>3, <1>4, <1>5, <1>6, <1>7

\* SetLimit and the steps that only enter or leave a method.
LEMMA ControlStepsIInv ==
  ASSUME IInv,
         \/ \E n \in Limits : SetLimit(n)
         \/ BeginProcessCommands \/ EndProcessCommands
         \/ BeginProcessQueue \/ EndProcessQueue
         \/ BeginDestroy \/ EndDrain \/ EndDestroy
         \/ UNCHANGED vars
  PROVE  IInv'
<1> USE DEF IInv, queueVars, procVars
<1>1. /\ UNCHANGED <<queueVars, procVars, submitted, popped>>
      /\ cmdIt' = cmdIt \/ cmdIt' = 1
      /\ pc \in {"ending", "destroyed"} => pc' \in {"ending", "destroyed"}
      /\ pc' \in {"idle", "reaping", "launching", "draining", "ending", "destroyed"}
      /\ MAXCONCURRENTCMDS' \in Limits
      /\ completedBefore' \in SUBSET Cmds
  BY ToSetIsRange DEF SetLimit, BeginProcessCommands, EndProcessCommands, BeginProcessQueue,
     EndProcessQueue, BeginDestroy, EndDrain, EndDestroy, vars, history, TypeOK
<1>2. TypeOK'
  BY <1>1 DEF TypeOK
<1>3. Ownership' /\ LaunchOrder' /\ NoOrphans'
  BY <1>1 DEF Ownership, LaunchOrder, NoOrphans
<1>4. SlotAccounting'
  BY <1>1 DEF SlotAccounting
<1>5. ProcessLife'
  BY <1>1 DEF ProcessLife
<1>6. QED
  BY <1>2, <1>3, <1>4, <1>5

\* ReapCommand: the slot and the object go when, and only when, the process has ended.
LEMMA ReapCommandIInv ==
  ASSUME IInv, ReapCommand
  PROVE  IInv'
<1> USE DEF IInv
<1> DEFINE c == runningCommands[cmdIt]
<1>1. /\ cmdIt \in 1 .. Len(runningCommands)
      /\ Len(runningCommands) \in Nat
      /\ c \in Cmds
      /\ c \in ToSet(runningCommands)
  BY ElementOfSeq, LenProperties, ToSetIsRange DEF ReapCommand, TypeOK
<1>2. CASE Completed(c)
  <2>1. /\ obj' = [obj EXCEPT ![c] = "deleted"]
        /\ runningCommands' = RemoveAt(runningCommands, cmdIt)
        /\ nCommands' = nCommands - 1
        /\ dwExecutedCommands' = dwExecutedCommands + 1
        /\ UNCHANGED <<pc, cmdIt, cmdQueue, MAXCONCURRENTCMDS, procVars, history>>
    BY <1>2 DEF ReapCommand, AfterErase, ReleaseSlot
  <2>2. /\ runningCommands' \in Seq(Cmds)
        /\ Len(runningCommands') = Len(runningCommands) - 1
        /\ IsInjective(runningCommands')
        /\ ToSet(runningCommands') = ToSet(runningCommands) \ {c}
    BY <1>1, <2>1, RemoveAtProperties, RemoveAtFromSet DEF TypeOK, Ownership
  <2>3. nCommands = Len(runningCommands)
    BY DEF ReapCommand, SlotAccounting
  <2>4. TypeOK'
    BY <1>1, <2>1, <2>2, <2>3 DEF TypeOK, procVars, history
  <2>5. SlotAccounting'
    BY <2>1, <2>2, <2>3 DEF SlotAccounting
  <2>6. Ownership'
    <3>1. {d \in Cmds : obj'[d] = "live"} = {d \in Cmds : obj[d] = "live"} \ {c}
      BY <1>1, <2>1 DEF TypeOK
    <3>2. QED
      BY <1>1, <2>1, <2>2, <3>1 DEF Ownership
  <2>7. proc[c] = "exited"
    BY <1>1, <1>2 DEF Completed, ProcessLife, TypeOK
  <2>8. NoOrphans'
    BY <2>1, <2>2, <2>7 DEF NoOrphans, procVars
  <2>9. ProcessLife'
    BY <1>1, <2>1, <2>2 DEF ProcessLife, procVars, TypeOK
  <2>10. LaunchOrder'
    BY <2>1 DEF LaunchOrder, history
  <2>11. QED
    BY <2>4, <2>5, <2>6, <2>8, <2>9, <2>10
<1>3. CASE ~Completed(c)
  <2>1. /\ cmdIt' = cmdIt + 1
        /\ UNCHANGED <<pc, queueVars, MAXCONCURRENTCMDS, procVars, history>>
    BY <1>3 DEF ReapCommand, queueVars
  <2>2. TypeOK'
    BY <2>1 DEF TypeOK, queueVars, procVars, history
  <2>3. SlotAccounting' /\ Ownership' /\ LaunchOrder' /\ NoOrphans' /\ ProcessLife'
    BY <2>1 DEF SlotAccounting, Ownership, LaunchOrder, NoOrphans, ProcessLife,
       queueVars, procVars, history
  <2>4. QED
    BY <2>2, <2>3
<1>4. QED
  BY <1>2, <1>3

\* What the three steps that pop the queue have in common.
LEMMA TryPopFacts ==
  ASSUME IInv, NEW c \in Cmds, TryPop(c)
  PROVE  /\ c \in ToSet(cmdQueue)
         /\ c \notin ToSet(runningCommands)
         /\ obj[c] = "live"
         /\ proc[c] = "none"
         /\ cmdQueue' \in Seq(Cmds)
         /\ ToSet(cmdQueue') = ToSet(cmdQueue) \ {c}
         /\ IsInjective(cmdQueue')
         /\ popped' \in Seq(Cmds)
         /\ popped' \o cmdQueue' = popped \o cmdQueue
<1> USE DEF IInv
<1>1. /\ c \in ToSet(cmdQueue)
      /\ cmdQueue' \in Seq(Cmds)
      /\ ToSet(cmdQueue') = ToSet(cmdQueue) \ {c}
      /\ IsInjective(cmdQueue')
  BY TailToSet DEF TryPop, TypeOK, Ownership
<1>2. c \notin ToSet(runningCommands) /\ obj[c] = "live"
  BY <1>1 DEF Ownership
<1>3. proc[c] = "none"
  BY <1>2 DEF ProcessLife, TypeOK
<1>4. popped' \in Seq(Cmds)
  BY AppendToSet DEF TryPop, TypeOK
<1>5. popped' \o cmdQueue' = popped \o cmdQueue
  BY PopKeepsOrder DEF TryPop, TypeOK
<1>6. QED
  BY <1>1, <1>2, <1>3, <1>4, <1>5

\* LaunchCommand: the object moves from the queue to the list and takes a slot.
LEMMA LaunchCommandIInv ==
  ASSUME IInv, NEW c \in Cmds, LaunchCommand(c)
  PROVE  IInv'
<1> USE DEF IInv
<1>1. TryPop(c)
  BY DEF LaunchCommand
<1>2. /\ runningCommands' \in Seq(Cmds)
      /\ Len(runningCommands') = Len(runningCommands) + 1
      /\ ToSet(runningCommands') = ToSet(runningCommands) \cup {c}
      /\ IsInjective(runningCommands')
  BY <1>1, TryPopFacts, AppendToSet DEF LaunchCommand, TypeOK, Ownership
<1>3. TypeOK'
  BY <1>1, <1>2, TryPopFacts DEF LaunchCommand, TypeOK
<1>4. SlotAccounting'
  BY <1>2 DEF LaunchCommand, SlotAccounting
<1>5. Ownership'
  <2>1. obj' = obj
    BY DEF LaunchCommand
  <2>2. QED
    BY <1>1, <1>2, <2>1, TryPopFacts DEF Ownership
<1>6. LaunchOrder'
  BY <1>1, TryPopFacts DEF LaunchCommand, LaunchOrder
<1>7. NoOrphans'
  BY <1>2 DEF LaunchCommand, NoOrphans, TypeOK
<1>8. ProcessLife'
  BY <1>1, <1>2, TryPopFacts DEF LaunchCommand, ProcessLife, TypeOK
<1>9. QED
  BY <1>3, <1>4, <1>5, <1>6, <1>7, <1>8

\* LaunchError and DropCommand: the object leaves the queue and is deleted.
LEMMA DiscardIInv ==
  ASSUME IInv, NEW c \in Cmds, LaunchError(c) \/ DropCommand(c)
  PROVE  IInv'
<1> USE DEF IInv
<1>1. /\ TryPop(c)
      /\ obj' = [obj EXCEPT ![c] = "deleted"]
      /\ UNCHANGED <<pc, cmdIt, runningCommands, nCommands, dwExecutedCommands,
                     MAXCONCURRENTCMDS, procVars, submitted, completedBefore>>
  BY DEF LaunchError, DropCommand, Discard
<1>2. TypeOK'
  BY <1>1, TryPopFacts DEF TypeOK, procVars
<1>3. SlotAccounting' /\ NoOrphans'
  BY <1>1 DEF SlotAccounting, NoOrphans, procVars
<1>4. Ownership'
  <2>1. {d \in Cmds : obj'[d] = "live"} = {d \in Cmds : obj[d] = "live"} \ {c}
    BY <1>1 DEF TypeOK
  <2>2. runningCommands' = runningCommands
    BY <1>1
  <2>3. QED
    BY <1>1, <2>1, <2>2, TryPopFacts DEF Ownership
<1>5. LaunchOrder'
  BY <1>1, TryPopFacts DEF LaunchOrder
<1>6. ProcessLife'
  BY <1>1 DEF ProcessLife, procVars, TypeOK
<1>7. QED
  BY <1>2, <1>3, <1>4, <1>5, <1>6

\* EndCommand: the first running command is ended, then deleted.
LEMMA EndCommandIInv ==
  ASSUME IInv, EndCommand
  PROVE  IInv'
<1> USE DEF IInv
<1> DEFINE c == Head(runningCommands)
<1>1. /\ c \in ToSet(runningCommands)
      /\ c \in Cmds
      /\ runningCommands' \in Seq(Cmds)
      /\ ToSet(runningCommands') = ToSet(runningCommands) \ {c}
      /\ IsInjective(runningCommands')
  BY TailToSet, HeadTailProperties DEF EndCommand, TypeOK, Ownership
<1>2. /\ pc = "ending"
      /\ GetCmdReturn(c)
      /\ obj' = [obj EXCEPT ![c] = "deleted"]
      /\ dwExecutedCommands' = dwExecutedCommands + 1
      /\ UNCHANGED <<pc, cmdIt, cmdQueue, nCommands, MAXCONCURRENTCMDS, history>>
  BY DEF EndCommand
<1>3. /\ proc' \in [Cmds -> {"none", "active", "terminating", "exited"}]
      /\ exitCode' \in [Cmds -> ExitCodes \cup {STILL_ACTIVE}]
      /\ proc'[c] \in {"exited", "terminating"}
      /\ proc'[c] = "terminating" => exitCode'[c] = STILL_ACTIVE
      /\ \A d \in Cmds \ {c} : proc'[d] = proc[d] /\ exitCode'[d] = exitCode[d]
  BY <1>1, <1>2, CmdQueueAssumption DEF GetCmdReturn, TypeOK, procVars, ProcessLife
<1> HIDE DEF c
<1>4. TypeOK'
  <2>1. obj' \in [Cmds -> {"none", "live", "deleted"}]
    <3>1. obj \in [Cmds -> {"none", "live", "deleted"}]
      BY DEF TypeOK
    <3>2. obj' = [obj EXCEPT ![c] = "deleted"]
      BY <1>2
    <3>3. QED
      BY <3>1, <3>2
  <2>2. dwExecutedCommands' \in Nat
    BY <1>2 DEF TypeOK
  <2>3. UNCHANGED <<pc, cmdIt, cmdQueue, nCommands, MAXCONCURRENTCMDS, submitted, popped,
                    completedBefore>>
    BY <1>2 DEF history
  <2>4. QED
    BY <1>1, <1>3, <2>1, <2>2, <2>3 DEF TypeOK
<1>5. SlotAccounting'
  BY <1>2 DEF SlotAccounting
<1>6. Ownership'
  <2>1. {d \in Cmds : obj'[d] = "live"} = {d \in Cmds : obj[d] = "live"} \ {c}
    BY <1>1, <1>2 DEF TypeOK
  <2>2. QED
    BY <1>1, <1>2, <2>1 DEF Ownership
<1>7. LaunchOrder'
  BY <1>2 DEF LaunchOrder, history
<1>8. NoOrphans'
  BY <1>1, <1>3 DEF NoOrphans
<1>9. ProcessLife'
  BY <1>1, <1>2, <1>3 DEF ProcessLife, TypeOK
<1>10. QED
  BY <1>4, <1>5, <1>6, <1>7, <1>8, <1>9

\* ProcessExit: the environment changes nothing but the process.
LEMMA ProcessExitIInv ==
  ASSUME IInv, NEW c \in Cmds, NEW code \in ExitCodes, ProcessExit(c, code)
  PROVE  IInv'
<1> USE DEF IInv
<1>1. /\ proc[c] \in {"active", "terminating"}
      /\ proc' = [proc EXCEPT ![c] = "exited"]
      /\ exitCode' = [exitCode EXCEPT ![c] = code]
      /\ UNCHANGED <<pc, cmdIt, queueVars, MAXCONCURRENTCMDS, history>>
  BY DEF ProcessExit
<1>2. TypeOK'
  BY <1>1 DEF TypeOK, queueVars, history
<1>3. SlotAccounting' /\ Ownership' /\ LaunchOrder'
  BY <1>1 DEF SlotAccounting, Ownership, LaunchOrder, queueVars, history
<1>4. NoOrphans'
  BY <1>1 DEF NoOrphans, TypeOK, queueVars
<1>5. ProcessLife'
  BY <1>1 DEF ProcessLife, TypeOK, queueVars
<1>6. QED
  BY <1>2, <1>3, <1>4, <1>5

\* Every step keeps the invariant.
LEMMA NextIInv == IInv /\ [Next]_vars => IInv'
<1> SUFFICES ASSUME IInv, [Next]_vars PROVE IInv'
  OBVIOUS
<1>1. CASE \E c \in Cmds : QueueCommand(c)
  BY <1>1, QueueCommandIInv
<1>2. CASE \E n \in Limits : SetLimit(n)
  BY <1>2, ControlStepsIInv
<1>3. CASE ProcessCommands
  BY <1>3, ControlStepsIInv, ReapCommandIInv DEF ProcessCommands
<1>4. CASE ProcessQueue
  BY <1>4, ControlStepsIInv, LaunchCommandIInv, DiscardIInv DEF ProcessQueue
<1>5. CASE Destructor
  BY <1>5, ControlStepsIInv, DiscardIInv, EndCommandIInv DEF Destructor
<1>6. CASE \E c \in Cmds, code \in ExitCodes : ProcessExit(c, code)
  BY <1>6, ProcessExitIInv
<1>7. CASE Terminated \/ UNCHANGED vars
  BY <1>7, ControlStepsIInv DEF Terminated
<1>8. QED
  BY <1>1, <1>2, <1>3, <1>4, <1>5, <1>6, <1>7 DEF Next

\* The invariant holds in every reachable state.
THEOREM InductiveInvariant == Spec => []IInv
BY InitIInv, NextIInv, PTL DEF Spec

\* Every variable keeps its type; in particular the unsigned counter nCommands
\* never goes below 0.
THEOREM TypeCorrect == Spec => []TypeOK
<1>1. IInv => TypeOK
  BY DEF IInv
<1>2. QED
  BY <1>1, InductiveInvariant, PTL

\* The counter ProcessQueue is guarded by is the length of the running list.
THEOREM SlotAccountingHolds == Spec => []SlotAccounting
<1>1. IInv => SlotAccounting
  BY DEF IInv
<1>2. QED
  BY <1>1, InductiveInvariant, PTL

\* Every live ExecObj is in exactly one list, once.
THEOREM OwnershipHolds == Spec => []Ownership
<1>1. IInv => Ownership
  BY DEF IInv
<1>2. QED
  BY <1>1, InductiveInvariant, PTL

\* Commands leave the queue in the order in which they were queued.
THEOREM LaunchOrderHolds == Spec => []LaunchOrder
<1>1. IInv => LaunchOrder
  BY DEF IInv
<1>2. QED
  BY <1>1, InductiveInvariant, PTL

\* No process runs on without its command, and none survives the destructor
\* without having been asked to end.
THEOREM NoOrphansHolds == Spec => []NoOrphans
<1>1. IInv => NoOrphans
  BY DEF IInv
<1>2. QED
  BY <1>1, InductiveInvariant, PTL

-----------------------------------------------------------------------------
(* A pass of ProcessCommands is complete. *)

LEMMA InitPassUnderWay == Init => PassUnderWay
BY DEF Init, PassUnderWay, ToSet

\* The steps that leave the running commands and the completed ones as they are.
LEMMA PassUndisturbed ==
  ASSUME IInv, PassUnderWay, UNCHANGED <<runningCommands, completedBefore>>,
         \A c \in completedBefore : proc[c] = "exited" => UNCHANGED <<proc[c], exitCode[c]>>,
         (pc = "reaping") = (pc' = "reaping"),
         pc = "reaping" => cmdIt' = cmdIt
  PROVE  PassUnderWay'
BY DEF PassUnderWay, Completed

\* The pass begins with the commands that have completed by now.
LEMMA BeginPassUnderWay ==
  ASSUME IInv, BeginProcessCommands
  PROVE  PassUnderWay'
<1>1. /\ pc' = "reaping" /\ cmdIt' = 1
      /\ completedBefore' = {c \in ToSet(runningCommands) : Completed(c)}
      /\ UNCHANGED <<runningCommands, proc, exitCode>>
  BY DEF BeginProcessCommands, queueVars, procVars
<1>2. ToSet(runningCommands) \subseteq Cmds
  BY ToSetIsRange DEF IInv, TypeOK
<1>3. \A c \in completedBefore' : proc'[c] = "exited" /\ exitCode'[c] # STILL_ACTIVE
  BY <1>1, <1>2 DEF Completed, IInv, ProcessLife
<1>4. \A i \in 1 .. Len(runningCommands) : ~(i < 1)
  BY LenProperties DEF IInv, TypeOK
<1>5. QED
  BY <1>1, <1>3, <1>4 DEF PassUnderWay, Completed

\* A command that is erased draws its successor to its place, which is looked at
\* next; one that is passed had not completed before the pass.
LEMMA ReapPassUnderWay ==
  ASSUME IInv, PassUnderWay, ReapCommand
  PROVE  PassUnderWay'
<1> DEFINE c == runningCommands[cmdIt]
<1>1. /\ pc = "reaping" /\ pc' = "reaping"
      /\ cmdIt \in 1 .. Len(runningCommands)
      /\ Len(runningCommands) \in Nat
      /\ runningCommands \in Seq(Cmds)
      /\ UNCHANGED <<completedBefore, proc, exitCode>>
  BY LenProperties DEF ReapCommand, procVars, history, IInv, TypeOK
<1>2. /\ \A d \in completedBefore : proc[d] = "exited" /\ Completed(d)
      /\ \A i \in 1 .. Len(runningCommands) :
           i < cmdIt => runningCommands[i] \notin completedBefore
  BY <1>1 DEF PassUnderWay
<1>3. CASE Completed(c)
  <2>1. runningCommands' = RemoveAt(runningCommands, cmdIt) /\ cmdIt' = cmdIt
    BY <1>3 DEF ReapCommand, AfterErase
  <2>2. /\ Len(runningCommands') = Len(runningCommands) - 1
        /\ \A j \in 1 .. Len(runningCommands) - 1 :
             runningCommands'[j] = IF j < cmdIt THEN runningCommands[j]
                                                ELSE runningCommands[j + 1]
    BY <1>1, <2>1, RemoveAtProperties
  <2>3. \A i \in 1 .. Len(runningCommands') :
          i < cmdIt => runningCommands'[i] \notin completedBefore
    BY <1>1, <1>2, <2>2
  <2>4. QED
    BY <1>1, <1>2, <2>1, <2>3 DEF PassUnderWay, Completed
<1>4. CASE ~Completed(c)
  <2>1. runningCommands' = runningCommands /\ cmdIt' = cmdIt + 1
    BY <1>4 DEF ReapCommand
  <2>2. c \notin completedBefore
    BY <1>2, <1>4
  <2>3. \A i \in 1 .. Len(runningCommands) :
          i < cmdIt + 1 => runningCommands[i] \notin completedBefore
    BY <1>1, <1>2, <2>2
  <2>4. QED
    BY <1>1, <1>2, <2>1, <2>3 DEF PassUnderWay, Completed
<1>5. QED
  BY <1>3, <1>4

\* Behind the last command the whole list has been looked at.
LEMMA EndPassUnderWay ==
  ASSUME IInv, PassUnderWay, EndProcessCommands
  PROVE  PassUnderWay'
<1>1. /\ pc = "reaping" /\ pc' = "idle" /\ cmdIt > Len(runningCommands)
      /\ UNCHANGED <<runningCommands, completedBefore, proc, exitCode>>
  BY DEF EndProcessCommands, queueVars, procVars, history
<1>2. Len(runningCommands) \in Nat /\ cmdIt \in Nat
  BY LenProperties DEF IInv, TypeOK
<1>3. \A i \in 1 .. Len(runningCommands) : runningCommands[i] \notin completedBefore
  BY <1>1, <1>2 DEF PassUnderWay
<1>4. ToSet(runningCommands) = {runningCommands[i] : i \in 1 .. Len(runningCommands)}
  BY ToSetIsRange DEF IInv, TypeOK
<1>5. completedBefore \cap ToSet(runningCommands) = {}
  BY <1>3, <1>4
<1>6. QED
  BY <1>1, <1>5 DEF PassUnderWay, Completed

\* Every step keeps the state of the pass.
LEMMA NextPassUnderWay ==
  ASSUME IInv, PassUnderWay, [Next]_vars
  PROVE  PassUnderWay'
<1>1. CASE ProcessCommands
  BY <1>1, BeginPassUnderWay, ReapPassUnderWay, EndPassUnderWay DEF ProcessCommands
<1>2. CASE \E c \in Cmds : LaunchCommand(c)
  <2>1. PICK c \in Cmds : LaunchCommand(c)
    BY <1>2
  <2>2. /\ pc = "launching" /\ UNCHANGED <<pc, completedBefore, exitCode>>
        /\ runningCommands' = Append(runningCommands, c)
        /\ proc' = [proc EXCEPT ![c] = "active"]
        /\ proc[c] = "none"
    BY <2>1, TryPopFacts DEF LaunchCommand
  <2>3. c \notin completedBefore
    BY <2>2 DEF PassUnderWay
  <2>4. ToSet(runningCommands') = ToSet(runningCommands) \cup {c}
    BY <2>2, AppendToSet DEF IInv, TypeOK
  <2>5. \A d \in completedBefore : proc'[d] = proc[d]
    BY <2>2, <2>3 DEF IInv, TypeOK
  <2>6. QED
    BY <2>2, <2>3, <2>4, <2>5 DEF PassUnderWay, Completed
<1>3. CASE EndCommand
  <2>1. /\ pc = "ending" /\ UNCHANGED <<pc, completedBefore>>
        /\ runningCommands # <<>>
        /\ runningCommands' = Tail(runningCommands)
        /\ GetCmdReturn(Head(runningCommands))
    BY <1>3 DEF EndCommand, history
  <2>2. ToSet(runningCommands') \subseteq ToSet(runningCommands)
    BY <2>1, TailToSet DEF IInv, TypeOK, Ownership
  <2>3. Head(runningCommands) \in ToSet(runningCommands)
    BY <2>1, TailToSet DEF IInv, TypeOK, Ownership
  <2>4. \A d \in completedBefore : proc'[d] = proc[d] /\ exitCode'[d] = exitCode[d]
    <3>1. Head(runningCommands) \notin completedBefore
      BY <2>1, <2>3 DEF PassUnderWay
    <3>2. QED
      BY <2>1, <3>1 DEF GetCmdReturn, procVars, IInv, TypeOK
  <2>5. QED
    BY <2>1, <2>2, <2>4 DEF PassUnderWay, Completed
<1>4. CASE \E c \in Cmds, code \in ExitCodes : ProcessExit(c, code)
  <2>1. PICK c \in Cmds, code \in ExitCodes : ProcessExit(c, code)
    BY <1>4
  <2>2. c \notin completedBefore
    BY <2>1 DEF ProcessExit, PassUnderWay
  <2>3. \A d \in completedBefore : UNCHANGED <<proc[d], exitCode[d]>>
    BY <2>1, <2>2 DEF ProcessExit, IInv, TypeOK
  <2>4. UNCHANGED <<pc, cmdIt, runningCommands, completedBefore>>
    BY <2>1 DEF ProcessExit, queueVars, history
  <2>5. QED
    BY <2>3, <2>4, PassUndisturbed
<1>5. CASE \/ \E c \in Cmds : QueueCommand(c) \/ LaunchError(c) \/ DropCommand(c)
           \/ \E n \in Limits : SetLimit(n)
           \/ BeginProcessQueue \/ EndProcessQueue \/ BeginDestroy \/ EndDrain \/ EndDestroy
           \/ Terminated \/ UNCHANGED vars
  <2>1. /\ UNCHANGED <<runningCommands, completedBefore, proc, exitCode>>
        /\ pc' = pc \/ (pc # "reaping" /\ pc' # "reaping")
        /\ cmdIt' = cmdIt
    BY <1>5 DEF QueueCommand, LaunchError, DropCommand, SetLimit, BeginProcessQueue,
       EndProcessQueue, BeginDestroy, EndDrain, EndDestroy, Terminated, vars, queueVars,
       procVars, history
  <2>2. QED
    BY <2>1, PassUndisturbed
<1>6. QED
  BY <1>1, <1>2, <1>3, <1>4, <1>5 DEF Next, ProcessQueue, Destructor

\* A pass leaves no command behind that had completed before it began.
THEOREM PassIsCompleteHolds == Spec => []PassIsComplete
<1>1. IInv /\ PassUnderWay => PassIsComplete
  <2> SUFFICES ASSUME IInv, PassUnderWay, pc \in {"reaping", "idle"},
                      NEW i \in 1 .. Len(runningCommands), i < cmdIt \/ pc = "idle"
               PROVE  runningCommands[i] \notin completedBefore
    BY DEF PassIsComplete
  <2>1. runningCommands[i] \in ToSet(runningCommands)
    BY ToSetIsRange DEF IInv, TypeOK
  <2>2. QED
    BY <2>1 DEF PassUnderWay
<1>2. IInv /\ PassUnderWay /\ [Next]_vars => PassUnderWay'
  BY NextPassUnderWay
<1>3. Spec => []PassUnderWay
  BY <1>2, InitPassUnderWay, InductiveInvariant, PTL DEF Spec
<1>4. QED
  BY <1>1, <1>3, InductiveInvariant, PTL

-----------------------------------------------------------------------------
\* Only a launch makes a process active, and it found a free slot.
LEMMA StartIsLaunch ==
  ASSUME IInv, [Next]_vars, NEW c \in Cmds, proc[c] # "active", proc'[c] = "active"
  PROVE  LaunchCommand(c)
<1> USE DEF IInv, procVars
<1>1. CASE \E d \in Cmds : QueueCommand(d) \/ LaunchError(d) \/ DropCommand(d)
  BY <1>1 DEF QueueCommand, LaunchError, DropCommand
<1>2. CASE \E n \in Limits : SetLimit(n)
  BY <1>2 DEF SetLimit
<1>3. CASE ProcessCommands
  BY <1>3 DEF ProcessCommands, BeginProcessCommands, ReapCommand, EndProcessCommands
<1>4. CASE BeginProcessQueue \/ EndProcessQueue \/ BeginDestroy \/ EndDrain \/ EndDestroy
  BY <1>4 DEF BeginProcessQueue, EndProcessQueue, BeginDestroy, EndDrain, EndDestroy
<1>5. CASE EndCommand
  BY <1>5 DEF EndCommand, GetCmdReturn, TypeOK
<1>6. CASE \E d \in Cmds, code \in ExitCodes : ProcessExit(d, code)
  BY <1>6 DEF ProcessExit, TypeOK
<1>7. CASE Terminated \/ UNCHANGED vars
  BY <1>7 DEF Terminated, vars
<1>8. CASE \E d \in Cmds : LaunchCommand(d)
  BY <1>8 DEF LaunchCommand, TypeOK
<1>9. QED
  BY <1>1, <1>2, <1>3, <1>4, <1>5, <1>6, <1>7, <1>8 DEF Next, ProcessQueue, Destructor

\* Outside the destructor the active processes are counted by nCommands.
LEMMA ActiveCounted ==
  ASSUME IInv, pc = "launching"
  PROVE  /\ Cardinality(Active) \in Nat
         /\ Cardinality(Active) <= nCommands
<1> USE DEF IInv
<1>1. Active \subseteq ToSet(runningCommands)
  BY DEF Active, NoOrphans, ProcessLife
<1>2. /\ IsFiniteSet(ToSet(runningCommands))
      /\ Cardinality(ToSet(runningCommands)) = Len(runningCommands)
  BY CardinalityOfInjective DEF Ownership, TypeOK
<1>3. nCommands = Len(runningCommands)
  BY DEF SlotAccounting
<1>4. IsFiniteSet(Active) /\ Cardinality(Active) <= Len(runningCommands)
  BY <1>1, <1>2, FS_Subset
<1>5. QED
  BY <1>3, <1>4, FS_CardinalityType

\* Whatever the limits are, and however often the configuration changes them,
\* a process is started only while fewer than the present limit are active.
THEOREM StartsUnderLimitHolds == Spec => StartsUnderLimit
<1> DEFINE Start == \A c \in Cmds : proc[c] # "active" /\ proc'[c] = "active" =>
                      Cardinality(Active) < AsSizeT(MAXCONCURRENTCMDS)
<1>1. IInv /\ [Next]_vars => [Start]_vars
  <2> SUFFICES ASSUME IInv, [Next]_vars, NEW c \in Cmds,
                      proc[c] # "active", proc'[c] = "active"
               PROVE  Cardinality(Active) < AsSizeT(MAXCONCURRENTCMDS)
    OBVIOUS
  <2>1. LaunchCommand(c)
    BY StartIsLaunch
  <2>2. pc = "launching" /\ nCommands < AsSizeT(MAXCONCURRENTCMDS)
    BY <2>1 DEF LaunchCommand, HasSlot
  <2>3. AsSizeT(MAXCONCURRENTCMDS) \in Int /\ nCommands \in Nat
    BY CmdQueueAssumption DEF IInv, TypeOK, AsSizeT
  <2>4. Cardinality(Active) \in Nat /\ Cardinality(Active) <= nCommands
    BY <2>2, ActiveCounted
  <2>5. QED
    BY <2>2, <2>3, <2>4
<1>2. Spec => [][Start]_vars
  BY <1>1, InductiveInvariant, PTL DEF Spec
<1>3. QED
  BY <1>2 DEF StartsUnderLimit

-----------------------------------------------------------------------------
(* The queue implements BoundedExecutor. *)

\* The abstract state read off the concrete one.
AbsRunning == ToSet(runningCommands)
AbsPast    == {c \in Cmds : obj[c] = "deleted"}
AbsClosed  == pc \in {"draining", "ending", "destroyed"}

\* The abstract module counts with the same operator.
LEMMA ExecutorCardinality == \A S : Executor!Cardinality(S) = Cardinality(S)
BY Zenon DEF Executor!Cardinality, Cardinality, Executor!IsFiniteSet, IsFiniteSet

LEMMA ExecutorInit == Init => Executor!Init
BY DEF Init, Executor!Init, ToSet

LEMMA ExecutorNext ==
  ASSUME IInv, [Next]_vars
  PROVE  [Executor!Next]_(Executor!bevars)
<1> USE DEF IInv, Executor!bevars
<1>1. ASSUME NEW c \in Cmds, QueueCommand(c)
      PROVE  Executor!Submit(c)
  <2>1. c \notin ToSet(cmdQueue) /\ c \notin AbsRunning /\ c \notin AbsPast
    BY <1>1 DEF QueueCommand, Ownership, AbsRunning, AbsPast
  <2>2. AbsPast' = AbsPast
    BY <1>1 DEF QueueCommand, TypeOK, AbsPast
  <2>3. QED
    BY <1>1, <2>1, <2>2 DEF QueueCommand, Enqueue, Executor!Submit, Executor!Waiting, ToSet,
       AbsRunning, AbsPast
<1>2. ASSUME NEW n \in Limits, SetLimit(n)
      PROVE  Executor!ChangeLimit(n)
  BY <1>2 DEF SetLimit, queueVars, Executor!ChangeLimit
<1>3. CASE ReapCommand
  <2>1. /\ cmdIt \in 1 .. Len(runningCommands)
        /\ runningCommands[cmdIt] \in Cmds
        /\ runningCommands[cmdIt] \in ToSet(runningCommands)
    BY <1>3, ElementOfSeq, LenProperties, ToSetIsRange DEF ReapCommand, TypeOK
  <2>2. PICK c \in Cmds : c = runningCommands[cmdIt]
    BY <2>1
  <2>3. CASE Completed(c)
    <3>1. /\ obj' = [obj EXCEPT ![c] = "deleted"]
          /\ runningCommands' = RemoveAt(runningCommands, cmdIt)
          /\ UNCHANGED <<pc, cmdQueue, MAXCONCURRENTCMDS>>
      BY <1>3, <2>2, <2>3 DEF ReapCommand
    <3>2. AbsRunning' = AbsRunning \ {c}
      BY <2>1, <2>2, <3>1, RemoveAtFromSet DEF TypeOK, Ownership, AbsRunning
    <3>3. AbsPast' = AbsPast \cup {c}
      BY <3>1 DEF TypeOK, AbsPast
    <3>4. Executor!Finish(c)
      BY <2>1, <2>2, <3>1, <3>2, <3>3 DEF Executor!Finish, AbsRunning, AbsPast
    <3>5. QED
      BY <3>4 DEF Executor!Next
  <2>4. CASE ~Completed(c)
    BY <1>3, <2>2, <2>4 DEF ReapCommand
  <2>5. QED
    BY <2>3, <2>4
<1>4. ASSUME NEW c \in Cmds, LaunchCommand(c)
      PROVE  Executor!Turn
  <2>1. /\ TryPop(c)
        /\ runningCommands' = Append(runningCommands, c)
        /\ UNCHANGED <<pc, MAXCONCURRENTCMDS, obj>>
        /\ pc = "launching"
        /\ nCommands < AsSizeT(MAXCONCURRENTCMDS)
    BY <1>4 DEF LaunchCommand, HasSlot
  <2>2. AbsRunning' = AbsRunning \cup {c}
    BY <2>1, AppendToSet DEF TypeOK, AbsRunning
  <2>3. Cardinality(AbsRunning) = nCommands
    BY <2>1, CardinalityOfInjective DEF TypeOK, Ownership, SlotAccounting, AbsRunning
  <2>4. AbsPast' = AbsPast /\ AbsClosed' = AbsClosed /\ ~AbsClosed
    BY <2>1 DEF AbsPast, AbsClosed
  <2>5. /\ cmdQueue # <<>>
        /\ cmdQueue' = Tail(cmdQueue)
        /\ AbsRunning' = AbsRunning \cup {Head(cmdQueue)}
        /\ Cardinality(AbsRunning) < AsSizeT(MAXCONCURRENTCMDS)
    BY <2>1, <2>2, <2>3 DEF TryPop
  <2>6. QED
    BY <2>1, <2>4, <2>5, ExecutorCardinality DEF Executor!Turn, AbsRunning, AbsPast, AbsClosed
<1>5. ASSUME NEW c \in Cmds, LaunchError(c)
      PROVE  Executor!Turn
  <2>1. /\ TryPop(c)
        /\ obj' = [obj EXCEPT ![c] = "deleted"]
        /\ UNCHANGED <<pc, MAXCONCURRENTCMDS, runningCommands>>
        /\ pc = "launching"
        /\ nCommands < AsSizeT(MAXCONCURRENTCMDS)
    BY <1>5 DEF LaunchError, Discard, HasSlot
  <2>2. AbsPast' = AbsPast \cup {c}
    BY <2>1 DEF TypeOK, AbsPast
  <2>3. Cardinality(AbsRunning) = nCommands
    BY <2>1, CardinalityOfInjective DEF TypeOK, Ownership, SlotAccounting, AbsRunning
  <2>4. AbsRunning' = AbsRunning /\ AbsClosed' = AbsClosed /\ ~AbsClosed
    BY <2>1 DEF AbsRunning, AbsClosed
  <2>5. /\ cmdQueue # <<>>
        /\ cmdQueue' = Tail(cmdQueue)
        /\ AbsPast' = AbsPast \cup {Head(cmdQueue)}
        /\ Cardinality(AbsRunning) < AsSizeT(MAXCONCURRENTCMDS)
    BY <2>1, <2>2, <2>3 DEF TryPop
  <2>6. QED
    BY <2>1, <2>4, <2>5, ExecutorCardinality DEF Executor!Turn, AbsRunning, AbsPast, AbsClosed
<1>6. ASSUME NEW c \in Cmds, DropCommand(c)
      PROVE  Executor!Drop
  <2>1. /\ TryPop(c)
        /\ obj' = [obj EXCEPT ![c] = "deleted"]
        /\ UNCHANGED <<pc, MAXCONCURRENTCMDS, runningCommands>>
        /\ pc = "draining"
    BY <1>6 DEF DropCommand
  <2>2. AbsPast' = AbsPast \cup {c}
    BY <2>1 DEF TypeOK, AbsPast
  <2>3. QED
    BY <2>1, <2>2 DEF Executor!Drop, TryPop, AbsPast
<1>7. CASE EndCommand
  <2>1. PICK c \in Cmds : c = Head(runningCommands)
    BY <1>7, HeadTailProperties DEF EndCommand, TypeOK
  <2>2. /\ c \in ToSet(runningCommands)
        /\ ToSet(Tail(runningCommands)) = ToSet(runningCommands) \ {c}
    BY <1>7, <2>1, TailToSet DEF EndCommand, TypeOK, Ownership
  <2>3. /\ runningCommands' = Tail(runningCommands)
        /\ obj' = [obj EXCEPT ![c] = "deleted"]
        /\ UNCHANGED <<pc, cmdQueue, MAXCONCURRENTCMDS>>
    BY <1>7, <2>1 DEF EndCommand
  <2>4. AbsRunning' = AbsRunning \ {c}
    BY <2>2, <2>3 DEF AbsRunning
  <2>5. AbsPast' = AbsPast \cup {c}
    BY <2>3 DEF TypeOK, AbsPast
  <2>6. Executor!Finish(c)
    BY <2>2, <2>3, <2>4, <2>5 DEF Executor!Finish, AbsRunning, AbsPast
  <2>7. QED
    BY <2>6 DEF Executor!Next
<1>8. CASE BeginDestroy
  BY <1>8 DEF BeginDestroy, queueVars, Executor!Close, Executor!Next
<1>9. CASE BeginProcessCommands \/ EndProcessCommands \/ BeginProcessQueue \/ EndProcessQueue
  BY <1>9 DEF BeginProcessCommands, EndProcessCommands, BeginProcessQueue, EndProcessQueue,
     queueVars
<1>10. CASE EndDrain \/ EndDestroy
  BY <1>10 DEF EndDrain, EndDestroy, queueVars
<1>11. CASE \E c \in Cmds, code \in ExitCodes : ProcessExit(c, code)
  BY <1>11 DEF ProcessExit, queueVars
<1>12. CASE Terminated \/ UNCHANGED vars
  BY <1>12 DEF Terminated, vars, queueVars
<1>13. QED
  BY <1>1, <1>2, <1>3, <1>4, <1>5, <1>6, <1>7, <1>8, <1>9, <1>10, <1>11, <1>12
     DEF Next, ProcessCommands, ProcessQueue, Destructor, Executor!Next

\* The command queue, with its lists, counter and iterator, is a bounded executor.
THEOREM Refinement == Spec => ImplementsExecutor
<1>1. IInv /\ [Next]_vars => [Executor!Next]_(Executor!bevars)
  BY ExecutorNext
<1>2. QED
  BY ExecutorInit, <1>1, InductiveInvariant, PTL DEF Spec, Executor!Spec, ImplementsExecutor
=============================================================================
