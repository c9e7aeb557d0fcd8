-------------------------- MODULE Correlator_proofs --------------------------
(***************************************************************************)
(* Theorems about Correlator for every set of messages, what they say, the *)
(* capacity of the queue and the limit of commands.                        *)
(*                                                                         *)
(* There are three inductive invariants, one for each list of the class.   *)
(* CommandsInv stands alone.  MailInv follows a request from its sender    *)
(* through the shared memory, the hand of the listener and the queue.      *)
(* TimersInv is about the timers; with MailInv, which gives the request    *)
(* its type, and CommandsInv, which gives the iterator of all three loops  *)
(* its, it carries the refinement of TimerTable.                           *)
(***************************************************************************)
EXTENDS Correlator, SeqFacts

-----------------------------------------------------------------------------
(* The commands. *)

\* The initial states satisfy the invariant.
LEMMA InitCommandsInv == Init => CommandsInv
BY CorrelatorAssumption DEF Init, CommandsInv

\* Steps that leave the commands alone.
LEMMA CommandsUndisturbed ==
  ASSUME CommandsInv, UNCHANGED commandVars, pos' \in Nat \ {0}
  PROVE  CommandsInv'
BY DEF CommandsInv, commandVars

\* delete *cit, erase, ++it: one command less, the others keep their order.
LEMMA DeleteCommandCommandsInv ==
  ASSUME CommandsInv, pos <= Len(TimerCommands), DeleteCommand
  PROVE  CommandsInv'
<1>0. /\ TimerCommands \in Seq(Nat)
      /\ \A j, k \in DOMAIN TimerCommands : j < k => TimerCommands[j] < TimerCommands[k]
      /\ \A k \in DOMAIN TimerCommands : TimerCommands[k] <= commandBeginCount
  BY DEF CommandsInv
<1>1. /\ pos \in 1 .. Len(TimerCommands)
      /\ Len(TimerCommands) \in Nat
      /\ dwCurrentCommands = Len(TimerCommands)
      /\ Len(TimerCommands) <= MAXCOMMANDS
      /\ commandBeginCount \in Nat
      /\ commandEndCount \in Nat
      /\ commandBeginCount = commandEndCount + dwCurrentCommands
      /\ MAXCOMMANDS \in Nat
  BY LenProperties, CorrelatorAssumption DEF CommandsInv
<1>2. /\ TimerCommands' \in Seq(Nat)
      /\ Len(TimerCommands') = Len(TimerCommands) - 1
      /\ \A j \in 1 .. Len(TimerCommands) - 1 :
           TimerCommands'[j] = IF j < pos THEN TimerCommands[j] ELSE TimerCommands[j + 1]
  <2> DEFINE r == RemoveAt(TimerCommands, pos)
  <2>2. /\ r \in Seq(Nat)
        /\ Len(r) = Len(TimerCommands) - 1
        /\ \A j \in 1 .. Len(TimerCommands) - 1 :
             r[j] = IF j < pos THEN TimerCommands[j] ELSE TimerCommands[j + 1]
    <3>1. TimerCommands \in Seq(Nat)
      BY <1>0
    <3>2. pos \in 1 .. Len(TimerCommands)
      BY <1>1
    <3>3. QED
      BY <3>1, <3>2, RemoveAtProperties, Zenon
  <2>3. TimerCommands' = r
    BY DEF DeleteCommand
  <2> HIDE DEF r
  <2>4. QED
    BY <2>2, <2>3
<1>3. /\ pos' \in Nat \ {0}
      /\ dwCurrentCommands' = dwCurrentCommands - 1
      /\ commandEndCount' = commandEndCount + 1
      /\ commandBeginCount' = commandBeginCount
  BY <1>1 DEF DeleteCommand, AfterErase
<1>4. DOMAIN TimerCommands = 1 .. Len(TimerCommands)
      /\ DOMAIN TimerCommands' = 1 .. Len(TimerCommands')
  BY <1>0, <1>2, LenProperties
<1>5. \A k \in 1 .. Len(TimerCommands') : TimerCommands'[k] <= commandBeginCount
  <2> SUFFICES ASSUME NEW k \in 1 .. Len(TimerCommands')
               PROVE  TimerCommands'[k] <= commandBeginCount
    OBVIOUS
  <2> DEFINE kk == IF k < pos THEN k ELSE k + 1
  <2>1. kk \in 1 .. Len(TimerCommands)
    BY <1>1, <1>2
  <2>2. TimerCommands'[k] = TimerCommands[kk]
    BY <1>2
  <2> HIDE DEF kk
  <2>3. QED
    BY <1>0, <1>4, <2>1, <2>2
<1>6. ASSUME NEW j \in 1 .. Len(TimerCommands'), NEW k \in 1 .. Len(TimerCommands'), j < k
      PROVE  TimerCommands'[j] < TimerCommands'[k]
  <2> DEFINE jj == IF j < pos THEN j ELSE j + 1
             kk == IF k < pos THEN k ELSE k + 1
  <2>1. jj \in 1 .. Len(TimerCommands) /\ kk \in 1 .. Len(TimerCommands) /\ jj < kk
    BY <1>1, <1>2, <1>6
  <2>2. TimerCommands'[j] = TimerCommands[jj] /\ TimerCommands'[k] = TimerCommands[kk]
    BY <1>2
  <2> HIDE DEF jj, kk
  <2>3. QED
    BY <1>0, <1>4, <2>1, <2>2
<1>7. /\ commandBeginCount' = commandEndCount' + dwCurrentCommands'
      /\ dwCurrentCommands' <= MAXCOMMANDS
      /\ dwCurrentCommands' = Len(TimerCommands')
      /\ {commandBeginCount', commandEndCount'} \subseteq Nat
  BY <1>1, <1>2, <1>3
<1>8. QED
  BY <1>2, <1>3, <1>4, <1>5, <1>6, <1>7 DEF CommandsInv

\* The command of a timer that expired: a new number at the end of the list.
LEMMA StartCommandCommandsInv ==
  ASSUME CommandsInv, HasSlot, StartCommand, pos' \in Nat \ {0}
  PROVE  CommandsInv'
<1> DEFINE n == Len(TimerCommands)
<1>1. /\ n \in Nat
      /\ commandBeginCount \in Nat
      /\ commandBeginCount + 1 \in Nat
      /\ commandEndCount \in Nat
      /\ commandBeginCount = commandEndCount + n
      /\ TimerCommands \in Seq(Nat)
      /\ dwCurrentCommands = n
      /\ MAXCOMMANDS \in Nat
      /\ n < MAXCOMMANDS
  BY LenProperties, CorrelatorAssumption DEF CommandsInv, HasSlot
<1>2. /\ TimerCommands' \in Seq(Nat)
      /\ Len(TimerCommands') = n + 1
      /\ \A j \in 1 .. n : TimerCommands'[j] = TimerCommands[j]
      /\ TimerCommands'[n + 1] = commandBeginCount + 1
  BY <1>1, AppendProperties DEF StartCommand
<1>3. /\ dwCurrentCommands' = dwCurrentCommands + 1
      /\ commandBeginCount' = commandBeginCount + 1
      /\ commandEndCount' = commandEndCount
  BY DEF StartCommand
<1>4. DOMAIN TimerCommands = 1 .. n /\ DOMAIN TimerCommands' = 1 .. n + 1
  BY <1>1, <1>2, LenProperties
<1>5. \A k \in 1 .. n : TimerCommands[k] \in Nat /\ TimerCommands[k] <= commandBeginCount
  BY <1>1, <1>4, ElementOfSeq DEF CommandsInv
<1>6. \A k \in 1 .. n + 1 : k \in 1 .. n \/ k = n + 1
  BY <1>1
<1>7. \A k \in 1 .. n + 1 : TimerCommands'[k] <= commandBeginCount + 1
  BY <1>1, <1>2, <1>5, <1>6
<1>8. ASSUME NEW j \in 1 .. n + 1, NEW k \in 1 .. n + 1, j < k
      PROVE  TimerCommands'[j] < TimerCommands'[k]
  <2>1. j \in 1 .. n
    BY <1>1, <1>8
  <2>2. CASE k \in 1 .. n
    <3>1. TimerCommands[j] < TimerCommands[k]
      BY <1>4, <1>8, <2>1, <2>2 DEF CommandsInv
    <3>2. QED
      BY <1>2, <2>1, <2>2, <3>1
  <2>3. CASE k = n + 1
    BY <1>1, <1>2, <1>5, <2>1, <2>3
  <2>4. QED
    BY <1>6, <2>2, <2>3
<1>9. /\ commandBeginCount' = commandEndCount' + dwCurrentCommands'
      /\ dwCurrentCommands' <= MAXCOMMANDS
      /\ dwCurrentCommands' = Len(TimerCommands')
      /\ {commandBeginCount', commandEndCount'} \subseteq Nat
  BY <1>1, <1>2, <1>3
<1>10. QED
  BY <1>2, <1>3, <1>4, <1>7, <1>8, <1>9 DEF CommandsInv

\* Every step preserves the invariant.
LEMMA NextCommandsInv ==
  ASSUME CommandsInv, [Next]_vars
  PROVE  CommandsInv'
<1> USE DEF mainVars
<1>1. pos \in Nat \ {0}
  BY DEF CommandsInv
<1>2. CASE Sender
  BY <1>1, <1>2, CommandsUndisturbed
  DEF Sender, SenderWriteAction, SenderWriteBody, SenderRelease, SenderDies
<1>3. CASE Listener
  BY <1>1, <1>3, CommandsUndisturbed
  DEF Listener, ListenerSetup, ListenerWait, ListenerLock, ListenerRead, ListenerPush, ListenerLog
<1>4. CASE World
  BY <1>1, <1>4, CommandsUndisturbed DEF World, CommandEnds, Tick, Quit
<1>5. CASE Main
  <2>1. CASE MainWait \/ PopRequest \/ QueueEmpty \/ ReapEnds \/ TimingEnds \/ BeginShutdown
             \/ JoinAndClear
    BY <1>1, <2>1, CommandsUndisturbed
    DEF MainWait, PopRequest, QueueEmpty, ReapEnds, TimingEnds, BeginShutdown, JoinAndClear
  <2>2. CASE ReapCommand
    <3>1. CASE DeleteCommand
      BY <2>2, <3>1, DeleteCommandCommandsInv DEF ReapCommand
    <3>2. CASE pos' = pos + 1 /\ UNCHANGED commandVars
      BY <1>1, <3>2, CommandsUndisturbed
    <3>3. QED
      BY <2>2, <3>1, <3>2 DEF ReapCommand
  <2>3. CASE CheckTimer
    <3>1. HasSlot /\ pos' \in Nat \ {0}
      BY <1>1, <2>3 DEF CheckTimer, AfterErase
    <3>2. CASE StartCommand
      BY <3>1, <3>2, StartCommandCommandsInv
    <3>3. CASE UNCHANGED commandVars
      BY <3>1, <3>3, CommandsUndisturbed
    <3>4. QED
      BY <2>3, <3>2, <3>3 DEF CheckTimer
  <2>4. CASE ClearCommand
    <3>1. CASE pos <= Len(TimerCommands) /\ DeleteCommand
      BY <3>1, DeleteCommandCommandsInv
    <3>2. CASE UNCHANGED <<pos, commandVars>>
      BY <1>1, <3>2, CommandsUndisturbed
    <3>3. QED
      BY <2>4, <3>1, <3>2 DEF ClearCommand
  <2>5. QED
    BY <1>5, <2>1, <2>2, <2>3, <2>4 DEF Main
<1>6. CASE UNCHANGED vars
  BY <1>1, <1>6, CommandsUndisturbed DEF vars
<1>7. QED
  BY <1>2, <1>3, <1>4, <1>5, <1>6 DEF Next, Terminated

\* Neighbours in the list rise because all pairs do.
LEMMA CommandsInvImpliesSlots == CommandsInv => CommandSlots
<1> SUFFICES ASSUME CommandsInv PROVE CommandSlots
  OBVIOUS
<1>1. Len(TimerCommands) \in Nat /\ DOMAIN TimerCommands = 1 .. Len(TimerCommands)
  BY LenProperties DEF CommandsInv
<1>2. \A k \in 2 .. Len(TimerCommands) :
        /\ k - 1 \in 1 .. Len(TimerCommands)
        /\ k \in 1 .. Len(TimerCommands)
        /\ k - 1 < k
  BY <1>1
<1>3. \A k \in 2 .. Len(TimerCommands) : TimerCommands[k - 1] < TimerCommands[k]
  BY <1>1, <1>2 DEF CommandsInv
<1>4. QED
  BY <1>3 DEF CommandsInv, CommandSlots

\* The counter beside the list of commands is its length and never above the limit,
\* and no command is in the list twice, whatever the loops erase and skip.
THEOREM CommandSlotsHolds == Spec => []CommandSlots
<1>1. Spec => []CommandsInv
  BY InitCommandsInv, NextCommandsInv, PTL DEF Spec
<1>2. QED
  BY <1>1, CommandsInvImpliesSlots, PTL

-----------------------------------------------------------------------------
(* The way of a request. *)

\* The bodies of a queue, after a push and after a pop.
LEMMA BodiesOfQueue ==
  ASSUME NEW q \in Seq(Events)
  PROVE  /\ Bodies(q) \in Seq(Messages)
         /\ \A e \in Events : Bodies(Append(q, e)) = Append(Bodies(q), e.body)
         /\ q # <<>> => /\ Head(q) \in ToSet(q) /\ Head(q) \in Events
                        /\ Tail(q) \in Seq(Events)
                        /\ ToSet(Tail(q)) \subseteq ToSet(q)
                        /\ Bodies(q) # <<>>
                        /\ Head(Bodies(q)) = Head(q).body
                        /\ Bodies(Tail(q)) = Tail(Bodies(q))
<1>1. ASSUME NEW r \in Seq(Events)
      PROVE  /\ Bodies(r) \in Seq(Messages)
             /\ Len(Bodies(r)) = Len(r)
             /\ \A k \in 1 .. Len(r) : Bodies(r)[k] = r[k].body
  <2>1. Len(r) \in Nat /\ DOMAIN r = 1 .. Len(r)
    BY LenProperties
  <2>2. \A k \in 1 .. Len(r) : r[k].body \in Messages
    <3>1. \A k \in 1 .. Len(r) : r[k] \in Events
      BY <2>1, ElementOfSeq
    <3>2. \A e \in Events : e.body \in Messages
      BY DEF Events
    <3>3. QED
      BY <3>1, <3>2
  <2>3. Bodies(r) = [k \in 1 .. Len(r) |-> r[k].body]
    BY <2>1 DEF Bodies
  <2>4. Bodies(r) \in [1 .. Len(r) -> Messages]
    BY <2>2, <2>3
  <2>5. Bodies(r) \in Seq(Messages)
    BY <2>1, <2>4, SeqDef
  <2>6. Len(Bodies(r)) = Len(r)
    BY <2>1, <2>4, <2>5, LenProperties
  <2>7. QED
    BY <2>3, <2>5, <2>6
<1>2. ASSUME NEW e \in Events
      PROVE  Bodies(Append(q, e)) = Append(Bodies(q), e.body)
  <2> DEFINE a == Append(q, e)
             b == Append(Bodies(q), e.body)
  <2>1. e.body \in Messages /\ Len(q) \in Nat
    BY LenProperties DEF Events
  <2>2. /\ a \in Seq(Events)
        /\ Len(a) = Len(q) + 1
        /\ \A k \in 1 .. Len(q) : a[k] = q[k]
        /\ a[Len(q) + 1] = e
    BY AppendProperties
  <2>3. /\ b \in Seq(Messages)
        /\ Len(b) = Len(Bodies(q)) + 1
        /\ \A k \in 1 .. Len(Bodies(q)) : b[k] = Bodies(q)[k]
        /\ b[Len(Bodies(q)) + 1] = e.body
    BY <1>1, <2>1, AppendProperties
  <2> HIDE DEF a, b
  <2>4. /\ Bodies(a) \in Seq(Messages)
        /\ Len(Bodies(a)) = Len(q) + 1
        /\ \A k \in 1 .. Len(q) + 1 : Bodies(a)[k] = a[k].body
    BY <1>1, <2>2
  <2>5. /\ Len(Bodies(q)) = Len(q)
        /\ \A k \in 1 .. Len(q) : Bodies(q)[k] = q[k].body
    BY <1>1
  <2>6. ASSUME NEW k \in 1 .. Len(q) + 1
        PROVE  Bodies(a)[k] = b[k]
    <3>1. k \in 1 .. Len(q) \/ k = Len(q) + 1
      BY <2>1
    <3>2. CASE k \in 1 .. Len(q)
      BY <2>2, <2>3, <2>4, <2>5, <3>2
    <3>3. CASE k = Len(q) + 1
      BY <2>2, <2>3, <2>4, <2>5, <3>3
    <3>4. QED
      BY <3>1, <3>2, <3>3
  <2>7. Bodies(a) = b
    BY <2>3, <2>4, <2>5, <2>6, SeqEqual
  <2>8. QED
    BY <2>7 DEF a, b
<1>3. ASSUME q # <<>>
      PROVE  /\ Head(q) \in ToSet(q) /\ Head(q) \in Events
             /\ Tail(q) \in Seq(Events)
             /\ ToSet(Tail(q)) \subseteq ToSet(q)
             /\ Bodies(q) # <<>>
             /\ Head(Bodies(q)) = Head(q).body
             /\ Bodies(Tail(q)) = Tail(Bodies(q))
  <2> DEFINE t == Tail(q)
             b == Tail(Bodies(q))
  <2>1. Len(q) \in Nat /\ Len(q) # 0 /\ 1 \in 1 .. Len(q)
    BY <1>3, EmptySeq, LenProperties
  <2>2. /\ Head(q) = q[1]
        /\ Head(q) \in Events
        /\ t \in Seq(Events)
        /\ Len(t) = Len(q) - 1
        /\ \A k \in 1 .. Len(t) : t[k] = q[k + 1]
    BY <1>3, HeadTailProperties
  <2>3. /\ Bodies(q) \in Seq(Messages)
        /\ Len(Bodies(q)) = Len(q)
        /\ \A k \in 1 .. Len(q) : Bodies(q)[k] = q[k].body
    BY <1>1
  <2>4. Bodies(q) # <<>>
    <3>1. Len(Bodies(q)) # 0
      BY <2>1, <2>3
    <3>2. QED
      BY <2>3, <3>1, EmptySeq
  <2>5. /\ Head(Bodies(q)) = Bodies(q)[1]
        /\ b \in Seq(Messages)
        /\ Len(b) = Len(Bodies(q)) - 1
        /\ \A k \in 1 .. Len(b) : b[k] = Bodies(q)[k + 1]
    BY <2>3, <2>4, HeadTailProperties
  <2> HIDE DEF t, b
  <2>6. /\ Bodies(t) \in Seq(Messages)
        /\ Len(Bodies(t)) = Len(t)
        /\ \A k \in 1 .. Len(t) : Bodies(t)[k] = t[k].body
    BY <1>1, <2>2
  <2>7. \A k \in 1 .. Len(t) : k + 1 \in 1 .. Len(q)
    BY <2>1, <2>2
  <2>8. ASSUME NEW k \in 1 .. Len(t)
        PROVE  Bodies(t)[k] = b[k]
    BY <2>2, <2>3, <2>5, <2>6, <2>7
  <2>9. Bodies(t) = b
    BY <2>2, <2>3, <2>5, <2>6, <2>8, SeqEqual
  <2>10. ToSet(q) = {q[k] : k \in 1 .. Len(q)} /\ ToSet(t) = {t[k] : k \in 1 .. Len(t)}
    BY <2>2, ToSetIsRange
  <2>11. ToSet(t) \subseteq ToSet(q) /\ Head(q) \in ToSet(q)
    BY <2>1, <2>2, <2>7, <2>10
  <2>12. QED
    BY <2>1, <2>2, <2>3, <2>4, <2>5, <2>9, <2>11 DEF t, b
<1>4. QED
  BY <1>1, <1>2, <1>3

\* The bodies of nothing and of one event.
LEMMA BodiesOfHand ==
  /\ Bodies(<<>>) = <<>>
  /\ \A e \in Events : Bodies(<<e>>) = <<e.body>> /\ ToSet(<<e>>) = {e}
  /\ ToSet(<<>>) = {}
<1>1. /\ <<>> \in Seq(Events) /\ <<>> \in Seq(Messages)
      /\ Len(<<>>) = 0
  BY EmptySeq
<1>2. Bodies(<<>>) = <<>>
  BY DEF Bodies
<1>3. \A e : Append(<<>>, e) = <<e>>
  OBVIOUS
<1>4. \A e \in Events : Bodies(<<e>>) = <<e.body>>
  BY <1>1, <1>2, <1>3, BodiesOfQueue
<1>5. ToSet(<<>>) = {} /\ \A e : ToSet(<<e>>) = {e}
  BY DEF ToSet
<1>6. QED
  BY <1>2, <1>4, <1>5

\* The types of what the invariant speaks about, without what it says.
LEMMA MailTypes ==
  ASSUME MailInv
  PROVE  /\ sent \in Seq(Messages) /\ taken \in Seq(Messages) /\ queue \in Seq(Events)
         /\ Bodies(queue) \in Seq(Messages)
         /\ taken \o Bodies(queue) \in Seq(Messages)
         /\ ReadSoFar \in Seq(Messages)
         /\ IsInjective(ReadSoFar)
         /\ ToSet(ReadSoFar) \subseteq ToSet(sent)
<1>1. sent \in Seq(Messages) /\ taken \in Seq(Messages) /\ queue \in Seq(Events)
  BY DEF MailInv, MailTypeOK
<1>2. Bodies(queue) \in Seq(Messages)
  BY <1>1, BodiesOfQueue
<1>3. taken \o Bodies(queue) \in Seq(Messages)
  BY <1>1, <1>2, ConcatProperties
<1>4. IsInjective(sent) /\ (msgIncomming => sent # <<>>)
  BY DEF MailInv, MutexHeld, SharedMemory
<1>5. CASE ~msgIncomming
  <2>1. ReadSoFar = sent
    BY <1>5 DEF ReadSoFar
  <2>2. QED
    BY <1>1, <1>2, <1>3, <1>4, <2>1
<1>6. CASE msgIncomming
  <2>1. /\ Front(sent) \in Seq(Messages)
        /\ Last(sent) \in Messages
        /\ sent = Append(Front(sent), Last(sent))
    BY <1>1, <1>4, <1>6, FrontAndLast
  <2>2. <<Last(sent)>> \in Seq(Messages) /\ sent = Front(sent) \o <<Last(sent)>>
    <3>1. \A q \in Seq(Messages), e \in Messages :
            <<e>> \in Seq(Messages) /\ Append(q, e) = q \o <<e>>
      OBVIOUS
    <3>2. QED
      BY <2>1, <3>1
  <2>3. /\ ToSet(sent) = ToSet(Front(sent)) \cup ToSet(<<Last(sent)>>)
        /\ IsInjective(Front(sent))
    BY <1>4, <2>1, <2>2, PartsAreDisjoint
  <2>4. ReadSoFar = Front(sent)
    BY <1>6 DEF ReadSoFar
  <2>5. QED
    BY <1>1, <1>2, <1>3, <2>1, <2>3, <2>4
<1>7. QED
  BY <1>5, <1>6

\* The initial states satisfy the invariant.
LEMMA InitMailInv == Init => MailInv
<1> SUFFICES ASSUME Init PROVE MailInv
  OBVIOUS
<1>1. MailTypeOK
  BY EmptySeq DEF Init, MailTypeOK
<1>2. ToSet(<<>>) = {} /\ IsInjective(<<>>)
  BY DEF ToSet, IsInjective
<1>3. MutexHeld
  BY <1>2, CorrelatorAssumption DEF Init, MutexHeld
<1>4. SharedMemory
  BY DEF Init, SharedMemory
<1>5. RequestsFaithful
  <2>1. taken \o Bodies(queue) \o Bodies(Held) = <<>> /\ ReadSoFar = <<>>
    <3>1. Held = <<>> /\ taken = <<>> /\ queue = <<>> /\ ReadSoFar = <<>>
      BY DEF Init, Held, ReadSoFar
    <3>2. <<>> \o <<>> = <<>>
      BY EmptySeq, ConcatEmptySeq
    <3>3. QED
      BY <3>1, <3>2, BodiesOfHand
  <2>2. IsSelection(<<>>, <<>>, Messages \ lost)
    BY SelectionOfNothing
  <2>3. ToSet(queue) \cup ToSet(Held) = {}
    BY <1>2 DEF Init, Held
  <2>4. QED
    BY <2>1, <2>2, <2>3 DEF RequestsFaithful
<1>6. QED
  BY <1>1, <1>3, <1>4, <1>5 DEF MailInv

\* Steps that touch neither the mailbox nor what follows it; the main loop does not
\* come back from its end.
LEMMA MailUndisturbed ==
  ASSUME MailInv,
         UNCHANGED <<request, sharedVars, spc, sent, listenerVars, queue, taken>>,
         mpc \in {"clearing", "ended"} => mpc' \in {"clearing", "ended"}
  PROVE  MailInv'
<1> USE DEF MailInv, sharedVars, listenerVars
<1>1. Held' = Held /\ ReadSoFar' = ReadSoFar
  BY DEF Held, ReadSoFar
<1>2. MailTypeOK'
  BY DEF MailTypeOK
<1>3. MutexHeld'
  BY DEF MutexHeld, ActionOf
<1>4. SharedMemory'
  BY <1>1 DEF SharedMemory, ActionOf
<1>5. RequestsFaithful'
  BY <1>1 DEF RequestsFaithful
<1>6. QED
  BY <1>2, <1>3, <1>4, <1>5

\* The part of a request that is on its way, untouched by the senders.
LEMMA FaithfulUndisturbed ==
  ASSUME RequestsFaithful,
         UNCHANGED <<request, listenerVars, queue, taken, ReadSoFar>>,
         mpc \in {"clearing", "ended"} => mpc' \in {"clearing", "ended"}
  PROVE  RequestsFaithful'
<1>1. Held' = Held
  BY DEF Held, listenerVars
<1>2. QED
  BY <1>1 DEF RequestsFaithful, listenerVars

\* A sender takes the mutex: nobody holds it, and the event is reset.
LEMMA SenderWriteActionMailInv ==
  ASSUME MailInv, NEW m \in Messages, SenderWriteAction(m)
  PROVE  MailInv'
<1> USE DEF MailInv
<1>1. /\ spc[m] = "new" /\ ~msgIncomming /\ ~msgIncomming'
      /\ msgBufLocked \in {"free", "abandoned"} /\ msgBufLocked' = m
      /\ shared' = [shared EXCEPT !.action = ActionOf(m)]
      /\ spc' = [spc EXCEPT ![m] = "half"]
      /\ UNCHANGED <<request, msgIncomming, sent, listenerVars, queue, taken, mpc, ReadSoFar>>
  BY DEF SenderWriteAction, mainVars, ReadSoFar
<1>2. msgBufLocked \notin Messages /\ m \notin {"free", "listener", "abandoned"}
  BY <1>1, CorrelatorAssumption
<1>3. ActionOf(m) \in {0, 1}
  BY DEF ActionOf
<1>4. MailTypeOK'
  <2>1. shared' \in [action : {0, 1}, body : Messages \cup {None}]
    BY <1>1, <1>3 DEF MailTypeOK
  <2>2. spc' \in [Messages -> {"new", "half", "written", "sent", "dead"}]
    BY <1>1 DEF MailTypeOK
  <2>3. QED
    BY <1>1, <2>1, <2>2 DEF MailTypeOK, listenerVars
<1>5. MutexHeld'
  <2>1. \A n \in Messages : spc'[n] = IF n = m THEN "half" ELSE spc[n]
    BY <1>1 DEF MailTypeOK
  <2>2. \A n \in Messages : spc[n] \notin {"half", "written"}
    BY <1>2 DEF MutexHeld
  <2>3. lpc # "reading" /\ lpc' # "reading"
    BY <1>1 DEF MutexHeld, listenerVars
  <2>4. shared'.action = ActionOf(m)' /\ \A n \in Messages : ActionOf(n)' = ActionOf(n)
    BY <1>1 DEF MailTypeOK, ActionOf
  <2>5. QED
    BY <1>1, <1>2, <2>1, <2>2, <2>3, <2>4 DEF MutexHeld
<1>6. SharedMemory'
  <2>1. lpc \notin {"locking", "reading"}
    BY <1>1 DEF SharedMemory
  <2>2. QED
    BY <1>1, <2>1 DEF SharedMemory, listenerVars
<1>7. RequestsFaithful'
  BY <1>1, FaithfulUndisturbed
<1>8. QED
  BY <1>4, <1>5, <1>6, <1>7

\* The sender that holds the mutex writes the body and sets the event: the request
\* in the shared memory is whole.
LEMMA SenderWriteBodyMailInv ==
  ASSUME MailInv, NEW m \in Messages, SenderWriteBody(m)
  PROVE  MailInv'
<1> USE DEF MailInv
<1>1. /\ spc[m] = "half" /\ msgIncomming'
      /\ shared' = [shared EXCEPT !.body = m]
      /\ spc' = [spc EXCEPT ![m] = "written"]
      /\ sent' = Append(sent, m)
      /\ UNCHANGED <<request, msgBufLocked, listenerVars, queue, taken, mpc>>
  BY DEF SenderWriteBody, mainVars
<1>2. /\ msgBufLocked = m /\ ~msgIncomming /\ shared.action = ActionOf(m)
      /\ m \notin ToSet(sent) /\ lpc # "reading"
      /\ \A n \in Messages : n # m => spc[n] \notin {"half", "written"}
  BY <1>1, CorrelatorAssumption DEF MutexHeld
<1>3. /\ sent' \in Seq(Messages)
      /\ ToSet(sent') = ToSet(sent) \cup {m}
      /\ IsInjective(sent')
      /\ sent' # <<>> /\ Last(sent') = m /\ Front(sent') = sent
  <2>1. sent \in Seq(Messages) /\ IsInjective(sent)
    BY DEF MailTypeOK, MutexHeld
  <2>2. Append(sent, m) # <<>>
    BY <2>1, AppendProperties
  <2>3. Front(Append(sent, m)) = sent /\ Last(Append(sent, m)) = m
    BY <2>1, FrontAndLast
  <2>4. /\ Append(sent, m) \in Seq(Messages)
        /\ ToSet(Append(sent, m)) = ToSet(sent) \cup {m}
        /\ IsInjective(Append(sent, m))
    BY <1>2, <2>1, AppendToSet
  <2>5. QED
    BY <1>1, <2>2, <2>3, <2>4
<1>4. ReadSoFar = sent /\ ReadSoFar' = sent
  BY <1>1, <1>2, <1>3 DEF ReadSoFar
<1>5. MailTypeOK'
  BY <1>1, <1>3 DEF MailTypeOK, listenerVars
<1>6. \A n \in Messages : ActionOf(n)' = ActionOf(n)
  BY <1>1 DEF ActionOf
<1>7. /\ shared'.action = shared.action /\ shared'.body = m
      /\ shared.action \in {0, 1}
  BY <1>1 DEF MailTypeOK
<1>8. MutexHeld'
  <2>1. \A n \in Messages : spc'[n] = IF n = m THEN "written" ELSE spc[n]
    BY <1>1 DEF MailTypeOK
  <2>2. \A n \in Messages : spc'[n] # "half"
    BY <1>2, <2>1
  <2>3. \A n \in Messages : spc'[n] \in {"new", "half"} => n \notin ToSet(sent')
    BY <1>3, <2>1 DEF MutexHeld
  <2>4. \A n \in Messages : spc'[n] \in {"half", "written"} <=> msgBufLocked' = n
    BY <1>1, <1>2, <2>1
  <2>5. lpc' = "reading" <=> msgBufLocked' = "listener"
    BY <1>1 DEF MutexHeld, listenerVars
  <2>6. QED
    BY <1>3, <2>2, <2>3, <2>4, <2>5 DEF MutexHeld
<1>9. SharedMemory'
  <2>1. lpc \notin {"locking", "reading"} /\ lpc' = lpc /\ newevent' = newevent /\ lost' = lost
    BY <1>1, <1>2 DEF SharedMemory, listenerVars
  <2>2. sent' # <<>> /\ shared'.body = Last(sent') /\ shared'.action = ActionOf(Last(sent))'
    <3>1. ActionOf(Last(sent))' = ActionOf(m)
      BY <1>1, <1>3 DEF ActionOf
    <3>2. QED
      BY <1>2, <1>3, <1>7, <3>1
  <2>3. lost' \subseteq ToSet(ReadSoFar')
    BY <1>4, <2>1 DEF SharedMemory
  <2>4. lpc' = "pushing" => /\ newevent' \in Events
                            /\ ReadSoFar' # <<>> /\ newevent'.body = Last(ReadSoFar')
                            /\ newevent'.body \notin lost'
                            /\ newevent'.delete <=> request'[newevent'.body].delete
    BY <1>1, <1>4, <2>1 DEF SharedMemory
  <2>5. QED
    BY <2>1, <2>2, <2>3, <2>4 DEF SharedMemory
<1>10. RequestsFaithful'
  BY <1>1, <1>4, FaithfulUndisturbed
<1>11. QED
  BY <1>5, <1>8, <1>9, <1>10

\* The mutex is given back, or the sender dies with it, with or without a request
\* in the shared memory.
LEMMA SenderLeavesMailInv ==
  ASSUME MailInv, NEW m \in Messages, SenderRelease(m) \/ SenderDies(m)
  PROVE  MailInv'
<1> USE DEF MailInv
<1>1. PICK s \in {"sent", "dead"}, b \in {"free", "abandoned"} :
        /\ spc[m] \in {"half", "written"}
        /\ msgBufLocked' = b
        /\ spc' = [spc EXCEPT ![m] = s]
        /\ UNCHANGED <<request, msgIncomming, shared, sent, listenerVars, queue, taken, mpc,
                       ReadSoFar>>
  BY DEF SenderRelease, SenderDies, mainVars, ReadSoFar
<1>2. /\ msgBufLocked = m /\ lpc # "reading" /\ b \notin Messages
      /\ \A n \in Messages : n # m => spc[n] \notin {"half", "written"}
  BY <1>1, CorrelatorAssumption DEF MutexHeld
<1>3. MailTypeOK'
  BY <1>1 DEF MailTypeOK, listenerVars
<1>4. MutexHeld'
  <2>1. \A n \in Messages : spc'[n] = IF n = m THEN s ELSE spc[n]
    BY <1>1 DEF MailTypeOK
  <2>2. \A n \in Messages : spc'[n] \notin {"half", "written"}
    BY <1>2, <2>1
  <2>3. \A n \in Messages : spc'[n] = "new" => spc[n] = "new"
    BY <2>1
  <2>4. lpc' # "reading" /\ msgBufLocked' # "listener"
    BY <1>1, <1>2 DEF listenerVars
  <2>5. QED
    BY <1>1, <1>2, <2>2, <2>3, <2>4 DEF MutexHeld
<1>5. SharedMemory'
  BY <1>1 DEF SharedMemory, listenerVars, ActionOf
<1>6. RequestsFaithful'
  BY <1>1, FaithfulUndisturbed
<1>7. QED
  BY <1>3, <1>4, <1>5, <1>6

\* The listener sets up its objects, goes on or ends, and logs: nothing moves.
LEMMA ListenerControlMailInv ==
  ASSUME MailInv,
         \/ \E ok \in BOOLEAN : ListenerSetup(ok)
         \/ ListenerWait \/ ListenerLog
  PROVE  MailInv'
<1> USE DEF MailInv
<1>1. /\ UNCHANGED <<request, sharedVars, spc, sent, lost, queue, taken, mpc, ReadSoFar>>
      /\ lpc \in {"setup", "waiting", "logging"}
      /\ lpc' \in {"waiting", "locking", "ended"}
      /\ lpc' = "locking" => msgIncomming
  <2>1. ASSUME NEW ok \in BOOLEAN, ListenerSetup(ok)
        PROVE  /\ UNCHANGED <<request, sharedVars, spc, sent, lost, queue, taken, mpc, ReadSoFar>>
               /\ lpc = "setup" /\ lpc' \in {"waiting", "ended"}
    BY <2>1 DEF ListenerSetup, senderVars, sharedVars, mainVars, ReadSoFar
  <2>2. CASE ListenerWait
    BY <2>2 DEF ListenerWait, senderVars, sharedVars, mainVars, ReadSoFar
  <2>3. CASE ListenerLog
    BY <2>3 DEF ListenerLog, senderVars, sharedVars, mainVars, ReadSoFar
  <2>4. QED
    BY <2>1, <2>2, <2>3
<1>2. MailTypeOK'
  BY <1>1 DEF MailTypeOK, sharedVars
<1>3. MutexHeld'
  BY <1>1 DEF MutexHeld, sharedVars, ActionOf
<1>4. SharedMemory'
  BY <1>1 DEF SharedMemory, sharedVars, ActionOf
<1>5. RequestsFaithful'
  <2>1. Held' = <<>> /\ Held = <<>>
    BY <1>1 DEF Held
  <2>2. QED
    BY <1>1, <2>1 DEF RequestsFaithful
<1>6. QED
  BY <1>2, <1>3, <1>4, <1>5

\* The listener takes a free mutex and copies the action, or ends.
LEMMA ListenerLockMailInv ==
  ASSUME MailInv, ListenerLock
  PROVE  MailInv'
<1> USE DEF MailInv
<1>1. /\ UNCHANGED <<request, msgIncomming, shared, spc, sent, lost, queue, taken, mpc, ReadSoFar>>
      /\ lpc = "locking" /\ msgIncomming
      /\ \/ /\ lpc' = "reading" /\ msgBufLocked = "free" /\ msgBufLocked' = "listener"
            /\ newevent' = Correlation(shared.action, None)
         \/ lpc' = "ended" /\ msgBufLocked' = msgBufLocked /\ msgBufLocked # "listener"
  BY DEF ListenerLock, senderVars, mainVars, ReadSoFar, MutexHeld, SharedMemory
<1>2. MailTypeOK'
  BY <1>1 DEF MailTypeOK
<1>3. MutexHeld'
  <2>1. \A m \in Messages : m \notin {"free", "listener"}
    BY CorrelatorAssumption
  <2>2. \A m \in Messages : spc'[m] \in {"half", "written"} <=> msgBufLocked' = m
    BY <1>1, <2>1 DEF MutexHeld
  <2>3. QED
    BY <1>1, <2>2 DEF MutexHeld, ActionOf
<1>4. SharedMemory'
  BY <1>1 DEF SharedMemory, ActionOf, Correlation
<1>5. RequestsFaithful'
  <2>1. Held' = <<>> /\ Held = <<>>
    BY <1>1 DEF Held
  <2>2. QED
    BY <1>1, <2>1 DEF RequestsFaithful
<1>6. QED
  BY <1>2, <1>3, <1>4, <1>5

\* The listener copies the body, resets the event and gives the mutex back: the
\* request that was in the shared memory is in its hand, with the action that was
\* written for it.
LEMMA ListenerReadMailInv ==
  ASSUME MailInv, ListenerRead
  PROVE  MailInv'
<1> USE DEF MailInv
<1> DEFINE e == Last(sent)
<1>1. /\ UNCHANGED <<request, shared, spc, sent, lost, queue, taken, mpc>>
      /\ lpc = "reading" /\ lpc' = "pushing"
      /\ msgIncomming' = FALSE /\ msgBufLocked' = "free"
      /\ newevent' = [newevent EXCEPT !.body = shared.body]
  BY DEF ListenerRead, senderVars, mainVars
<1>2. /\ msgIncomming /\ sent # <<>>
      /\ shared.body = e /\ shared.action = ActionOf(e)
      /\ newevent = Correlation(shared.action, None)
      /\ msgBufLocked = "listener"
  BY <1>1 DEF SharedMemory, MutexHeld
<1>3. sent \in Seq(Messages) /\ IsInjective(sent)
  BY DEF MailTypeOK, MutexHeld
<1>4. /\ Front(sent) \in Seq(Messages) /\ e \in Messages
      /\ sent = Append(Front(sent), e)
  BY <1>2, <1>3, FrontAndLast
<1>5. ReadSoFar = Front(sent) /\ ReadSoFar' = sent
  BY <1>1, <1>2 DEF ReadSoFar
<1>6. /\ ToSet(Front(sent)) \cap {e} = {}
      /\ ToSet(Front(sent)) \subseteq ToSet(sent)
  <2>1. <<e>> \in Seq(Messages) /\ sent = Front(sent) \o <<e>> /\ ToSet(<<e>>) = {e}
    <3>1. \A q \in Seq(Messages), d \in Messages :
            <<d>> \in Seq(Messages) /\ Append(q, d) = q \o <<d>>
      OBVIOUS
    <3>2. ToSet(<<e>>) = {e}
      BY DEF ToSet
    <3>3. QED
      BY <1>4, <3>1, <3>2
  <2>2. IsInjective(Front(sent) \o <<e>>)
    BY <1>3, <2>1
  <2>3. /\ ToSet(Front(sent)) \cap ToSet(<<e>>) = {}
        /\ ToSet(Front(sent) \o <<e>>) = ToSet(Front(sent)) \cup ToSet(<<e>>)
    BY <1>4, <2>1, <2>2, PartsAreDisjoint
  <2>4. QED
    BY <2>1, <2>3
<1>7. lost \subseteq ToSet(Front(sent)) /\ e \notin lost
  BY <1>5, <1>6 DEF SharedMemory
<1>8. newevent' = [delete |-> ActionOf(e) = 1, body |-> e]
  BY <1>1, <1>2 DEF Correlation
<1>9. /\ newevent' \in Events /\ newevent'.body = e
      /\ newevent'.delete <=> request[e].delete
  <2>1. (ActionOf(e) = 1) <=> request[e].delete
    BY DEF ActionOf
  <2>2. (ActionOf(e) = 1) \in BOOLEAN
    OBVIOUS
  <2>3. newevent' \in Events /\ newevent'.body = e
    BY <1>4, <1>8, <2>2 DEF Events
  <2>4. newevent'.delete = (ActionOf(e) = 1)
    BY <1>8
  <2>5. QED
    BY <2>1, <2>3, <2>4
<1>10. MailTypeOK'
  BY <1>1 DEF MailTypeOK
<1>11. MutexHeld'
  <2>1. \A m \in Messages : m \notin {"free", "listener"}
    BY CorrelatorAssumption
  <2>2. \A m \in Messages : spc[m] \notin {"half", "written"}
    BY <1>2, <2>1 DEF MutexHeld
  <2>3. \A m \in Messages : spc'[m] \in {"half", "written"} <=> msgBufLocked' = m
    BY <1>1, <2>1, <2>2
  <2>4. QED
    BY <1>1, <2>2, <2>3 DEF MutexHeld
<1>12. SharedMemory'
  BY <1>1, <1>2, <1>5, <1>6, <1>7, <1>9 DEF SharedMemory
<1>13. RequestsFaithful'
  <2> SUFFICES ASSUME mpc \notin {"clearing", "ended"}
               PROVE  RequestsFaithful'
    BY <1>1 DEF RequestsFaithful
  <2> DEFINE p == taken \o Bodies(queue)
             T == Messages \ lost
  <2>1. Held = <<>> /\ Held' = <<newevent'>>
    BY <1>1 DEF Held
  <2>2. p \in Seq(Messages)
    BY MailTypes
  <2>3. p \o <<>> = p /\ p \o <<e>> = Append(p, e)
    BY <1>4, <2>2, ConcatEmptySeq
  <2>4. Bodies(Held) = <<>> /\ Bodies(Held)' = <<e>>
    <3>1. Bodies(Held') = <<e>>
      BY <1>9, <2>1, BodiesOfHand
    <3>2. Bodies(Held)' = Bodies(Held')
      BY DEF Bodies
    <3>3. QED
      BY <2>1, <3>1, <3>2, BodiesOfHand
  <2>5. /\ IsSelection(p \o Bodies(Held), ReadSoFar, T)
        /\ \A c \in ToSet(queue) \cup ToSet(Held) : c.delete <=> request[c.body].delete
    BY DEF RequestsFaithful
  <2>6. e \in T
    BY <1>4, <1>7
  <2> HIDE DEF p, T, e
  <2>7. IsSelection(p, Front(sent), T)
    BY <1>5, <2>3, <2>4, <2>5
  <2>8. IsSelection(Append(p, e), sent, T)
    BY <1>4, <2>2, <2>6, <2>7, SelectionGrows
  <2>9. IsSelection(p \o Bodies(Held)', sent, T)
    BY <2>3, <2>4, <2>8
  <2>10. p' = p /\ T' = T
    BY <1>1 DEF p, T, Bodies
  <2>11. IsSelection(taken \o Bodies(queue) \o Bodies(Held), ReadSoFar, Messages \ lost)'
    BY <1>5, <2>9, <2>10 DEF p, T
  <2>12. \A c \in ToSet(Held') : c.delete <=> request[c.body].delete
    <3>1. ToSet(Held') = {newevent'}
      BY <1>9, <2>1, BodiesOfHand
    <3>2. QED
      BY <1>9, <3>1
  <2>13. QED
    BY <1>1, <2>5, <2>11, <2>12 DEF RequestsFaithful
<1>14. QED
  BY <1>10, <1>11, <1>12, <1>13

\* The request in the hand of the listener goes to the end of the queue, or is lost
\* because the queue is full.
LEMMA ListenerPushMailInv ==
  ASSUME MailInv, ListenerPush
  PROVE  MailInv'
<1> USE DEF MailInv
<1> DEFINE e == newevent.body
           p == taken \o Bodies(queue)
           T == Messages \ lost
<1>1. /\ UNCHANGED <<request, sharedVars, spc, sent, taken, mpc, ReadSoFar>>
      /\ lpc = "pushing" /\ lpc' = "logging"
      /\ \/ queue' = Append(queue, newevent) /\ lost' = lost
         \/ lost' = lost \cup {e} /\ queue' = queue
  BY DEF ListenerPush, senderVars, sharedVars, mainVars, ReadSoFar
<1>2. /\ newevent \in Events /\ e \in Messages /\ e \notin lost
      /\ ReadSoFar # <<>> /\ e = Last(ReadSoFar)
      /\ newevent.delete <=> request[e].delete
      /\ lost \subseteq ToSet(ReadSoFar)
  BY <1>1 DEF SharedMemory, Events
<1>3. /\ ReadSoFar \in Seq(Messages) /\ IsInjective(ReadSoFar)
      /\ queue \in Seq(Events) /\ taken \in Seq(Messages)
      /\ Bodies(queue) \in Seq(Messages)
      /\ p \in Seq(Messages)
  BY MailTypes
<1>4. e \in ToSet(ReadSoFar)
  <2>1. Len(ReadSoFar) \in Nat /\ Len(ReadSoFar) # 0
    BY <1>2, <1>3, EmptySeq, LenProperties
  <2>2. Len(ReadSoFar) \in 1 .. Len(ReadSoFar)
    BY <2>1
  <2>3. e = ReadSoFar[Len(ReadSoFar)]
    BY <1>2 DEF Last
  <2>4. ToSet(ReadSoFar) = {ReadSoFar[k] : k \in 1 .. Len(ReadSoFar)}
    BY <1>3, ToSetIsRange
  <2>5. QED
    BY <2>2, <2>3, <2>4
<1>5. /\ Append(queue, newevent) \in Seq(Events)
      /\ ToSet(Append(queue, newevent)) = ToSet(queue) \cup {newevent}
      /\ Bodies(Append(queue, newevent)) = Append(Bodies(queue), e)
  BY <1>2, <1>3, AppendToSet, BodiesOfQueue
<1>6. queue' \in Seq(Events) /\ ToSet(queue') \subseteq ToSet(queue) \cup {newevent}
  BY <1>1, <1>3, <1>5
<1>7. lost' \subseteq Messages /\ lost' \subseteq ToSet(ReadSoFar)
  <2>1. lost \subseteq Messages
    BY DEF MailTypeOK
  <2>2. QED
    BY <1>1, <1>2, <1>4, <2>1
<1>8. MailTypeOK'
  BY <1>1, <1>6, <1>7 DEF MailTypeOK, sharedVars
<1>9. MutexHeld'
  BY <1>1 DEF MutexHeld, sharedVars, ActionOf
<1>10. SharedMemory'
  BY <1>1, <1>7 DEF SharedMemory, sharedVars, ActionOf
<1>11. RequestsFaithful'
  <2> SUFFICES ASSUME mpc \notin {"clearing", "ended"}
               PROVE  RequestsFaithful'
    BY <1>1 DEF RequestsFaithful
  <2>1. Held = <<newevent>> /\ Held' = <<>>
    BY <1>1 DEF Held
  <2>2. Bodies(Held) = <<e>> /\ Bodies(Held') = <<>> /\ ToSet(Held) = {newevent} /\ ToSet(Held') = {}
    BY <1>2, <2>1, BodiesOfHand
  <2>3. Bodies(Held)' = Bodies(Held') /\ Bodies(queue)' = Bodies(queue')
    BY DEF Bodies
  <2>4. p \o <<e>> = Append(p, e) /\ p \o <<>> = p /\ Append(p, e) \in Seq(Messages)
    <3>1. \A q \in Seq(Messages), d \in Messages :
            /\ Append(q, d) = q \o <<d>> /\ Append(q, d) \in Seq(Messages)
            /\ q \o <<>> = q
      BY ConcatEmptySeq
    <3>2. QED
      BY <1>2, <1>3, <3>1
  <2>5. /\ IsSelection(p \o Bodies(Held), ReadSoFar, T)
        /\ \A c \in ToSet(queue) \cup ToSet(Held) : c.delete <=> request[c.body].delete
    BY DEF RequestsFaithful
  <2>6. IsSelection(Append(p, e), ReadSoFar, T)
    BY <2>2, <2>4, <2>5
  <2>7. e \in T
    BY <1>2
  <2>8. IsSelection(taken \o Bodies(queue) \o Bodies(Held), ReadSoFar, Messages \ lost)'
    <3>1. CASE queue' = Append(queue, newevent) /\ lost' = lost
      <4>1. taken' \o Bodies(queue') = Append(p, e)
        <5>1. taken \o Append(Bodies(queue), e) = Append(taken \o Bodies(queue), e)
          <6>1. taken \in Seq(Messages)
            BY <1>3
          <6>2. Bodies(queue) \in Seq(Messages)
            BY <1>3
          <6>3. e \in Messages
            BY <1>2
          <6> HIDE DEF e
          <6>4. QED
            BY <6>1, <6>2, <6>3, PushExtendsOrder
        <5>2. Bodies(queue') = Append(Bodies(queue), e)
          BY <1>5, <3>1
        <5>3. QED
          BY <1>1, <5>1, <5>2
      <4>2. Append(p, e) \o <<>> = Append(p, e)
        BY <2>4, ConcatEmptySeq
      <4>3. QED
        BY <1>1, <2>2, <2>3, <2>6, <3>1, <4>1, <4>2
    <3>2. CASE lost' = lost \cup {e} /\ queue' = queue
      <4>1. IsSelection(p, ReadSoFar, T \ {e})
        <5> HIDE DEF p, T, e
        <5>1. QED
          BY <1>2, <1>3, <2>6, <2>7, SelectionWithoutLast
      <4>2. T \ {e} = Messages \ lost'
        BY <3>2
      <4>3. taken' \o Bodies(queue') \o <<>> = p
        BY <1>1, <2>4, <3>2
      <4>4. QED
        BY <1>1, <2>2, <2>3, <4>1, <4>2, <4>3
    <3>3. QED
      BY <1>1, <3>1, <3>2
  <2>9. \A c \in ToSet(queue') \cup ToSet(Held') : c.delete <=> request[c.body].delete
    BY <1>6, <2>2, <2>5
  <2>10. QED
    BY <1>1, <2>8, <2>9 DEF RequestsFaithful
<1>12. QED
  BY <1>8, <1>9, <1>10, <1>11

\* The main loop pops a request: it changes sides, the order stays.
LEMMA PopRequestMailInv ==
  ASSUME MailInv, PopRequest
  PROVE  MailInv'
<1> USE DEF MailInv
<1> DEFINE c == Head(queue)
<1>1. /\ UNCHANGED <<request, sharedVars, spc, sent, listenerVars, mpc, ReadSoFar, Held>>
      /\ queue # <<>> /\ queue' = Tail(queue) /\ taken' = Append(taken, c.body)
  BY DEF PopRequest, senderVars, sharedVars, listenerVars, ReadSoFar, Held
<1>2. /\ queue \in Seq(Events) /\ taken \in Seq(Messages) /\ Bodies(queue) \in Seq(Messages)
  BY MailTypes
<1>3. /\ c \in Events
      /\ Tail(queue) \in Seq(Events)
      /\ ToSet(Tail(queue)) \subseteq ToSet(queue)
      /\ Bodies(queue) # <<>>
      /\ Head(Bodies(queue)) = c.body
      /\ Bodies(Tail(queue)) = Tail(Bodies(queue))
  BY <1>1, <1>2, BodiesOfQueue
<1>4. Append(taken, c.body) \in Seq(Messages)
  <2>1. c.body \in Messages
    BY <1>3 DEF Events
  <2>2. QED
    BY <1>2, <2>1, AppendToSet
<1>5. Append(taken, c.body) \o Tail(Bodies(queue)) = taken \o Bodies(queue)
  BY <1>2, <1>3, PopKeepsOrder
<1>6. MailTypeOK'
  BY <1>1, <1>3, <1>4 DEF MailTypeOK, sharedVars, listenerVars
<1>7. MutexHeld'
  BY <1>1 DEF MutexHeld, sharedVars, listenerVars, ActionOf
<1>8. SharedMemory'
  BY <1>1 DEF SharedMemory, sharedVars, listenerVars, ActionOf
<1>9. RequestsFaithful'
  <2>1. taken' \o Bodies(queue') = taken \o Bodies(queue)
    BY <1>1, <1>3, <1>5
  <2>2. Bodies(queue)' = Bodies(queue') /\ Bodies(Held)' = Bodies(Held)
    BY <1>1 DEF Bodies
  <2>3. ToSet(queue') \subseteq ToSet(queue)
    BY <1>1, <1>3
  <2> HIDE DEF c
  <2>4. QED
    BY <1>1, <2>1, <2>2, <2>3 DEF RequestsFaithful, listenerVars
<1>10. QED
  BY <1>6, <1>7, <1>8, <1>9

\* The requests that are left are deleted.
LEMMA JoinAndClearMailInv ==
  ASSUME MailInv, JoinAndClear
  PROVE  MailInv'
<1> USE DEF MailInv
<1>1. /\ UNCHANGED <<request, sharedVars, spc, sent, listenerVars, taken, ReadSoFar>>
      /\ queue' = <<>> /\ mpc' = "clearing"
  BY DEF JoinAndClear, senderVars, sharedVars, ReadSoFar
<1>2. MailTypeOK'
  <2>1. <<>> \in Seq(Events)
    BY EmptySeq
  <2>2. QED
    BY <1>1, <2>1 DEF MailTypeOK, sharedVars, listenerVars
<1>3. MutexHeld'
  BY <1>1 DEF MutexHeld, sharedVars, listenerVars, ActionOf
<1>4. SharedMemory'
  BY <1>1 DEF SharedMemory, sharedVars, listenerVars, ActionOf
<1>5. RequestsFaithful'
  BY <1>1 DEF RequestsFaithful
<1>6. QED
  BY <1>2, <1>3, <1>4, <1>5

\* Every step preserves the invariant.
LEMMA NextMailInv ==
  ASSUME MailInv, [Next]_vars
  PROVE  MailInv'
<1>1. CASE Sender
  BY <1>1, SenderWriteActionMailInv, SenderWriteBodyMailInv, SenderLeavesMailInv DEF Sender
<1>2. CASE Listener
  BY <1>2, ListenerControlMailInv, ListenerLockMailInv, ListenerReadMailInv, ListenerPushMailInv
  DEF Listener
<1>3. CASE World
  BY <1>3, MailUndisturbed DEF World, CommandEnds, Tick, Quit, senderVars, mainVars
<1>4. CASE Main
  <2> USE DEF senderVars, mainVars
  <2>1. CASE PopRequest
    BY <2>1, PopRequestMailInv
  <2>2. CASE JoinAndClear
    BY <2>2, JoinAndClearMailInv
  <2>3. CASE MainWait
    BY <2>3, MailUndisturbed DEF MainWait
  <2>4. CASE QueueEmpty \/ ReapCommand \/ ReapEnds
    BY <2>4, MailUndisturbed DEF QueueEmpty, ReapCommand, ReapEnds
  <2>5. CASE CheckTimer \/ TimingEnds \/ BeginShutdown
    BY <2>5, MailUndisturbed DEF CheckTimer, TimingEnds, BeginShutdown
  <2>6. CASE ClearCommand
    <3>1. mpc = "clearing" /\ mpc' \in {"clearing", "ended"}
      BY <2>6 DEF ClearCommand
    <3>2. QED
      BY <2>6, <3>1, MailUndisturbed DEF ClearCommand
  <2>7. QED
    BY <1>4, <2>1, <2>2, <2>3, <2>4, <2>5, <2>6 DEF Main
<1>5. CASE UNCHANGED vars
  BY <1>5, MailUndisturbed DEF vars, senderVars, mainVars
<1>6. QED
  BY <1>1, <1>2, <1>3, <1>4, <1>5 DEF Next, Terminated

\* What the mailbox, the hand of the listener and the queue hold, in every state.
LEMMA MailInvHolds == Spec => []MailInv
BY InitMailInv, NextMailInv, PTL DEF Spec

\* Every request the listener has read reaches the main loop once, whole and in the
\* order the senders set the event, unless the queue was full.
THEOREM RequestsFaithfulHolds == Spec => []RequestsFaithful
<1>1. MailInv => RequestsFaithful
  BY DEF MailInv
<1>2. QED
  BY <1>1, MailInvHolds, PTL

-----------------------------------------------------------------------------
(* The timers. *)

\* What the table says of an id: the one timer of the list with that id.
LEMMA TimerInList ==
  ASSUME NEW l \in Seq(TimerRecords), DistinctIds(l), NEW i
  PROVE  /\ \A k \in 1 .. Len(l) : l[k].id = i =>
              TimerIn(l, i) = [start |-> l[k].start, dur |-> l[k].dur]
         /\ (\A k \in 1 .. Len(l) : l[k].id # i) => TimerIn(l, i) = None
<1> DEFINE at == {k \in DOMAIN l : l[k].id = i}
<1>1. DOMAIN l = 1 .. Len(l) /\ Len(l) \in Nat
  BY LenProperties
<1>2. ASSUME NEW k \in 1 .. Len(l), l[k].id = i
      PROVE  TimerIn(l, i) = [start |-> l[k].start, dur |-> l[k].dur]
  <2>1. at = {k}
    BY <1>1, <1>2 DEF DistinctIds
  <2>2. Min({k}) = k
    BY <1>1 DEF Min
  <2>3. QED
    BY <2>1, <2>2 DEF TimerIn
<1>3. ASSUME \A k \in 1 .. Len(l) : l[k].id # i
      PROVE  TimerIn(l, i) = None
  <2>1. at = {}
    BY <1>1, <1>3
  <2>2. QED
    BY <2>1 DEF TimerIn
<1>4. QED
  BY <1>2, <1>3

\* No timer, no entry in the table.
LEMMA EmptyList == \A i : TimerIn(<<>>, i) = None
<1>1. ASSUME NEW i PROVE TimerIn(<<>>, i) = None
  <2>1. {k \in DOMAIN <<>> : <<>>[k].id = i} = {}
    OBVIOUS
  <2>2. QED
    BY <2>1 DEF TimerIn
<1>2. QED
  BY <1>1

\* Two lists with the same timer for an id say the same of it.
LEMMA SameTimer ==
  ASSUME NEW l \in Seq(TimerRecords), NEW r \in Seq(TimerRecords), DistinctIds(l),
         DistinctIds(r), NEW i,
         \A k \in 1 .. Len(l) : l[k].id = i =>
           \E j \in 1 .. Len(r) : /\ r[j].id = i
                                /\ r[j].start = l[k].start /\ r[j].dur = l[k].dur,
         \A j \in 1 .. Len(r) : r[j].id = i => \E k \in 1 .. Len(l) : l[k].id = i
  PROVE  TimerIn(r, i) = TimerIn(l, i)
<1>1. CASE \E k \in 1 .. Len(l) : l[k].id = i
  <2>1. PICK k \in 1 .. Len(l) : l[k].id = i
    BY <1>1
  <2>2. PICK j \in 1 .. Len(r) : /\ r[j].id = i
                              /\ r[j].start = l[k].start /\ r[j].dur = l[k].dur
    BY <2>1
  <2>3. TimerIn(l, i) = [start |-> l[k].start, dur |-> l[k].dur]
    BY <2>1, TimerInList
  <2>4. TimerIn(r, i) = [start |-> r[j].start, dur |-> r[j].dur]
    BY <2>2, TimerInList
  <2>5. QED
    BY <2>2, <2>3, <2>4
<1>2. CASE ~ \E k \in 1 .. Len(l) : l[k].id = i
  <2>1. \A j \in 1 .. Len(r) : r[j].id # i
    BY <1>2
  <2>2. TimerIn(l, i) = None
    BY <1>2, TimerInList
  <2>3. TimerIn(r, i) = None
    BY <2>1, TimerInList
  <2>4. QED
    BY <2>2, <2>3
<1>3. QED
  BY <1>1, <1>2

\* A timer is erased: its id has none, the others keep theirs.
LEMMA RemoveTimer ==
  ASSUME NEW l \in Seq(TimerRecords), DistinctIds(l), NEW p \in 1 .. Len(l)
  PROVE  /\ RemoveAt(l, p) \in Seq(TimerRecords)
         /\ DistinctIds(RemoveAt(l, p))
         /\ \A j \in 1 .. Len(RemoveAt(l, p)) : \E k \in 1 .. Len(l) : RemoveAt(l, p)[j] = l[k]
         /\ TimerIn(RemoveAt(l, p), l[p].id) = None
         /\ \A i : i # l[p].id => TimerIn(RemoveAt(l, p), i) = TimerIn(l, i)
<1> DEFINE r == RemoveAt(l, p)
           old(j) == IF j < p THEN j ELSE j + 1
<1>1. Len(l) \in Nat /\ DOMAIN l = 1 .. Len(l)
  BY LenProperties
<1>2. /\ r \in Seq(TimerRecords)
      /\ Len(r) = Len(l) - 1
      /\ \A j \in 1 .. Len(l) - 1 : r[j] = IF j < p THEN l[j] ELSE l[j + 1]
  BY RemoveAtProperties
<1> HIDE DEF r
<1>3. DOMAIN r = 1 .. Len(r)
  BY <1>2, LenProperties
<1>4. \A j \in 1 .. Len(r) : old(j) \in 1 .. Len(l) /\ old(j) # p /\ r[j] = l[old(j)]
  BY <1>1, <1>2
<1>5. \A j, k \in 1 .. Len(r) : old(j) = old(k) => j = k
  BY <1>1, <1>2
<1>6. ASSUME NEW k \in 1 .. Len(l), k # p
      PROVE  \E j \in 1 .. Len(r) : r[j] = l[k]
  <2>1. CASE k < p
    BY <1>1, <1>2, <2>1
  <2>2. CASE k > p
    <3>1. k - 1 \in 1 .. Len(r) /\ ~(k - 1 < p) /\ (k - 1) + 1 = k
      BY <1>1, <1>2, <2>2
    <3>2. r[k - 1] = l[k]
      BY <1>2, <3>1
    <3>3. QED
      BY <3>1, <3>2
  <2>3. QED
    BY <1>1, <1>6, <2>1, <2>2
<1> HIDE DEF old
<1>7. DistinctIds(r)
  BY <1>1, <1>3, <1>4, <1>5 DEF DistinctIds
<1>8. \A k \in 1 .. Len(l) : l[k].id = l[p].id => k = p
  BY <1>1 DEF DistinctIds
<1>9. TimerIn(r, l[p].id) = None
  <2>1. \A j \in 1 .. Len(r) : r[j].id # l[p].id
    BY <1>4, <1>8
  <2>2. QED
    BY <1>2, <1>7, <2>1, TimerInList
<1>10. ASSUME NEW i, i # l[p].id
       PROVE  TimerIn(r, i) = TimerIn(l, i)
  <2>1. ASSUME NEW k \in 1 .. Len(l), l[k].id = i
        PROVE  \E j \in 1 .. Len(r) : /\ r[j].id = i
                                    /\ r[j].start = l[k].start /\ r[j].dur = l[k].dur
    BY <1>6, <1>10, <2>1
  <2>2. \A j \in 1 .. Len(r) : r[j].id = i => \E k \in 1 .. Len(l) : l[k].id = i
    BY <1>4
  <2>3. QED
    BY <1>2, <1>7, <2>1, <2>2, SameTimer
<1>11. QED
  BY <1>2, <1>4, <1>7, <1>9, <1>10 DEF r

\* A timer is made for an id that has none.
LEMMA AppendTimer ==
  ASSUME NEW l \in Seq(TimerRecords), DistinctIds(l), NEW t \in TimerRecords,
         \A k \in 1 .. Len(l) : l[k].id # t.id
  PROVE  /\ Append(l, t) \in Seq(TimerRecords)
         /\ DistinctIds(Append(l, t))
         /\ \A j \in 1 .. Len(Append(l, t)) :
              Append(l, t)[j] = t \/ \E k \in 1 .. Len(l) : Append(l, t)[j] = l[k]
         /\ TimerIn(Append(l, t), t.id) = [start |-> t.start, dur |-> t.dur]
         /\ \A i : i # t.id => TimerIn(Append(l, t), i) = TimerIn(l, i)
<1> DEFINE r == Append(l, t)
<1>1. Len(l) \in Nat /\ DOMAIN l = 1 .. Len(l)
  BY LenProperties
<1>2. /\ r \in Seq(TimerRecords)
      /\ Len(r) = Len(l) + 1
      /\ \A j \in 1 .. Len(l) : r[j] = l[j]
      /\ r[Len(l) + 1] = t
  BY AppendProperties
<1> HIDE DEF r
<1>3. DOMAIN r = 1 .. Len(r)
  BY <1>2, LenProperties
<1>4. /\ \A j \in 1 .. Len(r) : j \in 1 .. Len(l) \/ j = Len(l) + 1
      /\ \A j \in 1 .. Len(l) : j \in 1 .. Len(r)
      /\ Len(l) + 1 \in 1 .. Len(r)
  BY <1>1, <1>2
<1>5. DistinctIds(r)
  BY <1>1, <1>2, <1>3, <1>4 DEF DistinctIds
<1>6. TimerIn(r, t.id) = [start |-> t.start, dur |-> t.dur]
  BY <1>2, <1>4, <1>5, TimerInList
<1>7. ASSUME NEW i, i # t.id
      PROVE  TimerIn(r, i) = TimerIn(l, i)
  <2>1. \A k \in 1 .. Len(l) : l[k].id = i =>
          \E j \in 1 .. Len(r) : /\ r[j].id = i
                               /\ r[j].start = l[k].start /\ r[j].dur = l[k].dur
    BY <1>2, <1>4
  <2>2. \A j \in 1 .. Len(r) : r[j].id = i => \E k \in 1 .. Len(l) : l[k].id = i
    BY <1>2, <1>4, <1>7
  <2>3. QED
    BY <1>2, <1>5, <2>1, <2>2, SameTimer
<1>8. QED
  BY <1>2, <1>4, <1>5, <1>6, <1>7 DEF r

\* The timer of an id gets a new start and duration.
LEMMA RenewTimer ==
  ASSUME NEW l \in Seq(TimerRecords), DistinctIds(l), NEW p \in 1 .. Len(l),
         NEW t \in TimerRecords, t.id = l[p].id,
         NEW r \in [1 .. Len(l) -> TimerRecords],
         r[p] = t, \A j \in 1 .. Len(l) : j # p => r[j] = l[j]
  PROVE  /\ r \in Seq(TimerRecords)
         /\ DistinctIds(r)
         /\ \A j \in 1 .. Len(r) : r[j] = t \/ \E k \in 1 .. Len(l) : r[j] = l[k]
         /\ TimerIn(r, t.id) = [start |-> t.start, dur |-> t.dur]
         /\ \A i : i # t.id => TimerIn(r, i) = TimerIn(l, i)
<1>1. Len(l) \in Nat /\ DOMAIN l = 1 .. Len(l) /\ l \in [1 .. Len(l) -> TimerRecords]
  BY LenProperties
<1>2. /\ r \in [1 .. Len(l) -> TimerRecords]
      /\ r[p] = t
      /\ \A j \in 1 .. Len(l) : j # p => r[j] = l[j]
  OBVIOUS
<1>3. r \in Seq(TimerRecords) /\ Len(r) = Len(l) /\ DOMAIN r = 1 .. Len(l)
  <2>1. \A n \in Nat : \A f \in [1 .. n -> TimerRecords] : f \in Seq(TimerRecords)
    BY SeqDef
  <2>2. r \in Seq(TimerRecords)
    BY <1>1, <1>2, <2>1
  <2>3. QED
    BY <1>1, <1>2, <2>2, LenProperties
<1>4. \A j \in 1 .. Len(l) : r[j].id = l[j].id
  BY <1>2
<1>5. DistinctIds(r)
  BY <1>1, <1>3, <1>4 DEF DistinctIds
<1>6. TimerIn(r, t.id) = [start |-> t.start, dur |-> t.dur]
  BY <1>2, <1>3, <1>5, TimerInList
<1>7. ASSUME NEW i, i # t.id
      PROVE  TimerIn(r, i) = TimerIn(l, i)
  <2>1. \A k \in 1 .. Len(l) : l[k].id = i =>
          \E j \in 1 .. Len(r) : /\ r[j].id = i
                               /\ r[j].start = l[k].start /\ r[j].dur = l[k].dur
    BY <1>2, <1>3, <1>7
  <2>2. \A j \in 1 .. Len(r) : r[j].id = i => \E k \in 1 .. Len(l) : l[k].id = i
    BY <1>3, <1>4
  <2>3. QED
    BY <1>3, <1>5, <2>1, <2>2, SameTimer
<1>8. \A j \in 1 .. Len(r) : r[j] = t \/ \E k \in 1 .. Len(l) : r[j] = l[k]
  BY <1>2, <1>3
<1>9. QED
  BY <1>3, <1>5, <1>6, <1>7, <1>8

\* The state of TimerTable that a state of the correlator stands for.
TableOf == [i \in Ids |-> TimerOf(i)]
TableVars == <<TableOf, Len(taken), now>>

\* Steps that leave the timers, the requests handled and the clock alone; a sender
\* stamps its message with the present time.
LEMMA TimersUndisturbed ==
  ASSUME TimersInv, UNCHANGED <<Timers, taken, now>>,
         stamp' = stamp \/ \E m \in Messages : stamp' = [stamp EXCEPT ![m] = now]
  PROVE  TimersInv' /\ UNCHANGED TableVars
<1>1. stamp' \in [Messages -> Nat] /\ \A m \in Messages : stamp'[m] <= now
  BY DEF TimersInv
<1>2. TimersInv'
  BY <1>1 DEF TimersInv
<1>3. UNCHANGED TableVars
  BY DEF TableVars, TableOf, TimerOf
<1>4. QED
  BY <1>2, <1>3

\* The clock: what was not in the future still is not.
LEMMA TickTimersInv ==
  ASSUME TimersInv, Tick
  PROVE  TimersInv' /\ Table!Tick
<1>1. now \in Nat /\ now' = now + 1 /\ UNCHANGED <<Timers, stamp, taken>>
  BY DEF TimersInv, Tick, senderVars, mainVars
<1>2. ASSUME NEW k \in DOMAIN Timers
      PROVE  Timers[k].start <= now'
  <2>1. Timers[k].start \in Nat /\ Timers[k].start <= now
    <3>1. Timers \in Seq(TimerRecords) /\ Timers[k].start <= now
      BY DEF TimersInv
    <3>2. k \in 1 .. Len(Timers)
      BY <3>1, LenProperties
    <3>3. Timers[k] \in TimerRecords
      BY <3>1, <3>2, ElementOfSeq
    <3>4. QED
      BY <3>1, <3>3 DEF TimerRecords
  <2>2. QED
    BY <1>1, <2>1
<1>3. ASSUME NEW m \in Messages
      PROVE  stamp[m] <= now'
  <2>1. stamp[m] \in Nat /\ stamp[m] <= now
    BY DEF TimersInv
  <2>2. QED
    BY <1>1, <2>1
<1>4. TimersInv'
  BY <1>1, <1>2, <1>3 DEF TimersInv
<1>5. Table!Tick
  BY <1>1 DEF Table!Tick, TimerOf
<1>6. QED
  BY <1>4, <1>5

\* Where a request finds its timer.
LEMMA IteratorProperties ==
  ASSUME TimersInv, NEW i
  PROVE  LET k == GetIteratorFromList(i)
         IN  \/ k \in 1 .. Len(Timers) /\ Timers[k].id = i
             \/ k = Len(Timers) + 1 /\ \A j \in 1 .. Len(Timers) : Timers[j].id # i
<1>1. DOMAIN Timers = 1 .. Len(Timers)
  BY LenProperties DEF TimersInv
<1>2. QED
  BY <1>1 DEF GetIteratorFromList

\* A request creates, renews or cancels the timer of its id, and no other.
LEMMA PopRequestTimersInv ==
  ASSUME TimersInv, MailInv, PopRequest
  PROVE  TimersInv' /\ \E i \in Ids : Table!Request(i)
<1> DEFINE c == Head(queue)
           m == c.body
           i == request[m].id
           d == request[m].duration
           s == stamp[m]
           k == GetIteratorFromList(i)
<1>1. /\ queue # <<>> /\ taken' = Append(taken, m)
      /\ UNCHANGED <<stamp, now>>
      /\ \/ c.delete /\ Timers' = RemoveFromList(i)
         \/ ~c.delete /\ CreateOrRenew(m)
  BY DEF PopRequest, senderVars, world
<1>2. /\ taken \in Seq(Messages) /\ m \in Messages
      /\ Len(taken') = Len(taken) + 1
  <2>1. queue \in Seq(Events) /\ taken \in Seq(Messages)
    BY MailTypes
  <2>2. c \in Events
    BY <1>1, <2>1, BodiesOfQueue
  <2>3. m \in Messages
    BY <2>2 DEF Events
  <2>4. Len(Append(taken, m)) = Len(taken) + 1
    BY <2>1, <2>3, AppendProperties
  <2>5. QED
    BY <1>1, <2>1, <2>3, <2>4
<1>3. i \in Ids /\ d \in Durations
  <2>1. request \in Requests
    BY DEF MailInv, MailTypeOK
  <2>2. request[m] \in [id : Ids, delete : BOOLEAN, action : BOOLEAN, duration : Nat]
    BY <1>2, <2>1, CorrelatorAssumption
  <2>3. QED
    BY <1>2, <2>1, <2>2 DEF Durations
<1>4. s \in Nat /\ now \in Nat /\ s <= now /\ s \in 0 .. now
  BY <1>2 DEF TimersInv
<1>5. /\ Timers \in Seq(TimerRecords) /\ DistinctIds(Timers)
      /\ Len(Timers) \in Nat
      /\ DOMAIN Timers = 1 .. Len(Timers)
      /\ \A j \in 1 .. Len(Timers) : Timers[j].start <= now
  BY LenProperties DEF TimersInv
<1>6. \/ k \in 1 .. Len(Timers) /\ Timers[k].id = i
      \/ k = Len(Timers) + 1 /\ \A j \in 1 .. Len(Timers) : Timers[j].id # i
  BY IteratorProperties
<1>7. k > Len(Timers) <=> ~(k \in 1 .. Len(Timers))
  BY <1>5, <1>6
\* What each of the three outcomes does to the list and to the table.
<1> DEFINE Kept(list) == /\ list \in Seq(TimerRecords)
                         /\ DistinctIds(list)
                         /\ \A j \in 1 .. Len(list) : list[j].start <= now
           Says(list, v) == /\ TimerIn(list, i) = v
                            /\ \A n : n # i => TimerIn(list, n) = TimerIn(Timers, n)
           New == [start |-> s, dur |-> d]
<1>8. Kept(Timers') /\ (Says(Timers', None) \/ Says(Timers', New))
  <2>1. CASE c.delete /\ k \in 1 .. Len(Timers)
    <3>1. Timers' = RemoveAt(Timers, k)
      BY <1>1, <1>7, <2>1 DEF RemoveFromList
    <3>2. /\ Timers' \in Seq(TimerRecords)
          /\ DistinctIds(Timers')
          /\ \A j \in 1 .. Len(Timers') : \E n \in 1 .. Len(Timers) : Timers'[j] = Timers[n]
          /\ TimerIn(Timers', Timers[k].id) = None
          /\ \A n : n # Timers[k].id => TimerIn(Timers', n) = TimerIn(Timers, n)
      BY <1>5, <2>1, <3>1, RemoveTimer
    <3>3. Timers[k].id = i
      BY <1>5, <1>6, <2>1
    <3>4. QED
      BY <1>5, <3>2, <3>3
  <2>2. CASE c.delete /\ k \notin 1 .. Len(Timers)
    <3>1. Timers' = Timers
      BY <1>1, <1>7, <2>2 DEF RemoveFromList
    <3>2. \A j \in 1 .. Len(Timers) : Timers[j].id # i
      BY <1>6, <2>2
    <3>3. TimerIn(Timers, i) = None
      BY <1>5, <3>2, TimerInList
    <3>4. QED
      BY <1>5, <3>1, <3>3
  <2>3. CASE ~c.delete /\ k \in 1 .. Len(Timers)
    <3> DEFINE t == [Timers[k] EXCEPT !.start = s, !.dur = d]
    <3>1. Timers' = [Timers EXCEPT ![k] = t]
      BY <1>1, <1>7, <2>3 DEF CreateOrRenew
    <3>2. Timers[k] \in TimerRecords /\ Timers[k].id = i
      BY <1>5, <1>6, <2>3, ElementOfSeq
    <3>3. t \in TimerRecords /\ t.id = Timers[k].id /\ t.start = s /\ t.dur = d
      BY <1>3, <1>4, <3>2 DEF TimerRecords
    <3> HIDE DEF t
    <3>4. /\ Timers' \in Seq(TimerRecords)
          /\ DistinctIds(Timers')
          /\ \A j \in 1 .. Len(Timers') :
               Timers'[j] = t \/ \E n \in 1 .. Len(Timers) : Timers'[j] = Timers[n]
          /\ TimerIn(Timers', t.id) = [start |-> t.start, dur |-> t.dur]
          /\ \A n : n # t.id => TimerIn(Timers', n) = TimerIn(Timers, n)
      <4> HIDE DEF k
      <4> DEFINE r == [Timers EXCEPT ![k] = t]
      <4>1. k \in 1 .. Len(Timers) /\ Timers \in [1 .. Len(Timers) -> TimerRecords]
        BY <1>5, <2>3, LenProperties
      <4>2. /\ r \in [1 .. Len(Timers) -> TimerRecords]
            /\ r[k] = t
            /\ \A j \in 1 .. Len(Timers) : j # k => r[j] = Timers[j]
        BY <3>3, <4>1
      <4>3. Timers' = r
        BY <3>1
      <4> HIDE DEF r
      <4>4. /\ r \in Seq(TimerRecords)
            /\ DistinctIds(r)
            /\ \A j \in 1 .. Len(r) : r[j] = t \/ \E n \in 1 .. Len(Timers) : r[j] = Timers[n]
            /\ TimerIn(r, t.id) = [start |-> t.start, dur |-> t.dur]
            /\ \A n : n # t.id => TimerIn(r, n) = TimerIn(Timers, n)
        BY <1>5, <3>3, <4>1, <4>2, RenewTimer
      <4>5. QED
        BY <4>3, <4>4
    <3>5. QED
      BY <1>4, <1>5, <3>2, <3>3, <3>4
  <2>4. CASE ~c.delete /\ k \notin 1 .. Len(Timers)
    <3> DEFINE t == [id |-> i, origin |-> m, start |-> s, dur |-> d]
    <3>1. Timers' = Append(Timers, t)
      BY <1>1, <1>7, <2>4 DEF CreateOrRenew
    <3>2. t \in TimerRecords /\ t.id = i /\ t.start = s /\ t.dur = d
      BY <1>2, <1>3, <1>4 DEF TimerRecords
    <3>3. \A j \in 1 .. Len(Timers) : Timers[j].id # t.id
      BY <1>6, <2>4
    <3> HIDE DEF t
    <3>4. /\ Timers' \in Seq(TimerRecords)
          /\ DistinctIds(Timers')
          /\ \A j \in 1 .. Len(Timers') :
               Timers'[j] = t \/ \E n \in 1 .. Len(Timers) : Timers'[j] = Timers[n]
          /\ TimerIn(Timers', t.id) = [start |-> t.start, dur |-> t.dur]
          /\ \A n : n # t.id => TimerIn(Timers', n) = TimerIn(Timers, n)
      BY <1>5, <3>1, <3>2, <3>3, AppendTimer
    <3>5. QED
      BY <1>4, <1>5, <3>2, <3>4
  <2>5. QED
    BY <1>1, <2>1, <2>2, <2>3, <2>4
<1>9. TimersInv'
  <2>1. Timers' \in Seq(TimerRecords) /\ DOMAIN Timers' = 1 .. Len(Timers')
    BY <1>8, LenProperties
  <2>2. QED
    BY <1>1, <1>8, <2>1 DEF TimersInv
<1>10. Table!Request(i)
  <2> HIDE DEF i, m, d, s
  <2>1. ASSUME NEW v, Says(Timers', v)
        PROVE  [n \in Ids |-> TimerOf(n)]' = [[n \in Ids |-> TimerOf(n)] EXCEPT ![i] = v]
    <3>1. [n \in Ids |-> TimerIn(Timers', n)]
            = [[n \in Ids |-> TimerIn(Timers, n)] EXCEPT ![i] = v]
      BY <1>3, <2>1
    <3>2. QED
      BY <3>1 DEF TimerOf
  <2>2. \/ [n \in Ids |-> TimerOf(n)]' = [[n \in Ids |-> TimerOf(n)] EXCEPT ![i] = None]
        \/ [n \in Ids |-> TimerOf(n)]' = [[n \in Ids |-> TimerOf(n)] EXCEPT ![i] = New]
    <3> HIDE DEF Says, Kept, New
    <3>1. QED
      BY <1>8, <2>1
  <2>3. Len(taken)' = Len(taken) + 1 /\ now' = now
    BY <1>1, <1>2
  <2>4. QED
    BY <1>3, <1>4, <2>2, <2>3 DEF Table!Request
<1>11. QED
  BY <1>3, <1>9, <1>10

\* A timer that expired fires, after its time has passed, and is gone.
LEMMA CheckTimerTimersInv ==
  ASSUME TimersInv, CommandsInv, CheckTimer
  PROVE  TimersInv' /\ ((\E i \in Ids : Table!Fire(i)) \/ UNCHANGED TableVars)
<1> DEFINE t == Timers[pos]
           i == t.id
<1>1. /\ Timers \in Seq(TimerRecords) /\ DistinctIds(Timers)
      /\ Len(Timers) \in Nat /\ DOMAIN Timers = 1 .. Len(Timers)
      /\ \A k \in 1 .. Len(Timers) : Timers[k].start <= now
      /\ now \in Nat
  BY LenProperties DEF TimersInv
<1>2. /\ pos <= Len(Timers)
      /\ UNCHANGED <<stamp, taken, now>>
      /\ \/ IsExpired(t) /\ Timers' = RemoveAt(Timers, pos)
         \/ Timers' = Timers
  BY DEF CheckTimer, senderVars, world
<1>3. pos \in 1 .. Len(Timers)
  BY <1>1, <1>2 DEF CommandsInv
<1>4. CASE Timers' = Timers
  BY <1>2, <1>4, TimersUndisturbed
<1>5. CASE IsExpired(t) /\ Timers' = RemoveAt(Timers, pos)
  <2>1. t \in TimerRecords
    BY <1>1, <1>3, ElementOfSeq
  <2>2. i \in Ids /\ t.start \in Nat /\ t.dur \in Nat
    <3>1. Durations \subseteq Nat
      BY CorrelatorAssumption DEF Durations
    <3>2. QED
      BY <2>1, <3>1 DEF TimerRecords
  <2>3. /\ Timers' \in Seq(TimerRecords)
        /\ DistinctIds(Timers')
        /\ \A j \in 1 .. Len(Timers') : \E k \in 1 .. Len(Timers) : Timers'[j] = Timers[k]
        /\ TimerIn(Timers', i) = None
        /\ \A n : n # i => TimerIn(Timers', n) = TimerIn(Timers, n)
    BY <1>1, <1>3, <1>5, RemoveTimer
  <2>4. TimersInv'
    <3>1. DOMAIN Timers' = 1 .. Len(Timers')
      BY <2>3, LenProperties
    <3>2. \A j \in DOMAIN Timers' : Timers'[j].start <= now
      BY <1>1, <2>3, <3>1
    <3>3. QED
      BY <1>2, <2>3, <3>2 DEF TimersInv
  <2>5. TimerOf(i) = [start |-> t.start, dur |-> t.dur]
    BY <1>1, <1>3, TimerInList DEF TimerOf
  <2>6. TimerOf(i) # None
    BY <2>2, <2>5, CorrelatorAssumption
  <2>7. now - t.start > t.dur
    BY <1>5 DEF IsExpired
  <2>8. [n \in Ids |-> TimerOf(n)]' = [[n \in Ids |-> TimerOf(n)] EXCEPT ![i] = None]
    <3>1. [n \in Ids |-> TimerIn(Timers', n)]
            = [[n \in Ids |-> TimerIn(Timers, n)] EXCEPT ![i] = None]
      <4> HIDE DEF i
      <4>1. QED
        BY <2>2, <2>3
    <3>2. QED
      BY <3>1 DEF TimerOf
  <2>9. Table!Fire(i)
    <3>1. [n \in Ids |-> TimerOf(n)][i] = [start |-> t.start, dur |-> t.dur]
      BY <2>2, <2>5
    <3>2. Len(taken)' = Len(taken) /\ now' = now
      BY <1>2
    <3> HIDE DEF i, t
    <3>3. QED
      BY <2>5, <2>6, <2>7, <2>8, <3>1, <3>2 DEF Table!Fire
  <2>10. QED
    BY <2>2, <2>4, <2>9
<1>6. QED
  BY <1>2, <1>4, <1>5

\* The end of the program deletes every timer.
LEMMA JoinAndClearTimersInv ==
  ASSUME TimersInv, JoinAndClear
  PROVE  TimersInv' /\ Table!Clear
<1>1. Timers' = <<>> /\ UNCHANGED <<stamp, taken, now>>
  BY DEF JoinAndClear, senderVars, world
<1>2. <<>> \in Seq(TimerRecords) /\ DOMAIN <<>> = {} /\ Len(<<>>) = 0
  BY EmptySeq
<1>3. DistinctIds(<<>>)
  BY <1>2 DEF DistinctIds
<1>4. TimersInv'
  BY <1>1, <1>2, <1>3 DEF TimersInv
<1>5. \A i : TimerIn(<<>>, i) = None
  BY EmptyList
<1>6. Table!Clear
  BY <1>1, <1>5 DEF Table!Clear, TimerOf
<1>7. QED
  BY <1>4, <1>6

\* Every step preserves the invariant and is one of the table, or none.
LEMMA NextTimersInv ==
  ASSUME TimersInv, MailInv, CommandsInv, [Next]_vars
  PROVE  TimersInv' /\ [Table!Next]_TableVars
<1> USE DEF mainVars, world
<1>1. CASE Sender
  <2>1. PICK m \in Messages : \/ SenderWriteAction(m) \/ SenderWriteBody(m)
                             \/ SenderRelease(m) \/ SenderDies(m)
    BY <1>1 DEF Sender
  <2>2. /\ UNCHANGED <<Timers, taken, now>>
        /\ stamp' = stamp \/ stamp' = [stamp EXCEPT ![m] = now]
    BY <2>1 DEF SenderWriteAction, SenderWriteBody, SenderRelease, SenderDies
  <2>3. QED
    BY <2>2, TimersUndisturbed
<1>2. CASE Listener
  <2>1. UNCHANGED <<Timers, taken, now, stamp>>
    BY <1>2 DEF Listener, ListenerSetup, ListenerWait, ListenerLock, ListenerRead, ListenerPush,
       ListenerLog, senderVars
  <2>2. QED
    BY <2>1, TimersUndisturbed
<1>3. CASE World
  <2>1. CASE Tick
    BY <2>1, TickTimersInv DEF Table!Next
  <2>2. CASE Quit \/ \E c \in DOMAIN exitCode, code \in ExitCodes : CommandEnds(c, code)
    <3>1. UNCHANGED <<Timers, taken, now, stamp>>
      BY <2>2 DEF Quit, CommandEnds, senderVars
    <3>2. QED
      BY <3>1, TimersUndisturbed
  <2>3. QED
    BY <1>3, <2>1, <2>2 DEF World
<1>4. CASE Main
  <2>1. CASE PopRequest
    BY <2>1, PopRequestTimersInv DEF Table!Next
  <2>2. CASE CheckTimer
    BY <2>2, CheckTimerTimersInv DEF Table!Next
  <2>3. CASE JoinAndClear
    BY <2>3, JoinAndClearTimersInv DEF Table!Next
  <2>4. CASE MainWait \/ QueueEmpty \/ ReapCommand \/ ReapEnds \/ TimingEnds \/ BeginShutdown
             \/ ClearCommand
    <3>1. UNCHANGED <<Timers, taken, now, stamp>>
      BY <2>4 DEF MainWait, QueueEmpty, ReapCommand, ReapEnds, TimingEnds, BeginShutdown,
         ClearCommand, senderVars
    <3>2. QED
      BY <3>1, TimersUndisturbed
  <2>5. QED
    BY <1>4, <2>1, <2>2, <2>3, <2>4 DEF Main
<1>5. CASE UNCHANGED vars
  <2>1. UNCHANGED <<Timers, taken, now, stamp>>
    BY <1>5 DEF vars, senderVars
  <2>2. QED
    BY <2>1, TimersUndisturbed
<1>6. QED
  BY <1>1, <1>2, <1>3, <1>4, <1>5 DEF Next, Terminated

\* The correlator starts as an empty table.
LEMMA InitTimersInv == Init => TimersInv /\ Table!Init
<1> SUFFICES ASSUME Init PROVE TimersInv /\ Table!Init
  OBVIOUS
<1>1. <<>> \in Seq(TimerRecords) /\ DOMAIN <<>> = {} /\ Len(<<>>) = 0
  BY EmptySeq
<1>2. DistinctIds(<<>>)
  BY <1>1 DEF DistinctIds
<1>3. TimersInv
  BY <1>1, <1>2 DEF Init, TimersInv
<1>4. \A i : TimerIn(<<>>, i) = None
  BY EmptyList
<1>5. Table!Init
  BY <1>1, <1>4 DEF Init, Table!Init, TimerOf
<1>6. QED
  BY <1>3, <1>5

\* The list of timers holds at most one timer for an id, and none from the future.
THEOREM TimersInvHolds == Spec => []TimersInv
<1>1. Init => CommandsInv /\ MailInv /\ TimersInv
  BY InitCommandsInv, InitMailInv, InitTimersInv
<1>2. CommandsInv /\ MailInv /\ TimersInv /\ [Next]_vars
        => (CommandsInv /\ MailInv /\ TimersInv)'
  BY NextCommandsInv, NextMailInv, NextTimersInv
<1>3. QED
  BY <1>1, <1>2, PTL DEF Spec

\* The correlator implements a table of timers by id, whatever the list, the queue and
\* the shared memory in front of it do.
THEOREM CorrelatorIsTimerTable == Spec => ImplementsTimerTable
<1>1. Spec => []CommandsInv
  BY InitCommandsInv, NextCommandsInv, PTL DEF Spec
<1>2. CommandsInv /\ MailInv /\ TimersInv /\ [Next]_vars
        => [Table!Next]_<<[i \in Ids |-> TimerOf(i)], Len(taken), now>>
  BY NextTimersInv DEF TableVars, TableOf
<1>3. Init => Table!Init
  BY InitTimersInv
<1>4. QED
  BY <1>1, <1>2, <1>3, MailInvHolds, TimersInvHolds, PTL DEF Spec, ImplementsTimerTable, Table!Spec
=============================================================================
