----------------------------- MODULE FsThresholds -----------------------------
(***************************************************************************)
(* The file systems of the monitored hosts and their thresholds            *)
(* (Thresholds.h, FSThresholds.h, GlobalConf.h).  A metric of a file       *)
(* system is compared with the thresholds of the first row that matches    *)
(* it; a change of state queues a message for the operator.  The rows are  *)
(* read again when the stamp of the program's row in Proxies advances.     *)
(* The lines of TrapHandler.cpp that feed the metrics are commented out:   *)
(* DiskMetric is the caller the header was written for.                    *)
(*                                                                         *)
(* The database belongs to an administrator: rows first, then the stamp.   *)
(* The messages go to the command queue of CmdQueue.tla and are only       *)
(* recorded here.                                                          *)
(***************************************************************************)
EXTENDS Integers, Sequences

CONSTANTS
  Volumes,        \* the pairs of host and volume
  Tables,         \* the contents table FSThresholds may have, by EvalOrder
  Sizes,          \* total sizes an agent reports, in MB
  MaxChanges,     \* bound of the stamp
  None            \* no file system object yet, no report yet

Level == 0 .. 2                       \* ThreshTypes: Normal, Warning, High
Limits == [warnUtil : Nat, highUtil : Nat, warnMegs : Nat, highMegs : Nat]

\* A row; its expressions are the set of the volumes they match, the limits of the
\* use are in percent.
RowType == [matches : SUBSET Volumes, minFSSize : Nat, maxFSSize : Nat, limits : Limits]
CFSType == [totSize : Nat, limits : Limits, hasSevStr : BOOLEAN, UtilThreshState : Level,
            FreeMegsThreshState : Level, bThreshChanged : BOOLEAN]
ReportType == [type : {"Utilization", "Freespace"}, old : Level, new : Level,
               sev : {"Normal", "text", "NULL"}]

\* The sizes divide 100, so that the percentages are whole numbers.
ASSUME FsThresholdsAssumption ==
  /\ Tables \subseteq Seq(RowType)
  /\ Sizes \subseteq Nat /\ \A s \in Sizes \ {0} : 100 % s = 0
  /\ MaxChanges \in Nat
  /\ None \notin CFSType /\ None \notin ReportType

VARIABLES
  phase,                 \* "starting", "running", "ended"
  rows,                  \* table FSThresholds
  ThreshChangeTime,      \* the stamp in table Proxies
  editing,               \* rows were changed, their stamp was not advanced yet
  lastConfigUpdateTime,
  Thresholds,            \* vector<CThreshold*>
  FileSystems,           \* the CFS of every volume: [totSize, limits, hasSevStr,
                         \* UtilThreshState, FreeMegsThreshState, bThreshChanged]
  complete,              \* history: the last UpdateThresholds read every row
  lastReport,            \* history: last message queued for each volume
  silent                 \* history: metrics in a row, the last one included, that were
                         \* over a threshold and left both states normal

vars == <<phase, rows, ThreshChangeTime, editing, lastConfigUpdateTime, Thresholds,
          FileSystems, complete, lastReport, silent>>

-----------------------------------------------------------------------------
(***************************************************************************)
(* One metric.  An operator named Operation_Variant is a deliberately      *)
(* wrong form of the Operation defined after it; no action uses it.        *)
(***************************************************************************)

NoLimits == [warnUtil |-> 0, highUtil |-> 0, warnMegs |-> 0, highMegs |-> 0]

\* A bound of 0 is no bound.
MatchesFS(row, v, size) ==
  /\ v \in row.matches
  /\ row.minFSSize = 0 \/ size >= row.minFSSize
  /\ row.maxFSSize = 0 \/ size <= row.maxFSSize

\* The first row that matches, or none.
GetThresholdForFS(v, size) ==
  LET first == {i \in DOMAIN Thresholds : /\ MatchesFS(Thresholds[i], v, size)
                                          /\ \A j \in 1 .. i - 1 : ~MatchesFS(Thresholds[j], v, size)}
  IN IF first = {} THEN 0 ELSE CHOOSE i \in first : TRUE

\* Without a row the severity strings go and the limits stay.
GetThresholds_LimitsKept(v, fs) ==
  LET i == GetThresholdForFS(v, fs.totSize) IN
  IF i = 0 THEN [fs EXCEPT !.hasSevStr = FALSE]
  ELSE [fs EXCEPT !.hasSevStr = TRUE, !.limits = Thresholds[i].limits]
\* The row is looked up with the size of the metric before.
GetThresholds(v, fs) ==
  LET i == GetThresholdForFS(v, fs.totSize) IN
  IF i = 0 THEN [fs EXCEPT !.hasSevStr = FALSE, !.limits = NoLimits]
  ELSE [fs EXCEPT !.hasSevStr = TRUE, !.limits = Thresholds[i].limits]

\* What the caller passes: -1 for an empty file system.
UtilPercent(size, free) == IF size = 0 THEN -1 ELSE 100 - ((100 * free) \div size)

UtilLevel(t, size, util) ==
  IF size = 0 THEN 0
  ELSE IF util > t.warnUtil /\ t.warnUtil # 0 /\ util <= t.highUtil THEN 1
  ELSE IF util > t.highUtil /\ t.highUtil # 0 THEN 2
  ELSE 0

FreeLevel(t, size, free) ==
  IF size = 0 THEN 0
  ELSE IF free < t.highMegs /\ t.highMegs # 0 THEN 2
  ELSE IF free < t.warnMegs /\ t.warnMegs # 0 THEN 1
  ELSE 0

BuildMessageString(fs, threshType, oldState, newState) ==
  [type |-> threshType, old |-> oldState, new |-> newState,
   sev |-> IF newState = 0 THEN "Normal" ELSE IF fs.hasSevStr THEN "text" ELSE "NULL"]

\* The state of the other kind is not reset.
AfterUtilReport_FreeKept(fs, u) == [fs EXCEPT !.UtilThreshState = u]
AfterUtilReport(fs, u) == [fs EXCEPT !.FreeMegsThreshState = 0, !.UtilThreshState = u]

\* The state that was reported is not stored.
AfterFreeReport_NotStored(fs, m) == [fs EXCEPT !.UtilThreshState = 0]
AfterFreeReport(fs, m) == [fs EXCEPT !.UtilThreshState = 0, !.FreeMegsThreshState = m]

\* bThreshChanged is never cleared, so that the rows are searched for every metric.
SetValues(v, fs0, size, free) ==
  LET fs == [(IF fs0.bThreshChanged THEN GetThresholds(v, fs0) ELSE fs0) EXCEPT !.totSize = size]
      u == UtilLevel(fs.limits, size, UtilPercent(size, free))
      m == FreeLevel(fs.limits, size, free)
  IN IF u # fs.UtilThreshState
     THEN [fs |-> AfterUtilReport(fs, u),
           cmd |-> <<BuildMessageString(fs, "Utilization", fs.UtilThreshState, u)>>]
     ELSE IF m # fs.FreeMegsThreshState
     THEN [fs |-> AfterFreeReport(fs, m),
           cmd |-> <<BuildMessageString(fs, "Freespace", fs.FreeMegsThreshState, m)>>]
     ELSE [fs |-> fs, cmd |-> <<>>]

\* The members a new CFS has before its constructor calls SetValues.
NewCFS(size) == [totSize |-> size, limits |-> NoLimits, hasSevStr |-> FALSE,
                 UtilThreshState |-> 0, FreeMegsThreshState |-> 0, bThreshChanged |-> TRUE]

\* GetFSByName: the object of the volume, or a new one.
GetFSByName(v, size) == IF FileSystems[v] = None THEN NewCFS(size) ELSE FileSystems[v]

OverThreshold(fs, size, free) ==
  \/ UtilLevel(fs.limits, size, UtilPercent(size, free)) # 0
  \/ FreeLevel(fs.limits, size, free) # 0

-----------------------------------------------------------------------------
Init ==
  /\ phase = "starting"
  /\ rows \in Tables
  /\ ThreshChangeTime = 1
  /\ editing = FALSE
  /\ lastConfigUpdateTime = 0
  /\ Thresholds = <<>>
  /\ FileSystems = [v \in Volumes |-> None]
  /\ complete = FALSE
  /\ lastReport = [v \in Volumes |-> None]
  /\ silent = [v \in Volumes |-> 0]

(***************************************************************************)
(* A disk metric of volume v arrives.                                      *)
(***************************************************************************)
DiskMetric(v, size, free) ==
  /\ phase = "running"
  /\ LET r == SetValues(v, GetFSByName(v, size), size, free)
     IN /\ FileSystems' = [FileSystems EXCEPT ![v] = r.fs]
        /\ lastReport' = IF r.cmd = <<>> THEN lastReport
                         ELSE [lastReport EXCEPT ![v] = r.cmd[1]]
        /\ silent' = [silent EXCEPT ![v] =
             IF OverThreshold(r.fs, size, free) /\ r.fs.UtilThreshState = 0
                                                /\ r.fs.FreeMegsThreshState = 0
             THEN (IF @ = 2 THEN 2 ELSE @ + 1) ELSE 0]
  /\ UNCHANGED <<phase, rows, ThreshChangeTime, editing, lastConfigUpdateTime, Thresholds, complete>>

-----------------------------------------------------------------------------
(***************************************************************************)
(* The thresholds are loaded.                                              *)
(***************************************************************************)

\* The rows in EvalOrder, n of them before the end or an error.
OpenAll(n) == SubSeq(rows, 1, n)

\* The rows read before are not deleted.
UpdateThresholds_Appended(n) ==
  /\ Thresholds' = Thresholds \o OpenAll(n)
  /\ FileSystems' = [v \in Volumes |-> IF FileSystems[v] = None THEN None
                                       ELSE [FileSystems[v] EXCEPT !.bThreshChanged = TRUE]]
  /\ complete' = (n = Len(rows))
\* The vector is emptied before the table is opened, n rows are read; the result of
\* OpenAll and the end of the rows are not told from an error.
UpdateThresholds(n) ==
  /\ Thresholds' = OpenAll(n)
  /\ FileSystems' = [v \in Volumes |-> IF FileSystems[v] = None THEN None
                                       ELSE [FileSystems[v] EXCEPT !.bThreshChanged = TRUE]]
  /\ complete' = (n = Len(rows))

\* The row of table Proxies could be read: the stamp is taken over before the rows
\* are read.
UpdateConfig ==
  IF ThreshChangeTime > lastConfigUpdateTime
  THEN /\ lastConfigUpdateTime' = ThreshChangeTime
       /\ \E n \in 0 .. Len(rows) : UpdateThresholds(n)
  ELSE UNCHANGED <<lastConfigUpdateTime, Thresholds, FileSystems, complete>>

\* Without a configuration the program does not start.
InitializeConfig ==
  /\ phase = "starting"
  /\ \/ phase' = "running" /\ UpdateConfig
     \/ phase' = "ended" /\ UNCHANGED <<lastConfigUpdateTime, Thresholds, FileSystems, complete>>
  /\ UNCHANGED <<rows, ThreshChangeTime, editing, lastReport, silent>>

\* Every THRESHUPDATEINTSECS the main loop asks again; when the row cannot be read
\* nothing changes.
PeriodicUpdate ==
  /\ phase = "running"
  /\ UpdateConfig
  /\ UNCHANGED <<phase, rows, ThreshChangeTime, editing, lastReport, silent>>

\* The administrator changes the thresholds.
EditRows ==
  /\ rows' \in Tables
  /\ editing' = TRUE
  /\ UNCHANGED <<phase, ThreshChangeTime, lastConfigUpdateTime, Thresholds, FileSystems, complete,
                 lastReport, silent>>

AdvanceStamp ==
  /\ editing
  /\ ThreshChangeTime < MaxChanges
  /\ ThreshChangeTime' = ThreshChangeTime + 1
  /\ editing' = FALSE
  /\ UNCHANGED <<phase, rows, lastConfigUpdateTime, Thresholds, FileSystems, complete, lastReport, silent>>

Next ==
  \/ \E v \in Volumes, size \in Sizes : \E free \in 0 .. size : DiskMetric(v, size, free)
  \/ InitializeConfig
  \/ PeriodicUpdate
  \/ EditRows
  \/ AdvanceStamp

Spec == Init /\ [][Next]_vars

-----------------------------------------------------------------------------
(***************************************************************************)
(* Properties.                                                             *)
(***************************************************************************)

\* What the operator was told last about a file system is the state the program
\* holds: a message of one kind stands for the whole, because it resets the state of
\* the other kind.  Without a message both states are normal.
LastReportTells ==
  \A v \in Volumes :
    FileSystems[v] # None =>
      LET fs == FileSystems[v]
          r == IF lastReport[v] = None THEN [type |-> "Utilization", new |-> 0] ELSE lastReport[v]
      IN /\ fs.UtilThreshState = (IF r.type = "Utilization" THEN r.new ELSE 0)
         /\ fs.FreeMegsThreshState = (IF r.type = "Freespace" THEN r.new ELSE 0)

\* No message is built from a missing severity string, whatever rows come, go or fail
\* to load between two metrics (BuildMessageString copies the string unchecked).
SeverityAtHand == \A v \in Volumes : lastReport[v] # None => lastReport[v].sev # "NULL"

\* A file system over one of its thresholds is without an alarm for one metric at
\* most: the one that takes back the alarm of the other kind.
NoLongSilence == \A v \in Volumes : silent[v] < 2

\* Once the stamp of the last change was seen and its rows were read to the end, the
\* program works with the rows of the table.
ReloadFollowsTable ==
  (phase = "running" /\ complete /\ ~editing /\ lastConfigUpdateTime = ThreshChangeTime)
    => Thresholds = rows

\* The inductive invariant of the proofs.
FsTypeOK ==
  /\ rows \in Seq(RowType) /\ Thresholds \in Seq(RowType)
  /\ ThreshChangeTime \in Nat /\ lastConfigUpdateTime \in Nat
  /\ editing \in BOOLEAN /\ complete \in BOOLEAN
  /\ FileSystems \in [Volumes -> CFSType \cup {None}]
  /\ lastReport \in [Volumes -> ReportType \cup {None}]
  /\ silent \in [Volumes -> 0 .. 2]

\* Limits come with their severity texts.
TextsAtHand ==
  \A v \in Volumes :
    FileSystems[v] # None => FileSystems[v].limits = NoLimits \/ FileSystems[v].hasSevStr

\* Nothing was said about a file system the program does not know, and an alarm ends
\* the silence.
ReportLife ==
  \A v \in Volumes :
    /\ FileSystems[v] = None => lastReport[v] = None /\ silent[v] = 0
    /\ silent[v] # 0 => /\ FileSystems[v].UtilThreshState = 0
                       /\ FileSystems[v].FreeMegsThreshState = 0

\* The stamp is never behind what was seen, and the first one is still to be seen.
StampLife ==
  /\ lastConfigUpdateTime <= ThreshChangeTime
  /\ phase = "starting" => lastConfigUpdateTime < ThreshChangeTime

FsInv == /\ FsTypeOK /\ TextsAtHand /\ ReportLife /\ StampLife
         /\ LastReportTells /\ SeverityAtHand /\ NoLongSilence /\ ReloadFollowsTable
=============================================================================
