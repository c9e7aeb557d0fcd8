------------------------------- MODULE ModelRules -----------------------------
(***************************************************************************)
(* The rules of the new model: which threshold a file system falls under,  *)
(* its state under that threshold (Threshold.h, ThresholdService.h), and   *)
(* what is told about a change of state (opcNotificationHandler.h).        *)
(*                                                                         *)
(* A threshold is a record of the limits, 0 for none, of the range of      *)
(* sizes, 0 for no bound, of the severities, and of the hosts and volumes  *)
(* its regular expressions match.  Limits in percent are whole numbers.    *)
(***************************************************************************)
EXTENDS Integers, Sequences, SequencesExt

\* ThreshState
normal == 0
util_warning == 100
mb_warning == 101
util_high == 200
mb_high == 201

\* str_to_severity, whatever the case of the letters.
SeverityOf(str) ==
  CASE str \in {"critical", "CRITICAL"} -> "Critical"
    [] str \in {"major", "MAJOR"}       -> "Major"
    [] str \in {"minor", "MINOR"}       -> "Minor"
    [] str \in {"warning", "WARNING"}   -> "Warning"
    [] str \in {"normal", "NORMAL"}     -> "Normal"
    [] OTHER                            -> "Unknown"

\* The constructor is given the range of sizes and does not store it.
NewThreshold(row) ==
  [row EXCEPT !.minFSSize = 0, !.maxFSSize = 0,
              !.WarnSevStr = SeverityOf(@), !.HighSevStr = SeverityOf(@)]

Matches(t, hostname, volume_name, fsSizeMB) ==
  /\ t.minFSSize = 0 \/ fsSizeMB >= t.minFSSize
  /\ t.maxFSSize = 0 \/ fsSizeMB <= t.maxFSSize
  /\ hostname \in t.hostExpr
  /\ volume_name \in t.volExpr

\* GetThresholdForFS: the first of the cached thresholds that matches; 0 where the
\* code runs off the end of the function.
GetThresholdForFS(cache, hostname, volume_name, fsSizeMb) ==
  SelectInSeq(cache, LAMBDA t : Matches(t, hostname, volume_name, fsSizeMb))

\* 100 times the share of the space that is free is compared with the limits for
\* the space in use.
UtilState(t, free, size) ==
  LET above(limit) == limit # 0 /\ 100 * free > limit * size
  IN IF size = 0 THEN normal
     ELSE IF above(t.HighUtilThresh) THEN util_high
     ELSE IF above(t.WarnUtilThresh) THEN util_warning
     ELSE normal

MbState(t, free, size) ==
  LET below(limit) == limit # 0 /\ free < limit
  IN IF size = 0 THEN normal
     ELSE IF below(t.HighFreeMegsThresh) THEN mb_high
     ELSE IF below(t.WarnFreeMegsThresh) THEN mb_warning
     ELSE normal

\* The free space is looked at only while the use is normal.
GetState_UtilFirst(t, free, size) ==
  IF UtilState(t, free, size) # normal THEN UtilState(t, free, size) ELSE MbState(t, free, size)
\* The greater of the two states.
GetState(t, free, size) ==
  IF UtilState(t, free, size) > MbState(t, free, size)
  THEN UtilState(t, free, size) ELSE MbState(t, free, size)

\* "level can be calculated [...] by dividing the int value of ThreshState with 100"
Level(state) == state \div 100

StateName(level) == CASE level = 2 -> "HIGH" [] level = 1 -> "WARN" [] OTHER -> "NORM"
Severity(t, level) == CASE level = 0 -> "Normal" [] level = 1 -> t.WarnSevStr [] OTHER -> t.HighSevStr

\* FileSystemStateChange: the command it queues, FileSystem::getUtil being the share
\* of the space in use, rounded down here.
FileSystemStateChange(t, free, size, oldLevel, newLevel) ==
  [newState |-> StateName(newLevel), oldState |-> StateName(oldLevel),
   sev |-> Severity(t, newLevel), FreeMB |-> free, totMB |-> size,
   percent |-> IF size = 0 THEN "nan" ELSE (100 * (size - free)) \div size]
=============================================================================
