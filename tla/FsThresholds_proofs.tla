-------------------------- MODULE FsThresholds_proofs --------------------------
(***************************************************************************)
(* Theorems about FsThresholds for every set of volumes, rows and sizes.   *)
(*                                                                         *)
(* The inductive invariant is FsInv.  SetValues is taken apart in a lemma  *)
(* of its own: whichever way it takes, it keeps the texts with the limits, *)
(* and it leaves the states alone unless it reports one of them.           *)
(***************************************************************************)
EXTENDS FsThresholds, TLAPS

USE FsThresholdsAssumption DEF FsThresholdsAssumption

\* The row that is found is one of those loaded.
LEMMA FoundRow ==
  ASSUME Thresholds \in Seq(RowType), NEW v, NEW size
  PROVE  \/ GetThresholdForFS(v, size) = 0
         \/ /\ GetThresholdForFS(v, size) \in 1 .. Len(Thresholds)
            /\ Thresholds[GetThresholdForFS(v, size)].limits \in Limits
<1> DEFINE first == {i \in DOMAIN Thresholds : /\ MatchesFS(Thresholds[i], v, size)
                                               /\ \A j \in 1 .. i - 1 : ~MatchesFS(Thresholds[j], v, size)}
<1>1. GetThresholdForFS(v, size) = IF first = {} THEN 0 ELSE CHOOSE i \in first : TRUE
  BY DEF GetThresholdForFS
<1>2. first # {} => (CHOOSE i \in first : TRUE) \in first
  OBVIOUS
<1>3. first \subseteq 1 .. Len(Thresholds)
  OBVIOUS
<1>4. ASSUME NEW i \in 1 .. Len(Thresholds)  PROVE Thresholds[i].limits \in Limits
  <2>1. Thresholds[i] \in RowType
    OBVIOUS
  <2>2. QED
    BY <2>1 DEF RowType
<1>5. QED
  BY <1>1, <1>2, <1>3, <1>4

\* The levels are levels; without limits both are normal.
LEMMA Levels ==
  ASSUME NEW t \in Limits, NEW size \in Nat, NEW free \in Nat
  PROVE  /\ UtilLevel(t, size, UtilPercent(size, free)) \in Level
         /\ FreeLevel(t, size, free) \in Level
         /\ t = NoLimits => /\ UtilLevel(t, size, UtilPercent(size, free)) = 0
                            /\ FreeLevel(t, size, free) = 0
<1>1. UtilPercent(size, free) \in Int
  BY DEF UtilPercent
<1>2. t = NoLimits => t.warnUtil = 0 /\ t.highUtil = 0 /\ t.warnMegs = 0 /\ t.highMegs = 0
  BY DEF NoLimits
<1>3. QED
  BY <1>1, <1>2 DEF UtilLevel, FreeLevel, Level, Limits

\* A file system whose limits were searched for: the states are as before.
LEMMA SearchedFS ==
  ASSUME Thresholds \in Seq(RowType), NEW v \in Volumes, NEW fs \in CFSType
  PROVE  /\ GetThresholds(v, fs) \in CFSType
         /\ GetThresholds(v, fs).UtilThreshState = fs.UtilThreshState
         /\ GetThresholds(v, fs).FreeMegsThreshState = fs.FreeMegsThreshState
         /\ GetThresholds(v, fs).limits = NoLimits \/ GetThresholds(v, fs).hasSevStr
<1>1. NoLimits \in Limits
  BY DEF NoLimits, Limits
<1>2. CASE GetThresholdForFS(v, fs.totSize) = 0
  BY <1>1, <1>2 DEF GetThresholds, CFSType
<1>3. CASE GetThresholdForFS(v, fs.totSize) # 0
  BY <1>3, FoundRow DEF GetThresholds, CFSType
<1>4. QED
  BY <1>2, <1>3

\* After a report the one state is the level, the other normal.
LEMMA ReportedFS ==
  ASSUME NEW fs \in CFSType, NEW level \in Level
  PROVE  /\ AfterUtilReport(fs, level) \in CFSType
         /\ AfterUtilReport(fs, level).limits = fs.limits
         /\ AfterUtilReport(fs, level).hasSevStr = fs.hasSevStr
         /\ AfterUtilReport(fs, level).UtilThreshState = level
         /\ AfterUtilReport(fs, level).FreeMegsThreshState = 0
         /\ AfterFreeReport(fs, level) \in CFSType
         /\ AfterFreeReport(fs, level).limits = fs.limits
         /\ AfterFreeReport(fs, level).hasSevStr = fs.hasSevStr
         /\ AfterFreeReport(fs, level).UtilThreshState = 0
         /\ AfterFreeReport(fs, level).FreeMegsThreshState = level
<1>1. 0 \in Level
  BY DEF Level
<1>2. QED
  BY <1>1 DEF AfterUtilReport, AfterFreeReport, CFSType

\* One metric: the texts stay with the limits; either nothing is reported, because
\* both states are the levels of the metric, or one state is reported, with its text
\* at hand, and the other one is normal afterwards.
LEMMA OneMetric ==
  ASSUME Thresholds \in Seq(RowType), NEW v \in Volumes, NEW fs0 \in CFSType,
         NEW size \in Nat, NEW free \in Nat,
         fs0.limits = NoLimits \/ fs0.hasSevStr
  PROVE  LET r == SetValues(v, fs0, size, free)
             u == UtilLevel(r.fs.limits, size, UtilPercent(size, free))
             m == FreeLevel(r.fs.limits, size, free)
         IN /\ r.fs \in CFSType
            /\ r.fs.limits = NoLimits \/ r.fs.hasSevStr
            /\ \/ /\ r.cmd = <<>>
                  /\ u = fs0.UtilThreshState /\ r.fs.UtilThreshState = u
                  /\ m = fs0.FreeMegsThreshState /\ r.fs.FreeMegsThreshState = m
               \/ /\ \E rep \in ReportType :
                        /\ r.cmd = <<rep>> /\ rep.sev # "NULL"
                        /\ rep.type = "Utilization" /\ rep.new = u
                  /\ u # fs0.UtilThreshState
                  /\ r.fs.UtilThreshState = u /\ r.fs.FreeMegsThreshState = 0
               \/ /\ \E rep \in ReportType :
                        /\ r.cmd = <<rep>> /\ rep.sev # "NULL"
                        /\ rep.type = "Freespace" /\ rep.new = m
                  /\ u = fs0.UtilThreshState /\ m # fs0.FreeMegsThreshState
                  /\ r.fs.UtilThreshState = 0 /\ r.fs.FreeMegsThreshState = m
<1> DEFINE got == IF fs0.bThreshChanged THEN GetThresholds(v, fs0) ELSE fs0
           fs  == [got EXCEPT !.totSize = size]
           u   == UtilLevel(fs.limits, size, UtilPercent(size, free))
           m   == FreeLevel(fs.limits, size, free)
           r   == SetValues(v, fs0, size, free)
<1>1. /\ got \in CFSType
      /\ got.UtilThreshState = fs0.UtilThreshState
      /\ got.FreeMegsThreshState = fs0.FreeMegsThreshState
      /\ got.limits = NoLimits \/ got.hasSevStr
  BY SearchedFS
<1> HIDE DEF got
<1>2. /\ fs \in CFSType
      /\ fs.UtilThreshState = fs0.UtilThreshState
      /\ fs.FreeMegsThreshState = fs0.FreeMegsThreshState
      /\ fs.limits = NoLimits \/ fs.hasSevStr
      /\ fs.limits \in Limits
      /\ fs.UtilThreshState \in Level /\ fs.FreeMegsThreshState \in Level
  BY <1>1 DEF CFSType
<1>3. r = IF u # fs.UtilThreshState
          THEN [fs |-> AfterUtilReport(fs, u),
                cmd |-> <<BuildMessageString(fs, "Utilization", fs.UtilThreshState, u)>>]
          ELSE IF m # fs.FreeMegsThreshState
          THEN [fs |-> AfterFreeReport(fs, m),
                cmd |-> <<BuildMessageString(fs, "Freespace", fs.FreeMegsThreshState, m)>>]
          ELSE [fs |-> fs, cmd |-> <<>>]
  BY DEF SetValues, got
<1> HIDE DEF fs
<1>4. /\ u \in Level /\ m \in Level
      /\ fs.limits = NoLimits => u = 0 /\ m = 0
  BY <1>2, Levels
<1> HIDE DEF u, m, r
<1>5. ASSUME NEW type \in {"Utilization", "Freespace"}, NEW old \in Level, NEW new \in Level,
             fs.limits = NoLimits => new = 0
      PROVE  LET rep == BuildMessageString(fs, type, old, new)
             IN rep \in ReportType /\ rep.sev # "NULL" /\ rep.type = type /\ rep.new = new
  BY <1>2, <1>5 DEF BuildMessageString, ReportType
<1>6. CASE u # fs.UtilThreshState
  <2>1. /\ r.fs = AfterUtilReport(fs, u)
        /\ r.cmd = <<BuildMessageString(fs, "Utilization", fs.UtilThreshState, u)>>
    BY <1>3, <1>6
  <2>2. /\ r.fs \in CFSType /\ r.fs.limits = fs.limits /\ r.fs.hasSevStr = fs.hasSevStr
        /\ r.fs.UtilThreshState = u /\ r.fs.FreeMegsThreshState = 0
    BY <2>1, <1>2, <1>4, ReportedFS
  <2>3. QED
    BY <2>1, <2>2, <1>2, <1>4, <1>5, <1>6 DEF u, m, r
<1>7. CASE u = fs.UtilThreshState /\ m # fs.FreeMegsThreshState
  <2>1. /\ r.fs = AfterFreeReport(fs, m)
        /\ r.cmd = <<BuildMessageString(fs, "Freespace", fs.FreeMegsThreshState, m)>>
    BY <1>3, <1>7
  <2>2. /\ r.fs \in CFSType /\ r.fs.limits = fs.limits /\ r.fs.hasSevStr = fs.hasSevStr
        /\ r.fs.UtilThreshState = 0 /\ r.fs.FreeMegsThreshState = m
    BY <2>1, <1>2, <1>4, ReportedFS
  <2>3. QED
    BY <2>1, <2>2, <1>2, <1>4, <1>5, <1>7 DEF u, m, r
<1>8. CASE u = fs.UtilThreshState /\ m = fs.FreeMegsThreshState
  BY <1>2, <1>3, <1>8 DEF u, m, r
<1>9. QED
  BY <1>6, <1>7, <1>8

-----------------------------------------------------------------------------
LEMMA InitFsInv == Init => FsInv
<1> SUFFICES ASSUME Init  PROVE FsInv
  OBVIOUS
<1>1. FsTypeOK
  <2>1. rows \in Seq(RowType) /\ Thresholds \in Seq(RowType)
    <3>1. rows \in Tables /\ Thresholds = <<>>
      BY DEF Init
    <3>2. <<>> \in Seq(RowType)
      OBVIOUS
    <3>3. QED
      BY <3>1, <3>2
  <2>2. /\ ThreshChangeTime \in Nat /\ lastConfigUpdateTime \in Nat
        /\ editing \in BOOLEAN /\ complete \in BOOLEAN
    BY DEF Init
  <2>3. /\ FileSystems \in [Volumes -> CFSType \cup {None}]
        /\ lastReport \in [Volumes -> ReportType \cup {None}]
        /\ silent \in [Volumes -> 0 .. 2]
    BY DEF Init
  <2>4. QED
    BY <2>1, <2>2, <2>3 DEF FsTypeOK
<1>2. TextsAtHand /\ ReportLife /\ StampLife
  BY DEF Init, TextsAtHand, ReportLife, StampLife
<1>3. LastReportTells /\ SeverityAtHand /\ NoLongSilence /\ ReloadFollowsTable
  BY DEF Init, LastReportTells, SeverityAtHand, NoLongSilence, ReloadFollowsTable
<1>4. QED
  BY <1>1, <1>2, <1>3 DEF FsInv

\* A metric: the volume it is about by the lemma, the others as they were.
LEMMA MetricInv ==
  ASSUME FsInv, NEW v \in Volumes, NEW size \in Sizes, NEW free \in 0 .. size,
         DiskMetric(v, size, free)
  PROVE  FsInv'
<1> DEFINE fs0 == GetFSByName(v, size)
           r   == SetValues(v, fs0, size, free)
           u   == UtilLevel(r.fs.limits, size, UtilPercent(size, free))
           m   == FreeLevel(r.fs.limits, size, free)
           over == OverThreshold(r.fs, size, free)
           quiet == over /\ r.fs.UtilThreshState = 0 /\ r.fs.FreeMegsThreshState = 0
<1> USE DEF FsInv
<1>1. size \in Nat /\ free \in Nat /\ Thresholds \in Seq(RowType)
  BY DEF FsTypeOK
<1>2. /\ fs0 \in CFSType
      /\ fs0.limits = NoLimits \/ fs0.hasSevStr
      /\ FileSystems[v] # None => fs0 = FileSystems[v]
      /\ FileSystems[v] = None => fs0.UtilThreshState = 0 /\ fs0.FreeMegsThreshState = 0
  <2>1. CASE FileSystems[v] = None
    BY <1>1, <2>1 DEF GetFSByName, NewCFS, CFSType, NoLimits, Limits, Level
  <2>2. CASE FileSystems[v] # None
    BY <2>2 DEF GetFSByName, FsTypeOK, TextsAtHand
  <2>3. QED
    BY <2>1, <2>2
<1>3. /\ FileSystems' = [FileSystems EXCEPT ![v] = r.fs]
      /\ lastReport' = IF r.cmd = <<>> THEN lastReport ELSE [lastReport EXCEPT ![v] = r.cmd[1]]
      /\ silent' = [silent EXCEPT ![v] = IF quiet THEN (IF @ = 2 THEN 2 ELSE @ + 1) ELSE 0]
      /\ UNCHANGED <<phase, rows, ThreshChangeTime, editing, lastConfigUpdateTime, Thresholds, complete>>
  BY DEF DiskMetric
<1> HIDE DEF fs0
<1>4. /\ r.fs \in CFSType
      /\ r.fs.limits = NoLimits \/ r.fs.hasSevStr
      /\ \/ /\ r.cmd = <<>>
            /\ u = fs0.UtilThreshState /\ r.fs.UtilThreshState = u
            /\ m = fs0.FreeMegsThreshState /\ r.fs.FreeMegsThreshState = m
         \/ /\ \E rep \in ReportType :
                  /\ r.cmd = <<rep>> /\ rep.sev # "NULL"
                  /\ rep.type = "Utilization" /\ rep.new = u
            /\ u # fs0.UtilThreshState
            /\ r.fs.UtilThreshState = u /\ r.fs.FreeMegsThreshState = 0
         \/ /\ \E rep \in ReportType :
                  /\ r.cmd = <<rep>> /\ rep.sev # "NULL"
                  /\ rep.type = "Freespace" /\ rep.new = m
            /\ u = fs0.UtilThreshState /\ m # fs0.FreeMegsThreshState
            /\ r.fs.UtilThreshState = 0 /\ r.fs.FreeMegsThreshState = m
  BY <1>1, <1>2, OneMetric
<1>5. over <=> u # 0 \/ m # 0
  BY DEF OverThreshold
<1> HIDE DEF r, u, m, over
\* What the metric does to its volume.
<1>6. /\ r.cmd # <<>> => r.cmd[1] \in ReportType /\ r.cmd[1].sev # "NULL"
      /\ r.cmd = <<>> => /\ r.fs.UtilThreshState = fs0.UtilThreshState
                        /\ r.fs.FreeMegsThreshState = fs0.FreeMegsThreshState
      /\ r.cmd # <<>> =>
           /\ r.fs.UtilThreshState = IF r.cmd[1].type = "Utilization" THEN r.cmd[1].new ELSE 0
           /\ r.fs.FreeMegsThreshState = IF r.cmd[1].type = "Freespace" THEN r.cmd[1].new ELSE 0
  <2>1. CASE r.cmd = <<>> /\ r.fs.UtilThreshState = fs0.UtilThreshState
                          /\ r.fs.FreeMegsThreshState = fs0.FreeMegsThreshState
    BY <2>1
  <2>2. ASSUME NEW rep \in ReportType, r.cmd = <<rep>>, rep.sev # "NULL",
               \/ /\ rep.type = "Utilization" /\ rep.new = u
                  /\ r.fs.UtilThreshState = u /\ r.fs.FreeMegsThreshState = 0
               \/ /\ rep.type = "Freespace" /\ rep.new = m
                  /\ r.fs.UtilThreshState = 0 /\ r.fs.FreeMegsThreshState = m
        PROVE  /\ r.cmd # <<>> /\ r.cmd[1] \in ReportType /\ r.cmd[1].sev # "NULL"
               /\ r.fs.UtilThreshState = IF r.cmd[1].type = "Utilization" THEN r.cmd[1].new ELSE 0
               /\ r.fs.FreeMegsThreshState = IF r.cmd[1].type = "Freespace" THEN r.cmd[1].new ELSE 0
    <3>1. r.cmd # <<>> /\ r.cmd[1] = rep
      BY <2>2
    <3>2. QED
      BY <2>2, <3>1
  <2>3. QED
    BY <1>4, <2>1, <2>2
<1>7. quiet => fs0.UtilThreshState # 0 \/ fs0.FreeMegsThreshState # 0
  BY <1>4, <1>5
<1> HIDE DEF quiet
<1>8. silent[v] # 0 => ~quiet
  BY <1>2, <1>7 DEF ReportLife
<1>9. silent[v] \in 0 .. 2 /\ silent \in [Volumes -> 0 .. 2]
  BY DEF FsTypeOK
<1>10. silent' = [silent EXCEPT ![v] = IF quiet THEN 1 ELSE 0]
  <2>1. CASE quiet
    <3>1. silent[v] = 0
      BY <2>1, <1>8
    <3>2. QED
      BY <2>1, <3>1, <1>3, <1>9
  <2>2. CASE ~quiet
    BY <2>2, <1>3
  <2>3. QED
    BY <2>1, <2>2
<1>11. FsTypeOK'
  <2>1. lastReport' \in [Volumes -> ReportType \cup {None}]
    BY <1>3, <1>6 DEF FsTypeOK
  <2>2. silent' \in [Volumes -> 0 .. 2]
    BY <1>9, <1>10
  <2>3. QED
    BY <1>3, <1>4, <2>1, <2>2 DEF FsTypeOK
<1>12. TextsAtHand'
  BY <1>3, <1>4 DEF TextsAtHand, FsTypeOK
<1>13. r.fs # None
  BY <1>4
<1>14. ReportLife'
  <2> SUFFICES ASSUME NEW w \in Volumes
               PROVE  /\ FileSystems'[w] = None => lastReport'[w] = None /\ silent'[w] = 0
                      /\ silent'[w] # 0 => /\ FileSystems'[w].UtilThreshState = 0
                                          /\ FileSystems'[w].FreeMegsThreshState = 0
    BY DEF ReportLife
  <2>1. CASE w = v
    BY <2>1, <1>3, <1>9, <1>10, <1>13 DEF quiet, FsTypeOK
  <2>2. CASE w # v
    <3>1. FileSystems'[w] = FileSystems[w] /\ lastReport'[w] = lastReport[w] /\ silent'[w] = silent[w]
      BY <2>2, <1>3, <1>9, <1>10 DEF FsTypeOK
    <3>2. QED
      BY <3>1 DEF ReportLife
  <2>3. QED
    BY <2>1, <2>2
<1>15. LastReportTells'
  <2> SUFFICES ASSUME NEW w \in Volumes, FileSystems'[w] # None
               PROVE  LET fs  == FileSystems'[w]
                          rep == IF lastReport'[w] = None THEN [type |-> "Utilization", new |-> 0]
                                 ELSE lastReport'[w]
                      IN /\ fs.UtilThreshState = (IF rep.type = "Utilization" THEN rep.new ELSE 0)
                         /\ fs.FreeMegsThreshState = (IF rep.type = "Freespace" THEN rep.new ELSE 0)
    BY DEF LastReportTells
  <2>1. CASE w # v
    <3>1. FileSystems'[w] = FileSystems[w] /\ lastReport'[w] = lastReport[w]
      BY <2>1, <1>3 DEF FsTypeOK
    <3>2. QED
      BY <3>1 DEF LastReportTells
  <2>2. CASE w = v /\ r.cmd # <<>>
    <3>1. FileSystems'[w] = r.fs /\ lastReport'[w] = r.cmd[1] /\ r.cmd[1] # None
      BY <2>2, <1>3, <1>6 DEF FsTypeOK
    <3>2. QED
      BY <3>1, <2>2, <1>6
  <2>3. CASE w = v /\ r.cmd = <<>>
    <3>1. FileSystems'[w] = r.fs /\ lastReport'[w] = lastReport[w]
      BY <2>3, <1>3 DEF FsTypeOK
    <3>2. CASE FileSystems[v] = None
      BY <3>1, <3>2, <2>3, <1>2, <1>6 DEF ReportLife
    <3>3. CASE FileSystems[v] # None
      BY <3>1, <3>3, <2>3, <1>2, <1>6 DEF LastReportTells
    <3>4. QED
      BY <3>2, <3>3
  <2>4. QED
    BY <2>1, <2>2, <2>3
<1>16. SeverityAtHand'
  BY <1>3, <1>6 DEF SeverityAtHand, FsTypeOK
<1>17. NoLongSilence'
  BY <1>9, <1>10 DEF NoLongSilence
<1>18. StampLife' /\ ReloadFollowsTable'
  BY <1>3 DEF StampLife, ReloadFollowsTable
<1>19. QED
  BY <1>11, <1>12, <1>14, <1>15, <1>16, <1>17, <1>18

-----------------------------------------------------------------------------
\* Loading changes nothing of a file system but the mark to search again.
LEMMA LoadInv ==
  ASSUME FsInv, UpdateConfig, phase \in {"starting", "running"}, phase' = "running",
         UNCHANGED <<rows, ThreshChangeTime, editing, lastReport, silent>>
  PROVE  FsInv'
<1> USE DEF FsInv
<1>1. CASE ThreshChangeTime > lastConfigUpdateTime
  <2>1. PICK n \in 0 .. Len(rows) : UpdateThresholds(n)
    BY <1>1 DEF UpdateConfig
  <2>2. lastConfigUpdateTime' = ThreshChangeTime
    BY <1>1 DEF UpdateConfig
  <2>3. /\ rows \in Seq(RowType) /\ Len(rows) \in Nat
        /\ SubSeq(rows, 1, n) \in Seq(RowType)
        /\ n = Len(rows) => SubSeq(rows, 1, n) = rows
    <3>1. rows \in Seq(RowType)
      BY DEF FsTypeOK
    <3>2. Len(rows) \in Nat
      BY <3>1
    <3>3. SubSeq(rows, 1, n) \in Seq(RowType)
      BY <3>1, <3>2
    <3>4. n = Len(rows) => SubSeq(rows, 1, n) = rows
      BY <3>1, <3>2
    <3>5. QED
      BY <3>1, <3>2, <3>3, <3>4
  <2>4. Thresholds' = SubSeq(rows, 1, n) /\ complete' = (n = Len(rows))
    BY <2>1 DEF UpdateThresholds, OpenAll
  <2>5. ASSUME NEW w \in Volumes
        PROVE  /\ FileSystems'[w] \in CFSType \cup {None}
               /\ FileSystems'[w] = None <=> FileSystems[w] = None
               /\ FileSystems[w] # None =>
                    /\ FileSystems'[w].UtilThreshState = FileSystems[w].UtilThreshState
                    /\ FileSystems'[w].FreeMegsThreshState = FileSystems[w].FreeMegsThreshState
                    /\ FileSystems'[w].limits = FileSystems[w].limits
                    /\ FileSystems'[w].hasSevStr = FileSystems[w].hasSevStr
    <3>1. FileSystems[w] \in CFSType \cup {None}
      BY DEF FsTypeOK
    <3>2. FileSystems'[w] = IF FileSystems[w] = None THEN None
                            ELSE [FileSystems[w] EXCEPT !.bThreshChanged = TRUE]
      BY <2>1 DEF UpdateThresholds
    <3>3. CASE FileSystems[w] = None
      BY <3>2, <3>3
    <3>4. CASE FileSystems[w] # None
      <4>1. FileSystems[w] \in CFSType
        BY <3>1, <3>4
      <4>2. FileSystems'[w] = [FileSystems[w] EXCEPT !.bThreshChanged = TRUE]
        BY <3>2, <3>4
      <4>3. FileSystems'[w] \in CFSType
        BY <4>1, <4>2 DEF CFSType
      <4>4. QED
        BY <4>1, <4>2, <4>3, <3>4 DEF CFSType
    <3>5. QED
      BY <3>3, <3>4
  <2>6. FileSystems' \in [Volumes -> CFSType \cup {None}]
    <3>1. FileSystems' = [w \in Volumes |-> IF FileSystems[w] = None THEN None
                            ELSE [FileSystems[w] EXCEPT !.bThreshChanged = TRUE]]
      BY <2>1 DEF UpdateThresholds
    <3>2. QED
      BY <2>5, <3>1
  <2>7. FsTypeOK'
    BY <2>2, <2>3, <2>4, <2>6 DEF FsTypeOK
  <2>8. TextsAtHand'
    BY <2>5 DEF TextsAtHand
  <2>9. ReportLife'
    <3> SUFFICES ASSUME NEW w \in Volumes
                 PROVE  /\ FileSystems'[w] = None => lastReport'[w] = None /\ silent'[w] = 0
                        /\ silent'[w] # 0 => /\ FileSystems'[w].UtilThreshState = 0
                                            /\ FileSystems'[w].FreeMegsThreshState = 0
      BY DEF ReportLife
    <3>1. QED
      BY <2>5 DEF ReportLife
  <2>10. LastReportTells'
    <3> SUFFICES ASSUME NEW w \in Volumes, FileSystems'[w] # None
                 PROVE  LET fs  == FileSystems'[w]
                            rep == IF lastReport'[w] = None THEN [type |-> "Utilization", new |-> 0]
                                   ELSE lastReport'[w]
                        IN /\ fs.UtilThreshState = (IF rep.type = "Utilization" THEN rep.new ELSE 0)
                           /\ fs.FreeMegsThreshState = (IF rep.type = "Freespace" THEN rep.new ELSE 0)
      BY DEF LastReportTells
    <3>1. QED
      BY <2>5 DEF LastReportTells
  <2>11. SeverityAtHand' /\ NoLongSilence'
    BY DEF SeverityAtHand, NoLongSilence
  <2>12. StampLife' /\ ReloadFollowsTable'
    BY <2>2, <2>3, <2>4 DEF StampLife, ReloadFollowsTable, FsTypeOK
  <2>13. QED
    BY <2>7, <2>8, <2>9, <2>10, <2>11, <2>12
<1>2. CASE ~(ThreshChangeTime > lastConfigUpdateTime)
  <2>1. UNCHANGED <<rows, ThreshChangeTime, editing, lastReport, silent,
                    lastConfigUpdateTime, Thresholds, FileSystems, complete>>
    BY <1>2 DEF UpdateConfig
  <2>2. phase = "running"
    BY <1>2 DEF StampLife, FsTypeOK
  <2>3. QED
    BY <2>1, <2>2 DEF FsTypeOK, TextsAtHand, ReportLife, StampLife, LastReportTells,
                      SeverityAtHand, NoLongSilence, ReloadFollowsTable
<1>3. QED
  BY <1>1, <1>2

\* What the administrator does and a program that does not start: nothing of the
\* file systems changes.
LEMMA OutsideInv ==
  ASSUME FsInv,
         UNCHANGED <<lastConfigUpdateTime, Thresholds, FileSystems, complete, lastReport, silent>>,
         rows' \in Seq(RowType), editing' \in BOOLEAN, ThreshChangeTime' \in Nat,
         StampLife', ReloadFollowsTable'
  PROVE  FsInv'
  BY DEF FsInv, FsTypeOK, TextsAtHand, ReportLife, LastReportTells, SeverityAtHand, NoLongSilence

LEMMA StepFsInv == FsInv /\ [Next]_vars => FsInv'
<1> SUFFICES ASSUME FsInv, [Next]_vars  PROVE FsInv'
  OBVIOUS
<1>1. ASSUME NEW v \in Volumes, NEW size \in Sizes, NEW free \in 0 .. size,
             DiskMetric(v, size, free)
      PROVE  FsInv'
  BY <1>1, MetricInv
<1>2. CASE InitializeConfig
  <2>1. CASE phase' = "running" /\ UpdateConfig
    BY <1>2, <2>1, LoadInv DEF InitializeConfig
  <2>2. CASE phase' = "ended"
               /\ UNCHANGED <<lastConfigUpdateTime, Thresholds, FileSystems, complete>>
    <3>1. UNCHANGED <<lastConfigUpdateTime, Thresholds, FileSystems, complete, lastReport, silent,
                      rows, editing, ThreshChangeTime>>
      BY <1>2, <2>2 DEF InitializeConfig
    <3>2. StampLife' /\ ReloadFollowsTable'
      BY <3>1, <2>2 DEF FsInv, StampLife, ReloadFollowsTable
    <3>3. QED
      BY <3>1, <3>2, OutsideInv DEF FsInv, FsTypeOK
  <2>3. QED
    BY <1>2, <2>1, <2>2 DEF InitializeConfig
<1>3. CASE PeriodicUpdate
  BY <1>3, LoadInv DEF PeriodicUpdate
<1>4. CASE EditRows
  <2>1. /\ rows' \in Seq(RowType) /\ editing' = TRUE /\ ThreshChangeTime' = ThreshChangeTime
        /\ phase' = phase
        /\ UNCHANGED <<lastConfigUpdateTime, Thresholds, FileSystems, complete, lastReport, silent>>
    BY <1>4 DEF EditRows
  <2>2. StampLife' /\ ReloadFollowsTable'
    BY <2>1 DEF FsInv, StampLife, ReloadFollowsTable
  <2>3. QED
    BY <2>1, <2>2, OutsideInv DEF FsInv, FsTypeOK
<1>5. CASE AdvanceStamp
  <2>1. /\ editing' = FALSE /\ ThreshChangeTime' = ThreshChangeTime + 1 /\ rows' = rows
        /\ phase' = phase
        /\ UNCHANGED <<lastConfigUpdateTime, Thresholds, FileSystems, complete, lastReport, silent>>
    BY <1>5 DEF AdvanceStamp
  <2>2. StampLife' /\ ReloadFollowsTable'
    BY <2>1 DEF FsInv, FsTypeOK, StampLife, ReloadFollowsTable
  <2>3. rows' \in Seq(RowType) /\ editing' \in BOOLEAN
    BY <2>1 DEF FsInv, FsTypeOK
  <2>4. ThreshChangeTime' \in Nat
    BY <2>1 DEF FsInv, FsTypeOK
  <2>5. QED
    BY <2>1, <2>2, <2>3, <2>4, OutsideInv
<1>6. CASE UNCHANGED vars
  BY <1>6 DEF vars, FsInv, FsTypeOK, TextsAtHand, ReportLife, StampLife, LastReportTells,
              SeverityAtHand, NoLongSilence, ReloadFollowsTable
<1>7. QED
  BY <1>1, <1>2, <1>3, <1>4, <1>5, <1>6 DEF Next

-----------------------------------------------------------------------------
\* The inductive invariant holds for any volumes, rows and sizes, whatever SetValues
\* and UpdateThresholds do in whatever order.
THEOREM FsInvariant == Spec => []FsInv
<1>1. Init => FsInv
  BY InitFsInv
<1>2. FsInv /\ [Next]_vars => FsInv'
  BY StepFsInv
<1>3. QED
  BY <1>1, <1>2, PTL DEF Spec

\* What the operator was told last is the state SetValues holds, however many reloads
\* and metrics lie between two messages.
THEOREM LastReportTellsHolds == Spec => []LastReportTells
<1>1. FsInv => LastReportTells
  BY DEF FsInv
<1>2. QED
  BY <1>1, FsInvariant, PTL

\* No message of SetValues is built from a severity string that is not there.
THEOREM SeverityAtHandHolds == Spec => []SeverityAtHand
<1>1. FsInv => SeverityAtHand
  BY DEF FsInv
<1>2. QED
  BY <1>1, FsInvariant, PTL

\* SetValues leaves a file system over a threshold without alarm for one metric at most.
THEOREM NoLongSilenceHolds == Spec => []NoLongSilence
<1>1. FsInv => NoLongSilence
  BY DEF FsInv
<1>2. QED
  BY <1>1, FsInvariant, PTL

\* A reload that was not cut short leaves UpdateThresholds' rows those of the table.
THEOREM ReloadFollowsTableHolds == Spec => []ReloadFollowsTable
<1>1. FsInv => ReloadFollowsTable
  BY DEF FsInv
<1>2. QED
  BY <1>1, FsInvariant, PTL
=============================================================================
