-------------------------- MODULE TrapPipeline_proofs -------------------------
(***************************************************************************)
(* Theorems about TrapPipeline for every table of thresholds, whatever its *)
(* limits are, every sample, every class of event and every message.       *)
(*                                                                         *)
(* Most of the module is about the octets.  What the agents put into them  *)
(* is described by Holds(b, p, c): the octets c stand at place p of the    *)
(* datagram b.  Each form that an agent encodes, from a length to a whole  *)
(* message, has a lemma that tells its parts and one that tells what the   *)
(* program reads where the form stands, and where it goes on reading.  The *)
(* loops are taken from SeqFacts: a loop has states (LoopStates), and what *)
(* a round preserves holds of all of them (LoopInvariant); in the parsers  *)
(* it is the distance from the place read to the place of a given part.    *)
(***************************************************************************)
EXTENDS TrapPipeline, SeqFacts

-----------------------------------------------------------------------------
(* The threshold of a sample, and the level that is told. *)

\* GetThresholdForFS finds the first threshold that matches, if there is one.
LEMMA FirstThatMatches ==
  ASSUME CacheOK, NEW h, NEW v, NEW size, GetThresholdForFS(cache, h, v, size) # 0
  PROVE  LET k == GetThresholdForFS(cache, h, v, size)
         IN k \in DOMAIN cache /\ \A j \in 1 .. k - 1 : ~Matches(cache[j], h, v, size)
<1> DEFINE I == {j \in 1 .. Len(cache) : Matches(cache[j], h, v, size)}
           k == GetThresholdForFS(cache, h, v, size)
<1>1. k = IF I # {} THEN Min(I) ELSE 0
  BY DEF GetThresholdForFS, SelectInSeq
<1>2. Len(cache) \in Nat /\ DOMAIN cache = 1 .. Len(cache)
  BY DEF CacheOK
<1>3. I \in SUBSET Nat /\ I # {}
  BY <1>1
<1>4. k = Min(I)
  BY <1>1, <1>3
<1> HIDE DEF k
<1>5. k \in I /\ \A j \in I : k <= j
  BY <1>3, <1>4, LeastElement, Zenon
<1>6. k \in 1 .. Len(cache)
  BY <1>5
<1>7. ASSUME NEW j \in 1 .. k - 1 PROVE ~Matches(cache[j], h, v, size)
  <2>1. j \in 1 .. Len(cache) /\ ~(k <= j)
    BY <1>2, <1>6
  <2>2. QED
    BY <1>5, <2>1
<1>8. QED
  BY <1>2, <1>6, <1>7 DEF k

\* A state is worse by its limits in percent, by those in megabytes, or normal.
LEMMA StatesOf ==
  ASSUME NEW t, NEW free, NEW size
  PROVE  /\ UtilState(t, free, size) \in {normal, util_warning, util_high}
         /\ MbState(t, free, size) \in {normal, mb_warning, mb_high}
BY DEF UtilState, MbState

\* A threshold stripped of its limits of one kind says what the others say.
LEMMA OneKind ==
  ASSUME NEW t, RowFields \subseteq DOMAIN t, NEW free, NEW size
  PROVE  /\ GetState(Only(t, {"WarnUtilThresh", "HighUtilThresh"}), free, size) = MbState(t, free, size)
         /\ GetState(Only(t, {"WarnFreeMegsThresh", "HighFreeMegsThresh"}), free, size) = UtilState(t, free, size)
<1> DEFINE m == Only(t, {"WarnUtilThresh", "HighUtilThresh"})
           u == Only(t, {"WarnFreeMegsThresh", "HighFreeMegsThresh"})
<1>1. /\ m.WarnUtilThresh = 0 /\ m.HighUtilThresh = 0
      /\ m.WarnFreeMegsThresh = t.WarnFreeMegsThresh /\ m.HighFreeMegsThresh = t.HighFreeMegsThresh
  BY DEF Only, RowFields
<1>2. /\ u.WarnFreeMegsThresh = 0 /\ u.HighFreeMegsThresh = 0
      /\ u.WarnUtilThresh = t.WarnUtilThresh /\ u.HighUtilThresh = t.HighUtilThresh
  BY DEF Only, RowFields
<1> HIDE DEF m, u
<1>3. UtilState(m, free, size) = normal /\ MbState(m, free, size) = MbState(t, free, size)
  BY <1>1 DEF UtilState, MbState
<1>4. MbState(u, free, size) = normal /\ UtilState(u, free, size) = UtilState(t, free, size)
  BY <1>2 DEF UtilState, MbState
<1>5. GetState(m, free, size) = MbState(t, free, size)
  BY <1>3, StatesOf DEF GetState, normal, mb_warning, mb_high
<1>6. GetState(u, free, size) = UtilState(t, free, size)
  BY <1>4, StatesOf DEF GetState, normal, util_warning, util_high
<1>7. QED
  BY <1>5, <1>6 DEF m, u

\* The level of the greater state is the greater level.
LEMMA WorseLevel ==
  ASSUME NEW t, NEW free, NEW size
  PROVE  LET level  == Level(GetState(t, free, size))
             byMB   == Level(MbState(t, free, size))
             byUtil == Level(UtilState(t, free, size))
         IN level \in 0 .. 2 /\ level >= byMB /\ level >= byUtil /\ level \in {byMB, byUtil}
BY StatesOf DEF GetState, Level, normal, util_warning, util_high, mb_warning, mb_high

\* The initial states satisfy the invariant.
LEMMA InitTold == Init => CacheOK /\ WorseLevelTold
<1> SUFFICES ASSUME Init PROVE CacheOK /\ WorseLevelTold
  OBVIOUS
<1>1. WorseLevelTold
  BY DEF Init, WorseLevelTold
<1>2. CASE cache = <<>>
  BY <1>1, <1>2 DEF CacheOK
<1>3. CASE \E rows \in Rows : cache = [k \in DOMAIN rows |-> NewThreshold(rows[k])]
  <2>1. PICK rows \in Rows : cache = [k \in DOMAIN rows |-> NewThreshold(rows[k])]
    BY <1>3
  <2>2. /\ Len(rows) \in Nat /\ DOMAIN rows = 1 .. Len(rows)
        /\ \A k \in DOMAIN rows : RowFields \subseteq DOMAIN rows[k]
    BY TrapPipelineAssumption
  <2>3. cache \in [1 .. Len(rows) -> ToSet(cache)]
    BY <2>1, <2>2 DEF ToSet
  <2>4. cache \in Seq(ToSet(cache))
    BY <2>2, <2>3
  <2>5. \A k \in DOMAIN cache : DOMAIN cache[k] = DOMAIN rows[k]
    BY <2>1, Zenon DEF NewThreshold
  <2>6. QED
    BY <1>1, <2>1, <2>2, <2>4, <2>5 DEF CacheOK
<1>4. QED
  BY <1>2, <1>3 DEF Init

\* TellChange tells the worse level, by the first threshold that matches.
LEMMA TellChangeTold ==
  ASSUME CacheOK, TellChange
  PROVE  WorseLevelTold'
<1> DEFINE free == sample.free
           size == sample.size
           k == GetThresholdForFS(cache, sample.hostname, sample.volume_name, size)
           t == cache[k]
           level == Level(GetState(t, free, size))
<1>1. k # 0 /\ UNCHANGED <<cache, sample>>
  BY DEF TellChange
<1>2. PICK old \in 0 .. 2 \ {level} :
        told' = [by |-> k, level |-> level,
                 command |-> FileSystemStateChange(t, free, size, old, level)]
  BY DEF TellChange
<1>3. k \in DOMAIN cache /\ \A j \in 1 .. k - 1 : ~Matches(cache[j], sample.hostname, sample.volume_name, size)
  BY <1>1, FirstThatMatches
<1>4. RowFields \subseteq DOMAIN t
  BY <1>3 DEF CacheOK
<1> HIDE DEF k, t, free, size
<1>5. /\ level \in 0 .. 2
      /\ level >= Level(MbState(t, free, size)) /\ level >= Level(UtilState(t, free, size))
      /\ level \in {Level(MbState(t, free, size)), Level(UtilState(t, free, size))}
  BY WorseLevel
<1> HIDE DEF level
<1>6. /\ told'.by = k /\ told'.level = level
      /\ told'.command.newState = StateName(level) /\ told'.command.oldState = StateName(old)
      /\ told'.command.sev = Severity(t, level)
  BY <1>2 DEF FileSystemStateChange
<1>7. <<StateName(level), Severity(t, level)>> \in
        {<<"NORM", "Normal">>, <<"WARN", t.WarnSevStr>>, <<"HIGH", t.HighSevStr>>}
  BY <1>5 DEF StateName, Severity
<1>8. StateName(level) # StateName(old)
  BY <1>5 DEF StateName
<1>9. cache'[told'.by] = t /\ sample'.free = free /\ sample'.size = size
  BY <1>1, <1>6 DEF t, free, size
<1>10. \A j \in 1 .. told'.by - 1 :
         ~Matches(cache'[j], sample'.hostname, sample'.volume_name, sample'.size)
  BY <1>1, <1>3, <1>6 DEF size
<1>11. QED
  BY <1>4, <1>5, <1>6, <1>7, <1>8, <1>9, <1>10, OneKind DEF WorseLevelTold

\* Every step preserves the invariant.
LEMMA NextTold ==
  ASSUME CacheOK, WorseLevelTold, [Next]_vars
  PROVE  CacheOK' /\ WorseLevelTold'
<1>1. cache' = cache /\ sample' = sample
  BY DEF Next, DecodePacket, SendAck, ParseEvent, TellChange, vars, sampleVars
<1>2. CacheOK'
  BY <1>1 DEF CacheOK
<1>3. CASE UNCHANGED told
  BY <1>1, <1>2, <1>3 DEF WorseLevelTold
<1>4. CASE TellChange
  BY <1>2, <1>4, TellChangeTold
<1>5. QED
  BY <1>2, <1>3, <1>4 DEF Next, DecodePacket, SendAck, ParseEvent, vars, sampleVars

\* What is told about a file system is the worse of what its two kinds of limits say,
\* by the first threshold that matches, for any limits, sizes and free space.
THEOREM WorseLevelToldHolds == Spec => []WorseLevelTold
<1>1. Init => CacheOK /\ WorseLevelTold
  BY InitTold
<1>2. CacheOK /\ WorseLevelTold /\ [Next]_vars => (CacheOK /\ WorseLevelTold)'
  BY NextTold
<1>3. QED
  BY <1>1, <1>2, PTL DEF Spec

-----------------------------------------------------------------------------
(* The fields of events. *)

\* A field is taken from the argument in its place, if no name comes twice.
LEMMA OrderedInverse ==
  ASSUME NEW names, IsInjective(names), NEW k \in DOMAIN names
  PROVE  names[k] \in DOMAIN Ordered(names) /\ Ordered(names)[names[k]] = k
<1>1. DOMAIN Ordered(names) = ToSet(names) /\ names[k] \in ToSet(names)
  BY DEF Ordered, ToSet
<1>2. Ordered(names)[names[k]] = CHOOSE j \in DOMAIN names : names[j] = names[k]
  BY <1>1 DEF Ordered
<1>3. \A j \in DOMAIN names : names[j] = names[k] => j = k
  BY DEF IsInjective
<1>4. QED
  BY <1>1, <1>2, <1>3

\* The samples name each field once, and the class reads its fields in their order.
LEMMA SamplesInOrder ==
  ASSUME NEW s \in AgentSample
  PROVE  /\ s.class # "Generic"
         /\ Len(s.fields) \in Lengths(s.class)
         /\ Form(s.class, Len(s.fields)) = Ordered(s.fields)
         /\ DOMAIN s.fields = 1 .. Len(s.fields)
         /\ IsInjective(s.fields)
         /\ "durationSeconds" \notin ToSet(s.fields)
<1>1. s.class # "Generic" /\ Len(s.fields) \in Lengths(s.class)
  <2>1. <<s.class, Len(s.fields)>> \in
          {<<"DiskMetric", 4>>, <<"ProcessFail", 5>>, <<"ServiceFail", 6>>, <<"ClusterFail", 5>>,
           <<"StartMaintenance", 4>>, <<"StartMaintenance", 5>>, <<"Error", 3>>, <<"Error", 4>>,
           <<"Hello", 1>>, <<"Hello", 4>>, <<"Goodbye", 1>>}
    BY DEF AgentSample
  <2>2. QED
    BY <2>1 DEF Lengths
<1>2. Form(s.class, Len(s.fields)) = Ordered(s.fields)
  BY DEF AgentSample, Form, DiskMetricForm, ProcessFailForm, ServiceFailForm, ClusterFailForm,
         StartMaintenanceForm, ErrorForm, HelloForm
<1>3. DOMAIN s.fields = 1 .. Len(s.fields)
  BY DEF AgentSample
<1>4. IsInjective(s.fields)
  BY DEF AgentSample, IsInjective
<1>5. "durationSeconds" \notin ToSet(s.fields)
  BY DEF AgentSample, ToSet
<1>6. QED
  BY <1>1, <1>2, <1>3, <1>4, <1>5

\* ParseTrap puts the arguments of a sample where they belong.
LEMMA SampleParsed ==
  ASSUME NEW s \in AgentSample, NEW args, DOMAIN args = 1 .. Len(args),
         Len(args) = Len(s.fields), \A k \in DOMAIN args : args[k].type = STR
  PROVE  LET parsed == ParseTrap(s.class, args)
         IN /\ TRUE \in parsed.returns
            /\ \A k \in DOMAIN s.fields :
                 s.fields[k] \in DOMAIN parsed.fields /\ parsed.fields[s.fields[k]] =
                   IF s.fields[k] \in Numeric THEN ToInt(args[k].val) ELSE args[k].val
<1> DEFINE parsed == ParseTrap(s.class, args)
           form == Ordered(s.fields)
           fields == [f \in DOMAIN form |->
                        IF f \in Numeric THEN ToInt(args[form[f]].val) ELSE args[form[f]].val]
           all == IF s.class = "StartMaintenance"
                  THEN Added(fields, "durationSeconds", DurationSeconds(fields)) ELSE fields
<1>1. parsed = [returns |-> IF s.class \in NoReturn THEN BOOLEAN ELSE {TRUE}, fields |-> all]
  BY SamplesInOrder DEF ParseTrap
<1>2. ASSUME NEW k \in DOMAIN s.fields
      PROVE  s.fields[k] \in DOMAIN all /\ all[s.fields[k]] =
               IF s.fields[k] \in Numeric THEN ToInt(args[k].val) ELSE args[k].val
  <2>1. s.fields[k] \in DOMAIN form /\ form[s.fields[k]] = k
    BY SamplesInOrder, OrderedInverse
  <2>2. s.fields[k] # "durationSeconds"
    BY SamplesInOrder DEF ToSet
  <2> HIDE DEF form
  <2>3. s.fields[k] \in DOMAIN fields /\ fields[s.fields[k]] =
          IF s.fields[k] \in Numeric THEN ToInt(args[k].val) ELSE args[k].val
    BY <2>1
  <2> HIDE DEF fields
  <2>4. QED
    BY <2>2, <2>3 DEF Added
<1> HIDE DEF all, parsed
<1>3. TRUE \in parsed.returns /\ parsed.fields = all
  BY <1>1
<1>4. QED
  BY <1>2, <1>3 DEF parsed

-----------------------------------------------------------------------------
(* The octets of a datagram. *)

\* From position p on, b holds the octets c.
Holds(b, p, c) == /\ p + Len(c) - 1 <= Len(b)
                  /\ \A k \in 1 .. Len(c) : b[p + k - 1] = c[k]

\* An octet is a number, also the one that is taken for what is behind the packet.
LEMMA AtIsNumber ==
  ASSUME NEW b \in Seq(Nat), NEW p
  PROVE  At(b, p) \in Nat
BY DEF At

\* What is held can be read.
LEMMA AtHeld ==
  ASSUME NEW b \in Seq(Nat), NEW p \in Nat \ {0}, NEW c \in Seq(Nat), Holds(b, p, c)
  PROVE  \A k \in 1 .. Len(c) : At(b, p + k - 1) = c[k]
<1> SUFFICES ASSUME NEW k \in 1 .. Len(c) PROVE At(b, p + k - 1) = c[k]
  OBVIOUS
<1>1. p + k - 1 \in 1 .. Len(b) /\ DOMAIN b = 1 .. Len(b)
  BY DEF Holds
<1>2. QED
  BY <1>1 DEF At, Holds

\* Two parts of what is held.
LEMMA HeldParts ==
  ASSUME NEW b \in Seq(Nat), NEW p \in Nat \ {0}, NEW c \in Seq(Nat), NEW d \in Seq(Nat), Holds(b, p, c \o d)
  PROVE  /\ Holds(b, p, c)
         /\ Holds(b, p + Len(c), d)
         /\ Len(c \o d) = Len(c) + Len(d)
         /\ c \o d \in Seq(Nat)
<1>1. /\ c \o d \in Seq(Nat)
      /\ Len(c \o d) = Len(c) + Len(d) /\ Len(c) \in Nat /\ Len(d) \in Nat
      /\ \A k \in 1 .. Len(c) + Len(d) : (c \o d)[k] = IF k <= Len(c) THEN c[k] ELSE d[k - Len(c)]
  OBVIOUS
<1> DEFINE e == c \o d
<1> HIDE DEF e
<1>2. Holds(b, p, e)
  BY DEF e
<1>3. /\ Len(e) = Len(c) + Len(d)
      /\ \A k \in 1 .. Len(e) : e[k] = IF k <= Len(c) THEN c[k] ELSE d[k - Len(c)]
  BY <1>1 DEF e
<1>4. ASSUME NEW k \in 1 .. Len(c) PROVE b[p + k - 1] = c[k]
  <2>1. k \in 1 .. Len(e) /\ k <= Len(c)
    BY <1>1, <1>3
  <2>2. QED
    BY <1>2, <1>3, <2>1 DEF Holds
<1>5. ASSUME NEW k \in 1 .. Len(d) PROVE b[p + Len(c) + k - 1] = d[k]
  <2> DEFINE j == Len(c) + k
  <2>1. j \in 1 .. Len(e) /\ ~(j <= Len(c)) /\ j - Len(c) = k /\ p + j - 1 = p + Len(c) + k - 1
    BY <1>1, <1>3
  <2>2. QED
    BY <1>2, <1>3, <2>1 DEF Holds
<1>6. p + Len(c) - 1 <= Len(b) /\ p + Len(c) + Len(d) - 1 <= Len(b)
  BY <1>1, <1>2, <1>3 DEF Holds
<1>7. QED
  BY <1>1, <1>4, <1>5, <1>6 DEF Holds

\* Three parts of what is held.
LEMMA HeldTriple ==
  ASSUME NEW b \in Seq(Nat), NEW p \in Nat \ {0}, NEW t \in Seq(Nat), NEW l \in Seq(Nat), NEW c \in Seq(Nat),
         Holds(b, p, t \o l \o c)
  PROVE  /\ Holds(b, p, t)
         /\ Holds(b, p + Len(t), l)
         /\ Holds(b, p + Len(t) + Len(l), c)
<1>1. t \o l \in Seq(Nat) /\ Len(t \o l) = Len(t) + Len(l) /\ Len(t) \in Nat /\ Len(l) \in Nat
  OBVIOUS
<1>2. Holds(b, p, t \o l) /\ Holds(b, p + Len(t \o l), c)
  BY <1>1, HeldParts
<1>3. Holds(b, p, t) /\ Holds(b, p + Len(t), l)
  BY <1>2, HeldParts
<1>4. p + Len(t \o l) = p + Len(t) + Len(l)
  BY <1>1
<1>5. QED
  BY <1>2, <1>3, <1>4

-----------------------------------------------------------------------------
(* Numbers and lengths. *)

\* v is the value after each of n octets from p on.
IsIntValue(v, b, p, n) ==
  /\ v \in [0 .. n -> Nat]
  /\ v[0] = 0
  /\ \A k \in 1 .. n : v[k] = 256 * v[k - 1] + At(b, p + k - 1)

\* The loop of ParseInt.
LEMMA IntLoop ==
  ASSUME NEW b \in Seq(Nat), NEW p \in Nat, NEW n \in Nat
  PROVE  IsIntValue(IntValue(b, p, n), b, p, n)
<1> DEFINE Round == [k \in Nat |-> [s \in Nat |-> 256 * s + At(b, p + k - 1)]]
           T(v) == v = [k \in 0 .. n |-> IF k = 0 THEN 0 ELSE 256 * v[k - 1] + At(b, p + k - 1)]
<1>1. Round \in [Nat -> [Nat -> Nat]]
  BY AtIsNumber
<1>2. \E v \in [0 .. n -> Nat] : IsRun(v, 0, Round, n)
  <2> HIDE DEF Round
  <2>1. 0 \in Nat
    OBVIOUS
  <2>2. QED
    BY <1>1, <2>1, LoopStates
<1>3. PICK v \in [0 .. n -> Nat] : IsRun(v, 0, Round, n)
  BY <1>2
<1>4. \E u : T(u)
  <2>1. \A k \in 1 .. n : Round[k][v[k - 1]] = 256 * v[k - 1] + At(b, p + k - 1)
    <3>1. \A k \in 1 .. n : k \in Nat /\ v[k - 1] \in Nat
      OBVIOUS
    <3>2. QED
      BY <3>1
  <2> HIDE DEF Round
  <2>2. \A k \in 0 .. n : v[k] = IF k = 0 THEN 0 ELSE 256 * v[k - 1] + At(b, p + k - 1)
    <3>1. \A k \in 0 .. n : k = 0 \/ k \in 1 .. n
      OBVIOUS
    <3>2. QED
      BY <1>3, <2>1, <3>1 DEF IsRun
  <2>3. T(v)
    BY <2>2
  <2>4. QED
    BY <2>3
<1> DEFINE w == IntValue(b, p, n)
<1>5. w = CHOOSE u : T(u)
  BY DEF IntValue
<1>6. T(w)
  <2> HIDE DEF T, w
  <2>1. T(CHOOSE u : T(u))
    BY <1>4
  <2>2. QED
    BY <1>5, <2>1
<1> HIDE DEF w
<1>7. DOMAIN w = 0 .. n /\ w = [k \in 0 .. n |-> w[k]] /\ w[0] = 0
  BY <1>6
<1>8. \A k \in 1 .. n : w[k] = 256 * w[k - 1] + At(b, p + k - 1)
  BY <1>6
<1>9. w \in [0 .. n -> Nat]
  <2>1. \A k \in 1 .. n : w[k - 1] \in Nat => w[k] \in Nat
    <3>1. \A k \in 1 .. n : At(b, p + k - 1) \in Nat
      BY AtIsNumber
    <3>2. QED
      BY <1>8, <3>1
  <2>2. w[0] \in Nat
    BY <1>7
  <2>3. QED
    BY <1>7, <2>1, <2>2, LoopInvariant
<1>10. QED
  BY <1>7, <1>8, <1>9 DEF w, IsIntValue

-----------------------------------------------------------------------------
(* Lengths, and elements that have one. *)

\* A length is a number, and what it counts starts behind it.
LEMMA LengthIsNumber ==
  ASSUME NEW b \in Seq(Nat), NEW p \in Nat
  PROVE  /\ GetFieldLength(b, p).at \in Nat /\ GetFieldLength(b, p).at > p
         /\ GetFieldLength(b, p).len \in Nat
<1> DEFINE n == At(b, p) % 128
<1>1. At(b, p) \in Nat
  BY AtIsNumber
<1>2. n \in Nat /\ n \in 0 .. n
  BY <1>1
<1> HIDE DEF n
<1>3. IntValue(b, p + 1, n)[n] \in Nat
  <2>1. IsIntValue(IntValue(b, p + 1, n), b, p + 1, n)
    BY <1>2, IntLoop
  <2>2. QED
    BY <1>2, <2>1 DEF IsIntValue
<1>4. ParseInt(b, p + 1, n).at = p + 1 + n /\ ParseInt(b, p + 1, n).val \in Nat
  BY <1>3 DEF ParseInt
<1>5. QED
  BY <1>1, <1>2, <1>4 DEF GetFieldLength, n

\* The octets of a length.
LEMMA LengthForm ==
  ASSUME NEW n \in Nat, NEW long \in BOOLEAN
  PROVE  /\ LengthOctets(n, long) \in Seq(Nat)
         /\ Len(LengthOctets(n, long)) = IF long \/ n >= 128 THEN 3 ELSE 1
BY DEF LengthOctets

\* GetFieldLength reads what LengthOctets wrote, in either form.
LEMMA LengthRead ==
  ASSUME NEW b \in Seq(Nat), NEW p \in Nat \ {0}, NEW n \in Nat, n < 65536, NEW long \in BOOLEAN,
         Holds(b, p, LengthOctets(n, long))
  PROVE  GetFieldLength(b, p) = [at |-> p + Len(LengthOctets(n, long)), len |-> n]
<1> DEFINE c == LengthOctets(n, long)
<1>1. c \in Seq(Nat) /\ Len(c) = IF long \/ n >= 128 THEN 3 ELSE 1
  BY LengthForm
<1>2. \A k \in 1 .. Len(c) : At(b, p + k - 1) = c[k]
  BY <1>1, AtHeld, SMTT(20)
<1>3. CASE long \/ n >= 128
  <2>1. Len(c) = 3 /\ c[1] = 130 /\ c[2] = n \div 256 /\ c[3] = n % 256
    BY <1>1, <1>3 DEF LengthOctets
  <2> HIDE DEF c
  <2>2. At(b, p) = 130 /\ At(b, p + 1) = n \div 256 /\ At(b, p + 2) = n % 256
    <3>1. p + 1 - 1 = p /\ p + 2 - 1 = p + 1 /\ p + 3 - 1 = p + 2 /\ 1 \in 1 .. Len(c) /\ 2 \in 1 .. Len(c) /\ 3 \in 1 .. Len(c)
      BY <2>1
    <3>2. QED
      BY <1>2, <2>1, <3>1
  <2> DEFINE v == IntValue(b, p + 1, 2)
  <2>3. IsIntValue(v, b, p + 1, 2)
    BY IntLoop
  <2> HIDE DEF v
  <2>4. v[1] = n \div 256
    <3>1. v[0] = 0 /\ v[1] = 256 * v[0] + At(b, p + 1)
      BY <2>3 DEF IsIntValue
    <3>2. QED
      BY <2>2, <3>1
  <2>5. v[2] = n
    <3>1. v[2] = 256 * v[1] + At(b, p + 2)
      BY <2>3 DEF IsIntValue
    <3>2. n = 256 * (n \div 256) + (n % 256)
      OBVIOUS
    <3>3. QED
      BY <2>2, <2>4, <3>1, <3>2
  <2>6. At(b, p) % 128 = 2 /\ ~(At(b, p) < 128)
    BY <2>2
  <2>7. ParseInt(b, p + 1, 2) = [at |-> p + 3, val |-> n]
    BY <2>5 DEF ParseInt, v
  <2>8. QED
    BY <2>1, <2>6, <2>7 DEF GetFieldLength, c
<1>4. CASE ~(long \/ n >= 128)
  <2>1. Len(c) = 1 /\ c[1] = n /\ n < 128
    BY <1>1, <1>4 DEF LengthOctets
  <2> HIDE DEF c
  <2>2. At(b, p) = n
    <3>1. p + 1 - 1 = p /\ 1 \in 1 .. Len(c)
      BY <2>1
    <3>2. QED
      BY <1>2, <2>1, <3>1
  <2>3. QED
    BY <2>1, <2>2 DEF GetFieldLength, c
<1>5. QED
  BY <1>3, <1>4

\* The form of an element: how long it is.
LEMMA ElementForm ==
  ASSUME NEW tag \in Nat, NEW c \in Seq(Nat), NEW long \in BOOLEAN
  PROVE  /\ TLV(tag, c, long) \in Seq(Nat)
         /\ Len(TLV(tag, c, long)) = 1 + Len(LengthOctets(Len(c), long)) + Len(c)
<1>1. LengthOctets(Len(c), long) \in Seq(Nat) /\ <<tag>> \in Seq(Nat) /\ Len(<<tag>>) = 1
  BY LengthForm
<1> DEFINE l == LengthOctets(Len(c), long)
           t == <<tag>>
<1> HIDE DEF l, t
<1>2. t \o l \o c \in Seq(Nat) /\ Len(t \o l \o c) = Len(t) + Len(l) + Len(c)
  BY <1>1 DEF l, t
<1>3. QED
  BY <1>1, <1>2 DEF TLV, l, t

\* An element of n octets at p: its tag, and by its length h the content c.
IsElement(b, p, n, h, tag, c) ==
  /\ At(b, p) = tag
  /\ h.len = Len(c) /\ h.at \in Nat \ {0} /\ Holds(b, h.at, c)
  /\ h.at + Len(c) = p + n /\ p + n - 1 <= Len(b)

\* What an element holds: its tag, its length and, behind those, its content.
LEMMA ElementRead ==
  ASSUME NEW b \in Seq(Nat), Len(b) < DatagramSize, NEW p \in Nat \ {0},
         NEW tag \in Nat, NEW c \in Seq(Nat), NEW long \in BOOLEAN, Holds(b, p, TLV(tag, c, long))
  PROVE  IsElement(b, p, Len(TLV(tag, c, long)), GetFieldLength(b, p + 1), tag, c)
<1> DEFINE l == LengthOctets(Len(c), long)
           t == <<tag>>
           e == TLV(tag, c, long)
<1>1. l \in Seq(Nat)
  BY LengthForm
<1>2. Len(l) \in Nat
  BY <1>1
<1>3. t \in Seq(Nat)
  OBVIOUS
<1>4. Len(t) = 1
  OBVIOUS
<1>5. t[1] = tag
  OBVIOUS
<1>6. e = (t \o l) \o c
  BY DEF TLV
<1>7. Holds(b, p, t \o l \o c)
  BY <1>6
<1> HIDE DEF l, t, e
<1>8. Holds(b, p, t) /\ Holds(b, p + 1, l) /\ Holds(b, p + 1 + Len(l), c)
  <2>1. Holds(b, p, t) /\ Holds(b, p + Len(t), l) /\ Holds(b, p + Len(t) + Len(l), c)
    BY <1>1, <1>3, <1>7, HeldTriple
  <2>2. QED
    BY <1>4, <2>1
<1>9. At(b, p) = tag
  <2>1. \A k \in 1 .. Len(t) : At(b, p + k - 1) = t[k]
    BY <1>3, <1>8, AtHeld
  <2>2. p + 1 - 1 = p /\ 1 \in 1 .. Len(t)
    BY <1>4
  <2>3. QED
    BY <1>5, <2>1, <2>2
<1>10. Len(e) = 1 + Len(l) + Len(c)
  BY ElementForm DEF e, l
<1>11. Holds(b, p, e)
  BY DEF e
<1>12. p + Len(e) - 1 <= Len(b) /\ Len(c) \in Nat /\ Len(c) < 65536
  BY <1>2, <1>10, <1>11 DEF Holds, DatagramSize
<1>13. GetFieldLength(b, p + 1) = [at |-> p + 1 + Len(l), len |-> Len(c)]
  <2>1. p + 1 \in Nat \ {0} /\ Len(c) < 65536 /\ Holds(b, p + 1, LengthOctets(Len(c), long))
    BY <1>8, <1>12 DEF l
  <2>2. QED
    BY <2>1, LengthRead DEF l
<1> DEFINE h == GetFieldLength(b, p + 1)
<1>14. h.at = p + 1 + Len(l) /\ h.len = Len(c)
  BY <1>13
<1> HIDE DEF h
<1>15. h.at \in Nat \ {0} /\ h.at + Len(c) = p + Len(e) /\ Holds(b, h.at, c)
  BY <1>2, <1>8, <1>10, <1>12, <1>14
<1>16. QED
  BY <1>9, <1>12, <1>14, <1>15 DEF e, h, IsElement

-----------------------------------------------------------------------------
(* Numbers of any width, and addresses. *)

\* o are the octets of n, the most significant first: one to four, enough for it.
IsBigEndian(o, n) ==
  \E k \in 1 .. 4 :
    /\ k = 1 => n < 256
    /\ k = 2 => n < 65536
    /\ k = 3 => n < 16777216
    /\ o \in Seq(Nat)
    /\ Len(o) = k
    /\ \A i \in 1 .. k : o[i] = (n \div Bytes[k - i + 1]) % 256

\* The octets of a number of 32 bits.
LEMMA OctetsForm ==
  ASSUME NEW n \in Word
  PROVE  IsBigEndian(Octets(n), n)
<1> DEFINE D(k) == (k = 1 \/ Bytes[k] <= n) /\ (k = Len(Bytes) \/ n < Bytes[k + 1])
           k == Digits(n, Bytes)
<1>1. n \in Nat
  BY DEF Word
<1>2. DOMAIN Bytes = 1 .. 4 /\ Len(Bytes) = 4
  BY DEF Bytes
<1>3. Bytes[1] = 1 /\ Bytes[2] = 256 /\ Bytes[3] = 65536 /\ Bytes[4] = 16777216
  BY DEF Bytes
<1>4. \E j \in DOMAIN Bytes : D(j)
  <2>1. CASE n < 256
    <3>1. D(1)
      BY <1>3, <2>1
    <3>2. QED
      BY <1>2, <3>1
  <2>2. CASE ~(n < 256) /\ n < 65536
    <3>1. D(2)
      BY <1>1, <1>3, <2>2
    <3>2. QED
      BY <1>2, <3>1
  <2>3. CASE ~(n < 65536) /\ n < 16777216
    <3>1. D(3)
      BY <1>1, <1>3, <2>3
    <3>2. QED
      BY <1>2, <3>1
  <2>4. CASE ~(n < 16777216)
    <3>1. D(4)
      BY <1>1, <1>2, <1>3, <2>4
    <3>2. QED
      BY <1>2, <3>1
  <2>5. QED
    BY <2>1, <2>2, <2>3, <2>4
<1>5. k \in DOMAIN Bytes /\ D(k)
  <2>1. k = CHOOSE j \in DOMAIN Bytes : D(j)
    BY DEF Digits
  <2> HIDE DEF k, D
  <2>2. QED
    BY <1>4, <2>1
<1>6. Octets(n) = [i \in 1 .. k |-> (n \div Bytes[k - i + 1]) % 256]
  BY DEF Octets
<1> HIDE DEF k
<1>7. k \in 1 .. 4
  BY <1>2, <1>5
<1>8. /\ k = 1 => n < 256
      /\ k = 2 => n < 65536
      /\ k = 3 => n < 16777216
  BY <1>2, <1>3, <1>5
<1>9. \A i \in 1 .. k : (n \div Bytes[k - i + 1]) % 256 \in Nat
  <2> SUFFICES ASSUME NEW i \in 1 .. k PROVE (n \div Bytes[k - i + 1]) % 256 \in Nat
    OBVIOUS
  <2>1. Bytes[k - i + 1] \in Nat \ {0}
    <3>1. k - i + 1 \in {1, 2, 3, 4}
      BY <1>7
    <3>2. QED
      BY <1>3, <3>1
  <2>2. PICK m \in Nat \ {0} : m = Bytes[k - i + 1]
    BY <2>1
  <2>3. n \div m \in Nat
    BY <1>1
  <2>4. QED
    BY <2>2, <2>3
<1>10. QED
  <2> DEFINE o == Octets(n)
  <2>1. k \in Nat
    BY <1>7
  <2> DEFINE d(i) == (n \div Bytes[k - i + 1]) % 256
  <2>2. o = [i \in 1 .. k |-> d(i)] /\ \A i \in 1 .. k : d(i) \in Nat
    BY <1>6, <1>9
  <2> HIDE DEF o, d
  <2>3. o \in Seq(Nat) /\ Len(o) = k /\ \A i \in 1 .. k : o[i] = d(i)
    BY <2>1, <2>2
  <2>4. QED
    BY <1>7, <1>8, <2>3 DEF o, d, IsBigEndian

\* One more octet.
LEMMA NextDigit ==
  ASSUME NEW n \in Nat
  PROVE  /\ 256 * (n \div 16777216) + ((n \div 65536) % 256) = n \div 65536
         /\ 256 * (n \div 65536) + ((n \div 256) % 256) = n \div 256
         /\ 256 * (n \div 256) + (n % 256) = n
         /\ n \div 1 = n
         /\ n < 256 => n % 256 = n
         /\ n < 65536 => (n \div 256) % 256 = n \div 256
         /\ n < 16777216 => (n \div 65536) % 256 = n \div 65536
         /\ n \div 65536 < 65536 => (n \div 16777216) % 256 = n \div 16777216
<1>1. 256 * (n \div 16777216) + ((n \div 65536) % 256) = n \div 65536
  OBVIOUS
<1>2. 256 * (n \div 65536) + ((n \div 256) % 256) = n \div 256
  OBVIOUS
<1>3. 256 * (n \div 256) + (n % 256) = n /\ n \div 1 = n
  OBVIOUS
<1>4. n < 256 => n % 256 = n
  OBVIOUS
<1>5. n < 65536 => (n \div 256) % 256 = n \div 256
  OBVIOUS
<1>6. n < 16777216 => (n \div 65536) % 256 = n \div 65536
  OBVIOUS
<1>7. n \div 65536 < 65536 => (n \div 16777216) % 256 = n \div 16777216
  OBVIOUS
<1>8. QED
  BY <1>1, <1>2, <1>3, <1>4, <1>5, <1>6, <1>7

\* Behind z octets that say nothing the loop comes to the number.
LEMMA DigitsRead ==
  ASSUME NEW b \in Seq(Nat), NEW p \in Nat \ {0}, NEW n \in Word, NEW z \in Nat, NEW len \in Nat, NEW v, NEW o,
         IsBigEndian(o, n), IsIntValue(v, b, p, len), len = z + Len(o), v[z] = 0, Holds(b, p + z, o)
  PROVE  v[len] = n
<1>1. \A i \in 1 .. Len(o) : At(b, p + z + i - 1) = o[i]
  <2>1. PICK q \in Nat \ {0} : q = p + z
    OBVIOUS
  <2>2. o \in Seq(Nat) /\ Holds(b, q, o)
    BY <2>1 DEF IsBigEndian
  <2>3. \A i \in 1 .. Len(o) : At(b, q + i - 1) = o[i]
    BY <2>2, AtHeld
  <2>4. QED
    BY <2>1, <2>3
<1>2. n \in Nat /\ n \div 65536 < 65536
  BY DEF Word
<1>3. PICK k \in 1 .. 4 :
           /\ k = 1 => n < 256
           /\ k = 2 => n < 65536
           /\ k = 3 => n < 16777216
           /\ o \in Seq(Nat)
           /\ Len(o) = k
           /\ \A i \in 1 .. k : o[i] = (n \div Bytes[k - i + 1]) % 256
  BY DEF IsBigEndian
<1>4. Bytes[1] = 1 /\ Bytes[2] = 256 /\ Bytes[3] = 65536 /\ Bytes[4] = 16777216
  BY DEF Bytes
<1>5. \A i \in 1 .. k : v[z + i] = 256 * v[z + i - 1] + ((n \div Bytes[k - i + 1]) % 256)
  <2> SUFFICES ASSUME NEW i \in 1 .. k PROVE v[z + i] = 256 * v[z + i - 1] + ((n \div Bytes[k - i + 1]) % 256)
    OBVIOUS
  <2>1. z + i \in 1 .. len /\ p + (z + i) - 1 = p + z + i - 1
    BY <1>3
  <2>2. v[z + i] = 256 * v[z + i - 1] + At(b, p + (z + i) - 1)
    BY <2>1 DEF IsIntValue
  <2>3. QED
    BY <1>1, <1>3, <2>1, <2>2
<1>6. /\ 256 * (n \div 16777216) + ((n \div 65536) % 256) = n \div 65536
      /\ 256 * (n \div 65536) + ((n \div 256) % 256) = n \div 256
      /\ 256 * (n \div 256) + (n % 256) = n
      /\ n \div 1 = n
      /\ k = 1 => n % 256 = n
      /\ k = 2 => (n \div 256) % 256 = n \div 256
      /\ k = 3 => (n \div 65536) % 256 = n \div 65536
      /\ (n \div 16777216) % 256 = n \div 16777216
  BY <1>2, <1>3, NextDigit
<1>7. CASE k = 1
  <2>1. 1 \in 1 .. k /\ z + 1 - 1 = z /\ k - 1 + 1 = 1 /\ len = z + 1
    BY <1>3, <1>7
  <2>2. v[z + 1] = 256 * v[z] + ((n \div 1) % 256)
    BY <1>4, <1>5, <2>1
  <2>3. n \div 1 = n /\ n % 256 = n
    BY <1>6, <1>7
  <2>4. QED
    BY <1>2, <2>1, <2>2, <2>3
<1>8. CASE k = 2
  <2>1. v[z + 1] = 256 * v[z] + ((n \div 256) % 256) /\ v[z + 2] = 256 * v[z + 1] + ((n \div 1) % 256)
    <3>1. 1 \in 1 .. k /\ z + 1 - 1 = z /\ k - 1 + 1 = 2 /\ 2 \in 1 .. k /\ z + 2 - 1 = z + 1 /\ k - 2 + 1 = 1
      BY <1>8
    <3>2. QED
      BY <1>4, <1>5, <3>1
  <2>2. v[z + 1] = n \div 256
    <3>1. 256 * v[z] = 0
      OBVIOUS
    <3>2. (n \div 256) % 256 \in Nat
      BY <1>2
    <3>3. v[z + 1] = (n \div 256) % 256
      BY <2>1, <3>1, <3>2
    <3>4. QED
      BY <1>6, <1>8, <3>3
  <2>3. v[z + 2] = n
    <3>1. v[z + 2] = 256 * (n \div 256) + ((n \div 1) % 256)
      BY <2>1, <2>2
    <3>2. QED
      BY <1>6, <3>1
  <2>4. QED
    BY <1>3, <1>8, <2>3
<1>9. CASE k = 3
  <2>1. /\ v[z + 1] = 256 * v[z] + ((n \div 65536) % 256)
        /\ v[z + 2] = 256 * v[z + 1] + ((n \div 256) % 256)
        /\ v[z + 3] = 256 * v[z + 2] + ((n \div 1) % 256)
    <3>1. /\ 1 \in 1 .. k /\ z + 1 - 1 = z /\ k - 1 + 1 = 3 /\ 2 \in 1 .. k /\ z + 2 - 1 = z + 1 /\ k - 2 + 1 = 2
          /\ 3 \in 1 .. k /\ z + 3 - 1 = z + 2 /\ k - 3 + 1 = 1
      BY <1>9
    <3>2. QED
      BY <1>4, <1>5, <3>1
  <2>2. v[z + 1] = n \div 65536
    <3>1. 256 * v[z] = 0
      OBVIOUS
    <3>2. (n \div 65536) % 256 \in Nat
      BY <1>2
    <3>3. v[z + 1] = (n \div 65536) % 256
      BY <2>1, <3>1, <3>2
    <3>4. QED
      BY <1>6, <1>9, <3>3
  <2>3. v[z + 2] = n \div 256
    <3>1. v[z + 2] = 256 * (n \div 65536) + ((n \div 256) % 256)
      BY <2>1, <2>2
    <3>2. QED
      BY <1>6, <3>1
  <2>4. v[z + 3] = n
    <3>1. v[z + 3] = 256 * (n \div 256) + ((n \div 1) % 256)
      BY <2>1, <2>3
    <3>2. QED
      BY <1>6, <3>1
  <2>5. QED
    BY <1>3, <1>9, <2>4
<1>10. CASE k = 4
  <2>1. /\ v[z + 1] = 256 * v[z] + ((n \div 16777216) % 256)
        /\ v[z + 2] = 256 * v[z + 1] + ((n \div 65536) % 256)
        /\ v[z + 3] = 256 * v[z + 2] + ((n \div 256) % 256)
        /\ v[z + 4] = 256 * v[z + 3] + ((n \div 1) % 256)
    <3>1. v[z + 1] = 256 * v[z] + ((n \div 16777216) % 256)
      <4>1. 1 \in 1 .. k /\ z + 1 - 1 = z /\ k - 1 + 1 = 4
        BY <1>10
      <4>2. QED
        BY <1>4, <1>5, <4>1
    <3>2. v[z + 2] = 256 * v[z + 1] + ((n \div 65536) % 256)
      <4>1. 2 \in 1 .. k /\ z + 2 - 1 = z + 1 /\ k - 2 + 1 = 3
        BY <1>10
      <4>2. QED
        BY <1>4, <1>5, <4>1
    <3>3. v[z + 3] = 256 * v[z + 2] + ((n \div 256) % 256)
      <4>1. 3 \in 1 .. k /\ z + 3 - 1 = z + 2 /\ k - 3 + 1 = 2
        BY <1>10
      <4>2. QED
        BY <1>4, <1>5, <4>1
    <3>4. v[z + 4] = 256 * v[z + 3] + ((n \div 1) % 256)
      <4>1. 4 \in 1 .. k /\ z + 4 - 1 = z + 3 /\ k - 4 + 1 = 1
        BY <1>10
      <4>2. QED
        BY <1>4, <1>5, <4>1
    <3>5. QED
      BY <3>1, <3>2, <3>3, <3>4
  <2>2. v[z + 1] = n \div 16777216
    <3>1. 256 * v[z] = 0
      OBVIOUS
    <3>2. (n \div 16777216) % 256 \in Nat
      BY <1>2
    <3>3. v[z + 1] = (n \div 16777216) % 256
      BY <2>1, <3>1, <3>2
    <3>4. QED
      BY <1>6, <3>3
  <2>3. v[z + 2] = n \div 65536
    <3>1. v[z + 2] = 256 * (n \div 16777216) + ((n \div 65536) % 256)
      BY <2>1, <2>2
    <3>2. QED
      BY <1>6, <3>1
  <2>4. v[z + 3] = n \div 256
    <3>1. v[z + 3] = 256 * (n \div 65536) + ((n \div 256) % 256)
      BY <2>1, <2>3
    <3>2. QED
      BY <1>6, <3>1
  <2>5. v[z + 4] = n
    <3>1. v[z + 4] = 256 * (n \div 256) + ((n \div 1) % 256)
      BY <2>1, <2>4
    <3>2. QED
      BY <1>6, <3>1
  <2>6. QED
    BY <1>3, <1>10, <2>5
<1>11. QED
  BY <1>7, <1>8, <1>9, <1>10

\* The octets of an integer: five only for numbers of 32 bits.
LEMMA IntForm ==
  ASSUME NEW n \in Word
  PROVE  /\ IntOctets(n) \in Seq(Nat)
         /\ n \in Int31 => Len(IntOctets(n)) <= 4
         /\ IntOctets(n) = Octets(n) \/ IntOctets(n) = <<0>> \o Octets(n)
         /\ Octets(n) \in Seq(Nat)
<1>1. n \in Nat /\ n \div 65536 < 65536
  BY DEF Word
<1>2. PICK k \in 1 .. 4 :
           /\ k = 1 => n < 256
           /\ k = 2 => n < 65536
           /\ k = 3 => n < 16777216
           /\ Octets(n) \in Seq(Nat)
           /\ Len(Octets(n)) = k
           /\ \A i \in 1 .. k : Octets(n)[i] = (n \div Bytes[k - i + 1]) % 256
  BY OctetsForm DEF IsBigEndian
<1>3. <<0>> \o Octets(n) \in Seq(Nat) /\ Len(<<0>> \o Octets(n)) = 1 + k
  BY <1>2
<1>4. n \in Int31 /\ k = 4 => ~(Octets(n)[1] >= 128)
  <2> SUFFICES ASSUME n \in Int31, k = 4 PROVE ~(Octets(n)[1] >= 128)
    OBVIOUS
  <2>1. Bytes[4] = 16777216
    BY DEF Bytes
  <2>2. Octets(n)[1] = (n \div 16777216) % 256
    <3>1. k - 1 + 1 = 4 /\ 1 \in 1 .. k
      OBVIOUS
    <3>2. QED
      BY <1>2, <2>1, <3>1
  <2>3. n \div 65536 < 32768
    BY DEF Int31
  <2>4. QED
    BY <1>1, <2>2, <2>3
<1>5. QED
  BY <1>2, <1>3, <1>4 DEF IntOctets

\* ParseInt reads the number that IntOctets wrote.
LEMMA IntRead ==
  ASSUME NEW b \in Seq(Nat), NEW p \in Nat \ {0}, NEW n \in Word, Holds(b, p, IntOctets(n))
  PROVE  ParseInt(b, p, Len(IntOctets(n))) = [at |-> p + Len(IntOctets(n)), val |-> n]
<1> DEFINE o == Octets(n)
           c == IntOctets(n)
           v == IntValue(b, p, Len(c))
<1>1. o \in Seq(Nat) /\ c \in Seq(Nat) /\ (c = o \/ c = <<0>> \o o)
  BY IntForm
<1>2. Len(c) \in Nat /\ Len(o) \in Nat
  BY <1>1
<1>3. IsIntValue(v, b, p, Len(c))
  BY <1>2, IntLoop
<1>4. \A k \in 1 .. Len(c) : At(b, p + k - 1) = c[k]
  BY <1>1, AtHeld
<1>5. Holds(b, p, c)
  OBVIOUS
<1>6. IsBigEndian(o, n)
  BY OctetsForm
<1> HIDE DEF o, c, v
<1>7. v[Len(c)] = n
  <2>1. CASE c = o
    <3>1. v[0] = 0 /\ Len(c) = 0 + Len(o) /\ 0 \in Nat
      BY <1>2, <1>3, <2>1 DEF IsIntValue
    <3>2. Holds(b, p + 0, o)
      <4>1. p + 0 = p
        OBVIOUS
      <4>2. QED
        BY <1>5, <2>1, <4>1
    <3>3. QED
      BY <1>2, <1>3, <1>6, <3>1, <3>2, DigitsRead
  <2>2. CASE c = <<0>> \o o
    <3>1. Len(c) = 1 + Len(o) /\ c[1] = 0 /\ \A i \in 1 .. Len(o) : c[i + 1] = o[i]
      BY <1>1, <2>2
    <3>2. v[1] = 0
      <4>1. 1 \in 1 .. Len(c) /\ p + 1 - 1 = p
        BY <1>2, <3>1
      <4>2. v[0] = 0 /\ v[1] = 256 * v[0] + At(b, p)
        BY <1>3, <4>1 DEF IsIntValue
      <4>3. At(b, p) = 0
        BY <1>4, <3>1, <4>1
      <4>4. QED
        BY <4>2, <4>3
    <3>3. Holds(b, p + 1, o)
      <4>1. <<0>> \in Seq(Nat) /\ Len(<<0>>) = 1 /\ Holds(b, p, <<0>> \o o)
        BY <1>5, <2>2
      <4>2. Holds(b, p + Len(<<0>>), o)
        BY <1>1, <4>1, HeldParts
      <4>3. QED
        BY <4>1, <4>2
    <3>4. QED
      BY <1>2, <1>3, <1>6, <3>1, <3>2, <3>3, DigitsRead
  <2>3. QED
    BY <1>1, <2>1, <2>2
<1>8. QED
  BY <1>7 DEF ParseInt, v, c

\* The octets of an address.
LEMMA AddressForm ==
  ASSUME NEW n \in Word
  PROVE  /\ AddressOctets(n) \in Seq(Nat)
         /\ Len(AddressOctets(n)) = 4
         /\ IsBigEndian(AddressOctets(n), n)
<1> DEFINE c == AddressOctets(n)
<1>1. n \in Nat
  BY DEF Word
<1>2. Bytes[1] = 1 /\ Bytes[2] = 256 /\ Bytes[3] = 65536 /\ Bytes[4] = 16777216
  BY DEF Bytes
<1>3. \A i \in 1 .. 4 : (n \div Bytes[5 - i]) % 256 \in Nat
  <2> SUFFICES ASSUME NEW i \in 1 .. 4 PROVE (n \div Bytes[5 - i]) % 256 \in Nat
    OBVIOUS
  <2>1. 5 - i \in {1, 2, 3, 4}
    OBVIOUS
  <2>2. PICK m \in Nat \ {0} : m = Bytes[5 - i]
    BY <1>2, <2>1
  <2>3. n \div m \in Nat
    BY <1>1
  <2>4. QED
    BY <2>2, <2>3
<1>4. c \in Seq(Nat) /\ Len(c) = 4
  <2> DEFINE d(i) == (n \div Bytes[5 - i]) % 256
  <2>1. c = [i \in 1 .. 4 |-> d(i)] /\ \A i \in 1 .. 4 : d(i) \in Nat
    BY <1>3 DEF AddressOctets
  <2> HIDE DEF c, d
  <2>2. QED
    BY <2>1
<1>5. \A i \in 1 .. 4 : c[i] = (n \div Bytes[4 - i + 1]) % 256
  <2> SUFFICES ASSUME NEW i \in 1 .. 4 PROVE c[i] = (n \div Bytes[4 - i + 1]) % 256
    OBVIOUS
  <2>1. 5 - i = 4 - i + 1
    OBVIOUS
  <2>2. QED
    BY <2>1 DEF AddressOctets
<1>6. IsBigEndian(c, n)
  BY <1>4, <1>5 DEF IsBigEndian
<1>7. QED
  BY <1>4, <1>6

\* ParseIP reads the address.
LEMMA AddressRead ==
  ASSUME NEW b \in Seq(Nat), NEW p \in Nat \ {0}, NEW n \in Word, NEW c \in Seq(Nat),
         IsBigEndian(c, n), Holds(b, p, c)
  PROVE  ParseInt(b, p, Len(c)) = [at |-> p + Len(c), val |-> n]
<1> DEFINE v == IntValue(b, p, Len(c))
<1>1. Len(c) \in Nat /\ 0 \in Nat
  OBVIOUS
<1>2. IsIntValue(v, b, p, Len(c))
  BY <1>1, IntLoop
<1>3. v[0] = 0 /\ Len(c) = 0 + Len(c)
  BY <1>1, <1>2 DEF IsIntValue
<1>4. Holds(b, p + 0, c)
  <2>1. p + 0 = p
    OBVIOUS
  <2>2. QED
    BY <2>1
<1> HIDE DEF v
<1>5. v[Len(c)] = n
  BY <1>1, <1>2, <1>3, <1>4, DigitsRead
<1>6. QED
  BY <1>5 DEF ParseInt, v

-----------------------------------------------------------------------------
(* Elements that lie one behind the other. *)

\* Each of the sequences lies in what b holds, one behind the other, from q[k - 1] to q[k].
IsPlaced(q, b, p, seqs) ==
  /\ q \in [0 .. Len(seqs) -> Nat \ {0}]
  /\ q[0] = p
  /\ \A k \in 1 .. Len(seqs) : q[k] = q[k - 1] + Len(seqs[k]) /\ Holds(b, q[k - 1], seqs[k])

\* What holds the sequences put together holds each of them.
LEMMA FlattenHeld ==
  ASSUME NEW b \in Seq(Nat), NEW p \in Nat \ {0}, NEW seqs \in Seq(Seq(Nat)), Holds(b, p, FlattenSeq(seqs))
  PROVE  \E q : IsPlaced(q, b, p, seqs) /\ q[Len(seqs)] = p + Len(FlattenSeq(seqs))
<1> DEFINE n == Len(seqs)
<1>1. n \in Nat /\ \A k \in 1 .. n : seqs[k] \in Seq(Nat)
  OBVIOUS
<1>2. PICK g : IsFlattening(g, seqs) /\ FlattenSeq(seqs) = g[n]
  BY FlattenLoop
<1>3. /\ \A k \in 0 .. n : g[k] \in Seq(Nat)
      /\ g[0] = <<>>
      /\ \A k \in 1 .. n : g[k] = g[k - 1] \o seqs[k]
  BY <1>2 DEF IsFlattening
<1>4. ASSUME NEW k \in 1 .. n, Holds(b, p, g[k])
      PROVE  /\ Holds(b, p, g[k - 1])
             /\ Holds(b, p + Len(g[k - 1]), seqs[k])
  <2>1. k - 1 \in 0 .. n
    BY <1>1
  <2>2. PICK s \in Seq(Nat), t \in Seq(Nat) : s = g[k - 1] /\ t = seqs[k]
    BY <1>1, <1>3, <2>1
  <2>3. Holds(b, p, s \o t)
    BY <1>3, <1>4, <2>2
  <2>4. Holds(b, p, s) /\ Holds(b, p + Len(s), t)
    BY <2>3, HeldParts
  <2>5. QED
    BY <2>2, <2>4
<1>5. \A k \in 0 .. n : Holds(b, p, g[k])
  <2> DEFINE P == {j \in Nat : j <= n => Holds(b, p, g[n - j])}
  <2>1. 0 \in P
    <3>1. n - 0 = n /\ Holds(b, p, g[n])
      BY <1>1, <1>2
    <3>2. QED
      BY <3>1
  <2>2. ASSUME NEW j \in Nat, j \in P PROVE j + 1 \in P
    <3>1. CASE j + 1 <= n
      <4>1. n - j \in 1 .. n /\ (n - j) - 1 = n - (j + 1) /\ j <= n
        BY <1>1, <3>1
      <4>2. Holds(b, p, g[n - j])
        BY <2>2, <4>1
      <4>3. Holds(b, p, g[(n - j) - 1])
        BY <1>4, <4>1, <4>2
      <4>4. QED
        BY <4>1, <4>3
    <3>2. CASE ~(j + 1 <= n)
      BY <3>2
    <3>3. QED
      BY <3>1, <3>2
  <2>3. \A j \in Nat : j \in P
    <3> HIDE DEF P
    <3>1. QED
      BY <2>1, <2>2, InductionOnSet
  <2>4. ASSUME NEW k \in 0 .. n PROVE Holds(b, p, g[k])
    <3>1. n - k \in Nat /\ n - k <= n /\ n - (n - k) = k
      BY <1>1
    <3>2. QED
      BY <2>3, <3>1
  <2>5. QED
    BY <2>4
<1> DEFINE q == [k \in 0 .. n |-> p + Len(g[k])]
<1>6. q \in [0 .. n -> Nat \ {0}]
  <2>1. \A k \in 0 .. n : p + Len(g[k]) \in Nat \ {0}
    <3> SUFFICES ASSUME NEW k \in 0 .. n PROVE p + Len(g[k]) \in Nat \ {0}
      OBVIOUS
    <3>1. PICK s \in Seq(Nat) : s = g[k]
      BY <1>3
    <3>2. Len(s) \in Nat
      OBVIOUS
    <3>3. QED
      BY <3>1, <3>2
  <2>2. QED
    BY <2>1
<1>7. q[0] = p
  <2>1. 0 \in 0 .. n
    BY <1>1
  <2>2. q[0] = p + Len(g[0])
    BY <2>1
  <2>3. Len(g[0]) = 0
    BY <1>3
  <2> HIDE DEF q
  <2>4. QED
    BY <2>2, <2>3
<1>8. ASSUME NEW k \in 1 .. n PROVE q[k] = q[k - 1] + Len(seqs[k]) /\ Holds(b, q[k - 1], seqs[k])
  <2>1. k - 1 \in 0 .. n /\ k \in 0 .. n
    BY <1>1
  <2>2. PICK s \in Seq(Nat), t \in Seq(Nat) : s = g[k - 1] /\ t = seqs[k]
    BY <1>1, <1>3, <2>1
  <2>3. g[k] = s \o t
    BY <1>3, <2>2
  <2>4. Len(s \o t) = Len(s) + Len(t) /\ Len(s) \in Nat /\ Len(t) \in Nat
    OBVIOUS
  <2>5. q[k] = p + Len(s \o t) /\ q[k - 1] = p + Len(s)
    BY <2>1, <2>2, <2>3
  <2>6. q[k] = q[k - 1] + Len(t)
    <3>1. p + (Len(s) + Len(t)) = (p + Len(s)) + Len(t)
      BY <2>4
    <3> HIDE DEF q
    <3>2. q[k] = p + (Len(s) + Len(t))
      BY <2>4, <2>5
    <3>3. QED
      BY <2>5, <3>1, <3>2
  <2>7. Holds(b, p + Len(g[k - 1]), seqs[k])
    BY <1>4, <1>5, <2>1
  <2>8. q[k - 1] = p + Len(g[k - 1])
    BY <2>1
  <2>9. QED
    BY <2>2, <2>6, <2>7, <2>8
<1>9. q[n] = p + Len(FlattenSeq(seqs))
  <2>1. n \in 0 .. n
    BY <1>1
  <2>2. QED
    BY <1>2, <2>1
<1> HIDE DEF q
<1>10. IsPlaced(q, b, p, seqs)
  BY <1>6, <1>7, <1>8 DEF IsPlaced
<1>11. QED
  BY <1>9, <1>10

\* The sequences put together are a sequence of the same elements.
LEMMA FlattenForm ==
  ASSUME NEW seqs \in Seq(Seq(Nat))
  PROVE  FlattenSeq(seqs) \in Seq(Nat)
<1>1. PICK g : IsFlattening(g, seqs) /\ FlattenSeq(seqs) = g[Len(seqs)]
  BY FlattenLoop
<1>2. Len(seqs) \in 0 .. Len(seqs)
  OBVIOUS
<1>3. QED
  BY <1>1, <1>2 DEF IsFlattening

-----------------------------------------------------------------------------
(* Object identifiers. *)

\* c are the septets of v, the most significant first, all but the last with bit 8 set.
IsSeptets(c, v) ==
  \E k \in 1 .. 5 :
    /\ k = 1 => v < 128
    /\ k = 2 => v < 16384
    /\ k = 3 => v < 2097152
    /\ k = 4 => v < 268435456
    /\ c \in Seq(Nat)
    /\ Len(c) = k
    /\ \A i \in 1 .. k : c[i] = ((v \div Septets[k - i + 1]) % 128) + (IF i < k THEN 128 ELSE 0)

\* The octets of one number of an identifier.
LEMMA SeptetsForm ==
  ASSUME NEW v \in Word
  PROVE  IsSeptets(Base128(v), v)
<1> DEFINE D(k) == (k = 1 \/ Septets[k] <= v) /\ (k = Len(Septets) \/ v < Septets[k + 1])
           k == Digits(v, Septets)
<1>1. v \in Nat
  BY DEF Word
<1>2. DOMAIN Septets = 1 .. 5 /\ Len(Septets) = 5
  BY DEF Septets
<1>3. Septets[1] = 1 /\ Septets[2] = 128 /\ Septets[3] = 16384 /\ Septets[4] = 2097152 /\ Septets[5] = 268435456
  BY DEF Septets
<1>4. \E j \in DOMAIN Septets : D(j)
  <2>1. CASE v < 128
    <3>1. D(1)
      BY <1>3, <2>1
    <3>2. QED
      BY <1>2, <3>1
  <2>2. CASE ~(v < 128) /\ v < 16384
    <3>1. D(2)
      BY <1>1, <1>3, <2>2
    <3>2. QED
      BY <1>2, <3>1
  <2>3. CASE ~(v < 16384) /\ v < 2097152
    <3>1. D(3)
      BY <1>1, <1>3, <2>3
    <3>2. QED
      BY <1>2, <3>1
  <2>4. CASE ~(v < 2097152) /\ v < 268435456
    <3>1. D(4)
      BY <1>1, <1>3, <2>4
    <3>2. QED
      BY <1>2, <3>1
  <2>5. CASE ~(v < 268435456)
    <3>1. D(5)
      BY <1>1, <1>2, <1>3, <2>5
    <3>2. QED
      BY <1>2, <3>1
  <2>6. QED
    BY <2>1, <2>2, <2>3, <2>4, <2>5
<1>5. k \in DOMAIN Septets /\ D(k)
  <2>1. k = CHOOSE j \in DOMAIN Septets : D(j)
    BY DEF Digits
  <2> HIDE DEF k, D
  <2>2. QED
    BY <1>4, <2>1
<1> DEFINE d(i) == ((v \div Septets[k - i + 1]) % 128) + (IF i < k THEN 128 ELSE 0)
<1>6. Base128(v) = [i \in 1 .. k |-> d(i)]
  BY DEF Base128
<1> HIDE DEF k
<1>7. k \in 1 .. 5
  BY <1>2, <1>5
<1>8. /\ k = 1 => v < 128
      /\ k = 2 => v < 16384
      /\ k = 3 => v < 2097152
      /\ k = 4 => v < 268435456
  BY <1>2, <1>3, <1>5
<1>9. \A i \in 1 .. k : d(i) \in Nat
  <2> SUFFICES ASSUME NEW i \in 1 .. k PROVE d(i) \in Nat
    OBVIOUS
  <2>1. Septets[k - i + 1] \in Nat \ {0}
    <3>1. k - i + 1 \in {1, 2, 3, 4, 5}
      BY <1>7
    <3>2. QED
      BY <1>3, <3>1
  <2>2. PICK m \in Nat \ {0} : m = Septets[k - i + 1]
    BY <2>1
  <2>3. (v \div m) % 128 \in Nat
    BY <1>1
  <2>4. QED
    BY <2>2, <2>3
<1>10. QED
  <2> DEFINE c == Base128(v)
  <2>1. k \in Nat
    BY <1>7
  <2>2. c = [i \in 1 .. k |-> d(i)] /\ \A i \in 1 .. k : d(i) \in Nat
    BY <1>6, <1>9
  <2> HIDE DEF c, d
  <2>3. c \in Seq(Nat) /\ Len(c) = k /\ \A i \in 1 .. k : c[i] = d(i)
    BY <2>1, <2>2
  <2>4. QED
    BY <1>7, <1>8, <2>3 DEF c, d, IsSeptets

\* What the loop of ParseOid has read: seven bits more make the next number.
LEMMA NextSeptet ==
  ASSUME NEW v \in Nat
  PROVE  /\ 128 * (v \div 268435456) + ((v \div 2097152) % 128) = v \div 2097152
         /\ 128 * (v \div 2097152) + ((v \div 16384) % 128) = v \div 16384
         /\ 128 * (v \div 16384) + ((v \div 128) % 128) = v \div 128
         /\ 128 * (v \div 128) + (v % 128) = v
         /\ v \div 1 = v
         /\ v < 128 => v % 128 = v
         /\ v < 16384 => (v \div 128) % 128 = v \div 128
         /\ v < 2097152 => (v \div 16384) % 128 = v \div 16384
         /\ v < 268435456 => (v \div 2097152) % 128 = v \div 2097152
         /\ v \div 65536 < 65536 => (v \div 268435456) % 128 = v \div 268435456
<1>1. 128 * (v \div 268435456) + ((v \div 2097152) % 128) = v \div 2097152
  OBVIOUS
<1>2. 128 * (v \div 2097152) + ((v \div 16384) % 128) = v \div 16384
  OBVIOUS
<1>3. 128 * (v \div 16384) + ((v \div 128) % 128) = v \div 128
  OBVIOUS
<1>4. 128 * (v \div 128) + (v % 128) = v /\ v \div 1 = v
  OBVIOUS
<1>5. v < 128 => v % 128 = v
  OBVIOUS
<1>6. v < 16384 => (v \div 128) % 128 = v \div 128
  OBVIOUS
<1>7. v < 2097152 => (v \div 16384) % 128 = v \div 16384
  OBVIOUS
<1>8. v < 268435456 => (v \div 2097152) % 128 = v \div 2097152
  OBVIOUS
<1>9. v \div 65536 < 65536 => (v \div 268435456) % 128 = v \div 268435456
  OBVIOUS
<1>10. QED
  BY <1>1, <1>2, <1>3, <1>4, <1>5, <1>6, <1>7, <1>8, <1>9

\* The states of the loop of ParseOid.
OidStates == [oids : Seq(Nat), val : Nat, more : BOOLEAN]

\* w is the state after each of n octets from p on.
IsOidState(w, b, p, n) ==
  /\ w \in [0 .. n -> OidStates]
  /\ w[0] = [oids |-> <<>>, val |-> 0, more |-> FALSE]
  /\ \A k \in 1 .. n : w[k] = AddOctet(w[k - 1], At(b, p + k - 1))

\* A round leads from a state to a state.
LEMMA AddOctetStays ==
  ASSUME NEW s \in OidStates, NEW o \in Nat
  PROVE  AddOctet(s, o) \in OidStates
<1>1. s.oids \in Seq(Nat) /\ s.val \in Nat
  BY DEF OidStates
<1>2. 128 * s.val + (o % 128) \in Nat
  BY <1>1
<1>3. \A x \in Seq(Nat), y \in Nat : AddArc(x, y) \in Seq(Nat)
  BY DEF AddArc
<1>4. QED
  BY <1>1, <1>2, <1>3 DEF AddOctet, OidStates

\* The loop of ParseOid.
LEMMA OidLoop ==
  ASSUME NEW b \in Seq(Nat), NEW p \in Nat, NEW n \in Nat
  PROVE  IsOidState(OidState(b, p, n), b, p, n)
<1> DEFINE s0 == [oids |-> <<>>, val |-> 0, more |-> FALSE]
           Round == [k \in Nat |-> [s \in OidStates |-> AddOctet(s, At(b, p + k - 1))]]
           T(v) == v = [k \in 0 .. n |-> IF k = 0 THEN s0 ELSE AddOctet(v[k - 1], At(b, p + k - 1))]
<1>1. \A k \in Nat, s \in OidStates : AddOctet(s, At(b, p + k - 1)) \in OidStates
  <2>1. \A k \in Nat : At(b, p + k - 1) \in Nat
    BY AtIsNumber
  <2>2. QED
    BY <2>1, AddOctetStays
<1>2. Round \in [Nat -> [OidStates -> OidStates]]
  BY <1>1, Zenon
<1>3. s0 \in OidStates
  BY DEF OidStates
<1>4. PICK v \in [0 .. n -> OidStates] : IsRun(v, s0, Round, n)
  <2> HIDE DEF Round, s0
  <2>1. QED
    BY <1>2, <1>3, LoopStates
<1>5. \E f : T(f)
  <2>1. \A k \in 1 .. n : v[k] = AddOctet(v[k - 1], At(b, p + k - 1))
    <3> SUFFICES ASSUME NEW k \in 1 .. n PROVE v[k] = AddOctet(v[k - 1], At(b, p + k - 1))
      OBVIOUS
    <3>1. k \in Nat /\ k - 1 \in 0 .. n
      OBVIOUS
    <3>2. v[k - 1] \in OidStates
      BY <3>1, Zenon
    <3>3. v[k] = Round[k][v[k - 1]]
      BY <1>4, Zenon DEF IsRun
    <3>4. QED
      BY <3>1, <3>2, <3>3, Zenon
  <2>2. v[0] = s0
    BY <1>4 DEF IsRun
  <2> DEFINE e(k) == IF k = 0 THEN s0 ELSE AddOctet(v[k - 1], At(b, p + k - 1))
  <2>3. \A k \in 0 .. n : v[k] = e(k)
    <3> SUFFICES ASSUME NEW k \in 0 .. n PROVE v[k] = e(k)
      OBVIOUS
    <3>1. k = 0 \/ (k # 0 /\ k \in 1 .. n)
      OBVIOUS
    <3>2. QED
      BY <2>1, <2>2, <3>1, Zenon
  <2>4. v = [k \in 0 .. n |-> v[k]]
    OBVIOUS
  <2> HIDE DEF e
  <2>5. v = [k \in 0 .. n |-> e(k)]
    BY <2>3, <2>4, Zenon
  <2>6. T(v)
    BY <2>5, Zenon DEF e
  <2>7. QED
    BY <2>6
<1> DEFINE w == OidState(b, p, n)
<1>6. w = CHOOSE f : T(f)
  BY DEF OidState
<1>7. T(w)
  <2> HIDE DEF T, w
  <2>1. T(CHOOSE f : T(f))
    BY <1>5
  <2>2. QED
    BY <1>6, <2>1
<1> HIDE DEF w, s0
<1>8. DOMAIN w = 0 .. n /\ w = [k \in 0 .. n |-> w[k]]
  BY <1>7
<1>9. w[0] = s0
  BY <1>7
<1>10. \A k \in 1 .. n : w[k] = AddOctet(w[k - 1], At(b, p + k - 1))
  <2> SUFFICES ASSUME NEW k \in 1 .. n PROVE w[k] = AddOctet(w[k - 1], At(b, p + k - 1))
    OBVIOUS
  <2>1. k \in 0 .. n /\ k # 0
    OBVIOUS
  <2>2. QED
    BY <1>7, <2>1, Zenon
<1>11. w \in [0 .. n -> OidStates]
  <2>1. w[0] \in OidStates
    BY <1>3, <1>9
  <2>2. ASSUME NEW k \in 1 .. n, w[k - 1] \in OidStates PROVE w[k] \in OidStates
    <3>1. k \in Nat
      OBVIOUS
    <3>2. QED
      BY <1>1, <1>10, <2>2, <3>1, Zenon
  <2>3. \A k \in 1 .. n : w[k - 1] \in OidStates => w[k] \in OidStates
    BY <2>2
  <2>4. QED
    BY <1>8, <2>1, <2>3, LoopInvariant
<1>12. QED
  BY <1>9, <1>10, <1>11 DEF IsOidState, s0, w

\* What one octet does to the state: the value goes on or ends with it.
LEMMA OctetAdded ==
  ASSUME NEW s, s.val \in Nat, NEW d \in 0 .. 127
  PROVE  /\ AddOctet(s, d + 128) = [oids |-> s.oids, val |-> 128 * s.val + d, more |-> TRUE]
         /\ AddOctet(s, d) = [oids |-> AddArc(s.oids, 128 * s.val + d), val |-> 0, more |-> FALSE]
<1>1. (d + 128) % 128 = d /\ d % 128 = d /\ d + 128 >= 128 /\ ~(d >= 128)
  OBVIOUS
<1>2. QED
  BY <1>1 DEF AddOctet

\* s is what the octets c of a number v add up to, octet by octet.
AddUp(s, c, v) ==
  /\ Len(c) \in 1 .. 5 /\ c \in Seq(Nat)
  /\ s \in [0 .. Len(c) -> Nat]
  /\ s[0] = 0 /\ s[Len(c)] = v
  /\ \A i \in 1 .. Len(c) : \E d \in 0 .. 127 :
       /\ 128 * s[i - 1] + d = s[i]
       /\ c[i] = IF i < Len(c) THEN d + 128 ELSE d

\* The septets of a number give the number, one after the other.
LEMMA SeptetsSum ==
  ASSUME NEW v \in Word, NEW c, IsSeptets(c, v)
  PROVE  \E s : AddUp(s, c, v)
<1> DEFINE Val(i, k) == IF i = 0 THEN 0 ELSE v \div Septets[k - i + 1]
<1>1. v \in Nat /\ v \div 65536 < 65536
  BY DEF Word
<1>2. Septets[1] = 1 /\ Septets[2] = 128 /\ Septets[3] = 16384 /\ Septets[4] = 2097152 /\ Septets[5] = 268435456
  BY DEF Septets
<1>3. PICK k \in 1 .. 5 :
        /\ k = 1 => v < 128
        /\ k = 2 => v < 16384
        /\ k = 3 => v < 2097152
        /\ k = 4 => v < 268435456
        /\ c \in Seq(Nat)
        /\ Len(c) = k
        /\ \A i \in 1 .. k : c[i] = ((v \div Septets[k - i + 1]) % 128) + (IF i < k THEN 128 ELSE 0)
  BY DEF IsSeptets
<1>4. \A s \in 1 .. 5 : v \div Septets[s] \in Nat
  <2>1. \A s \in 1 .. 5 : s \in {1, 2, 3, 4, 5}
    OBVIOUS
  <2>2. v \div 1 \in Nat /\ v \div 128 \in Nat /\ v \div 16384 \in Nat /\ v \div 2097152 \in Nat /\ v \div 268435456 \in Nat
    BY <1>1
  <2>3. QED
    BY <1>2, <2>1, <2>2
<1>5. \A s \in 1 .. 4 : 128 * (v \div Septets[s + 1]) + ((v \div Septets[s]) % 128) = v \div Septets[s]
  <2>1. \A s \in 1 .. 4 : s \in {1, 2, 3, 4}
    OBVIOUS
  <2>2. \A s \in {1, 2, 3, 4} : 128 * (v \div Septets[s + 1]) + ((v \div Septets[s]) % 128) = v \div Septets[s]
    <3>1. 128 * (v \div Septets[2]) + ((v \div Septets[1]) % 128) = v \div Septets[1]
      BY <1>1, <1>2, NextSeptet
    <3>2. 128 * (v \div Septets[3]) + ((v \div Septets[2]) % 128) = v \div Septets[2]
      BY <1>1, <1>2, NextSeptet
    <3>3. 128 * (v \div Septets[4]) + ((v \div Septets[3]) % 128) = v \div Septets[3]
      BY <1>1, <1>2, NextSeptet
    <3>4. 128 * (v \div Septets[5]) + ((v \div Septets[4]) % 128) = v \div Septets[4]
      BY <1>1, <1>2, NextSeptet
    <3>5. 1 + 1 = 2 /\ 2 + 1 = 3 /\ 3 + 1 = 4 /\ 4 + 1 = 5
      OBVIOUS
    <3>6. QED
      BY <3>1, <3>2, <3>3, <3>4, <3>5
  <2>3. QED
    BY <2>1, <2>2
<1>6. (v \div Septets[k]) % 128 = v \div Septets[k]
  <2>1. CASE k = 1
    BY <1>1, <1>2, <1>3, <2>1, NextSeptet
  <2>2. CASE k = 2
    <3>1. (v \div 128) % 128 = v \div 128
      BY <1>1, <1>3, <2>2, NextSeptet
    <3>2. QED
      BY <1>2, <2>2, <3>1
  <2>3. CASE k = 3
    <3>1. (v \div 16384) % 128 = v \div 16384
      BY <1>1, <1>3, <2>3, NextSeptet
    <3>2. QED
      BY <1>2, <2>3, <3>1
  <2>4. CASE k = 4
    <3>1. (v \div 2097152) % 128 = v \div 2097152
      BY <1>1, <1>3, <2>4, NextSeptet
    <3>2. QED
      BY <1>2, <2>4, <3>1
  <2>5. CASE k = 5
    <3>1. (v \div 268435456) % 128 = v \div 268435456
      BY <1>1, NextSeptet
    <3>2. QED
      BY <1>2, <2>5, <3>1
  <2>6. QED
    BY <2>1, <2>2, <2>3, <2>4, <2>5
<1>7. Val(k, k) = v
  <2>1. k - k + 1 = 1 /\ k # 0
    OBVIOUS
  <2>2. QED
    BY <1>1, <1>2, <2>1, NextSeptet
<1>8. \A i \in 0 .. k : Val(i, k) \in Nat
  <2>1. \A i \in 0 .. k : i # 0 => k - i + 1 \in 1 .. 5
    OBVIOUS
  <2>2. QED
    BY <1>4, <2>1
<1>9. ASSUME NEW i \in 1 .. k
      PROVE  \E d \in 0 .. 127 : 128 * Val(i - 1, k) + d = Val(i, k) /\ c[i] = IF i < k THEN d + 128 ELSE d
  <2> DEFINE s == k - i + 1
             d == (v \div Septets[s]) % 128
  <2>1. s \in 1 .. 5 /\ i # 0
    OBVIOUS
  <2>2. d \in 0 .. 127
    <3>1. \A n \in Nat : n % 128 \in 0 .. 127
      OBVIOUS
    <3>2. QED
      BY <1>4, <2>1, <3>1
  <2>3. 128 * Val(i - 1, k) + d = Val(i, k)
    <3>1. CASE i = 1
      <4>1. s = k /\ i - 1 = 0
        BY <3>1
      <4>2. d = v \div Septets[k]
        BY <1>6, <4>1
      <4>3. Val(i, k) = v \div Septets[k] /\ Val(i - 1, k) = 0
        BY <2>1, <4>1
      <4> HIDE DEF d, Val
      <4>4. v \div Septets[k] \in Nat
        BY <1>4
      <4>5. QED
        BY <4>2, <4>3, <4>4
    <3>2. CASE i # 1
      <4>1. s \in 1 .. 4 /\ i - 1 # 0 /\ k - (i - 1) + 1 = s + 1
        BY <3>2
      <4>2. Val(i, k) = v \div Septets[s] /\ Val(i - 1, k) = v \div Septets[s + 1]
        BY <2>1, <4>1
      <4>3. 128 * (v \div Septets[s + 1]) + d = v \div Septets[s]
        BY <1>5, <4>1
      <4> HIDE DEF d, Val
      <4>4. QED
        BY <4>2, <4>3
    <3>3. QED
      BY <3>1, <3>2
  <2>4. c[i] = IF i < k THEN d + 128 ELSE d
    <3>1. c[i] = d + (IF i < k THEN 128 ELSE 0)
      BY <1>3
    <3> HIDE DEF d
    <3>2. QED
      BY <2>2, <3>1
  <2> HIDE DEF d, Val
  <2>5. QED
    BY <2>2, <2>3, <2>4
<1>10. Len(c) = k /\ c \in Seq(Nat)
  BY <1>3
<1>11. QED
  <2> DEFINE g == [i \in 0 .. k |-> Val(i, k)]
  <2>1. g \in [0 .. k -> Nat]
    BY <1>8
  <2>2. \A i \in 0 .. k : g[i] = Val(i, k)
    OBVIOUS
  <2>3. Val(0, k) = 0
    OBVIOUS
  <2> HIDE DEF g, Val
  <2>4. g[0] = 0 /\ g[k] = v
    <3>1. 0 \in 0 .. k /\ k \in 0 .. k
      OBVIOUS
    <3>2. QED
      BY <1>7, <2>2, <2>3, <3>1
  <2>5. \A i \in 1 .. k : g[i] = Val(i, k) /\ g[i - 1] = Val(i - 1, k)
    <3>1. \A i \in 1 .. k : i \in 0 .. k /\ i - 1 \in 0 .. k
      OBVIOUS
    <3>2. QED
      BY <2>2, <3>1
  <2>6. \A i \in 1 .. k : \E d \in 0 .. 127 : 128 * g[i - 1] + d = g[i] /\ c[i] = IF i < k THEN d + 128 ELSE d
    <3> SUFFICES ASSUME NEW i \in 1 .. k
                 PROVE  \E d \in 0 .. 127 : 128 * g[i - 1] + d = g[i] /\ c[i] = IF i < k THEN d + 128 ELSE d
      OBVIOUS
    <3>1. PICK d \in 0 .. 127 : 128 * Val(i - 1, k) + d = Val(i, k) /\ c[i] = IF i < k THEN d + 128 ELSE d
      BY <1>9
    <3>2. QED
      BY <2>5, <3>1
  <2>7. AddUp(g, c, v)
    BY <1>10, <2>1, <2>4, <2>6 DEF AddUp
  <2>8. QED
    BY <2>7

\* Between two numbers: those so far are read, the next is not begun.
Ended(s, x) == s = [oids |-> x, val |-> 0, more |-> FALSE]

\* From the end of one number the loop of ParseOid comes to the end of the next.
LEMMA ArcRead ==
  ASSUME NEW b \in Seq(Nat), NEW p \in Nat \ {0}, NEW n \in Nat, NEW w, IsOidState(w, b, p, n),
         NEW v \in Word, NEW c, IsSeptets(c, v), NEW z \in Nat, z + Len(c) <= n, Holds(b, p + z, c),
         NEW x, Ended(w[z], x)
  PROVE  Ended(w[z + Len(c)], AddArc(x, v))
<1>1. PICK s : AddUp(s, c, v)
  BY SeptetsSum
<1>2. PICK k \in 1 .. 5 : k = Len(c)
  BY <1>1 DEF AddUp
<1> DEFINE P(i) == IF i < k THEN w[z + i] = [oids |-> x, val |-> s[i], more |-> i # 0]
                   ELSE w[z + i] = [oids |-> AddArc(x, v), val |-> 0, more |-> FALSE]
<1>3. /\ c \in Seq(Nat)
      /\ s \in [0 .. k -> Nat]
      /\ s[0] = 0 /\ s[k] = v
      /\ \A i \in 1 .. k : \E d \in 0 .. 127 :
           /\ 128 * s[i - 1] + d = s[i]
           /\ c[i] = IF i < k THEN d + 128 ELSE d
  BY <1>1, <1>2 DEF AddUp
<1>4. ASSUME NEW i \in 0 .. 4, i < k, P(i) PROVE P(i + 1)
  <2>1. i + 1 \in 1 .. k /\ i \in 0 .. k /\ i + 1 - 1 = i
    BY <1>1, <1>4, SMTT(20)
  <2>2. PICK d \in 0 .. 127 : 128 * s[i] + d = s[i + 1] /\ c[i + 1] = IF i + 1 < k THEN d + 128 ELSE d
    <3> DEFINE j == i + 1
    <3>1. j \in 1 .. k /\ j - 1 = i
      BY <2>1
    <3> HIDE DEF j
    <3>2. \E d \in 0 .. 127 : 128 * s[j - 1] + d = s[j] /\ c[j] = IF j < k THEN d + 128 ELSE d
      BY <1>3, <3>1
    <3>3. QED
      BY <3>1, <3>2 DEF j
  <2>3. w[z + i] = [oids |-> x, val |-> s[i], more |-> i # 0]
    BY <1>4
  <2>4. At(b, p + (z + (i + 1)) - 1) = c[i + 1]
    <3>1. p + z \in Nat \ {0} /\ p + z + (i + 1) - 1 = p + (z + (i + 1)) - 1
      OBVIOUS
    <3>2. \A j \in 1 .. Len(c) : At(b, p + z + j - 1) = c[j]
      BY <1>3, <3>1, AtHeld
    <3>3. QED
      BY <1>2, <2>1, <3>1, <3>2
  <2>5. w[z + (i + 1)] = AddOctet(w[z + i], c[i + 1])
    <3> DEFINE j == z + (i + 1)
    <3>1. j \in 1 .. n /\ j - 1 = z + i
      BY <1>2, <2>1
    <3>2. \A m \in 1 .. n : w[m] = AddOctet(w[m - 1], At(b, p + m - 1))
      BY DEF IsOidState
    <3> HIDE DEF j
    <3>3. w[j] = AddOctet(w[j - 1], At(b, p + j - 1))
      BY <3>1, <3>2
    <3>4. w[j] = AddOctet(w[z + i], At(b, p + j - 1))
      BY <3>1, <3>3
    <3>5. QED
      BY <2>4, <3>4 DEF j
  <2>6. s[i] \in Nat
    BY <1>3, <2>1
  <2>7. CASE i + 1 < k
    <3>1. c[i + 1] = d + 128
      BY <2>2, <2>7
    <3>2. w[z + (i + 1)] = [oids |-> x, val |-> s[i + 1], more |-> TRUE]
      <4>1. AddOctet(w[z + i], d + 128) = [oids |-> x, val |-> 128 * s[i] + d, more |-> TRUE]
        <5>1. w[z + i].val = s[i] /\ w[z + i].oids = x
          BY <2>3
        <5>2. w[z + i].val \in Nat
          BY <2>6, <5>1
        <5>3. PICK u : u = w[z + i]
          OBVIOUS
        <5>4. u.val \in Nat /\ u.val = s[i] /\ u.oids = x
          BY <5>1, <5>2, <5>3
        <5>5. /\ AddOctet(u, d + 128) = [oids |-> u.oids, val |-> 128 * u.val + d, more |-> TRUE]
              /\ AddOctet(u, d) = [oids |-> AddArc(u.oids, 128 * u.val + d), val |-> 0, more |-> FALSE]
          BY <5>4, OctetAdded
        <5>6. QED
          BY <5>3, <5>4, <5>5, Zenon
      <4>2. QED
        BY <2>2, <2>5, <3>1, <4>1
    <3>3. i + 1 # 0
      OBVIOUS
    <3>4. QED
      BY <2>7, <3>2, <3>3
  <2>8. CASE ~(i + 1 < k)
    <3>1. c[i + 1] = d /\ i + 1 = k
      BY <1>1, <1>4, <2>2, <2>8
    <3>2. w[z + (i + 1)] = [oids |-> AddArc(x, s[i + 1]), val |-> 0, more |-> FALSE]
      <4>1. AddOctet(w[z + i], d) = [oids |-> AddArc(x, 128 * s[i] + d), val |-> 0, more |-> FALSE]
        <5>1. w[z + i].val = s[i] /\ w[z + i].oids = x
          BY <2>3
        <5>2. w[z + i].val \in Nat
          BY <2>6, <5>1
        <5>3. PICK u : u = w[z + i]
          OBVIOUS
        <5>4. u.val \in Nat /\ u.val = s[i] /\ u.oids = x
          BY <5>1, <5>2, <5>3
        <5>5. /\ AddOctet(u, d + 128) = [oids |-> u.oids, val |-> 128 * u.val + d, more |-> TRUE]
              /\ AddOctet(u, d) = [oids |-> AddArc(u.oids, 128 * u.val + d), val |-> 0, more |-> FALSE]
          BY <5>4, OctetAdded
        <5>6. QED
          BY <5>3, <5>4, <5>5, Zenon
      <4>2. QED
        BY <2>2, <2>5, <3>1, <4>1
    <3>3. s[i + 1] = v
      BY <1>3, <3>1
    <3>4. QED
      BY <2>8, <3>2, <3>3
  <2>9. QED
    BY <2>7, <2>8
<1>5. P(0)
  <2>1. 0 < k /\ z + 0 = z
    BY <1>1
  <2>2. QED
    BY <1>3, <2>1 DEF Ended
<1>6. P(k)
  <2> HIDE DEF P
  <2>1. k \in {1, 2, 3, 4, 5}
    BY <1>1
  <2>2. \A i \in {0, 1, 2, 3, 4} : i < k /\ P(i) => P(i + 1)
    BY <1>4
  <2>3. /\ 0 < k => P(1)
        /\ 1 < k /\ P(1) => P(2)
        /\ 2 < k /\ P(2) => P(3)
        /\ 3 < k /\ P(3) => P(4)
        /\ 4 < k /\ P(4) => P(5)
    <3>1. 0 + 1 = 1 /\ 1 + 1 = 2 /\ 2 + 1 = 3 /\ 3 + 1 = 4 /\ 4 + 1 = 5
      OBVIOUS
    <3>2. QED
      BY <1>5, <2>2, <3>1
  <2>4. QED
    BY <2>1, <2>3
<1>7. QED
  BY <1>2, <1>6 DEF Ended

\* The parts stand in their order.
LEMMA PlacedOrder ==
  ASSUME NEW b, NEW p \in Nat, NEW seqs \in Seq(Seq(Nat)), NEW q, IsPlaced(q, b, p, seqs)
  PROVE  \A k \in 0 .. Len(seqs) : q[k] \in Nat \ {0} /\ p <= q[k] /\ q[k] <= q[Len(seqs)]
<1> DEFINE n == Len(seqs)
<1>1. n \in Nat /\ \A k \in 1 .. n : Len(seqs[k]) \in Nat
  OBVIOUS
<1>2. /\ \A k \in 0 .. n : q[k] \in Nat \ {0}
      /\ q[0] = p
      /\ \A k \in 1 .. n : q[k] = q[k - 1] + Len(seqs[k])
  BY DEF IsPlaced
<1> HIDE DEF n
<1>3. \A k \in 1 .. n : q[k - 1] <= q[k]
  <2> SUFFICES ASSUME NEW k \in 1 .. n PROVE q[k - 1] <= q[k]
    OBVIOUS
  <2>1. k \in 0 .. n /\ k - 1 \in 0 .. n
    BY <1>1
  <2>2. q[k - 1] \in Nat /\ Len(seqs[k]) \in Nat /\ q[k] = q[k - 1] + Len(seqs[k])
    BY <1>1, <1>2, <2>1
  <2>3. QED
    BY <2>2
<1>4. \A k \in 0 .. n : p <= q[k]
  <2> DEFINE P == {i \in Nat : i <= n => p <= q[i]}
  <2>1. 0 \in P
    BY <1>2
  <2>2. ASSUME NEW i \in Nat, i \in P PROVE i + 1 \in P
    <3>1. CASE i + 1 <= n
      <4>1. i + 1 \in 1 .. n /\ (i + 1) - 1 = i /\ i \in 0 .. n /\ i + 1 \in 0 .. n
        BY <1>1, <3>1
      <4>2. q[i] <= q[i + 1]
        BY <1>3, <4>1
      <4>3. q[i] \in Nat /\ q[i + 1] \in Nat /\ p <= q[i]
        BY <1>2, <2>2, <4>1
      <4>4. QED
        BY <4>2, <4>3
    <3>2. QED
      BY <3>1
  <2> HIDE DEF P
  <2>3. \A i \in Nat : i \in P
    BY <2>1, <2>2, InductionOnSet
  <2>4. QED
    BY <1>1, <2>3 DEF P
<1>5. \A k \in 0 .. n : q[k] <= q[n]
  <2> DEFINE P == {i \in Nat : i <= n => q[n - i] <= q[n]}
  <2>1. 0 \in P
    <3>1. n - 0 = n /\ n \in 0 .. n
      BY <1>1
    <3>2. q[n] \in Nat
      BY <1>2, <3>1
    <3>3. QED
      BY <3>1, <3>2
  <2>2. ASSUME NEW i \in Nat, i \in P PROVE i + 1 \in P
    <3>1. CASE i + 1 <= n
      <4> DEFINE k == n - i
      <4>1. k \in 1 .. n /\ k - 1 = n - (i + 1) /\ k \in 0 .. n /\ k - 1 \in 0 .. n /\ n \in 0 .. n
        BY <1>1, <3>1
      <4>2. q[k] <= q[n]
        <5>1. i <= n
          BY <1>1, <3>1
        <5>2. QED
          BY <2>2, <5>1
      <4> HIDE DEF k
      <4>3. q[k - 1] <= q[k]
        BY <1>3, <4>1
      <4>4. q[k] \in Nat /\ q[k - 1] \in Nat /\ q[n] \in Nat
        BY <1>2, <4>1
      <4>5. q[k - 1] <= q[n]
        BY <4>2, <4>3, <4>4
      <4>6. q[n - (i + 1)] <= q[n]
        BY <4>1, <4>5
      <4>7. QED
        BY <4>6
    <3>2. QED
      BY <3>1
  <2> HIDE DEF P
  <2>3. \A i \in Nat : i \in P
    BY <2>1, <2>2, InductionOnSet
  <2>4. ASSUME NEW k \in 0 .. n PROVE q[k] <= q[n]
    <3>1. n - k \in Nat /\ n - k <= n /\ n - (n - k) = k
      BY <1>1
    <3>2. n - k \in P
      BY <2>3, <3>1
    <3>3. q[n - (n - k)] <= q[n]
      BY <3>1, <3>2 DEF P
    <3>4. QED
      BY <3>1, <3>3
  <2>5. QED
    BY <2>4
<1>6. QED
  BY <1>2, <1>4, <1>5 DEF n

\* The numbers behind the first two of an identifier, as octets.
Arcs(oid) == [k \in 1 .. Len(oid) - 2 |-> Base128(oid[k + 2])]

\* What an identifier is made of.
LEMMA OidForm ==
  ASSUME NEW oid \in ObjectIds
  PROVE  /\ oid \in Seq(Nat) /\ Len(oid) \in Nat /\ Len(oid) >= 2
         /\ oid[1] = 1 /\ oid[2] = 3
         /\ \A k \in 1 .. Len(oid) : oid[k] \in Word
         /\ Arcs(oid) \in Seq(Seq(Nat))
         /\ Len(Arcs(oid)) = Len(oid) - 2
         /\ OidOctets(oid) = <<43>> \o FlattenSeq(Arcs(oid))
         /\ FlattenSeq(Arcs(oid)) \in Seq(Nat)
         /\ OidOctets(oid) \in Seq(Nat)
<1>1. oid \in Seq(Word) /\ Len(oid) >= 2 /\ oid[1] = 1 /\ oid[2] = 3
  BY DEF ObjectIds
<1>2. Len(oid) \in Nat /\ \A k \in 1 .. Len(oid) : oid[k] \in Word
  BY <1>1
<1>3. Word \subseteq Nat
  BY DEF Word
<1>4. oid \in Seq(Nat)
  <2>1. oid \in [1 .. Len(oid) -> Word]
    BY <1>1
  <2>2. oid \in [1 .. Len(oid) -> Nat]
    BY <1>3, <2>1
  <2>3. QED
    BY <1>2, <2>2
<1>5. Len(oid) - 2 \in Nat
  BY <1>1, <1>2
<1>6. \A k \in 1 .. Len(oid) - 2 : Base128(oid[k + 2]) \in Seq(Nat)
  <2> SUFFICES ASSUME NEW k \in 1 .. Len(oid) - 2 PROVE Base128(oid[k + 2]) \in Seq(Nat)
    OBVIOUS
  <2>1. oid[k + 2] \in Word
    BY <1>2
  <2>2. IsSeptets(Base128(oid[k + 2]), oid[k + 2])
    BY <2>1, SeptetsForm
  <2>3. QED
    BY <2>2 DEF IsSeptets
<1>7. Arcs(oid) \in Seq(Seq(Nat)) /\ Len(Arcs(oid)) = Len(oid) - 2
  BY <1>5, <1>6 DEF Arcs
<1>8. FlattenSeq(Arcs(oid)) \in Seq(Nat)
  BY <1>7, FlattenForm
<1>9. OidOctets(oid) = <<43>> \o FlattenSeq(Arcs(oid))
  <2>1. 40 * oid[1] + oid[2] = 43
    BY <1>1
  <2>2. QED
    BY <2>1, Zenon DEF OidOctets, Arcs
<1>10. OidOctets(oid) \in Seq(Nat)
  <2>1. PICK f \in Seq(Nat) : f = FlattenSeq(Arcs(oid))
    BY <1>8
  <2>2. <<43>> \o f \in Seq(Nat)
    OBVIOUS
  <2>3. QED
    BY <1>9, <2>1, <2>2
<1>11. QED
  BY <1>1, <1>2, <1>4, <1>7, <1>8, <1>9, <1>10

\* The identifiers of SNMP are read as they were written.
LEMMA OidRead ==
  ASSUME NEW b \in Seq(Nat), NEW p \in Nat \ {0}, NEW oid \in ObjectIds, Holds(b, p, OidOctets(oid))
  PROVE  ParseOid(b, p, Len(OidOctets(oid))) = [at |-> p + Len(OidOctets(oid)), val |-> oid]
<1>1. PICK f \in Seq(Nat) : f = FlattenSeq(Arcs(oid)) /\ OidOctets(oid) = <<43>> \o f
  BY OidForm
<1>2. PICK one \in Seq(Nat) : one = <<43>> /\ Len(one) = 1 /\ one[1] = 43
  BY <<43>> \in Seq(Nat)
<1>3. /\ Holds(b, p, one) /\ Holds(b, p + Len(one), f)
      /\ Len(one \o f) = Len(one) + Len(f)
      /\ OidOctets(oid) = one \o f
  <2>1. Holds(b, p, one \o f) /\ OidOctets(oid) = one \o f
    BY <1>1, <1>2
  <2>2. QED
    BY <2>1, HeldParts
<1>4. PICK n \in Nat : n = Len(OidOctets(oid)) /\ n = 1 + Len(f)
  BY <1>2, <1>3
<1>5. PICK seqs \in Seq(Seq(Nat)) : seqs = Arcs(oid)
  BY OidForm
<1>6. PICK L \in Nat : L = Len(seqs) /\ L = Len(oid) - 2
  <2>1. Len(seqs) \in Nat
    OBVIOUS
  <2>2. QED
    BY <1>5, <2>1, OidForm
<1>7. Holds(b, p + 1, FlattenSeq(seqs))
  BY <1>1, <1>2, <1>3, <1>5
<1>8. PICK q : IsPlaced(q, b, p + 1, seqs) /\ q[L] = p + 1 + Len(f)
  <2>1. \E q : IsPlaced(q, b, p + 1, seqs) /\ q[Len(seqs)] = p + 1 + Len(FlattenSeq(seqs))
    BY <1>7, FlattenHeld
  <2>2. QED
    BY <1>1, <1>5, <1>6, <2>1
<1>9. \A k \in 0 .. L : q[k] \in Nat \ {0} /\ p + 1 <= q[k] /\ q[k] <= q[L]
  <2>1. p + 1 \in Nat
    OBVIOUS
  <2>2. \A k \in 0 .. Len(seqs) : q[k] \in Nat \ {0} /\ p + 1 <= q[k] /\ q[k] <= q[Len(seqs)]
    BY <1>8, <2>1, PlacedOrder
  <2>3. QED
    BY <1>6, <2>2
<1>10. PICK w : w = OidState(b, p, n) /\ IsOidState(w, b, p, n)
  BY OidLoop
<1> DEFINE At2(k) == [oids |-> SubSeq(oid, 1, k + 2), val |-> 0, more |-> FALSE]
           P == {k \in Nat : k <= L => w[q[k] - p] = At2(k)}
<1>11. w[1] = At2(0)
  <2>1. At(b, p) = 43
    <3>1. \A k \in 1 .. Len(one) : At(b, p + k - 1) = one[k]
      BY <1>3, AtHeld
    <3>2. 1 \in 1 .. Len(one) /\ p + 1 - 1 = p
      BY <1>2
    <3>3. QED
      BY <1>2, <3>1, <3>2
  <2>2. w[0] = [oids |-> <<>>, val |-> 0, more |-> FALSE]
    BY <1>10 DEF IsOidState
  <2>3. w[1] = AddOctet(w[0], 43)
    <3>1. 1 \in 1 .. n /\ 1 - 1 = 0 /\ p + 1 - 1 = p
      BY <1>4
    <3>2. \A k \in 1 .. n : w[k] = AddOctet(w[k - 1], At(b, p + k - 1))
      BY <1>10 DEF IsOidState
    <3>3. QED
      BY <2>1, <3>1, <3>2
  <2>4. AddOctet(w[0], 43) = [oids |-> <<1, 3>>, val |-> 0, more |-> FALSE]
    <3>1. 43 % 128 = 43 /\ 128 * 0 + 43 = 43 /\ ~(43 >= 128)
      OBVIOUS
    <3>2. AddArc(<<>>, 43) = <<1, 3>>
      BY DEF AddArc
    <3>3. w[0].oids = <<>> /\ w[0].val = 0
      BY <2>2
    <3>4. 128 * w[0].val + (43 % 128) = 43
      BY <3>1, <3>3
    <3>5. QED
      BY <3>1, <3>2, <3>3, <3>4 DEF AddOctet
  <2>5. SubSeq(oid, 1, 0 + 2) = <<1, 3>>
    <3>1. oid \in Seq(Nat) /\ oid[1] = 1 /\ oid[2] = 3 /\ 2 <= Len(oid) /\ Len(oid) \in Nat
      BY OidForm
    <3>2. PICK x : x = SubSeq(oid, 1, 2)
      OBVIOUS
    <3>3. x \in Seq(Nat) /\ Len(x) = 2 /\ \A i \in 1 .. 2 : x[i] = oid[i]
      BY <3>1, <3>2
    <3>4. x[1] = 1 /\ x[2] = 3
      BY <3>1, <3>3
    <3>5. x = <<1, 3>>
      BY <3>3, <3>4
    <3>6. 0 + 2 = 2
      OBVIOUS
    <3>7. QED
      BY <3>2, <3>5, <3>6
  <2>6. QED
    BY <2>3, <2>4, <2>5
<1>12. 0 \in P
  <2>1. q[0] = p + 1
    BY <1>8 DEF IsPlaced
  <2>2. q[0] - p = 1
    BY <2>1
  <2> HIDE DEF At2
  <2>3. QED
    BY <1>11, <2>2
<1>13. ASSUME NEW k \in Nat, k \in P PROVE k + 1 \in P
  <2>1. CASE k + 1 <= L
    <3>1. k + 1 \in 1 .. L /\ (k + 1) - 1 = k /\ k \in 0 .. L /\ k + 1 \in 0 .. L /\ k <= L /\ k + 1 + 2 = k + 3
          /\ k + 3 \in 1 .. Len(oid)
      BY <1>6, <2>1
    <3>2. PICK v \in Word : v = oid[k + 3]
      BY <3>1, OidForm
    <3>3. PICK c : c = seqs[k + 1] /\ IsSeptets(c, v)
      <4>1. seqs[k + 1] = Base128(oid[k + 1 + 2])
        BY <1>5, <1>6, <3>1 DEF Arcs
      <4>2. QED
        BY <3>1, <3>2, <4>1, SeptetsForm
    <3>4. q[k + 1] = q[k] + Len(c) /\ Holds(b, q[k], c)
      <4>1. \A j \in 1 .. L : q[j] = q[j - 1] + Len(seqs[j]) /\ Holds(b, q[j - 1], seqs[j])
        BY <1>6, <1>8 DEF IsPlaced
      <4> DEFINE j == k + 1
      <4>2. j \in 1 .. L /\ j - 1 = k
        BY <3>1
      <4> HIDE DEF j
      <4>3. q[j] = q[k] + Len(seqs[j]) /\ Holds(b, q[k], seqs[j])
        BY <4>1, <4>2
      <4>4. QED
        BY <3>3, <4>3 DEF j
    <3>5. PICK z \in Nat : z = q[k] - p
      <4>1. q[k] \in Nat /\ p + 1 <= q[k]
        BY <1>9, <3>1
      <4> HIDE DEF P, At2
      <4>2. q[k] - p \in Nat
        BY <4>1
      <4>3. QED
        BY <4>2
    <3>6. Len(c) \in Nat
      BY <3>3 DEF IsSeptets
    <3>7. p + z = q[k] /\ z + Len(c) = q[k + 1] - p /\ z + Len(c) <= n
      <4>1. q[k] \in Nat /\ q[k + 1] \in Nat /\ q[k + 1] <= p + 1 + Len(f)
        BY <1>8, <1>9, <3>1
      <4> HIDE DEF P, At2
      <4>2. PICK lf \in Nat : lf = Len(f)
        OBVIOUS
      <4>3. PICK lc \in Nat : lc = Len(c)
        BY <3>6
      <4>4. PICK u \in Nat : u = q[k]
        BY <4>1
      <4>5. PICK t \in Nat : t = q[k + 1]
        BY <4>1
      <4>6. t = u + lc /\ z = u - p /\ n = 1 + lf /\ t <= p + 1 + lf
        BY <1>4, <3>4, <3>5, <4>1, <4>2, <4>3, <4>4, <4>5
      <4>7. p + z = u /\ z + lc = t - p /\ z + lc <= n
        BY <4>6
      <4>8. QED
        BY <4>3, <4>4, <4>5, <4>7
    <3>8. PICK x : x = SubSeq(oid, 1, k + 2)
      OBVIOUS
    <3>9. w[z] = [oids |-> x, val |-> 0, more |-> FALSE]
      BY <1>13, <3>1, <3>5, <3>8
    <3>10. Holds(b, p + z, c)
      BY <3>4, <3>7
    <3>11. w[z + Len(c)] = [oids |-> AddArc(x, v), val |-> 0, more |-> FALSE]
      <4> HIDE DEF At2, P
      <4>1. IsOidState(w, b, p, n) /\ IsSeptets(c, v) /\ z + Len(c) <= n /\ Holds(b, p + z, c)
        BY <1>10, <3>3, <3>7, <3>10
      <4>2. Ended(w[z], x)
        BY <3>9 DEF Ended
      <4>3. Ended(w[z + Len(c)], AddArc(x, v))
        BY <4>1, <4>2, ArcRead
      <4>4. QED
        BY <4>3 DEF Ended
    <3>12. AddArc(x, v) = SubSeq(oid, 1, k + 3)
      <4>1. oid \in Seq(Nat) /\ Len(oid) \in Nat /\ k + 3 <= Len(oid)
        BY <3>1, OidForm
      <4>2. x = [i \in 1 .. k + 2 |-> oid[i]] /\ x \in Seq(Nat) /\ Len(x) = k + 2
        BY <3>8, <4>1
      <4>3. x # <<>>
        <5>1. Len(<<>>) = 0 /\ k + 2 # 0
          OBVIOUS
        <5>2. QED
          BY <4>2, <5>1
      <4>4. AddArc(x, v) = Append(x, v)
        BY <4>3 DEF AddArc
      <4>5. v \in Nat
        BY <3>2 DEF Word
      <4>6. SubSeq(oid, 1, k + 3) = [i \in 1 .. k + 3 |-> oid[i]]
        BY <4>1
      <4>7. Append(x, v) = [i \in 1 .. k + 3 |-> oid[i]]
        <5>1. /\ Append(x, v) \in Seq(Nat)
              /\ Len(Append(x, v)) = k + 3
              /\ \A i \in 1 .. k + 2 : Append(x, v)[i] = x[i]
              /\ Append(x, v)[k + 3] = v
          BY <4>2, <4>5
        <5>2. \A i \in 1 .. k + 3 : Append(x, v)[i] = oid[i]
          BY <3>2, <4>2, <5>1
        <5>3. Append(x, v) = [i \in 1 .. k + 3 |-> Append(x, v)[i]]
          <6>1. PICK y \in Seq(Nat) : y = Append(x, v)
            BY <5>1
          <6>2. Len(y) = k + 3
            BY <5>1, <6>1
          <6>3. y = [i \in 1 .. Len(y) |-> y[i]]
            OBVIOUS
          <6>4. QED
            BY <6>1, <6>2, <6>3
        <5>4. QED
          BY <5>2, <5>3
      <4>8. QED
        BY <4>4, <4>6, <4>7
    <3>13. w[q[k + 1] - p] = [oids |-> SubSeq(oid, 1, k + 3), val |-> 0, more |-> FALSE]
      BY <3>7, <3>11, <3>12
    <3>14. w[q[k + 1] - p] = At2(k + 1)
      BY <3>1, <3>13
    <3> HIDE DEF At2
    <3>15. QED
      BY <3>14
  <2> HIDE DEF At2
  <2>2. QED
    BY <2>1
<1>14. w[n] = [oids |-> oid, val |-> 0, more |-> FALSE]
  <2> HIDE DEF P
  <2>1. \A k \in Nat : k \in P
    BY <1>12, <1>13, InductionOnSet
  <2>2. w[q[L] - p] = At2(L)
    <3>1. L \in P /\ L <= L
      BY <2>1
    <3> HIDE DEF At2
    <3>2. QED
      BY <3>1 DEF P
  <2>3. q[L] - p = n
    BY <1>4, <1>8
  <2>4. SubSeq(oid, 1, L + 2) = oid
    <3>1. L + 2 = Len(oid) /\ oid \in Seq(Nat)
      BY <1>6, OidForm
    <3>2. QED
      BY <3>1, SubSeqFull
  <2>5. QED
    BY <2>2, <2>3, <2>4
<1>15. QED
  <2> HIDE DEF P
  <2>1. OidState(b, p, n)[n] = [oids |-> oid, val |-> 0, more |-> FALSE]
    BY <1>10, <1>14
  <2>2. ParseOid(b, p, n) = [at |-> p + n, val |-> oid]
    BY <2>1 DEF ParseOid
  <2>3. QED
    BY <1>4, <2>2

-----------------------------------------------------------------------------
(* Arguments: texts, values, and the pair of a name and a value. *)

\* Texts of seven bits are sequences of octets.
LEMMA AsciiForm ==
  ASSUME NEW c \in Ascii
  PROVE  c \in Seq(Nat) /\ Len(c) \in Nat /\ \A k \in 1 .. Len(c) : c[k] \in Nat /\ c[k] < 128
<1> DEFINE S == 0 .. 127
<1>1. c \in Seq(S) /\ S \subseteq Nat /\ \A n \in S : n < 128
  BY DEF Ascii
<1> HIDE DEF S
<1>2. c \in [1 .. Len(c) -> S] /\ Len(c) \in Nat
  BY <1>1, LenProperties
<1>3. c \in [1 .. Len(c) -> Nat]
  BY <1>1, <1>2
<1>4. c \in Seq(Nat)
  BY <1>2, <1>3
<1>5. QED
  BY <1>1, <1>2, <1>4

\* Their octets become the same wide characters.
LEMMA StrRead ==
  ASSUME NEW b \in Seq(Nat), NEW p \in Nat \ {0}, NEW c \in Ascii, Holds(b, p, c)
  PROVE  ParseStr(b, p, Len(c)) = [at |-> p + Len(c), val |-> c]
<1>1. c \in Seq(Nat) /\ Len(c) \in Nat /\ \A k \in 1 .. Len(c) : c[k] \in Nat /\ c[k] < 128
  BY AsciiForm
<1>2. \A k \in 1 .. Len(c) : At(b, p + k - 1) = c[k]
  BY <1>1, AtHeld
<1>3. \A k \in 1 .. Len(c) : Wide(At(b, p + k - 1)) = c[k]
  BY <1>1, <1>2 DEF Wide
<1>4. [k \in 1 .. Len(c) |-> Wide(At(b, p + k - 1))] = c
  <2>1. c = [k \in 1 .. Len(c) |-> c[k]]
    BY <1>1
  <2>2. QED
    BY <1>3, <2>1
<1>5. QED
  BY <1>4 DEF ParseStr

\* The types of arguments that agents send and Decode knows.
Known == {INT, TIME, STR, NULL, OID, IPADDR}

\* What an argument is made of.
LEMMA ArgumentForm ==
  ASSUME NEW v, IsArgument(v)
  PROVE  /\ v.oid \in ObjectIds /\ v.type \in Nat /\ v.type # BOOL
         /\ v.type = STR => v.val \in Ascii
         /\ v.type = NULL => v.val = 0
         /\ v.type = OID => v.val \in ObjectIds
         /\ v.type \notin {STR, NULL, OID} => v.val \in Word
         /\ v = [oid |-> v.oid, type |-> v.type, val |-> v.val]
BY DEF IsArgument

\* The octets of its value, by its type.
LEMMA ValueForm ==
  ASSUME NEW v, IsArgument(v)
  PROVE  /\ ValueOctets(v) \in Seq(Nat)
         /\ v.type = OID => ValueOctets(v) = OidOctets(v.val)
         /\ v.type = STR => ValueOctets(v) = v.val
         /\ v.type = NULL => ValueOctets(v) = <<>>
         /\ v.type = IPADDR => ValueOctets(v) = AddressOctets(v.val)
         /\ v.type \notin {OID, STR, NULL, IPADDR} => ValueOctets(v) = IntOctets(v.val)
<1>1. OID # STR /\ OID # NULL /\ OID # IPADDR /\ STR # NULL /\ STR # IPADDR /\ NULL # IPADDR
  BY DEF OID, STR, NULL, IPADDR
<1>2. v.type = OID => ValueOctets(v) = OidOctets(v.val)
  BY <1>1, Zenon DEF ValueOctets
<1>3. v.type = STR => ValueOctets(v) = v.val
  BY <1>1, Zenon DEF ValueOctets
<1>4. v.type = NULL => ValueOctets(v) = <<>>
  BY <1>1, Zenon DEF ValueOctets
<1>5. v.type = IPADDR => ValueOctets(v) = AddressOctets(v.val)
  BY <1>1, Zenon DEF ValueOctets
<1>6. v.type \notin {OID, STR, NULL, IPADDR} => ValueOctets(v) = IntOctets(v.val)
  <2>1. v.type \notin {OID, STR, NULL, IPADDR} => v.type # OID /\ v.type # STR /\ v.type # NULL /\ v.type # IPADDR
    OBVIOUS
  <2>2. QED
    BY <2>1, Zenon DEF ValueOctets
<1>7. ValueOctets(v) \in Seq(Nat)
  <2>1. CASE v.type = OID
    BY <1>2, <2>1, ArgumentForm, OidForm
  <2>2. CASE v.type = STR
    BY <1>3, <2>2, ArgumentForm, AsciiForm
  <2>3. CASE v.type = NULL
    BY <1>4, <2>3
  <2>4. CASE v.type = IPADDR
    <3>1. v.val \in Word
      BY <2>4, ArgumentForm DEF OID, STR, NULL, IPADDR
    <3>2. QED
      BY <1>5, <2>4, <3>1, AddressForm
  <2>5. CASE v.type \notin {OID, STR, NULL, IPADDR}
    <3>1. v.val \in Word
      BY <2>5, ArgumentForm
    <3>2. QED
      BY <1>6, <2>5, <3>1, IntForm
  <2>6. QED
    BY <2>1, <2>2, <2>3, <2>4, <2>5
<1>8. QED
  BY <1>2, <1>3, <1>4, <1>5, <1>6, <1>7

\* The value of an argument with its tag and its length.
Value(v, long) == TLV(v.type, ValueOctets(v), long /\ v.type # NULL)

\* Its length is in the form that is asked for, but for a NULL.
LEMMA ValueLength ==
  ASSUME NEW v, NEW long \in BOOLEAN
  PROVE  \E form \in BOOLEAN : /\ Value(v, long) = TLV(v.type, ValueOctets(v), form)
                               /\ v.type = NULL => form = FALSE
<1>1. (long /\ v.type # NULL) \in BOOLEAN /\ (v.type = NULL => (long /\ v.type # NULL) = FALSE)
  BY Zenon
<1>2. QED
  BY <1>1, Zenon DEF Value

\* The value of an argument of a known type is read as it was written.
LEMMA ValueRead ==
  ASSUME NEW b \in Seq(Nat), Len(b) < DatagramSize, NEW p \in Nat \ {0}, NEW v, IsArgument(v), v.type \in Known,
         NEW long \in BOOLEAN, Holds(b, p, Value(v, long))
  PROVE  VarValue(b, p) = [at |-> p + Len(Value(v, long)), val |-> v.val]
<1>1. /\ OID \notin {BOOL, INT, TIME, IPADDR, STR, NULL}
      /\ STR \notin {BOOL, INT, TIME, IPADDR, NULL, OID}
      /\ NULL \notin {BOOL, INT, TIME, IPADDR, STR, OID}
      /\ {INT, TIME, IPADDR} \cap {BOOL, STR, NULL, OID} = {}
  BY DEF BOOL, INT, TIME, IPADDR, STR, NULL, OID
<1>2. PICK c \in Seq(Nat) : c = ValueOctets(v)
  BY ValueForm
<1>3. PICK form \in BOOLEAN : /\ Value(v, long) = TLV(v.type, ValueOctets(v), form)
                              /\ v.type = NULL => form = FALSE
  BY ValueLength, Zenon
<1>4. PICK e \in Seq(Nat) : e = TLV(v.type, c, form) /\ e = Value(v, long)
                            /\ Len(e) = 1 + Len(LengthOctets(Len(c), form)) + Len(c)
  <2>1. v.type \in Nat
    BY ArgumentForm
  <2>2. TLV(v.type, c, form) \in Seq(Nat) /\ Len(TLV(v.type, c, form)) = 1 + Len(LengthOctets(Len(c), form)) + Len(c)
    BY <2>1, ElementForm
  <2>3. QED
    BY <1>2, <1>3, <2>2, Zenon
<1>5. PICK h : h = GetFieldLength(b, p + 1)
  OBVIOUS
<1>6. /\ At(b, p) = v.type
      /\ h.len = Len(c) /\ h.at \in Nat \ {0} /\ Holds(b, h.at, c)
      /\ h.at + Len(c) = p + Len(e)
  <2>1. Holds(b, p, TLV(v.type, c, form)) /\ v.type \in Nat
    BY <1>4, ArgumentForm
  <2>2. IsElement(b, p, Len(TLV(v.type, c, form)), GetFieldLength(b, p + 1), v.type, c)
    BY <2>1, ElementRead
  <2>3. IsElement(b, p, Len(e), h, v.type, c)
    BY <1>4, <1>5, <2>2, Zenon
  <2>4. QED
    BY <2>3 DEF IsElement
<1>7. CASE v.type = OID
  <2>1. VarValue(b, p) = ParseOid(b, h.at, h.len)
    BY <1>1, <1>5, <1>6, <1>7, Zenon DEF VarValue
  <2>2. v.val \in ObjectIds /\ c = OidOctets(v.val)
    BY <1>2, <1>7, ArgumentForm, ValueForm
  <2>3. ParseOid(b, h.at, Len(c)) = [at |-> h.at + Len(c), val |-> v.val]
    BY <1>6, <2>2, OidRead
  <2>4. QED
    BY <1>4, <1>6, <2>1, <2>3
<1>8. CASE v.type = STR
  <2>1. VarValue(b, p) = ParseStr(b, h.at, h.len)
    BY <1>1, <1>5, <1>6, <1>8, Zenon DEF VarValue
  <2>2. c \in Ascii /\ c = v.val
    BY <1>2, <1>8, ArgumentForm, ValueForm
  <2>3. ParseStr(b, h.at, Len(c)) = [at |-> h.at + Len(c), val |-> v.val]
    BY <1>6, <2>2, StrRead
  <2>4. QED
    BY <1>4, <1>6, <2>1, <2>3
<1>9. CASE v.type = NULL
  <2>1. VarValue(b, p) = [at |-> p + 2, val |-> 0]
    BY <1>1, <1>6, <1>9, Zenon DEF VarValue
  <2>2. Len(c) = 0
    <3>1. c = <<>>
      BY <1>2, <1>9, ValueForm
    <3>2. QED
      BY <3>1
  <2>3. v.val = 0
    BY <1>9, ArgumentForm
  <2>4. Len(LengthOctets(Len(c), form)) = 1
    <3>1. form = FALSE /\ ~(Len(c) >= 128) /\ Len(c) \in Nat
      BY <1>3, <1>9, <2>2
    <3>2. QED
      BY <3>1, LengthForm
  <2>5. Len(e) = 2
    <3>1. Len(e) = 1 + Len(LengthOctets(Len(c), form)) + Len(c)
      BY <1>4
    <3>2. PICK l : l = Len(LengthOctets(Len(c), form))
      OBVIOUS
    <3>3. Len(e) = 1 + l + 0 /\ l = 1
      BY <2>2, <2>4, <3>1, <3>2
    <3>4. QED
      BY <3>3
  <2>6. QED
    BY <1>4, <2>1, <2>3, <2>5
<1>10. CASE v.type = IPADDR
  <2>1. VarValue(b, p) = ParseInt(b, h.at, h.len)
    BY <1>1, <1>5, <1>6, <1>10, Zenon DEF VarValue
  <2>2. v.val \in Word /\ c = AddressOctets(v.val)
    <3>1. v.type \notin {STR, NULL, OID}
      BY <1>10 DEF IPADDR, STR, NULL, OID
    <3>2. QED
      BY <1>2, <1>10, <3>1, ArgumentForm, ValueForm
  <2>3. IsBigEndian(c, v.val)
    BY <2>2, AddressForm
  <2>4. ParseInt(b, h.at, Len(c)) = [at |-> h.at + Len(c), val |-> v.val]
    BY <1>6, <2>2, <2>3, AddressRead, ZenonT(30)
  <2>5. QED
    BY <1>4, <1>6, <2>1, <2>4
<1>11. CASE v.type \in {INT, TIME}
  <2>1. VarValue(b, p) = ParseInt(b, h.at, h.len)
    BY <1>1, <1>5, <1>6, <1>11, Zenon DEF VarValue
  <2>2. v.val \in Word /\ c = IntOctets(v.val)
    <3>1. v.type \notin {STR, NULL, OID, IPADDR}
      BY <1>11 DEF INT, TIME, IPADDR, STR, NULL, OID
    <3>2. QED
      BY <1>2, <3>1, ArgumentForm, ValueForm
  <2>3. ParseInt(b, h.at, Len(c)) = [at |-> h.at + Len(c), val |-> v.val]
    BY <1>6, <2>2, IntRead
  <2>4. QED
    BY <1>4, <1>6, <2>1, <2>3
<1>12. QED
  BY <1>7, <1>8, <1>9, <1>10, <1>11 DEF Known

\* An element is never empty.
LEMMA VarbindForm ==
  ASSUME NEW v, IsArgument(v), NEW long \in BOOLEAN
  PROVE  /\ TLV(OID, OidOctets(v.oid), long) \in Seq(Nat)
         /\ Value(v, long) \in Seq(Nat)
         /\ Varbind(v, long) = TLV(SEQ, TLV(OID, OidOctets(v.oid), long) \o Value(v, long), long)
         /\ TLV(OID, OidOctets(v.oid), long) \o Value(v, long) \in Seq(Nat)
         /\ Varbind(v, long) \in Seq(Nat)
         /\ Len(Varbind(v, long)) > 0
<1>1. PICK n \in Seq(Nat) : n = TLV(OID, OidOctets(v.oid), long)
  <2>1. OidOctets(v.oid) \in Seq(Nat) /\ OID \in Nat
    BY ArgumentForm, OidForm DEF OID
  <2>2. QED
    BY <2>1, ElementForm
<1>2. PICK e \in Seq(Nat) : e = Value(v, long)
  <2>1. PICK form \in BOOLEAN : Value(v, long) = TLV(v.type, ValueOctets(v), form)
    BY ValueLength
  <2>2. ValueOctets(v) \in Seq(Nat) /\ v.type \in Nat
    BY ArgumentForm, ValueForm
  <2>3. TLV(v.type, ValueOctets(v), form) \in Seq(Nat)
    BY <2>2, ElementForm
  <2>4. QED
    BY <2>1, <2>3
<1>3. PICK c \in Seq(Nat) : c = n \o e
  <2>1. n \o e \in Seq(Nat)
    OBVIOUS
  <2>2. QED
    BY <2>1, Zenon
<1>4. Varbind(v, long) = TLV(SEQ, c, long)
  BY <1>1, <1>2, <1>3 DEF Varbind, Value
<1>5. /\ TLV(SEQ, c, long) \in Seq(Nat)
      /\ Len(TLV(SEQ, c, long)) = 1 + Len(LengthOctets(Len(c), long)) + Len(c)
  <2>1. SEQ \in Nat
    BY DEF SEQ
  <2>2. QED
    BY <2>1, ElementForm
<1>6. Len(LengthOctets(Len(c), long)) \in Nat /\ Len(c) \in Nat
  BY LengthForm
<1>7. Len(TLV(SEQ, c, long)) > 0
  BY <1>5, <1>6
<1>8. QED
  BY <1>1, <1>2, <1>3, <1>4, <1>5, <1>7

\* A varbind is read as it was written, or not at all if its type is not known.
LEMMA VarbindRead ==
  ASSUME NEW b \in Seq(Nat), Len(b) < DatagramSize, NEW p \in Nat \ {0}, NEW v, IsArgument(v),
         NEW long \in BOOLEAN, Holds(b, p, Varbind(v, long))
  PROVE  /\ MoreVarbinds(b, p)
         /\ v.type \in Known => ReadVarbind(b, p) = [ok |-> TRUE, at |-> p + Len(Varbind(v, long)), val |-> v]
         /\ v.type \notin Known => ReadVarbind(b, p) = [ok |-> FALSE, at |-> p]
<1>1. PICK o \in Seq(Nat) : o = OidOctets(v.oid)
  BY ArgumentForm, OidForm
<1>2. PICK n \in Seq(Nat) : n = TLV(OID, o, long)
  BY <1>1, VarbindForm
<1>3. PICK e \in Seq(Nat) : e = Value(v, long)
  BY VarbindForm
<1>4. PICK c \in Seq(Nat) : c = n \o e
  <2>1. n \o e \in Seq(Nat)
    OBVIOUS
  <2>2. QED
    BY <2>1, Zenon
<1>5. Varbind(v, long) = TLV(SEQ, c, long)
  BY <1>1, <1>2, <1>3, <1>4, VarbindForm
<1>6. PICK head : head = GetFieldLength(b, p + 1)
  OBVIOUS
<1>7. /\ At(b, p) = SEQ
      /\ head.at \in Nat \ {0} /\ Holds(b, head.at, c)
      /\ head.at + Len(c) = p + Len(Varbind(v, long))
      /\ p + Len(Varbind(v, long)) - 1 <= Len(b)
  <2>1. Holds(b, p, TLV(SEQ, c, long)) /\ SEQ \in Nat
    BY <1>5 DEF SEQ
  <2>2. IsElement(b, p, Len(TLV(SEQ, c, long)), GetFieldLength(b, p + 1), SEQ, c)
    BY <2>1, ElementRead
  <2>3. IsElement(b, p, Len(Varbind(v, long)), head, SEQ, c)
    BY <1>5, <1>6, <2>2, Zenon
  <2>4. QED
    BY <2>3 DEF IsElement
<1>8. Holds(b, head.at, n) /\ Holds(b, head.at + Len(n), e) /\ Len(c) = Len(n) + Len(e)
  <2>1. Holds(b, head.at, n \o e)
    BY <1>4, <1>7
  <2>2. head.at \in Nat \ {0}
    BY <1>7
  <2>3. Holds(b, head.at, n) /\ Holds(b, head.at + Len(n), e) /\ Len(n \o e) = Len(n) + Len(e)
    BY <2>1, <2>2, HeldParts, SMTT(20)
  <2>4. QED
    BY <1>4, <2>3
<1>9. PICK h : h = GetFieldLength(b, head.at + 1)
  OBVIOUS
<1>10. /\ At(b, head.at) = OID
       /\ h.len = Len(o) /\ h.at \in Nat \ {0} /\ Holds(b, h.at, o)
       /\ h.at + Len(o) = head.at + Len(n)
  <2>1. Holds(b, head.at, TLV(OID, o, long)) /\ OID \in Nat
    BY <1>2, <1>8 DEF OID
  <2>2. head.at \in Nat \ {0}
    BY <1>7
  <2>3. IsElement(b, head.at, Len(TLV(OID, o, long)), GetFieldLength(b, head.at + 1), OID, o)
    BY <2>1, <2>2, ElementRead
  <2>4. IsElement(b, head.at, Len(n), h, OID, o)
    BY <1>2, <1>9, <2>3, Zenon
  <2>5. QED
    BY <2>4 DEF IsElement
<1> DEFINE name == ParseOid(b, h.at, h.len)
<1>11. name.at = head.at + Len(n) /\ name.val = v.oid
  <2>1. v.oid \in ObjectIds /\ h.at \in Nat \ {0} /\ Holds(b, h.at, OidOctets(v.oid))
    BY <1>1, <1>10, ArgumentForm
  <2>2. ParseOid(b, h.at, Len(OidOctets(v.oid))) = [at |-> h.at + Len(OidOctets(v.oid)), val |-> v.oid]
    BY <2>1, OidRead
  <2>3. name = [at |-> h.at + Len(o), val |-> v.oid]
    BY <1>1, <1>10, <2>2, Zenon
  <2> HIDE DEF name
  <2>4. QED
    BY <1>10, <2>3
<1>12. name.at \in Nat \ {0}
  <2>1. Len(n) \in Nat
    OBVIOUS
  <2>2. QED
    BY <1>7, <1>11, <2>1
<1>13. name = ParseOid(b, h.at, h.len)
  OBVIOUS
<1> HIDE DEF name
<1>14. At(b, name.at) = v.type
  <2>1. Holds(b, name.at, e)
    BY <1>8, <1>11
  <2>2. PICK form \in BOOLEAN : Value(v, long) = TLV(v.type, ValueOctets(v), form)
    BY ValueLength
  <2>3. Holds(b, name.at, TLV(v.type, ValueOctets(v), form)) /\ v.type \in Nat /\ ValueOctets(v) \in Seq(Nat)
    BY <1>3, <2>1, <2>2, ArgumentForm, ValueForm
  <2>4. IsElement(b, name.at, Len(TLV(v.type, ValueOctets(v), form)), GetFieldLength(b, name.at + 1),
                  v.type, ValueOctets(v))
    BY <1>12, <2>3, ElementRead
  <2>5. QED
    BY <2>4 DEF IsElement
<1>15. MoreVarbinds(b, p)
  <2>1. Len(Varbind(v, long)) > 0 /\ Len(Varbind(v, long)) \in Nat
    BY VarbindForm
  <2>2. p <= Len(b)
    BY <1>7, <2>1
  <2>3. QED
    BY <1>7, <2>2 DEF MoreVarbinds
<1>16. ASSUME v.type \in Known
       PROVE  ReadVarbind(b, p) = [ok |-> TRUE, at |-> p + Len(Varbind(v, long)), val |-> v]
  <2>1. v.type \in {BOOL, INT, TIME, STR, NULL, OID, IPADDR}
    BY <1>16 DEF Known
  <2>2. ReadVarbind(b, p) = [ok |-> TRUE, at |-> VarValue(b, name.at).at,
                             val |-> [oid |-> name.val, type |-> v.type, val |-> VarValue(b, name.at).val]]
    BY <1>6, <1>9, <1>10, <1>13, <1>14, <2>1 DEF ReadVarbind
  <2>3. VarValue(b, name.at) = [at |-> name.at + Len(e), val |-> v.val]
    <3>1. Holds(b, name.at, Value(v, long))
      BY <1>3, <1>8, <1>11
    <3>2. PICK x \in Nat \ {0} : x = name.at
      BY <1>12
    <3>3. Holds(b, x, Value(v, long))
      BY <3>1, <3>2
    <3>4. VarValue(b, x) = [at |-> x + Len(Value(v, long)), val |-> v.val]
      BY <1>16, <3>3, ValueRead
    <3>5. QED
      BY <1>3, <3>2, <3>4
  <2>4. name.at + Len(e) = p + Len(Varbind(v, long))
    <3>1. Len(n) \in Nat /\ Len(e) \in Nat
      OBVIOUS
    <3>2. QED
      BY <1>7, <1>8, <1>11, <3>1
  <2>5. v = [oid |-> v.oid, type |-> v.type, val |-> v.val]
    BY ArgumentForm
  <2>6. VarValue(b, name.at).at = p + Len(Varbind(v, long)) /\ VarValue(b, name.at).val = v.val
    BY <2>3, <2>4
  <2>7. QED
    BY <1>11, <2>2, <2>5, <2>6, Zenon
<1>17. ASSUME v.type \notin Known
       PROVE  ReadVarbind(b, p) = [ok |-> FALSE, at |-> p]
  <2>1. v.type \notin {BOOL, INT, TIME, STR, NULL, OID, IPADDR}
    BY <1>17, ArgumentForm DEF Known
  <2>2. QED
    BY <1>6, <1>9, <1>10, <1>13, <1>14, <2>1 DEF ReadVarbind
<1>18. QED
  BY <1>15, <1>16, <1>17

-----------------------------------------------------------------------------
(* A field read moves ahead, so every loop over fields ends. *)

\* A parser always leads to a position.
LEMMA ParsersLead ==
  ASSUME NEW b \in Seq(Nat), NEW p \in Nat, NEW n \in Nat
  PROVE  /\ ParseInt(b, p, n).at \in Nat
         /\ ParseOid(b, p, n).at \in Nat
         /\ ParseStr(b, p, n).at \in Nat
         /\ ParseBool(b, p).at \in Nat
<1>1. p + n \in Nat /\ p + 2 \in Nat
  OBVIOUS
<1>2. ParseInt(b, p, n).at = p + n /\ ParseOid(b, p, n).at = p + n /\ ParseStr(b, p, n).at = p + n
      /\ ParseBool(b, p).at = p + 2
  BY DEF ParseInt, ParseOid, ParseStr, ParseBool
<1>3. QED
  BY <1>1, <1>2

\* So does a field.
LEMMA FieldLeads ==
  ASSUME NEW b \in Seq(Nat), NEW p \in Nat, NEW f
  PROVE  ReadField(b, p, f).at \in Nat
<1>1. PICK h : h = GetFieldLength(b, p + 1)
  OBVIOUS
<1>2. h.at \in Nat /\ h.len \in Nat
  <2>1. p + 1 \in Nat
    OBVIOUS
  <2>2. QED
    BY <1>1, <2>1, LengthIsNumber
<1>3. \/ ReadField(b, p, f) = ParseOid(b, h.at, h.len)
      \/ ReadField(b, p, f) = ParseStr(b, h.at, h.len)
      \/ ReadField(b, p, f) = [at |-> h.at, val |-> <<>>]
      \/ ReadField(b, p, f) = ParseInt(b, h.at, h.len)
  BY <1>1, Zenon DEF ReadField
<1>4. [at |-> h.at, val |-> <<>>].at \in Nat
  BY <1>2
<1>5. QED
  BY <1>2, <1>3, <1>4, ParsersLead

\* And a varbind.
LEMMA VarbindLeads ==
  ASSUME NEW b \in Seq(Nat), NEW p \in Nat
  PROVE  ReadVarbind(b, p).at \in Nat
<1> DEFINE head == GetFieldLength(b, p + 1)
           h == GetFieldLength(b, head.at + 1)
           name == ParseOid(b, h.at, h.len)
           type == At(b, name.at)
           k == GetFieldLength(b, name.at + 1)
           v == VarValue(b, name.at)
<1>1. head.at \in Nat
  <2>1. p + 1 \in Nat
    OBVIOUS
  <2>2. QED
    BY <2>1, LengthIsNumber
<1>2. h.at \in Nat /\ h.len \in Nat
  <2> HIDE DEF head
  <2>1. head.at + 1 \in Nat
    BY <1>1
  <2>2. QED
    BY <2>1, LengthIsNumber
<1>3. name.at \in Nat
  <2> HIDE DEF h
  <2>1. QED
    BY <1>2, ParsersLead
<1>4. k.at \in Nat /\ k.len \in Nat
  <2> HIDE DEF name
  <2>1. name.at + 1 \in Nat
    BY <1>3
  <2>2. QED
    BY <2>1, LengthIsNumber
<1>5. ASSUME type \in {BOOL, INT, TIME, STR, NULL, OID, IPADDR}
      PROVE  v.at \in Nat
  <2>1. \/ v = ParseBool(b, k.at)
        \/ v = ParseInt(b, k.at, k.len)
        \/ v = ParseStr(b, k.at, k.len)
        \/ v = [at |-> name.at + 2, val |-> 0]
        \/ v = ParseOid(b, k.at, k.len)
    <3> HIDE DEF name
    <3>1. /\ OID \notin {BOOL, INT, TIME, IPADDR, STR, NULL}
          /\ STR \notin {BOOL, INT, TIME, IPADDR, NULL, OID}
          /\ NULL \notin {BOOL, INT, TIME, IPADDR, STR, OID}
          /\ BOOL \notin {INT, TIME, IPADDR, STR, NULL, OID}
          /\ {INT, TIME, IPADDR} \cap {BOOL, STR, NULL, OID} = {}
      BY DEF BOOL, INT, TIME, IPADDR, STR, NULL, OID
    <3>2. CASE type \in {INT, TIME, IPADDR}
      BY <3>1, <3>2, Zenon DEF VarValue
    <3>3. CASE type = BOOL
      BY <3>1, <3>3, Zenon DEF VarValue
    <3>4. CASE type = STR
      BY <3>1, <3>4, Zenon DEF VarValue
    <3>5. CASE type = NULL
      BY <3>1, <3>5, Zenon DEF VarValue
    <3>6. CASE type = OID
      BY <3>1, <3>6, Zenon DEF VarValue
    <3> HIDE DEF type, v, k
    <3>7. QED
      BY <1>5, <3>2, <3>3, <3>4, <3>5, <3>6
  <2> HIDE DEF k, v, name
  <2>2. [at |-> name.at + 2, val |-> 0].at \in Nat
    BY <1>3
  <2>3. QED
    BY <1>4, <2>1, <2>2, ParsersLead
<1>6. \/ ReadVarbind(b, p) = [ok |-> FALSE, at |-> p]
      \/ /\ type \in {BOOL, INT, TIME, STR, NULL, OID, IPADDR}
         /\ ReadVarbind(b, p) = [ok |-> TRUE, at |-> v.at, val |-> [oid |-> name.val, type |-> type, val |-> v.val]]
  BY Zenon DEF ReadVarbind
<1> HIDE DEF type, v, name
<1>7. QED
  BY <1>5, <1>6

-----------------------------------------------------------------------------
(* The loops over the fields and over the varbinds. *)

\* at are the positions between the fields from p on.
IsFieldStart(at, b, p, fields) ==
  /\ at \in [0 .. Len(fields) -> Nat]
  /\ at[0] = p
  /\ \A k \in 1 .. Len(fields) : at[k] = ReadField(b, at[k - 1], fields[k]).at

\* at are the positions between the varbinds from p on.
IsVarbindStart(at, b, p) ==
  /\ at \in [0 .. Len(b) -> Nat]
  /\ at[0] = p
  /\ \A k \in 1 .. Len(b) : at[k] = ReadVarbind(b, at[k - 1]).at

\* The loop over the fields.
LEMMA FieldLoop ==
  ASSUME NEW b \in Seq(Nat), NEW p \in Nat, NEW fields, Len(fields) \in Nat
  PROVE  IsFieldStart(FieldStart(b, p, fields), b, p, fields)
<1>1. PICK n \in Nat : n = Len(fields)
  OBVIOUS
<1> DEFINE Step(k, s) == ReadField(b, s, fields[k]).at
           F == [k \in Nat |-> [s \in Nat |-> Step(k, s)]]
           T(g) == g = [k \in 0 .. n |-> IF k = 0 THEN p ELSE Step(k, g[k - 1])]
           at == FieldStart(b, p, fields)
<1>2. \A k \in Nat, s \in Nat : Step(k, s) \in Nat
  BY FieldLeads
<1>3. at = CHOOSE g : T(g)
  BY <1>1 DEF FieldStart
<1> HIDE DEF Step, at
<1>4. F \in [Nat -> [Nat -> Nat]]
  BY <1>2
<1>5. \E g : T(g)
  <2> HIDE DEF F
  <2>1. PICK g \in [0 .. n -> Nat] : IsRun(g, p, F, n)
    BY <1>4, LoopStates
  <2>2. g[0] = p /\ \A k \in 1 .. n : g[k] = F[k][g[k - 1]]
    BY <2>1 DEF IsRun
  <2>3. \A k \in 1 .. n : g[k] = Step(k, g[k - 1])
    <3> SUFFICES ASSUME NEW k \in 1 .. n PROVE g[k] = Step(k, g[k - 1])
      OBVIOUS
    <3>1. k \in Nat /\ k - 1 \in 0 .. n
      OBVIOUS
    <3>2. g[k - 1] \in Nat
      BY <3>1
    <3>3. F[k][g[k - 1]] = Step(k, g[k - 1])
      BY <3>1, <3>2, Zenon DEF F
    <3>4. QED
      BY <2>2, <3>3
  <2>4. \A k \in 0 .. n : k = 0 \/ (k # 0 /\ k \in 1 .. n)
    OBVIOUS
  <2>5. \A k \in 0 .. n : g[k] = IF k = 0 THEN p ELSE Step(k, g[k - 1])
    BY <2>2, <2>3, <2>4, Zenon
  <2>6. g = [k \in 0 .. n |-> g[k]]
    OBVIOUS
  <2>7. T(g)
    BY <2>5, <2>6, Zenon
  <2>8. QED
    BY <2>7
<1>6. T(at)
  <2> HIDE DEF T
  <2>1. T(CHOOSE g : T(g))
    BY <1>5
  <2>2. QED
    BY <1>3, <2>1
<1>7. DOMAIN at = 0 .. n /\ at = [k \in 0 .. n |-> at[k]] /\ at[0] = p
  BY <1>6
<1>8. \A k \in 1 .. n : at[k] = Step(k, at[k - 1])
  <2>1. \A k \in 1 .. n : k \in 0 .. n /\ k # 0
    OBVIOUS
  <2>2. QED
    BY <1>6, <2>1, Zenon
<1>9. at \in [0 .. n -> Nat]
  <2>1. \A k \in 1 .. n : at[k - 1] \in Nat => at[k] \in Nat
    <3>1. \A k \in 1 .. n : k \in Nat
      OBVIOUS
    <3>2. QED
      BY <1>2, <1>8, <3>1, Zenon
  <2>2. at[0] \in Nat
    BY <1>7
  <2>3. QED
    BY <1>7, <2>1, <2>2, LoopInvariant
<1>10. QED
  BY <1>1, <1>7, <1>8, <1>9 DEF IsFieldStart, at, Step

\* The loop over the varbinds.
LEMMA VarbindLoop ==
  ASSUME NEW b \in Seq(Nat), NEW p \in Nat
  PROVE  IsVarbindStart(VarbindStart(b, p), b, p)
<1>1. PICK n \in Nat : n = Len(b)
  OBVIOUS
<1> DEFINE Step(k, s) == ReadVarbind(b, s).at
           F == [k \in Nat |-> [s \in Nat |-> Step(k, s)]]
           T(g) == g = [k \in 0 .. n |-> IF k = 0 THEN p ELSE Step(k, g[k - 1])]
           at == VarbindStart(b, p)
<1>2. \A k \in Nat, s \in Nat : Step(k, s) \in Nat
  BY VarbindLeads
<1>3. at = CHOOSE g : T(g)
  BY <1>1 DEF VarbindStart
<1> HIDE DEF Step, at
<1>4. F \in [Nat -> [Nat -> Nat]]
  BY <1>2
<1>5. \E g : T(g)
  <2> HIDE DEF F
  <2>1. PICK g \in [0 .. n -> Nat] : IsRun(g, p, F, n)
    BY <1>4, LoopStates
  <2>2. g[0] = p /\ \A k \in 1 .. n : g[k] = F[k][g[k - 1]]
    BY <2>1 DEF IsRun
  <2>3. \A k \in 1 .. n : g[k] = Step(k, g[k - 1])
    <3> SUFFICES ASSUME NEW k \in 1 .. n PROVE g[k] = Step(k, g[k - 1])
      OBVIOUS
    <3>1. k \in Nat /\ k - 1 \in 0 .. n
      OBVIOUS
    <3>2. g[k - 1] \in Nat
      BY <3>1
    <3>3. F[k][g[k - 1]] = Step(k, g[k - 1])
      BY <3>1, <3>2, Zenon DEF F
    <3>4. QED
      BY <2>2, <3>3
  <2>4. \A k \in 0 .. n : k = 0 \/ (k # 0 /\ k \in 1 .. n)
    OBVIOUS
  <2>5. \A k \in 0 .. n : g[k] = IF k = 0 THEN p ELSE Step(k, g[k - 1])
    BY <2>2, <2>3, <2>4, Zenon
  <2>6. g = [k \in 0 .. n |-> g[k]]
    OBVIOUS
  <2>7. T(g)
    BY <2>5, <2>6, Zenon
  <2>8. QED
    BY <2>7
<1>6. T(at)
  <2> HIDE DEF T
  <2>1. T(CHOOSE g : T(g))
    BY <1>5
  <2>2. QED
    BY <1>3, <2>1
<1>7. DOMAIN at = 0 .. n /\ at = [k \in 0 .. n |-> at[k]] /\ at[0] = p
  BY <1>6
<1>8. \A k \in 1 .. n : at[k] = Step(k, at[k - 1])
  <2>1. \A k \in 1 .. n : k \in 0 .. n /\ k # 0
    OBVIOUS
  <2>2. QED
    BY <1>6, <2>1, Zenon
<1>9. at \in [0 .. n -> Nat]
  <2>1. \A k \in 1 .. n : at[k - 1] \in Nat => at[k] \in Nat
    <3>1. \A k \in 1 .. n : k \in Nat
      OBVIOUS
    <3>2. QED
      BY <1>2, <1>8, <3>1, Zenon
  <2>2. at[0] \in Nat
    BY <1>7
  <2>3. QED
    BY <1>7, <2>1, <2>2, LoopInvariant
<1>10. QED
  BY <1>1, <1>7, <1>8, <1>9 DEF IsVarbindStart, at, Step

-----------------------------------------------------------------------------
(* All arguments. *)

\* Parts that are not empty take room.
LEMMA PlacedApart ==
  ASSUME NEW b, NEW p \in Nat, NEW seqs \in Seq(Seq(Nat)), NEW q, IsPlaced(q, b, p, seqs),
         \A k \in 1 .. Len(seqs) : Len(seqs[k]) > 0
  PROVE  p + Len(seqs) <= q[Len(seqs)]
<1> DEFINE n == Len(seqs)
           P == {i \in Nat : i <= n => p + i <= q[i]}
<1>1. n \in Nat /\ \A k \in 1 .. n : Len(seqs[k]) \in Nat
  OBVIOUS
<1>2. /\ \A k \in 0 .. n : q[k] \in Nat
      /\ q[0] = p
      /\ \A k \in 1 .. n : q[k] = q[k - 1] + Len(seqs[k])
  BY DEF IsPlaced
<1> HIDE DEF n
<1>3. 0 \in P
  <2>1. p + 0 <= q[0]
    BY <1>2
  <2>2. QED
    BY <2>1
<1>4. ASSUME NEW i \in Nat, i \in P PROVE i + 1 \in P
  <2>1. CASE i + 1 <= n
    <3> DEFINE k == i + 1
    <3>1. k \in 1 .. n /\ k - 1 = i /\ i \in 0 .. n /\ k \in 0 .. n /\ i <= n
      BY <1>1, <2>1
    <3> HIDE DEF k
    <3>2. q[k] = q[i] + Len(seqs[k])
      BY <1>2, <3>1
    <3>3. PICK l \in Nat : l = Len(seqs[k]) /\ l > 0
      <4>1. Len(seqs[k]) > 0
        BY <3>1 DEF n
      <4>2. QED
        BY <1>1, <3>1, <4>1
    <3>4. p + i <= q[i] /\ q[i] \in Nat
      BY <1>2, <1>4, <3>1
    <3>5. p + (i + 1) <= q[k]
      BY <3>2, <3>3, <3>4
    <3>6. QED
      BY <3>5 DEF k
  <2>2. QED
    BY <2>1
<1>5. \A i \in Nat : i \in P
  <2> HIDE DEF P
  <2>1. QED
    BY <1>3, <1>4, InductionOnSet
<1>6. QED
  BY <1>1, <1>5 DEF n

\* Up to which number all are in a set, and the next is not.
LEMMA LongestPrefix ==
  ASSUME NEW N \in Nat, NEW K
  PROVE  \E M \in 0 .. N : (\A k \in 1 .. M : k \in K) /\ (M = N \/ M + 1 \notin K)
<1> DEFINE S == {k \in 1 .. N : k \notin K}
<1>1. CASE S = {}
  <2>1. \A k \in 1 .. N : k \in K
    BY <1>1
  <2>2. QED
    BY <2>1
<1>2. CASE S # {}
  <2>1. S \in SUBSET Nat
    OBVIOUS
  <2>2. PICK m \in S : \A k \in S : m <= k
    BY <1>2, <2>1, LeastElement
  <2>3. m \in 1 .. N /\ m \notin K
    OBVIOUS
  <2>4. m - 1 \in 0 .. N /\ m - 1 + 1 \notin K
    BY <2>3
  <2>5. \A k \in 1 .. m - 1 : k \in K
    <3>1. \A k \in 1 .. m - 1 : k \in 1 .. N /\ ~(m <= k)
      BY <2>3
    <3>2. QED
      BY <2>2, <3>1
  <2>6. QED
    BY <2>4, <2>5
<1>3. QED
  BY <1>1, <1>2

\* What an agent sends as arguments.
AreArguments(args) ==
  /\ Len(args) \in Nat
  /\ args = [k \in 1 .. Len(args) |-> args[k]]
  /\ \A k \in 1 .. Len(args) : IsArgument(args[k])

\* Their octets, one sequence for each.
VarbindSeqs(args, long) == [k \in DOMAIN args |-> Varbind(args[k], long)]

\* There is one sequence for each argument.
LEMMA VarbindSeqsForm ==
  ASSUME NEW args, AreArguments(args), NEW long \in BOOLEAN
  PROVE  /\ VarbindSeqs(args, long) \in Seq(Seq(Nat))
         /\ Len(VarbindSeqs(args, long)) = Len(args)
         /\ \A k \in 1 .. Len(args) : /\ VarbindSeqs(args, long)[k] = Varbind(args[k], long)
                                      /\ Len(VarbindSeqs(args, long)[k]) > 0
<1>1. PICK n \in Nat : n = Len(args)
  BY DEF AreArguments
<1>2. DOMAIN args = 1 .. n
  BY <1>1 DEF AreArguments
<1> DEFINE e(k) == Varbind(args[k], long)
<1>3. \A k \in 1 .. n : e(k) \in Seq(Nat) /\ Len(e(k)) > 0
  BY <1>1, VarbindForm DEF AreArguments
<1>4. VarbindSeqs(args, long) = [k \in 1 .. n |-> e(k)]
  BY <1>2 DEF VarbindSeqs
<1> HIDE DEF e
<1>5. PICK s : s = VarbindSeqs(args, long)
  OBVIOUS
<1>6. s \in Seq(Seq(Nat)) /\ Len(s) = n /\ \A k \in 1 .. n : s[k] = e(k)
  <2>1. s = [k \in 1 .. n |-> e(k)]
    BY <1>4, <1>5
  <2>2. s \in [1 .. n -> Seq(Nat)]
    BY <1>3, <2>1
  <2>3. s \in Seq(Seq(Nat)) /\ Len(s) = n
    BY <2>2
  <2>4. QED
    BY <2>1, <2>3
<1>7. QED
  BY <1>1, <1>3, <1>5, <1>6 DEF e

\* The arguments are read as they were written, in their order, if all are of types that
\* are known; if one is not, none is read.
LEMMA VarbindsRead ==
  ASSUME NEW b \in Seq(Nat), Len(b) < DatagramSize, NEW p \in Nat \ {0}, NEW args, AreArguments(args),
         NEW long \in BOOLEAN, Holds(b, p, FlattenSeq(VarbindSeqs(args, long))),
         p + Len(FlattenSeq(VarbindSeqs(args, long))) = Len(b) + 1
  PROVE  /\ ReadVarbinds(b, p).ok <=> \A k \in 1 .. Len(args) : args[k].type \in Known
         /\ ReadVarbinds(b, p).ok => ReadVarbinds(b, p).varArgs = args
<1>1. PICK N \in Nat : N = Len(args)
  BY DEF AreArguments
<1>2. PICK seqs \in Seq(Seq(Nat)) : /\ seqs = VarbindSeqs(args, long)
                                    /\ Len(seqs) = N
                                    /\ \A k \in 1 .. N : seqs[k] = Varbind(args[k], long)
                                    /\ \A k \in 1 .. N : Len(seqs[k]) > 0
  <2>1. /\ VarbindSeqs(args, long) \in Seq(Seq(Nat))
        /\ Len(VarbindSeqs(args, long)) = Len(args)
        /\ \A k \in 1 .. Len(args) : /\ VarbindSeqs(args, long)[k] = Varbind(args[k], long)
                                     /\ Len(VarbindSeqs(args, long)[k]) > 0
    BY VarbindSeqsForm
  <2>2. QED
    BY <1>1, <2>1, Zenon
<1>3. PICK L \in Nat : L = Len(b)
  <2>1. Len(b) \in Nat
    OBVIOUS
  <2>2. QED
    BY <2>1, Zenon
<1>4. PICK q : IsPlaced(q, b, p, seqs) /\ q[N] = L + 1
  <2>1. Holds(b, p, FlattenSeq(seqs))
    BY <1>2
  <2>2. PICK q : IsPlaced(q, b, p, seqs) /\ q[Len(seqs)] = p + Len(FlattenSeq(seqs))
    BY <2>1, FlattenHeld
  <2>3. q[N] = L + 1
    BY <1>2, <1>3, <2>2
  <2>4. QED
    BY <2>2, <2>3
<1>5. /\ \A k \in 0 .. N : q[k] \in Nat \ {0}
      /\ q[0] = p
      /\ \A k \in 1 .. N : q[k] = q[k - 1] + Len(seqs[k]) /\ Holds(b, q[k - 1], seqs[k])
  BY <1>2, <1>4 DEF IsPlaced
<1>6. N <= L
  <2>1. p + Len(seqs) <= q[Len(seqs)]
    <3>1. \A k \in 1 .. Len(seqs) : Len(seqs[k]) > 0
      BY <1>2
    <3>2. QED
      BY <1>4, <3>1, PlacedApart
  <2>2. p + N <= L + 1
    BY <1>2, <1>4, <2>1
  <2>3. QED
    BY <2>2
<1>7. PICK at : at = VarbindStart(b, p) /\ IsVarbindStart(at, b, p)
  BY VarbindLoop
<1>8. /\ at[0] = p
      /\ \A k \in 1 .. L : at[k] = ReadVarbind(b, at[k - 1]).at
  BY <1>3, <1>7 DEF IsVarbindStart
<1>9. PICK M \in 0 .. N : (\A k \in 1 .. M : args[k].type \in Known) /\ (M = N \/ args[M + 1].type \notin Known)
  <2> DEFINE K == {k \in 1 .. N : args[k].type \in Known}
  <2>1. PICK M \in 0 .. N : (\A k \in 1 .. M : k \in K) /\ (M = N \/ M + 1 \notin K)
    <3> HIDE DEF K
    <3>1. QED
      BY LongestPrefix
  <2>2. M # N => M + 1 \in 1 .. N
    OBVIOUS
  <2>3. QED
    BY <2>1, <2>2
  \* A round at the start of an argument.
<1>10. ASSUME NEW k \in 1 .. N
       PROVE  /\ MoreVarbinds(b, q[k - 1])
              /\ args[k].type \in Known => ReadVarbind(b, q[k - 1]) = [ok |-> TRUE, at |-> q[k], val |-> args[k]]
              /\ args[k].type \notin Known => ReadVarbind(b, q[k - 1]) = [ok |-> FALSE, at |-> q[k - 1]]
  <2>1. PICK x \in Nat \ {0} : x = q[k - 1]
    <3>1. k - 1 \in 0 .. N
      OBVIOUS
    <3>2. q[k - 1] \in Nat \ {0}
      BY <1>5, <3>1
    <3>3. QED
      BY <3>2, Zenon
  <2>2. Holds(b, x, Varbind(args[k], long)) /\ q[k] = x + Len(Varbind(args[k], long))
    BY <1>2, <1>5, <2>1
  <2>3. IsArgument(args[k])
    BY <1>1 DEF AreArguments
  <2>4. PICK v : v = args[k]
    OBVIOUS
  <2>5. /\ MoreVarbinds(b, x)
        /\ v.type \in Known => ReadVarbind(b, x) = [ok |-> TRUE, at |-> x + Len(Varbind(v, long)), val |-> v]
        /\ v.type \notin Known => ReadVarbind(b, x) = [ok |-> FALSE, at |-> x]
    BY <2>2, <2>3, <2>4, VarbindRead
  <2>6. QED
    BY <2>1, <2>2, <2>4, <2>5, Zenon
<1>11. \A k \in 0 .. M : at[k] = q[k]
  <2> DEFINE P == {k \in Nat : k <= M => at[k] = q[k]}
  <2>1. 0 \in P
    BY <1>5, <1>8
  <2>2. ASSUME NEW k \in Nat, k \in P PROVE k + 1 \in P
    <3>1. CASE k + 1 <= M
      <4> DEFINE j == k + 1
      <4>1. j \in 1 .. L /\ j \in 1 .. N /\ j \in 1 .. M /\ j - 1 = k /\ k <= M
        BY <1>6, <3>1, SMTT(20)
      <4> HIDE DEF j
      <4>2. at[k] = q[j - 1]
        BY <2>2, <4>1
      <4>3. at[j] = ReadVarbind(b, q[j - 1]).at
        BY <1>8, <4>1, <4>2
      <4>4. ReadVarbind(b, q[j - 1]) = [ok |-> TRUE, at |-> q[j], val |-> args[j]]
        BY <1>9, <1>10, <4>1, Zenon
      <4>5. at[j] = q[j]
        BY <4>3, <4>4
      <4>6. QED
        BY <4>5 DEF j
    <3>2. QED
      BY <3>1
  <2> HIDE DEF P
  <2>3. \A k \in Nat : k \in P
    BY <2>1, <2>2, InductionOnSet
  <2>4. QED
    BY <2>3 DEF P
<1> DEFINE GoesOn(k) == MoreVarbinds(b, at[k]) /\ ReadVarbind(b, at[k]).ok
           Ends(k) == ~GoesOn(k) /\ \A j \in 0 .. k - 1 : GoesOn(j)
<1>12. \A k \in 0 .. M - 1 : GoesOn(k)
  <2> SUFFICES ASSUME NEW k \in 0 .. M - 1 PROVE GoesOn(k)
    OBVIOUS
  <2> DEFINE j == k + 1
  <2>1. j \in 1 .. N /\ j \in 1 .. M /\ j - 1 = k /\ k \in 0 .. M
    BY SMTT(20)
  <2> HIDE DEF j
  <2>2. at[k] = q[j - 1]
    BY <1>11, <2>1
  <2>3. MoreVarbinds(b, q[j - 1]) /\ ReadVarbind(b, q[j - 1]) = [ok |-> TRUE, at |-> q[j], val |-> args[j]]
    BY <1>9, <1>10, <2>1, Zenon
  <2>4. QED
    BY <2>2, <2>3
<1>13. ~GoesOn(M) /\ (MoreVarbinds(b, at[M]) <=> M # N)
  <2>1. at[M] = q[M]
    BY <1>11
  <2>2. CASE M = N
    <3>1. ~(q[N] <= Len(b))
      BY <1>3, <1>4
    <3>2. QED
      BY <2>1, <2>2, <3>1 DEF MoreVarbinds
  <2>3. CASE M # N
    <3> DEFINE j == M + 1
    <3>1. j \in 1 .. N /\ j - 1 = M
      BY <2>3
    <3>2. args[j].type \notin Known
      BY <1>9, <2>3
    <3> HIDE DEF j
    <3>3. MoreVarbinds(b, q[j - 1]) /\ ReadVarbind(b, q[j - 1]) = [ok |-> FALSE, at |-> q[j - 1]]
      BY <1>10, <3>1, <3>2, Zenon
    <3>4. MoreVarbinds(b, at[M]) /\ ReadVarbind(b, at[M]).ok = FALSE
      BY <2>1, <3>1, <3>3
    <3>5. QED
      BY <2>3, <3>4
  <2>4. QED
    BY <2>2, <2>3
<1>14. (CHOOSE k \in 0 .. Len(b) : Ends(k)) = M
  <2>1. M \in 0 .. L /\ Ends(M)
    BY <1>6, <1>12, <1>13
  <2>2. ASSUME NEW k \in 0 .. L, Ends(k) PROVE k = M
    <3>1. CASE k < M
      <4>1. k \in 0 .. M - 1
        BY <3>1
      <4>2. QED
        BY <1>12, <2>2, <4>1
    <3>2. CASE M < k
      <4>1. M \in 0 .. k - 1
        BY <3>2
      <4>2. QED
        BY <1>13, <2>2, <4>1
    <3>3. QED
      BY <3>1, <3>2
  <2> HIDE DEF Ends
  <2>3. QED
    BY <1>3, <2>1, <2>2
<1>15. ReadVarbinds(b, p) = [ok |-> ~MoreVarbinds(b, at[M]), varArgs |-> [k \in 1 .. M |-> ReadVarbind(b, at[k - 1]).val]]
  BY <1>7, <1>14, Zenon DEF ReadVarbinds
<1>16. ReadVarbinds(b, p).ok <=> M = N
  <2>1. ReadVarbinds(b, p).ok <=> ~MoreVarbinds(b, at[M])
    <3> DEFINE none == ~MoreVarbinds(b, at[M])
               found == [k \in 1 .. M |-> ReadVarbind(b, at[k - 1]).val]
    <3>1. ReadVarbinds(b, p) = [ok |-> none, varArgs |-> found]
      BY <1>15
    <3> HIDE DEF none, found
    <3>2. ReadVarbinds(b, p).ok = none
      BY <3>1
    <3>3. QED
      BY <3>2, Zenon DEF none
  <2>2. QED
    BY <1>13, <2>1, Zenon
<1>17. M = N <=> \A k \in 1 .. N : args[k].type \in Known
  <2>1. M = N => \A k \in 1 .. N : args[k].type \in Known
    BY <1>9
  <2>2. M # N => M + 1 \in 1 .. N /\ args[M + 1].type \notin Known
    BY <1>9
  <2>3. QED
    BY <2>1, <2>2
<1>18. ASSUME M = N PROVE ReadVarbinds(b, p).varArgs = args
  <2>1. \A k \in 1 .. N : ReadVarbind(b, at[k - 1]).val = args[k]
    <3> SUFFICES ASSUME NEW k \in 1 .. N PROVE ReadVarbind(b, at[k - 1]).val = args[k]
      OBVIOUS
    <3>1. k - 1 \in 0 .. M /\ k \in 1 .. M
      BY <1>18
    <3>2. at[k - 1] = q[k - 1]
      BY <1>11, <3>1
    <3>3. ReadVarbind(b, q[k - 1]) = [ok |-> TRUE, at |-> q[k], val |-> args[k]]
      BY <1>9, <1>10, <3>1, Zenon
    <3>4. QED
      BY <3>2, <3>3
  <2>2. args = [k \in 1 .. N |-> args[k]]
    BY <1>1 DEF AreArguments
  <2>3. ReadVarbinds(b, p).varArgs = [k \in 1 .. N |-> ReadVarbind(b, at[k - 1]).val]
    BY <1>15, <1>18
  <2>4. QED
    BY <2>1, <2>2, <2>3, Zenon
<1>19. QED
  BY <1>1, <1>16, <1>17, <1>18

-----------------------------------------------------------------------------
(* Fields of a header. *)

\* The field f starts at p, ends before q and has the value x.
IsRead(b, p, f, q, x) ==
  /\ IsField(b, p, f)
  /\ ReadField(b, p, f).at = q
  /\ ReadField(b, p, f).val = x

\* The elements of a message are sequences of octets.
LEMMA IntTLVForm ==
  ASSUME NEW tag \in Nat, NEW n \in Word, NEW long \in BOOLEAN
  PROVE  IntTLV(tag, n, long) \in Seq(Nat)
<1>1. IntOctets(n) \in Seq(Nat)
  BY IntForm
<1>2. QED
  BY <1>1, ElementForm DEF IntTLV

\* So are identifiers.
LEMMA OidTLVForm ==
  ASSUME NEW oid \in ObjectIds, NEW long \in BOOLEAN
  PROVE  OidTLV(oid, long) \in Seq(Nat)
<1>1. OidOctets(oid) \in Seq(Nat) /\ OID \in Nat
  BY OidForm DEF OID
<1>2. QED
  BY <1>1, ElementForm DEF OidTLV

\* Numbers are read as they were written, whatever they stand for.
LEMMA IntTLVRead ==
  ASSUME NEW b \in Seq(Nat), Len(b) < DatagramSize, NEW p \in Nat \ {0}, NEW tag \in Nat, NEW n \in Word,
         NEW long \in BOOLEAN, Holds(b, p, IntTLV(tag, n, long))
  PROVE  LET h == GetFieldLength(b, p + 1)
         IN /\ At(b, p) = tag
            /\ h.len = Len(IntOctets(n))
            /\ ParseInt(b, h.at, h.len) = [at |-> p + Len(IntTLV(tag, n, long)), val |-> n]
<1>1. PICK c \in Seq(Nat) : c = IntOctets(n)
  BY IntForm
<1>2. PICK h : h = GetFieldLength(b, p + 1)
  OBVIOUS
<1>3. IsElement(b, p, Len(IntTLV(tag, n, long)), h, tag, c)
  <2>1. Holds(b, p, TLV(tag, c, long)) /\ IntTLV(tag, n, long) = TLV(tag, c, long)
    BY <1>1 DEF IntTLV
  <2>2. IsElement(b, p, Len(TLV(tag, c, long)), GetFieldLength(b, p + 1), tag, c)
    BY <2>1, ElementRead
  <2>3. QED
    BY <1>2, <2>1, <2>2, Zenon
<1>4. At(b, p) = tag /\ h.len = Len(c) /\ h.at \in Nat \ {0} /\ Holds(b, h.at, c)
      /\ h.at + Len(c) = p + Len(IntTLV(tag, n, long))
  BY <1>3 DEF IsElement
<1>5. ParseInt(b, h.at, Len(IntOctets(n))) = [at |-> h.at + Len(IntOctets(n)), val |-> n]
  BY <1>1, <1>4, IntRead
<1>6. ParseInt(b, h.at, h.len) = [at |-> p + Len(IntTLV(tag, n, long)), val |-> n]
  BY <1>1, <1>4, <1>5
<1>7. QED
  BY <1>1, <1>2, <1>4, <1>6, Zenon

\* A number as a field.
LEMMA NumberFieldRead ==
  ASSUME NEW b \in Seq(Nat), Len(b) < DatagramSize, NEW p \in Nat \ {0}, NEW tag \in Nat, NEW n \in Word,
         NEW long \in BOOLEAN, Holds(b, p, IntTLV(tag, n, long)), NEW name, NEW kind \in {"int", "time"}
  PROVE  IsRead(b, p, Field(name, tag, kind), p + Len(IntTLV(tag, n, long)), n)
<1>1. PICK h : h = GetFieldLength(b, p + 1)
  OBVIOUS
<1>2. At(b, p) = tag /\ ParseInt(b, h.at, h.len) = [at |-> p + Len(IntTLV(tag, n, long)), val |-> n]
  BY <1>1, IntTLVRead
<1>3. PICK f : f = Field(name, tag, kind)
  OBVIOUS
<1>4. f.tag = tag /\ f.kind \notin {"oid", "str", "box", "ip", "octet", "version"}
  BY <1>3 DEF Field
<1>5. IsField(b, p, f)
  BY <1>2, <1>4 DEF IsField
<1>6. ReadField(b, p, f) = ParseInt(b, h.at, h.len)
  BY <1>1, <1>4, Zenon DEF ReadField
<1>7. QED
  BY <1>2, <1>3, <1>5, <1>6 DEF IsRead

\* The version, at most 4 octets long.
LEMMA VersionFieldRead ==
  ASSUME NEW b \in Seq(Nat), Len(b) < DatagramSize, NEW p \in Nat \ {0}, NEW n \in Int31,
         NEW long \in BOOLEAN, Holds(b, p, IntTLV(INT, n, long)), NEW name
  PROVE  IsRead(b, p, Field(name, INT, "version"), p + Len(IntTLV(INT, n, long)), n)
<1>1. n \in Word /\ INT \in Nat /\ Len(IntOctets(n)) <= 4
  <2>1. n \in Word
    BY DEF Int31, Word
  <2>2. QED
    BY <2>1, IntForm DEF INT
<1>2. PICK h : h = GetFieldLength(b, p + 1)
  OBVIOUS
<1>3. At(b, p) = INT /\ h.len = Len(IntOctets(n))
      /\ ParseInt(b, h.at, h.len) = [at |-> p + Len(IntTLV(INT, n, long)), val |-> n]
  BY <1>1, <1>2, IntTLVRead
<1>4. PICK f : f = Field(name, INT, "version")
  OBVIOUS
<1>5. f.tag = INT /\ f.kind = "version"
  BY <1>4 DEF Field
<1>6. IsField(b, p, f)
  BY <1>1, <1>2, <1>3, <1>5 DEF IsField
<1>7. ReadField(b, p, f) = ParseInt(b, h.at, h.len)
  <2>1. f.kind \notin {"oid", "str", "box"}
    BY <1>5
  <2>2. QED
    BY <1>2, <2>1, Zenon DEF ReadField
<1>8. QED
  BY <1>3, <1>4, <1>6, <1>7 DEF IsRead

\* An identifier as a field.
LEMMA OidFieldRead ==
  ASSUME NEW b \in Seq(Nat), Len(b) < DatagramSize, NEW p \in Nat \ {0}, NEW oid \in ObjectIds,
         NEW long \in BOOLEAN, Holds(b, p, OidTLV(oid, long)), NEW name
  PROVE  IsRead(b, p, Field(name, OID, "oid"), p + Len(OidTLV(oid, long)), oid)
<1>1. PICK h : h = GetFieldLength(b, p + 1)
  OBVIOUS
<1>2. PICK c \in Seq(Nat) : c = OidOctets(oid)
  BY OidForm
<1>3. IsElement(b, p, Len(OidTLV(oid, long)), h, OID, c)
  <2>1. Holds(b, p, TLV(OID, c, long)) /\ OidTLV(oid, long) = TLV(OID, c, long) /\ OID \in Nat
    BY <1>2 DEF OidTLV, OID
  <2>2. IsElement(b, p, Len(TLV(OID, c, long)), GetFieldLength(b, p + 1), OID, c)
    BY <2>1, ElementRead
  <2>3. QED
    BY <1>1, <2>1, <2>2, Zenon
<1>4. At(b, p) = OID /\ h.len = Len(c) /\ h.at \in Nat \ {0} /\ Holds(b, h.at, c)
      /\ h.at + Len(c) = p + Len(OidTLV(oid, long))
  BY <1>3 DEF IsElement
<1>5. ParseOid(b, h.at, Len(OidOctets(oid))) = [at |-> h.at + Len(OidOctets(oid)), val |-> oid]
  BY <1>2, <1>4, OidRead
<1>6. ParseOid(b, h.at, h.len) = [at |-> p + Len(OidTLV(oid, long)), val |-> oid]
  BY <1>2, <1>4, <1>5
<1>7. PICK f : f = Field(name, OID, "oid")
  OBVIOUS
<1>8. f.tag = OID /\ f.kind = "oid"
  BY <1>7 DEF Field
<1>9. IsField(b, p, f)
  BY <1>4, <1>8 DEF IsField
<1>10. ReadField(b, p, f) = ParseOid(b, h.at, h.len)
  <2>1. f.kind \notin {"str", "box"}
    BY <1>8
  <2>2. QED
    BY <1>1, <1>8, <2>1, Zenon DEF ReadField
<1>11. QED
  BY <1>6, <1>7, <1>9, <1>10 DEF IsRead

\* A text as a field.
LEMMA StrFieldRead ==
  ASSUME NEW b \in Seq(Nat), Len(b) < DatagramSize, NEW p \in Nat \ {0}, NEW c \in Ascii,
         NEW long \in BOOLEAN, Holds(b, p, TLV(STR, c, long)), NEW name
  PROVE  IsRead(b, p, Field(name, STR, "str"), p + Len(TLV(STR, c, long)), c)
<1>1. PICK h : h = GetFieldLength(b, p + 1)
  OBVIOUS
<1>2. c \in Seq(Nat) /\ STR \in Nat
  BY AsciiForm DEF STR
<1>3. IsElement(b, p, Len(TLV(STR, c, long)), h, STR, c)
  BY <1>1, <1>2, ElementRead
<1>4. At(b, p) = STR /\ h.len = Len(c) /\ h.at \in Nat \ {0} /\ Holds(b, h.at, c)
      /\ h.at + Len(c) = p + Len(TLV(STR, c, long))
  BY <1>3 DEF IsElement
<1>5. ParseStr(b, h.at, Len(c)) = [at |-> h.at + Len(c), val |-> c]
  BY <1>4, StrRead
<1>6. ParseStr(b, h.at, h.len) = [at |-> p + Len(TLV(STR, c, long)), val |-> c]
  BY <1>4, <1>5
<1>7. PICK f : f = Field(name, STR, "str")
  OBVIOUS
<1>8. f.tag = STR /\ f.kind = "str"
  BY <1>7 DEF Field
<1>9. IsField(b, p, f)
  BY <1>4, <1>8 DEF IsField
<1>10. ReadField(b, p, f) = ParseStr(b, h.at, h.len)
  <2>1. f.kind \notin {"oid", "box"}
    BY <1>8
  <2>2. QED
    BY <1>1, <1>8, <2>1, Zenon DEF ReadField
<1>11. QED
  BY <1>6, <1>7, <1>9, <1>10 DEF IsRead

\* f is the field of a sequence.
IsBox(f) == f.tag = SEQ /\ f.kind = "box"

\* Such a field.
LEMMA BoxField ==
  ASSUME NEW name
  PROVE  IsBox(Field(name, SEQ, "box"))
BY DEF IsBox, Field

\* The sequence with the content c, as a field at p, is entered at q.
IsEntered(b, p, c, long, f, q) ==
  /\ IsRead(b, p, f, q, <<>>)
  /\ Holds(b, q, c)
  /\ q + Len(c) = p + Len(TLV(SEQ, c, long))

\* A sequence is entered: behind its length is its content.
LEMMA BoxFieldRead ==
  ASSUME NEW b \in Seq(Nat), Len(b) < DatagramSize, NEW p \in Nat \ {0}, NEW c \in Seq(Nat),
         NEW long \in BOOLEAN, Holds(b, p, TLV(SEQ, c, long)), NEW f, IsBox(f)
  PROVE  \E q \in Nat \ {0} : IsEntered(b, p, c, long, f, q)
<1>1. PICK h : h = GetFieldLength(b, p + 1)
  OBVIOUS
<1>2. SEQ \in Nat
  BY DEF SEQ
<1>3. IsElement(b, p, Len(TLV(SEQ, c, long)), h, SEQ, c)
  BY <1>1, <1>2, ElementRead
<1>4. At(b, p) = SEQ /\ h.len = Len(c) /\ h.at \in Nat \ {0} /\ Holds(b, h.at, c)
      /\ h.at + Len(c) = p + Len(TLV(SEQ, c, long))
  BY <1>3 DEF IsElement
<1>5. f.tag = SEQ /\ f.kind = "box"
  BY DEF IsBox
<1>6. IsField(b, p, f)
  BY <1>4, <1>5 DEF IsField
<1>7. ReadField(b, p, f) = [at |-> h.at, val |-> <<>>]
  <2>1. f.kind \notin {"oid", "str"}
    BY <1>5
  <2>2. QED
    BY <1>1, <1>5, <2>1, Zenon DEF ReadField
<1>8. IsRead(b, p, f, h.at, <<>>)
  BY <1>6, <1>7 DEF IsRead
<1>9. IsEntered(b, p, c, long, f, h.at)
  BY <1>4, <1>8 DEF IsEntered
<1>10. QED
  BY <1>4, <1>9

\* c are the octets of an element of n octets, in short form, for the field f.
IsShort(c, f, n) ==
  /\ n \in {1, 4} /\ c \in Seq(Nat) /\ Len(c) = n + 2 /\ c[1] = f.tag /\ c[2] = n
  /\ f.kind = IF n = 4 THEN "ip" ELSE "octet"

\* The address of the source and the generic number are in short form.
LEMMA ShortFieldRead ==
  ASSUME NEW b \in Seq(Nat), NEW p \in Nat \ {0}, NEW f, NEW n, NEW c, IsShort(c, f, n), Holds(b, p, c)
  PROVE  /\ IsField(b, p, f)
         /\ ReadField(b, p, f).at = p + 2 + n
         /\ n = 1 => ReadField(b, p, f).val = c[3]
<1>1. /\ n \in Nat /\ n > 0 /\ n < 128 /\ n \in {1, 4}
      /\ c \in Seq(Nat) /\ Len(c) = n + 2 /\ c[1] = f.tag /\ c[2] = n
      /\ f.kind = IF n = 4 THEN "ip" ELSE "octet"
  BY DEF IsShort
<1>2. At(b, p) = f.tag /\ At(b, p + 1) = n /\ At(b, p + 2) = c[3] /\ c[3] \in Nat
  <2>1. \A k \in 1 .. Len(c) : At(b, p + k - 1) = c[k]
    BY <1>1, AtHeld
  <2>2. 1 \in 1 .. Len(c) /\ 2 \in 1 .. Len(c) /\ 3 \in 1 .. Len(c)
        /\ p + 1 - 1 = p /\ p + 2 - 1 = p + 1 /\ p + 3 - 1 = p + 2
    BY <1>1
  <2>3. c[3] \in Nat
    BY <1>1, <2>2
  <2>4. QED
    BY <1>1, <2>1, <2>2, <2>3
<1>3. GetFieldLength(b, p + 1) = [at |-> p + 2, len |-> n]
  <2>1. p + 1 + 1 = p + 2
    OBVIOUS
  <2>2. QED
    BY <1>1, <1>2, <2>1 DEF GetFieldLength
<1>4. f.kind \notin {"oid", "str", "box", "version"}
  BY <1>1
<1>5. IsField(b, p, f)
  BY <1>1, <1>2, <1>4 DEF IsField
<1>6. ReadField(b, p, f) = ParseInt(b, p + 2, n)
  <2>1. f.kind # "oid" /\ f.kind # "str" /\ f.kind # "box"
    BY <1>4
  <2>2. PICK h : h = GetFieldLength(b, p + 1)
    OBVIOUS
  <2>3. ReadField(b, p, f) = ParseInt(b, h.at, h.len)
    BY <2>1, <2>2, Zenon DEF ReadField
  <2>4. h.at = p + 2 /\ h.len = n
    BY <1>3, <2>2
  <2>5. QED
    BY <2>3, <2>4
<1>7. ParseInt(b, p + 2, n).at = p + 2 + n /\ ParseInt(b, p + 2, n).val = IntValue(b, p + 2, n)[n]
  BY DEF ParseInt
<1>8. ASSUME n = 1 PROVE IntValue(b, p + 2, n)[n] = c[3]
  <2>1. PICK v : v = IntValue(b, p + 2, n) /\ IsIntValue(v, b, p + 2, n)
    BY <1>1, IntLoop
  <2>2. v[0] = 0 /\ v[1] = 256 * v[0] + At(b, p + 2)
    <3>1. 1 \in 1 .. n /\ 1 - 1 = 0 /\ p + 2 + 1 - 1 = p + 2
      BY <1>8
    <3>2. \A k \in 1 .. n : v[k] = 256 * v[k - 1] + At(b, p + 2 + k - 1)
      BY <2>1 DEF IsIntValue
    <3>3. v[0] = 0
      BY <2>1 DEF IsIntValue
    <3>4. QED
      BY <3>1, <3>2, <3>3
  <2>3. v[1] = c[3]
    <3>1. 256 * v[0] = 0
      BY <2>2
    <3>2. QED
      BY <1>2, <2>2, <3>1
  <2>4. QED
    BY <1>8, <2>1, <2>3
<1>9. QED
  BY <1>5, <1>6, <1>7, <1>8

-----------------------------------------------------------------------------
(* The fields of a header, one after the other. *)

\* The fields start at r[1], r[2], and so on, one behind the other.
IsWalk(b, r, fields) ==
  /\ Len(fields) \in Nat /\ DOMAIN fields = 1 .. Len(fields) /\ r[1] \in Nat
  /\ \A k \in 1 .. Len(fields) : IsField(b, r[k], fields[k]) /\ ReadField(b, r[k], fields[k]).at = r[k + 1]

\* s is what is read there.
IsReading(b, r, fields, s) ==
  /\ s.ok
  /\ s.p = r[Len(fields) + 1]
  /\ \A k \in 1 .. Len(fields) : s.val[k] = ReadField(b, r[k], fields[k]).val

\* The fields are read if each is as it has to be.
LEMMA FieldsRead ==
  ASSUME NEW b \in Seq(Nat), NEW fields, NEW r, IsWalk(b, r, fields)
  PROVE  IsReading(b, r, fields, ReadFields(b, r[1], fields))
<1>1. PICK p \in Nat : p = r[1]
  BY DEF IsWalk
<1>2. PICK n \in Nat : n = Len(fields) /\ DOMAIN fields = 1 .. n
  BY DEF IsWalk
<1>3. PICK at : at = FieldStart(b, p, fields) /\ IsFieldStart(at, b, p, fields)
  <2>1. Len(fields) \in Nat
    BY <1>2
  <2>2. QED
    BY <2>1, FieldLoop
<1>4. at[0] = p /\ \A k \in 1 .. n : at[k] = ReadField(b, at[k - 1], fields[k]).at
  BY <1>2, <1>3 DEF IsFieldStart
<1>5. \A k \in 1 .. n : IsField(b, r[k], fields[k]) /\ ReadField(b, r[k], fields[k]).at = r[k + 1]
  BY <1>2 DEF IsWalk
<1>6. \A k \in 0 .. n : at[k] = r[k + 1]
  <2> DEFINE P == {k \in Nat : k <= n => at[k] = r[k + 1]}
  <2>1. 0 \in P
    <3>1. 0 + 1 = 1
      OBVIOUS
    <3>2. QED
      BY <1>1, <1>4, <3>1
  <2>2. ASSUME NEW k \in Nat, k \in P PROVE k + 1 \in P
    <3>1. CASE k + 1 <= n
      <4> DEFINE j == k + 1
      <4>1. j \in 1 .. n /\ j - 1 = k /\ k <= n
        BY <3>1
      <4>2. at[j - 1] = r[j]
        BY <2>2, <4>1
      <4> HIDE DEF j
      <4>3. at[j] = ReadField(b, r[j], fields[j]).at
        BY <1>4, <4>1, <4>2
      <4>4. at[j] = r[j + 1]
        BY <1>5, <4>1, <4>3
      <4>5. QED
        BY <4>4 DEF j
    <3>2. QED
      BY <3>1
  <2> HIDE DEF P
  <2>3. \A k \in Nat : k \in P
    BY <2>1, <2>2, InductionOnSet
  <2>4. QED
    BY <2>3 DEF P
<1>7. \A k \in 1 .. n : at[k - 1] = r[k]
  <2>1. \A k \in 1 .. n : k - 1 \in 0 .. n /\ k - 1 + 1 = k
    OBVIOUS
  <2>2. QED
    BY <1>6, <2>1
<1> DEFINE val == [k \in DOMAIN fields |-> ReadField(b, at[k - 1], fields[k]).val]
<1>8. ReadFields(b, p, fields) = [ok |-> TRUE, p |-> at[n], val |-> val]
  <2>1. \A k \in DOMAIN fields : IsField(b, at[k - 1], fields[k])
    BY <1>2, <1>5, <1>7
  <2>2. QED
    BY <1>2, <1>3, <2>1, Zenon DEF ReadFields
<1>9. \A k \in 1 .. n : val[k] = ReadField(b, r[k], fields[k]).val
  BY <1>2, <1>7
<1> HIDE DEF val
<1>10. ReadFields(b, p, fields).ok /\ ReadFields(b, p, fields).p = at[n] /\ ReadFields(b, p, fields).val = val
  BY <1>8
<1>11. at[n] = r[n + 1]
  BY <1>6
<1>12. QED
  BY <1>1, <1>2, <1>9, <1>10, <1>11, Zenon DEF IsReading

\* Behind an element there is a position.
LEMMA NextPosition ==
  ASSUME NEW p \in Nat \ {0}, NEW c \in Seq(Nat)
  PROVE  \E q \in Nat \ {0} : q = p + Len(c)
<1>1. Len(c) \in Nat
  OBVIOUS
<1>2. p + Len(c) \in Nat \ {0}
  BY <1>1
<1>3. QED
  BY <1>2

\* The two fields before the type.
LEMMA EnvelopeRead ==
  ASSUME NEW b \in Seq(Nat), Len(b) < DatagramSize, NEW p \in Nat \ {0},
         NEW version \in Int31, NEW community \in Ascii, NEW long \in BOOLEAN,
         Holds(b, p, IntTLV(INT, version, long)),
         Holds(b, p + Len(IntTLV(INT, version, long)), TLV(STR, community, long))
  PROVE  LET s == ReadFields(b, p, Envelope)
         IN /\ s.ok
            /\ s.p = p + Len(IntTLV(INT, version, long)) + Len(TLV(STR, community, long))
            /\ s.val[1] = version /\ s.val[2] = community
<1>1. PICK v \in Seq(Nat) : v = IntTLV(INT, version, long)
  <2>1. version \in Word /\ INT \in Nat
    BY DEF Int31, Word, INT
  <2>2. QED
    BY <2>1, IntTLVForm
<1>2. PICK q \in Nat \ {0} : q = p + Len(v)
  BY NextPosition
<1>3. PICK c \in Seq(Nat) : c = TLV(STR, community, long)
  <2>1. community \in Seq(Nat) /\ STR \in Nat
    BY AsciiForm DEF STR
  <2>2. QED
    BY <2>1, ElementForm
<1>4. PICK z \in Nat \ {0} : z = q + Len(c)
  BY NextPosition
<1>5. PICK r : r = <<p, q, z>>
  OBVIOUS
<1>6. r[1] = p /\ r[2] = q /\ r[3] = z
  BY <1>5
<1>7. IsRead(b, r[1], Envelope[1], r[2], version)
  <2>1. Envelope[1] = Field("Version", INT, "version")
    BY DEF Envelope
  <2>2. IsRead(b, p, Field("Version", INT, "version"), q, version)
    BY <1>1, <1>2, VersionFieldRead
  <2>3. QED
    BY <1>6, <2>1, <2>2, Zenon
<1>8. IsRead(b, r[2], Envelope[2], r[3], community)
  <2>1. Envelope[2] = Field("community", STR, "str")
    BY DEF Envelope
  <2>2. Holds(b, q, TLV(STR, community, long))
    BY <1>1, <1>2
  <2>3. IsRead(b, q, Field("community", STR, "str"), z, community)
    BY <1>3, <1>4, <2>2, StrFieldRead
  <2>4. QED
    BY <1>6, <2>1, <2>3, Zenon
<1>9. Len(Envelope) = 2 /\ DOMAIN Envelope = 1 .. 2
  BY DEF Envelope
<1>10. IsWalk(b, r, Envelope)
  <2>1. /\ IsField(b, r[1], Envelope[1]) /\ ReadField(b, r[1], Envelope[1]).at = r[2]
        /\ IsField(b, r[2], Envelope[2]) /\ ReadField(b, r[2], Envelope[2]).at = r[3]
    BY <1>7, <1>8 DEF IsRead
  <2>2. \A k \in 1 .. 2 : (k = 1 /\ k + 1 = 2) \/ (k = 2 /\ k + 1 = 3)
    OBVIOUS
  <2>3. r[1] \in Nat
    BY <1>6
  <2>4. QED
    BY <1>9, <2>1, <2>2, <2>3 DEF IsWalk
<1>11. PICK s : s = ReadFields(b, p, Envelope)
  OBVIOUS
<1>12. s.ok /\ s.p = r[3] /\ \A k \in 1 .. 2 : s.val[k] = ReadField(b, r[k], Envelope[k]).val
  <2>1. 2 + 1 = 3
    OBVIOUS
  <2>2. IsReading(b, r, Envelope, ReadFields(b, r[1], Envelope))
    BY <1>10, FieldsRead
  <2>3. QED
    BY <1>6, <1>9, <1>11, <2>1, <2>2, Zenon DEF IsReading
<1>13. s.val[1] = version /\ s.val[2] = community
  <2>1. 1 \in 1 .. 2 /\ 2 \in 1 .. 2
    OBVIOUS
  <2>2. s.val[1] = ReadField(b, r[1], Envelope[1]).val /\ s.val[2] = ReadField(b, r[2], Envelope[2]).val
    BY <1>12, <2>1
  <2>3. QED
    BY <1>7, <1>8, <2>2 DEF IsRead
<1>14. QED
  BY <1>1, <1>2, <1>3, <1>4, <1>6, <1>11, <1>12, <1>13

-----------------------------------------------------------------------------
(* The parts of a message. *)

\* Two sequences are held one behind the other, the second one from q on.
AreTwo(b, p, c, d, q) ==
  /\ q = p + Len(c) /\ q + Len(d) = p + Len(c \o d)
  /\ Holds(b, p, c) /\ Holds(b, q, d)

\* What is held of two sequences, the second one at a position of its own.
LEMMA HeldSplit ==
  ASSUME NEW b \in Seq(Nat), NEW p \in Nat \ {0}, NEW c \in Seq(Nat), NEW d \in Seq(Nat), Holds(b, p, c \o d)
  PROVE  \E q \in Nat \ {0} : AreTwo(b, p, c, d, q)
<1>1. PICK q \in Nat \ {0} : q = p + Len(c)
  BY NextPosition
<1>2. Holds(b, p, c) /\ Holds(b, p + Len(c), d) /\ Len(c \o d) = Len(c) + Len(d)
  BY HeldParts
<1>3. Len(c) \in Nat /\ Len(d) \in Nat
  OBVIOUS
<1>4. q + Len(d) = p + Len(c \o d)
  BY <1>1, <1>2, <1>3
<1>5. QED
  BY <1>1, <1>2, <1>4 DEF AreTwo

\* Sequences of octets are sequences of numbers.
LEMMA OctetsAreNumbers ==
  ASSUME NEW S \in SUBSET Nat, NEW e \in Seq(S)
  PROVE  e \in Seq(Nat)
<1>1. e \in [1 .. Len(e) -> S] /\ Len(e) \in Nat
  BY LenProperties
<1>2. e \in [1 .. Len(e) -> Nat]
  BY <1>1
<1>3. QED
  BY <1>1, <1>2

\* What a message is made of.
LEMMA MessageForm ==
  ASSUME NEW m, IsMessage(m)
  PROVE  /\ m.type \in Nat /\ m.version \in Int31 /\ m.community \in Ascii /\ m.id \in Int31
         /\ m.oid \in ObjectIds /\ m.generic \in Nat /\ m.specific \in Int31 /\ m.time \in Word
         /\ m.long \in BOOLEAN /\ m.extra \in Seq(Nat)
         /\ AreArguments(m.vars)
         /\ Len(Encode(m)) < DatagramSize
<1>1. /\ m.type \in 0 .. 255 /\ m.version \in Int31 /\ m.community \in Ascii /\ m.id \in Int31
      /\ m.oid \in ObjectIds /\ m.generic \in 0 .. 255 /\ m.specific \in Int31 /\ m.time \in Word
      /\ m.vars \in Seq(ToSet(m.vars)) /\ \A k \in DOMAIN m.vars : IsArgument(m.vars[k])
      /\ m.long \in BOOLEAN /\ m.extra \in Seq(0 .. 255)
      /\ Len(Encode(m)) < DatagramSize
  BY DEF IsMessage
<1>2. m.type \in Nat /\ m.generic \in Nat
  <2>1. 0 .. 255 \subseteq Nat
    OBVIOUS
  <2>2. QED
    BY <1>1, <2>1, Zenon
<1>3. m.extra \in Seq(Nat)
  <2>1. m.extra \in Seq(0 .. 255)
    BY <1>1
  <2>2. 0 .. 255 \in SUBSET Nat
    OBVIOUS
  <2>3. QED
    BY <2>1, <2>2, OctetsAreNumbers, Zenon
<1>4. AreArguments(m.vars)
  <2>1. PICK v : v = m.vars
    OBVIOUS
  <2>2. v \in Seq(ToSet(v)) /\ \A k \in DOMAIN v : IsArgument(v[k])
    BY <1>1, <2>1
  <2>3. Len(v) \in Nat /\ DOMAIN v = 1 .. Len(v) /\ v = [k \in 1 .. Len(v) |-> v[k]]
    BY <2>2
  <2>4. AreArguments(v)
    BY <2>2, <2>3 DEF AreArguments
  <2>5. QED
    BY <2>1, <2>4
<1>5. QED
  BY <1>1, <1>2, <1>3, <1>4

\* The octets of the arguments.
LEMMA VarbindOctetsForm ==
  ASSUME NEW m, IsMessage(m)
  PROVE  /\ VarbindOctets(m) = FlattenSeq(VarbindSeqs(m.vars, m.long))
         /\ VarbindOctets(m) \in Seq(Nat)
<1>1. VarbindOctets(m) = FlattenSeq(VarbindSeqs(m.vars, m.long))
  BY DEF VarbindOctets, VarbindSeqs
<1>2. AreArguments(m.vars) /\ m.long \in BOOLEAN
  BY MessageForm
<1>3. VarbindSeqs(m.vars, m.long) \in Seq(Seq(Nat))
  BY <1>2, VarbindSeqsForm
<1>4. FlattenSeq(VarbindSeqs(m.vars, m.long)) \in Seq(Nat)
  BY <1>3, FlattenForm
<1>5. QED
  BY <1>1, <1>4

\* Numbers of 31 bits are numbers of 32 bits.
LEMMA Int31IsWord == Int31 \subseteq Word
BY DEF Int31, Word

\* The parts of a header of version 1 start at p, q, r, and so on.
AreV1Parts(b, p, m, q, r, s, t, u) ==
  /\ Holds(b, p, OidTLV(m.oid, m.long)) /\ q = p + Len(OidTLV(m.oid, m.long))
  /\ Holds(b, q, <<IPADDR, 4, 10, 0, 0, 1>>) /\ r = q + 6
  /\ Holds(b, r, <<INT, 1, m.generic>>) /\ s = r + 3
  /\ Holds(b, s, IntTLV(INT, m.specific, m.long)) /\ t = s + Len(IntTLV(INT, m.specific, m.long))
  /\ Holds(b, t, IntTLV(TIME, m.time, m.long)) /\ u = t + Len(IntTLV(TIME, m.time, m.long))
  /\ Holds(b, u, TLV(SEQ, VarbindOctets(m), m.long))
  /\ u + Len(TLV(SEQ, VarbindOctets(m), m.long)) = p + Len(V1Pdu(m))

\* A header of version 1 has them, one behind the other.
LEMMA V1Parts ==
  ASSUME NEW b \in Seq(Nat), NEW p \in Nat \ {0}, NEW m, IsMessage(m), Holds(b, p, V1Pdu(m))
  PROVE  \E q, r, s, t, u \in Nat \ {0} : AreV1Parts(b, p, m, q, r, s, t, u)
<1>1. /\ m.oid \in ObjectIds /\ m.generic \in Nat /\ m.specific \in Word /\ m.time \in Word
      /\ m.long \in BOOLEAN /\ VarbindOctets(m) \in Seq(Nat)
      /\ INT \in Nat /\ TIME \in Nat /\ SEQ \in Nat /\ IPADDR \in Nat
  BY MessageForm, VarbindOctetsForm, Int31IsWord DEF INT, TIME, SEQ, IPADDR
<1>2. PICK o \in Seq(Nat) : o = OidTLV(m.oid, m.long)
  BY <1>1, OidTLVForm
<1>3. PICK a \in Seq(Nat) : a = <<IPADDR, 4, 10, 0, 0, 1>>
  <2>1. <<IPADDR, 4, 10, 0, 0, 1>> \in Seq(Nat)
    BY <1>1
  <2>2. QED
    BY <2>1, Zenon
<1>4. PICK g \in Seq(Nat) : g = <<INT, 1, m.generic>>
  <2>1. <<INT, 1, m.generic>> \in Seq(Nat)
    BY <1>1
  <2>2. QED
    BY <2>1, Zenon
<1>5. PICK i \in Seq(Nat) : i = IntTLV(INT, m.specific, m.long)
  BY <1>1, IntTLVForm
<1>6. PICK w \in Seq(Nat) : w = IntTLV(TIME, m.time, m.long)
  BY <1>1, IntTLVForm
<1>7. PICK x \in Seq(Nat) : x = TLV(SEQ, VarbindOctets(m), m.long)
  BY <1>1, ElementForm
<1>8. V1Pdu(m) = o \o a \o g \o i \o w \o x
  BY <1>2, <1>3, <1>4, <1>5, <1>6, <1>7, Zenon DEF V1Pdu
<1>9. PICK c2 \in Seq(Nat) : c2 = o \o a
  BY Joined
<1>10. PICK c3 \in Seq(Nat) : c3 = c2 \o g
  BY Joined
<1>11. PICK c4 \in Seq(Nat) : c4 = c3 \o i
  BY Joined
<1>12. PICK c5 \in Seq(Nat) : c5 = c4 \o w
  BY Joined
<1>13. V1Pdu(m) = c5 \o x
  BY <1>8, <1>9, <1>10, <1>11, <1>12, Zenon
<1>14. PICK u \in Nat \ {0} : u = p + Len(c5) /\ Holds(b, p, c5) /\ Holds(b, u, x) /\ u + Len(x) = p + Len(V1Pdu(m))
  BY <1>13, HeldSplit DEF AreTwo
<1>15. PICK t \in Nat \ {0} : t = p + Len(c4) /\ Holds(b, p, c4) /\ Holds(b, t, w) /\ t + Len(w) = p + Len(c5)
  BY <1>12, <1>14, HeldSplit, SMTT(20) DEF AreTwo
<1>16. PICK s \in Nat \ {0} : s = p + Len(c3) /\ Holds(b, p, c3) /\ Holds(b, s, i) /\ s + Len(i) = p + Len(c4)
  BY <1>11, <1>15, HeldSplit, SMTT(20) DEF AreTwo
<1>17. PICK r \in Nat \ {0} : r = p + Len(c2) /\ Holds(b, p, c2) /\ Holds(b, r, g) /\ r + Len(g) = p + Len(c3)
  BY <1>10, <1>16, HeldSplit, SMTT(20) DEF AreTwo
<1>18. PICK q \in Nat \ {0} : q = p + Len(o) /\ Holds(b, p, o) /\ Holds(b, q, a) /\ q + Len(a) = p + Len(c2)
  BY <1>9, <1>17, HeldSplit, SMTT(20) DEF AreTwo
<1>19. Len(a) = 6 /\ Len(g) = 3
  BY <1>3, <1>4
<1>20. r = q + 6 /\ s = r + 3 /\ t = s + Len(i) /\ u = t + Len(w)
  BY <1>14, <1>15, <1>16, <1>17, <1>18, <1>19
<1>21. AreV1Parts(b, p, m, q, r, s, t, u)
  BY <1>2, <1>3, <1>4, <1>5, <1>6, <1>7, <1>14, <1>15, <1>16, <1>17, <1>18, <1>20, Zenon DEF AreV1Parts
<1>22. QED
  BY <1>21

\* A header of version 1 is a sequence of octets.
LEMMA V1Form ==
  ASSUME NEW m, IsMessage(m)
  PROVE  V1Pdu(m) \in Seq(Nat)
<1>1. /\ m.oid \in ObjectIds /\ m.generic \in Nat /\ m.specific \in Word /\ m.time \in Word
      /\ m.long \in BOOLEAN /\ VarbindOctets(m) \in Seq(Nat)
      /\ INT \in Nat /\ TIME \in Nat /\ SEQ \in Nat /\ IPADDR \in Nat
  BY MessageForm, VarbindOctetsForm, Int31IsWord DEF INT, TIME, SEQ, IPADDR
<1>2. /\ OidTLV(m.oid, m.long) \in Seq(Nat)
      /\ <<IPADDR, 4, 10, 0, 0, 1>> \in Seq(Nat)
      /\ <<INT, 1, m.generic>> \in Seq(Nat)
      /\ IntTLV(INT, m.specific, m.long) \in Seq(Nat)
      /\ IntTLV(TIME, m.time, m.long) \in Seq(Nat)
      /\ TLV(SEQ, VarbindOctets(m), m.long) \in Seq(Nat)
  <2>1. OidTLV(m.oid, m.long) \in Seq(Nat)
    BY <1>1, OidTLVForm
  <2>2. IntTLV(INT, m.specific, m.long) \in Seq(Nat) /\ IntTLV(TIME, m.time, m.long) \in Seq(Nat)
    BY <1>1, IntTLVForm
  <2>3. TLV(SEQ, VarbindOctets(m), m.long) \in Seq(Nat)
    BY <1>1, ElementForm
  <2>4. <<IPADDR, 4, 10, 0, 0, 1>> \in Seq(Nat)
    BY <1>1
  <2>5. <<INT, 1, m.generic>> \in Seq(Nat)
    BY <1>1
  <2>6. QED
    BY <2>1, <2>2, <2>3, <2>4, <2>5, Zenon
<1>3. \A c, d \in Seq(Nat) : c \o d \in Seq(Nat)
  OBVIOUS
<1>4. QED
  BY <1>2, <1>3, Zenon DEF V1Pdu

-----------------------------------------------------------------------------
(* The headers of version 1 and of version 2. *)

\* The header of version 1 and the arguments behind it.
LEMMA V1HeaderRead ==
  ASSUME NEW b \in Seq(Nat), Len(b) < DatagramSize, NEW p \in Nat \ {0}, NEW m, IsMessage(m), Holds(b, p, V1Pdu(m))
  PROVE  \E v \in Nat \ {0} :
           LET h == ReadFields(b, p, V1Header)
           IN /\ h.ok /\ h.p = v
              /\ h.val[1] = m.oid /\ h.val[3] = m.generic /\ h.val[4] = m.specific /\ h.val[5] = m.time
              /\ Holds(b, v, VarbindOctets(m)) /\ v + Len(VarbindOctets(m)) = p + Len(V1Pdu(m))
<1>1. /\ m.oid \in ObjectIds /\ m.generic \in Nat /\ m.specific \in Word /\ m.time \in Word
      /\ m.long \in BOOLEAN /\ VarbindOctets(m) \in Seq(Nat)
      /\ INT \in Nat /\ TIME \in Nat /\ SEQ \in Nat /\ IPADDR \in Nat
  BY MessageForm, VarbindOctetsForm, Int31IsWord DEF INT, TIME, SEQ, IPADDR
<1>2. PICK p2, p3, p4, p5, p6 \in Nat \ {0} : AreV1Parts(b, p, m, p2, p3, p4, p5, p6)
  BY V1Parts
<1>3. /\ Holds(b, p, OidTLV(m.oid, m.long)) /\ p2 = p + Len(OidTLV(m.oid, m.long))
      /\ Holds(b, p2, <<IPADDR, 4, 10, 0, 0, 1>>) /\ p3 = p2 + 6
      /\ Holds(b, p3, <<INT, 1, m.generic>>) /\ p4 = p3 + 3
      /\ Holds(b, p4, IntTLV(INT, m.specific, m.long)) /\ p5 = p4 + Len(IntTLV(INT, m.specific, m.long))
      /\ Holds(b, p5, IntTLV(TIME, m.time, m.long)) /\ p6 = p5 + Len(IntTLV(TIME, m.time, m.long))
      /\ Holds(b, p6, TLV(SEQ, VarbindOctets(m), m.long))
      /\ p6 + Len(TLV(SEQ, VarbindOctets(m), m.long)) = p + Len(V1Pdu(m))
  BY <1>2, Zenon DEF AreV1Parts
<1>4. PICK p7 \in Nat \ {0} : /\ IsRead(b, p6, Field("varbinds", SEQ, "box"), p7, <<>>)
                              /\ Holds(b, p7, VarbindOctets(m))
                              /\ p7 + Len(VarbindOctets(m)) = p6 + Len(TLV(SEQ, VarbindOctets(m), m.long))
  <2>1. PICK c \in Seq(Nat) : c = VarbindOctets(m)
    BY <1>1
  <2>2. PICK long \in BOOLEAN : long = m.long
    BY <1>1
  <2>3. Holds(b, p6, TLV(SEQ, c, long))
    BY <1>3, <2>1, <2>2
  <2>4. PICK f : f = Field("varbinds", SEQ, "box") /\ IsBox(f)
    BY BoxField, Zenon
  <2>5. PICK q \in Nat \ {0} : IsEntered(b, p6, c, long, f, q)
    BY <2>3, <2>4, BoxFieldRead
  <2>6. QED
    BY <2>1, <2>2, <2>4, <2>5, Zenon DEF IsEntered
<1>5. PICK r : r = <<p, p2, p3, p4, p5, p6, p7>>
  OBVIOUS
<1>6. r[1] = p /\ r[2] = p2 /\ r[3] = p3 /\ r[4] = p4 /\ r[5] = p5 /\ r[6] = p6 /\ r[7] = p7
  BY <1>5
<1>7. IsRead(b, p, Field("TrapOid", OID, "oid"), p2, m.oid)
  BY <1>1, <1>3, OidFieldRead
<1>8. /\ IsField(b, p2, Field("SnmpSourceIP", IPADDR, "ip"))
      /\ ReadField(b, p2, Field("SnmpSourceIP", IPADDR, "ip")).at = p3
  <2>1. PICK c \in Seq(Nat) : c = <<IPADDR, 4, 10, 0, 0, 1>>
    <3>1. <<IPADDR, 4, 10, 0, 0, 1>> \in Seq(Nat)
      BY <1>1
    <3>2. QED
      BY <3>1, Zenon
  <2>2. Len(c) = 4 + 2 /\ c[1] = IPADDR /\ c[2] = 4 /\ Holds(b, p2, c)
    BY <1>3, <2>1
  <2>3. PICK f : f = Field("SnmpSourceIP", IPADDR, "ip")
    OBVIOUS
  <2>4. f.tag = IPADDR /\ f.kind = "ip" /\ 4 \in {1, 4}
    BY <2>3 DEF Field
  <2>5. IsShort(c, f, 4)
    BY <2>2, <2>4 DEF IsShort
  <2>6. IsField(b, p2, f) /\ ReadField(b, p2, f).at = p2 + 2 + 4
    BY <2>2, <2>5, ShortFieldRead
  <2>7. p2 + 2 + 4 = p3
    BY <1>3
  <2>8. QED
    BY <2>3, <2>6, <2>7
<1>9. IsRead(b, p3, Field("GenericID", INT, "octet"), p4, m.generic)
  <2>1. PICK c \in Seq(Nat) : c = <<INT, 1, m.generic>>
    <3>1. <<INT, 1, m.generic>> \in Seq(Nat)
      BY <1>1
    <3>2. QED
      BY <3>1, Zenon
  <2>2. Len(c) = 1 + 2 /\ c[1] = INT /\ c[2] = 1 /\ c[3] = m.generic /\ Holds(b, p3, c)
    BY <1>3, <2>1
  <2>3. PICK f : f = Field("GenericID", INT, "octet")
    OBVIOUS
  <2>4. f.tag = INT /\ f.kind = "octet" /\ 1 \in {1, 4}
    BY <2>3 DEF Field
  <2>5. IsShort(c, f, 1)
    BY <2>2, <2>4 DEF IsShort
  <2>6. IsField(b, p3, f) /\ ReadField(b, p3, f).at = p3 + 2 + 1 /\ ReadField(b, p3, f).val = c[3]
    BY <2>2, <2>5, ShortFieldRead
  <2>7. p3 + 2 + 1 = p4
    BY <1>3
  <2>8. QED
    BY <2>2, <2>3, <2>6, <2>7 DEF IsRead
<1>10. IsRead(b, p4, Field("SpecificID", INT, "int"), p5, m.specific)
  BY <1>1, <1>3, NumberFieldRead
<1>11. IsRead(b, p5, Field("ullSourceTime", TIME, "time"), p6, m.time)
  BY <1>1, <1>3, NumberFieldRead
<1>12. PICK f : f = V1Header
  OBVIOUS
<1>13. /\ Len(f) = 6 /\ DOMAIN f = 1 .. 6
       /\ f[1] = Field("TrapOid", OID, "oid") /\ f[2] = Field("SnmpSourceIP", IPADDR, "ip")
       /\ f[3] = Field("GenericID", INT, "octet") /\ f[4] = Field("SpecificID", INT, "int")
       /\ f[5] = Field("ullSourceTime", TIME, "time") /\ f[6] = Field("varbinds", SEQ, "box")
  BY <1>12 DEF V1Header
<1>14. /\ IsRead(b, r[1], f[1], r[2], m.oid) /\ IsRead(b, r[3], f[3], r[4], m.generic)
       /\ IsRead(b, r[4], f[4], r[5], m.specific) /\ IsRead(b, r[5], f[5], r[6], m.time)
       /\ IsRead(b, r[6], f[6], r[7], <<>>)
       /\ IsField(b, r[2], f[2]) /\ ReadField(b, r[2], f[2]).at = r[3]
  BY <1>4, <1>6, <1>7, <1>8, <1>9, <1>10, <1>11, <1>13, Zenon
<1>15. IsWalk(b, r, f)
  <2>1. /\ IsField(b, r[1], f[1]) /\ ReadField(b, r[1], f[1]).at = r[2]
        /\ IsField(b, r[2], f[2]) /\ ReadField(b, r[2], f[2]).at = r[3]
        /\ IsField(b, r[3], f[3]) /\ ReadField(b, r[3], f[3]).at = r[4]
        /\ IsField(b, r[4], f[4]) /\ ReadField(b, r[4], f[4]).at = r[5]
        /\ IsField(b, r[5], f[5]) /\ ReadField(b, r[5], f[5]).at = r[6]
        /\ IsField(b, r[6], f[6]) /\ ReadField(b, r[6], f[6]).at = r[7]
    BY <1>14 DEF IsRead
  <2>2. \A k \in 1 .. 6 : \/ k = 1 /\ k + 1 = 2
                          \/ k = 2 /\ k + 1 = 3
                          \/ k = 3 /\ k + 1 = 4
                          \/ k = 4 /\ k + 1 = 5
                          \/ k = 5 /\ k + 1 = 6
                          \/ k = 6 /\ k + 1 = 7
    OBVIOUS
  <2>3. r[1] \in Nat
    BY <1>6
  <2>4. QED
    BY <1>13, <2>1, <2>2, <2>3 DEF IsWalk
<1>16. PICK h : h = ReadFields(b, p, f)
  OBVIOUS
<1>17. h.ok /\ h.p = r[7] /\ \A k \in 1 .. 6 : h.val[k] = ReadField(b, r[k], f[k]).val
  <2>1. 6 + 1 = 7
    OBVIOUS
  <2>2. IsReading(b, r, f, ReadFields(b, r[1], f))
    BY <1>15, FieldsRead
  <2>3. QED
    BY <1>6, <1>13, <1>16, <2>1, <2>2, Zenon DEF IsReading
<1>18. h.val[1] = m.oid /\ h.val[3] = m.generic /\ h.val[4] = m.specific /\ h.val[5] = m.time
  <2>1. 1 \in 1 .. 6 /\ 3 \in 1 .. 6 /\ 4 \in 1 .. 6 /\ 5 \in 1 .. 6
    OBVIOUS
  <2>2. /\ h.val[1] = ReadField(b, r[1], f[1]).val /\ h.val[3] = ReadField(b, r[3], f[3]).val
        /\ h.val[4] = ReadField(b, r[4], f[4]).val /\ h.val[5] = ReadField(b, r[5], f[5]).val
    BY <1>17, <2>1
  <2>3. QED
    BY <1>14, <2>2 DEF IsRead
<1>19. p7 + Len(VarbindOctets(m)) = p + Len(V1Pdu(m))
  BY <1>3, <1>4
<1>20. QED
  BY <1>4, <1>6, <1>12, <1>16, <1>17, <1>18, <1>19, Zenon

\* The identifiers that stand before the time and before the identifier of a trap.
LEMMA NamesAreIds == <<1, 3, 6>> \in ObjectIds /\ <<1, 3, 7>> \in ObjectIds
<1>1. 0 \in Word /\ 1 \in Word /\ 3 \in Word /\ 6 \in Word /\ 7 \in Word
  BY DEF Word
<1>2. <<1, 3, 6>> \in Seq(Word) /\ <<1, 3, 7>> \in Seq(Word)
  BY <1>1
<1>3. QED
  BY <1>2 DEF ObjectIds

\* The first two varbinds of a trap of version 2.
TimeParts(m) == OidTLV(<<1, 3, 6>>, m.long) \o IntTLV(TIME, m.time, m.long)

\* The second: the identifier, under its name.
TrapOidParts(m) == OidTLV(<<1, 3, 7>>, m.long) \o OidTLV(m.oid, m.long)

\* What a header of version 2 is made of.
V2Varbinds(m) == TLV(SEQ, TimeParts(m), m.long) \o TLV(SEQ, TrapOidParts(m), m.long) \o VarbindOctets(m)

\* The numbers before them.
V2Numbers(m) == IntTLV(INT, m.id, m.long) \o IntTLV(INT, 0, m.long) \o IntTLV(INT, 0, m.long)

\* All of it is octets.
LEMMA V2Form ==
  ASSUME NEW m, IsMessage(m)
  PROVE  /\ OidTLV(<<1, 3, 6>>, m.long) \in Seq(Nat) /\ OidTLV(<<1, 3, 7>>, m.long) \in Seq(Nat)
         /\ IntTLV(TIME, m.time, m.long) \in Seq(Nat) /\ OidTLV(m.oid, m.long) \in Seq(Nat)
         /\ IntTLV(INT, m.id, m.long) \in Seq(Nat) /\ IntTLV(INT, 0, m.long) \in Seq(Nat)
         /\ TimeParts(m) \in Seq(Nat) /\ TrapOidParts(m) \in Seq(Nat)
         /\ TLV(SEQ, TimeParts(m), m.long) \in Seq(Nat) /\ TLV(SEQ, TrapOidParts(m), m.long) \in Seq(Nat)
         /\ V2Varbinds(m) \in Seq(Nat) /\ V2Numbers(m) \in Seq(Nat)
         /\ TLV(SEQ, V2Varbinds(m), m.long) \in Seq(Nat)
         /\ V2Pdu(m) = V2Numbers(m) \o TLV(SEQ, V2Varbinds(m), m.long)
         /\ V2Pdu(m) \in Seq(Nat)
<1>1. /\ m.oid \in ObjectIds /\ m.id \in Word /\ m.time \in Word /\ 0 \in Word
      /\ m.long \in BOOLEAN /\ VarbindOctets(m) \in Seq(Nat)
      /\ INT \in Nat /\ TIME \in Nat /\ SEQ \in Nat
  <2>1. 0 \in Word
    BY DEF Word
  <2>2. QED
    BY <2>1, MessageForm, VarbindOctetsForm, Int31IsWord DEF INT, TIME, SEQ
<1>2. /\ OidTLV(<<1, 3, 6>>, m.long) \in Seq(Nat) /\ OidTLV(<<1, 3, 7>>, m.long) \in Seq(Nat)
      /\ OidTLV(m.oid, m.long) \in Seq(Nat)
  BY <1>1, NamesAreIds, OidTLVForm, Zenon
<1>3. /\ IntTLV(TIME, m.time, m.long) \in Seq(Nat) /\ IntTLV(INT, m.id, m.long) \in Seq(Nat)
      /\ IntTLV(INT, 0, m.long) \in Seq(Nat)
  BY <1>1, IntTLVForm, Zenon
<1>4. \A c, d \in Seq(Nat) : c \o d \in Seq(Nat)
  OBVIOUS
<1>5. TimeParts(m) \in Seq(Nat) /\ TrapOidParts(m) \in Seq(Nat)
  BY <1>2, <1>3, <1>4, Zenon DEF TimeParts, TrapOidParts
<1>6. \A c \in Seq(Nat) : TLV(SEQ, c, m.long) \in Seq(Nat)
  BY <1>1, ElementForm, Zenon
<1>7. TLV(SEQ, TimeParts(m), m.long) \in Seq(Nat) /\ TLV(SEQ, TrapOidParts(m), m.long) \in Seq(Nat)
  BY <1>5, <1>6, Zenon
<1>8. V2Varbinds(m) \in Seq(Nat) /\ V2Numbers(m) \in Seq(Nat)
  BY <1>1, <1>3, <1>4, <1>7, Zenon DEF V2Varbinds, V2Numbers
<1>9. TLV(SEQ, V2Varbinds(m), m.long) \in Seq(Nat)
  BY <1>6, <1>8, Zenon
<1>10. V2Pdu(m) = V2Numbers(m) \o TLV(SEQ, V2Varbinds(m), m.long)
  BY Zenon DEF V2Pdu, V2Numbers, V2Varbinds, TimeParts, TrapOidParts
<1>11. V2Pdu(m) \in Seq(Nat)
  BY <1>4, <1>8, <1>9, <1>10, Zenon
<1>12. QED
  BY <1>2, <1>3, <1>5, <1>7, <1>8, <1>9, <1>10, <1>11

\* Three sequences are held one behind the other, the second one from q on, the third
\* one from r on.
AreThree(b, p, c, d, e, q, r) ==
  /\ Holds(b, p, c) /\ Holds(b, q, d) /\ Holds(b, r, e)
  /\ q = p + Len(c) /\ r = q + Len(d) /\ r + Len(e) = p + Len(c \o d \o e)

\* Three parts of what is held, each at a position of its own.
LEMMA HeldThree ==
  ASSUME NEW b \in Seq(Nat), NEW p \in Nat \ {0}, NEW c \in Seq(Nat), NEW d \in Seq(Nat), NEW e \in Seq(Nat),
         Holds(b, p, c \o d \o e)
  PROVE  \E q, r \in Nat \ {0} : AreThree(b, p, c, d, e, q, r)
<1>1. PICK f \in Seq(Nat) : f = c \o d
  BY Joined
<1>2. PICK r \in Nat \ {0} : r = p + Len(f) /\ r + Len(e) = p + Len(f \o e) /\ Holds(b, p, f) /\ Holds(b, r, e)
  BY <1>1, HeldSplit, ZenonT(30) DEF AreTwo
<1>3. PICK q \in Nat \ {0} : q = p + Len(c) /\ q + Len(d) = p + Len(f) /\ Holds(b, p, c) /\ Holds(b, q, d)
  BY <1>1, <1>2, HeldSplit DEF AreTwo
<1>4. r = q + Len(d)
  BY <1>2, <1>3
<1>5. QED
  BY <1>1, <1>2, <1>3, <1>4 DEF AreThree

\* The varbind with the time is read at p, q and r.
AreTime(b, p, m, q, r) ==
  /\ IsRead(b, p, Field("varbind 1", SEQ, "box"), q, <<>>)
  /\ IsRead(b, q, Field("name 1", OID, "oid"), r, <<1, 3, 6>>)
  /\ IsRead(b, r, Field("ullSourceTime", TIME, "time"), p + Len(TLV(SEQ, TimeParts(m), m.long)), m.time)

\* It is read.
LEMMA TimeRead ==
  ASSUME NEW b \in Seq(Nat), Len(b) < DatagramSize, NEW p \in Nat \ {0}, NEW m, IsMessage(m),
         Holds(b, p, TLV(SEQ, TimeParts(m), m.long))
  PROVE  \E q, r \in Nat \ {0} : AreTime(b, p, m, q, r)
<1>1. m.long \in BOOLEAN /\ m.oid \in ObjectIds /\ m.time \in Word /\ TIME \in Nat
  BY MessageForm DEF TIME
<1>2. PICK g \in Seq(Nat), h \in Seq(Nat), c \in Seq(Nat), long \in BOOLEAN :
        /\ g = OidTLV(<<1, 3, 6>>, long) /\ h = IntTLV(TIME, m.time, long)
        /\ c = g \o h /\ c = TimeParts(m) /\ long = m.long
  <2>1. /\ OidTLV(<<1, 3, 6>>, m.long) \in Seq(Nat) /\ IntTLV(TIME, m.time, m.long) \in Seq(Nat)
        /\ TimeParts(m) \in Seq(Nat)
    BY V2Form
  <2>2. TimeParts(m) = OidTLV(<<1, 3, 6>>, m.long) \o IntTLV(TIME, m.time, m.long)
    BY DEF TimeParts
  <2>3. QED
    BY <1>1, <2>1, <2>2, Zenon
<1>3. PICK f : f = Field("varbind 1", SEQ, "box") /\ IsBox(f)
  BY BoxField, Zenon
<1>4. PICK q \in Nat \ {0} : IsEntered(b, p, c, long, f, q)
  <2>1. Holds(b, p, TLV(SEQ, c, long))
    BY <1>2
  <2>2. QED
    BY <1>3, <2>1, BoxFieldRead
<1>5. IsRead(b, p, f, q, <<>>) /\ Holds(b, q, g \o h) /\ q + Len(g \o h) = p + Len(TLV(SEQ, c, long))
  BY <1>2, <1>4 DEF IsEntered
<1>6. PICK r \in Nat \ {0} : AreTwo(b, q, g, h, r)
  BY <1>5, HeldSplit
<1>7. Holds(b, q, g) /\ r = q + Len(g) /\ Holds(b, r, h) /\ r + Len(h) = p + Len(TLV(SEQ, c, long))
  BY <1>5, <1>6 DEF AreTwo
<1>8. PICK oid \in ObjectIds : oid = <<1, 3, 6>>
  BY NamesAreIds, Zenon
<1>9. IsRead(b, q, Field("name 1", OID, "oid"), r, oid)
  <2>1. Holds(b, q, OidTLV(oid, long)) /\ r = q + Len(OidTLV(oid, long))
    BY <1>2, <1>7, <1>8, Zenon
  <2>2. QED
    BY <2>1, OidFieldRead
<1>10. IsRead(b, r, Field("ullSourceTime", TIME, "time"), p + Len(TLV(SEQ, c, long)), m.time)
  <2>1. Holds(b, r, IntTLV(TIME, m.time, long)) /\ r + Len(IntTLV(TIME, m.time, long)) = p + Len(TLV(SEQ, c, long))
    BY <1>2, <1>7, Zenon
  <2>2. IsRead(b, r, Field("ullSourceTime", TIME, "time"), r + Len(IntTLV(TIME, m.time, long)), m.time)
    BY <1>1, <2>1, NumberFieldRead
  <2>3. QED
    BY <2>1, <2>2, Zenon
<1>11. AreTime(b, p, m, q, r)
  BY <1>2, <1>3, <1>5, <1>8, <1>9, <1>10, Zenon DEF AreTime
<1>12. QED
  BY <1>11

\* The varbind with the identifier is read at p, q and r.
AreTrapOid(b, p, m, q, r) ==
  /\ IsRead(b, p, Field("varbind 2", SEQ, "box"), q, <<>>)
  /\ IsRead(b, q, Field("name 2", OID, "oid"), r, <<1, 3, 7>>)
  /\ IsRead(b, r, Field("TrapOid", OID, "oid"), p + Len(TLV(SEQ, TrapOidParts(m), m.long)), m.oid)

\* It is read.
LEMMA TrapOidRead ==
  ASSUME NEW b \in Seq(Nat), Len(b) < DatagramSize, NEW p \in Nat \ {0}, NEW m, IsMessage(m),
         Holds(b, p, TLV(SEQ, TrapOidParts(m), m.long))
  PROVE  \E q, r \in Nat \ {0} : AreTrapOid(b, p, m, q, r)
<1>1. m.long \in BOOLEAN /\ m.oid \in ObjectIds /\ m.time \in Word /\ TIME \in Nat
  BY MessageForm DEF TIME
<1>2. PICK g \in Seq(Nat), h \in Seq(Nat), c \in Seq(Nat), long \in BOOLEAN :
        /\ g = OidTLV(<<1, 3, 7>>, long) /\ h = OidTLV(m.oid, long)
        /\ c = g \o h /\ c = TrapOidParts(m) /\ long = m.long
  <2>1. /\ OidTLV(<<1, 3, 7>>, m.long) \in Seq(Nat) /\ OidTLV(m.oid, m.long) \in Seq(Nat)
        /\ TrapOidParts(m) \in Seq(Nat)
    BY V2Form
  <2>2. TrapOidParts(m) = OidTLV(<<1, 3, 7>>, m.long) \o OidTLV(m.oid, m.long)
    BY DEF TrapOidParts
  <2>3. QED
    BY <1>1, <2>1, <2>2, Zenon
<1>3. PICK f : f = Field("varbind 2", SEQ, "box") /\ IsBox(f)
  BY BoxField, Zenon
<1>4. PICK q \in Nat \ {0} : IsEntered(b, p, c, long, f, q)
  <2>1. Holds(b, p, TLV(SEQ, c, long))
    BY <1>2
  <2>2. QED
    BY <1>3, <2>1, BoxFieldRead
<1>5. IsRead(b, p, f, q, <<>>) /\ Holds(b, q, g \o h) /\ q + Len(g \o h) = p + Len(TLV(SEQ, c, long))
  BY <1>2, <1>4 DEF IsEntered
<1>6. PICK r \in Nat \ {0} : AreTwo(b, q, g, h, r)
  BY <1>5, HeldSplit
<1>7. Holds(b, q, g) /\ r = q + Len(g) /\ Holds(b, r, h) /\ r + Len(h) = p + Len(TLV(SEQ, c, long))
  BY <1>5, <1>6 DEF AreTwo
<1>8. PICK oid \in ObjectIds : oid = <<1, 3, 7>>
  BY NamesAreIds, Zenon
<1>9. IsRead(b, q, Field("name 2", OID, "oid"), r, oid)
  <2>1. Holds(b, q, OidTLV(oid, long)) /\ r = q + Len(OidTLV(oid, long))
    BY <1>2, <1>7, <1>8, Zenon
  <2>2. QED
    BY <2>1, OidFieldRead
<1>10. IsRead(b, r, Field("TrapOid", OID, "oid"), p + Len(TLV(SEQ, c, long)), m.oid)
  <2>1. Holds(b, r, OidTLV(m.oid, long)) /\ r + Len(OidTLV(m.oid, long)) = p + Len(TLV(SEQ, c, long))
    BY <1>2, <1>7, Zenon
  <2>2. IsRead(b, r, Field("TrapOid", OID, "oid"), r + Len(OidTLV(m.oid, long)), m.oid)
    BY <1>1, <2>1, OidFieldRead
  <2>3. QED
    BY <2>1, <2>2, Zenon
<1>11. AreTrapOid(b, p, m, q, r)
  BY <1>2, <1>3, <1>5, <1>8, <1>9, <1>10, Zenon DEF AreTrapOid
<1>12. QED
  BY <1>11

\* A sequence of ten has ten elements.
LEMMA TenLong ==
  ASSUME NEW a, NEW b, NEW c, NEW d, NEW e, NEW f, NEW g, NEW h, NEW i, NEW j
  PROVE  Len(<<a, b, c, d, e, f, g, h, i, j>>) = 10 /\ DOMAIN <<a, b, c, d, e, f, g, h, i, j>> = 1 .. 10
OBVIOUS

\* The header of version 2 and the arguments behind it.
LEMMA V2HeaderRead ==
  ASSUME NEW b \in Seq(Nat), Len(b) < DatagramSize, NEW p \in Nat \ {0}, NEW m, IsMessage(m), Holds(b, p, V2Pdu(m))
  PROVE  \E v \in Nat \ {0} :
           LET h == ReadFields(b, p, V2Header)
           IN /\ h.ok /\ h.p = v
              /\ h.val[1] = m.id /\ h.val[7] = m.time /\ h.val[10] = m.oid
              /\ Holds(b, v, VarbindOctets(m)) /\ v + Len(VarbindOctets(m)) = p + Len(V2Pdu(m))
<1>1. /\ m.oid \in ObjectIds /\ m.id \in Word /\ m.time \in Word /\ 0 \in Word
      /\ m.long \in BOOLEAN /\ VarbindOctets(m) \in Seq(Nat)
      /\ INT \in Nat /\ TIME \in Nat /\ SEQ \in Nat
  <2>1. 0 \in Word
    BY DEF Word
  <2>2. QED
    BY <2>1, MessageForm, VarbindOctetsForm, Int31IsWord DEF INT, TIME, SEQ
<1>2. PICK long \in BOOLEAN : long = m.long
  BY <1>1
<1>3. PICK numbers \in Seq(Nat), box \in Seq(Nat) :
        numbers = V2Numbers(m) /\ box = TLV(SEQ, V2Varbinds(m), m.long) /\ V2Pdu(m) = numbers \o box
  BY V2Form, Zenon
<1>4. PICK p4 \in Nat \ {0} : /\ Holds(b, p, numbers) /\ p4 = p + Len(numbers)
                              /\ Holds(b, p4, box) /\ p4 + Len(box) = p + Len(V2Pdu(m))
  <2>1. PICK q \in Nat \ {0} : AreTwo(b, p, numbers, box, q)
    BY <1>3, HeldSplit
  <2>2. QED
    BY <1>3, <2>1 DEF AreTwo
<1>5. PICK c \in Seq(Nat), d \in Seq(Nat) : c = IntTLV(INT, m.id, m.long) /\ d = IntTLV(INT, 0, m.long)
  BY V2Form, Zenon
<1>6. PICK p2, p3 \in Nat \ {0} : /\ Holds(b, p, c) /\ Holds(b, p2, d) /\ Holds(b, p3, d)
                                  /\ p2 = p + Len(c) /\ p3 = p2 + Len(d) /\ p3 + Len(d) = p + Len(c \o d \o d)
  <2>1. Holds(b, p, c \o d \o d)
    BY <1>3, <1>4, <1>5 DEF V2Numbers
  <2>2. PICK q, r \in Nat \ {0} : AreThree(b, p, c, d, d, q, r)
    BY <2>1, HeldThree
  <2>3. QED
    BY <2>2 DEF AreThree
<1>7. p3 + Len(d) = p4
  <2>1. numbers = c \o d \o d
    BY <1>3, <1>5 DEF V2Numbers
  <2>2. QED
    BY <1>4, <1>6, <2>1
<1>8. PICK p5 \in Nat \ {0} : /\ IsRead(b, p4, Field("varbinds", SEQ, "box"), p5, <<>>)
                              /\ Holds(b, p5, V2Varbinds(m))
                              /\ p5 + Len(V2Varbinds(m)) = p4 + Len(TLV(SEQ, V2Varbinds(m), m.long))
  <2>1. PICK v \in Seq(Nat) : v = V2Varbinds(m)
    BY V2Form, Zenon
  <2>2. Holds(b, p4, TLV(SEQ, v, long))
    BY <1>2, <1>3, <1>4, <2>1
  <2>3. PICK g : g = Field("varbinds", SEQ, "box") /\ IsBox(g)
    BY BoxField, Zenon
  <2>4. PICK q \in Nat \ {0} : IsEntered(b, p4, v, long, g, q)
    BY <2>2, <2>3, BoxFieldRead
  <2>5. IsEntered(b, p4, V2Varbinds(m), m.long, Field("varbinds", SEQ, "box"), q)
    BY <1>2, <2>1, <2>3, <2>4, Zenon
  <2>6. QED
    BY <2>5, Zenon DEF IsEntered
<1>9. PICK e \in Seq(Nat), f \in Seq(Nat), x \in Seq(Nat) :
        e = TLV(SEQ, TimeParts(m), m.long) /\ f = TLV(SEQ, TrapOidParts(m), m.long) /\ x = VarbindOctets(m)
  BY <1>1, V2Form, Zenon
<1>10. V2Varbinds(m) = e \o f \o x
  BY <1>9, Zenon DEF V2Varbinds
<1>11. PICK p8, p11 \in Nat \ {0} : /\ Holds(b, p5, e) /\ Holds(b, p8, f) /\ Holds(b, p11, x)
                                    /\ p8 = p5 + Len(e) /\ p11 = p8 + Len(f) /\ p11 + Len(x) = p5 + Len(e \o f \o x)
  <2>1. Holds(b, p5, e \o f \o x)
    BY <1>8, <1>10
  <2>2. PICK q, r \in Nat \ {0} : AreThree(b, p5, e, f, x, q, r)
    BY <2>1, HeldThree
  <2>3. QED
    BY <2>2 DEF AreThree
<1>12. PICK p6, p7 \in Nat \ {0} : AreTime(b, p5, m, p6, p7)
  <2>1. Holds(b, p5, TLV(SEQ, TimeParts(m), m.long))
    BY <1>9, <1>11
  <2>2. QED
    BY <2>1, TimeRead
<1>13. PICK p9, p10 \in Nat \ {0} : AreTrapOid(b, p8, m, p9, p10)
  <2>1. Holds(b, p8, TLV(SEQ, TrapOidParts(m), m.long))
    BY <1>9, <1>11
  <2>2. QED
    BY <2>1, TrapOidRead
<1>14. /\ IsRead(b, p5, Field("varbind 1", SEQ, "box"), p6, <<>>)
       /\ IsRead(b, p6, Field("name 1", OID, "oid"), p7, <<1, 3, 6>>)
       /\ IsRead(b, p7, Field("ullSourceTime", TIME, "time"), p8, m.time)
  BY <1>9, <1>11, <1>12, Zenon DEF AreTime
<1>15. /\ IsRead(b, p8, Field("varbind 2", SEQ, "box"), p9, <<>>)
       /\ IsRead(b, p9, Field("name 2", OID, "oid"), p10, <<1, 3, 7>>)
       /\ IsRead(b, p10, Field("TrapOid", OID, "oid"), p11, m.oid)
  BY <1>9, <1>11, <1>13, Zenon DEF AreTrapOid
<1>16. PICK zero \in Word : zero = 0
  BY <1>1
<1>17. PICK r : r = <<p, p2, p3, p4, p5, p6, p7, p8, p9, p10, p11>>
  OBVIOUS
<1>18. /\ r[1] = p /\ r[2] = p2 /\ r[3] = p3 /\ r[4] = p4 /\ r[5] = p5 /\ r[6] = p6
       /\ r[7] = p7 /\ r[8] = p8 /\ r[9] = p9 /\ r[10] = p10 /\ r[11] = p11
  BY <1>17
<1>19. IsRead(b, p, Field("RequestID", INT, "int"), p2, m.id)
  <2>1. Holds(b, p, IntTLV(INT, m.id, m.long)) /\ p2 = p + Len(IntTLV(INT, m.id, m.long))
    BY <1>5, <1>6
  <2>2. QED
    BY <1>1, <2>1, NumberFieldRead
<1>20. /\ IsRead(b, p2, Field("Error", INT, "int"), p3, zero)
       /\ IsRead(b, p3, Field("ErrorIndex", INT, "int"), p4, zero)
  <2>1. /\ Holds(b, p2, IntTLV(INT, zero, m.long)) /\ p3 = p2 + Len(IntTLV(INT, zero, m.long))
        /\ Holds(b, p3, IntTLV(INT, zero, m.long)) /\ p4 = p3 + Len(IntTLV(INT, zero, m.long))
    BY <1>5, <1>6, <1>7, <1>16
  <2>2. IsRead(b, p2, Field("Error", INT, "int"), p3, zero)
    BY <1>1, <2>1, NumberFieldRead
  <2>3. IsRead(b, p3, Field("ErrorIndex", INT, "int"), p4, zero)
    BY <1>1, <2>1, NumberFieldRead
  <2>4. QED
    BY <2>2, <2>3
<1>21. PICK fs : fs = V2Header
  OBVIOUS
<1>22. Len(fs) = 10 /\ DOMAIN fs = 1 .. 10
  BY <1>21, TenLong DEF V2Header
<1>23. /\ fs[1] = Field("RequestID", INT, "int") /\ fs[2] = Field("Error", INT, "int")
       /\ fs[3] = Field("ErrorIndex", INT, "int") /\ fs[4] = Field("varbinds", SEQ, "box")
       /\ fs[5] = Field("varbind 1", SEQ, "box") /\ fs[6] = Field("name 1", OID, "oid")
       /\ fs[7] = Field("ullSourceTime", TIME, "time") /\ fs[8] = Field("varbind 2", SEQ, "box")
       /\ fs[9] = Field("name 2", OID, "oid") /\ fs[10] = Field("TrapOid", OID, "oid")
  BY <1>21 DEF V2Header
<1>24. /\ IsRead(b, r[1], fs[1], r[2], m.id) /\ IsRead(b, r[2], fs[2], r[3], zero)
       /\ IsRead(b, r[3], fs[3], r[4], zero) /\ IsRead(b, r[4], fs[4], r[5], <<>>)
       /\ IsRead(b, r[5], fs[5], r[6], <<>>) /\ IsRead(b, r[6], fs[6], r[7], <<1, 3, 6>>)
       /\ IsRead(b, r[7], fs[7], r[8], m.time) /\ IsRead(b, r[8], fs[8], r[9], <<>>)
       /\ IsRead(b, r[9], fs[9], r[10], <<1, 3, 7>>) /\ IsRead(b, r[10], fs[10], r[11], m.oid)
  BY <1>8, <1>14, <1>15, <1>18, <1>19, <1>20, <1>23, Zenon
<1>25. IsWalk(b, r, fs)
  <2>1. /\ IsField(b, r[1], fs[1]) /\ ReadField(b, r[1], fs[1]).at = r[2]
        /\ IsField(b, r[2], fs[2]) /\ ReadField(b, r[2], fs[2]).at = r[3]
        /\ IsField(b, r[3], fs[3]) /\ ReadField(b, r[3], fs[3]).at = r[4]
        /\ IsField(b, r[4], fs[4]) /\ ReadField(b, r[4], fs[4]).at = r[5]
        /\ IsField(b, r[5], fs[5]) /\ ReadField(b, r[5], fs[5]).at = r[6]
        /\ IsField(b, r[6], fs[6]) /\ ReadField(b, r[6], fs[6]).at = r[7]
        /\ IsField(b, r[7], fs[7]) /\ ReadField(b, r[7], fs[7]).at = r[8]
        /\ IsField(b, r[8], fs[8]) /\ ReadField(b, r[8], fs[8]).at = r[9]
        /\ IsField(b, r[9], fs[9]) /\ ReadField(b, r[9], fs[9]).at = r[10]
        /\ IsField(b, r[10], fs[10]) /\ ReadField(b, r[10], fs[10]).at = r[11]
    BY <1>24, Zenon DEF IsRead
  <2>2. \A k \in 1 .. 10 : \/ k = 1 /\ k + 1 = 2
                           \/ k = 2 /\ k + 1 = 3
                           \/ k = 3 /\ k + 1 = 4
                           \/ k = 4 /\ k + 1 = 5
                           \/ k = 5 /\ k + 1 = 6
                           \/ k = 6 /\ k + 1 = 7
                           \/ k = 7 /\ k + 1 = 8
                           \/ k = 8 /\ k + 1 = 9
                           \/ k = 9 /\ k + 1 = 10
                           \/ k = 10 /\ k + 1 = 11
    OBVIOUS
  <2>3. r[1] \in Nat
    BY <1>18
  <2>4. QED
    BY <1>22, <2>1, <2>2, <2>3 DEF IsWalk
<1>26. PICK h : h = ReadFields(b, p, fs)
  OBVIOUS
<1>27. h.ok /\ h.p = r[11] /\ \A k \in 1 .. 10 : h.val[k] = ReadField(b, r[k], fs[k]).val
  <2>1. 10 + 1 = 11
    OBVIOUS
  <2>2. IsReading(b, r, fs, ReadFields(b, r[1], fs))
    BY <1>25, FieldsRead
  <2>3. QED
    BY <1>18, <1>22, <1>26, <2>1, <2>2, Zenon DEF IsReading
<1>28. h.val[1] = m.id /\ h.val[7] = m.time /\ h.val[10] = m.oid
  <2>1. 1 \in 1 .. 10 /\ 7 \in 1 .. 10 /\ 10 \in 1 .. 10
    OBVIOUS
  <2>2. /\ h.val[1] = ReadField(b, r[1], fs[1]).val /\ h.val[7] = ReadField(b, r[7], fs[7]).val
        /\ h.val[10] = ReadField(b, r[10], fs[10]).val
    BY <1>27, <2>1
  <2>3. QED
    BY <1>24, <2>2 DEF IsRead
<1>29. Holds(b, p11, VarbindOctets(m)) /\ p11 + Len(VarbindOctets(m)) = p + Len(V2Pdu(m))
  <2>1. p11 + Len(x) = p5 + Len(V2Varbinds(m))
    BY <1>10, <1>11
  <2>2. p5 + Len(V2Varbinds(m)) = p4 + Len(box)
    BY <1>3, <1>8
  <2>3. QED
    BY <1>4, <1>9, <1>11, <2>1, <2>2
<1>30. QED
  BY <1>18, <1>21, <1>26, <1>27, <1>28, <1>29, Zenon

-----------------------------------------------------------------------------
(* The message as a whole. *)

\* The content of a message behind the type, and all of it behind the length.
Pdu(m) == IF m.type = V1TRAP THEN V1Pdu(m) ELSE V2Pdu(m)

\* With its type and its length.
TypedPdu(m) == TLV(m.type, Pdu(m), m.long)

\* All that stands in the outer element.
Content(m) == IntTLV(INT, m.version, m.long) \o TLV(STR, m.community, m.long) \o TypedPdu(m)

\* They are octets.
LEMMA EncodeForm ==
  ASSUME NEW m, IsMessage(m)
  PROVE  /\ IntTLV(INT, m.version, m.long) \in Seq(Nat) /\ TLV(STR, m.community, m.long) \in Seq(Nat)
         /\ Pdu(m) \in Seq(Nat) /\ TypedPdu(m) \in Seq(Nat) /\ Content(m) \in Seq(Nat)
         /\ TLV(SEQ, Content(m), m.long) \in Seq(Nat)
         /\ m.extra \in Seq(Nat)
         /\ Encode(m) = TLV(SEQ, Content(m), m.long) \o m.extra
         /\ Encode(m) \in Seq(Nat) /\ Len(Encode(m)) < DatagramSize
<1>1. /\ m.type \in Nat /\ m.version \in Word /\ m.community \in Seq(Nat) /\ m.long \in BOOLEAN
      /\ m.extra \in Seq(Nat) /\ Len(Encode(m)) < DatagramSize
      /\ INT \in Nat /\ STR \in Nat /\ SEQ \in Nat
  BY MessageForm, AsciiForm, Int31IsWord DEF INT, STR, SEQ
<1>2. IntTLV(INT, m.version, m.long) \in Seq(Nat)
  BY <1>1, IntTLVForm, Zenon
<1>3. \A tag \in Nat, c \in Seq(Nat) : TLV(tag, c, m.long) \in Seq(Nat)
  BY <1>1, ElementForm, Zenon
<1>4. Pdu(m) \in Seq(Nat)
  BY V1Form, V2Form DEF Pdu
<1>5. TLV(STR, m.community, m.long) \in Seq(Nat) /\ TypedPdu(m) \in Seq(Nat)
  BY <1>1, <1>3, <1>4, Zenon DEF TypedPdu
<1>6. \A c, d \in Seq(Nat) : c \o d \in Seq(Nat)
  OBVIOUS
<1>7. Content(m) \in Seq(Nat)
  BY <1>2, <1>5, <1>6, Zenon DEF Content
<1>8. TLV(SEQ, Content(m), m.long) \in Seq(Nat)
  BY <1>1, <1>3, <1>7, Zenon
<1>9. Encode(m) = TLV(SEQ, Content(m), m.long) \o m.extra
  BY Zenon DEF Encode, Content, TypedPdu, Pdu
<1>10. Encode(m) \in Seq(Nat)
  BY <1>1, <1>6, <1>8, <1>9, Zenon
<1>11. QED
  BY <1>1, <1>2, <1>4, <1>5, <1>7, <1>8, <1>9, <1>10

\* In the octets b of the message the content starts at e, the type is at p and what it
\* types starts at h.
AreParts(b, m, e, p, h) ==
  /\ At(b, 1) = SEQ
  /\ GetFieldLength(b, 2).at = e
  /\ GetFieldLength(b, 2).len = Len(b) - (e - 1) <=> m.extra = <<>>
  /\ e + Len(Content(m)) = 1 + Len(TLV(SEQ, Content(m), m.long))
  /\ Holds(b, e, IntTLV(INT, m.version, m.long))
  /\ Holds(b, e + Len(IntTLV(INT, m.version, m.long)), TLV(STR, m.community, m.long))
  /\ p = e + Len(IntTLV(INT, m.version, m.long)) + Len(TLV(STR, m.community, m.long))
  /\ At(b, p) = m.type
  /\ GetFieldLength(b, p + 1).at = h
  /\ Holds(b, h, Pdu(m))
  /\ m.extra = <<>> => h + Len(Pdu(m)) = Len(b) + 1

\* Every message has these parts.
LEMMA MessageParts ==
  ASSUME NEW m, IsMessage(m)
  PROVE  \E e, p, h \in Nat \ {0} : AreParts(Encode(m), m, e, p, h)
<1>1. PICK b \in Seq(Nat), c \in Seq(Nat), x \in Seq(Nat), long \in BOOLEAN :
        /\ b = Encode(m) /\ c = Content(m) /\ x = m.extra /\ long = m.long
        /\ b = TLV(SEQ, c, long) \o x
        /\ TLV(SEQ, c, long) \in Seq(Nat)
  BY EncodeForm, MessageForm, Zenon
<1>2. Len(b) < DatagramSize
  BY <1>1, EncodeForm
<1>3. PICK i \in Seq(Nat), t \in Seq(Nat), d \in Seq(Nat), y \in Seq(Nat) :
        /\ i = IntTLV(INT, m.version, m.long) /\ t = TLV(STR, m.community, m.long)
        /\ y = Pdu(m) /\ d = TypedPdu(m)
        /\ c = i \o t \o d
  BY <1>1, EncodeForm, Zenon DEF Content
<1>4. PICK tag \in Nat : tag = m.type /\ d = TLV(tag, y, long)
  <2>1. m.type \in Nat
    BY MessageForm
  <2>2. d = TLV(m.type, y, long)
    BY <1>1, <1>3, Zenon DEF TypedPdu
  <2>3. QED
    BY <2>1, <2>2, Zenon
<1>5. Holds(b, 1, TLV(SEQ, c, long)) /\ Len(b) = Len(TLV(SEQ, c, long)) + Len(x)
  <2>1. PICK all \in Seq(Nat) : all = TLV(SEQ, c, long)
    BY <1>1
  <2>2. b = all \o x
    BY <1>1, <2>1
  <2>3. Holds(b, 1, all \o x)
    BY <2>2 DEF Holds
  <2>4. 1 \in Nat \ {0}
    OBVIOUS
  <2>5. Holds(b, 1, all) /\ Len(all \o x) = Len(all) + Len(x)
    BY <2>3, <2>4, HeldParts
  <2>6. QED
    BY <2>1, <2>2, <2>5
<1>6. PICK n \in Nat : n = Len(TLV(SEQ, c, long))
  BY <1>1
<1>7. PICK g : g = GetFieldLength(b, 2) /\ IsElement(b, 1, n, g, SEQ, c)
  <2>1. 1 \in Nat \ {0} /\ SEQ \in Nat /\ 1 + 1 = 2
    BY DEF SEQ
  <2>2. IsElement(b, 1, Len(TLV(SEQ, c, long)), GetFieldLength(b, 1 + 1), SEQ, c)
    BY <1>2, <1>5, <2>1, ElementRead
  <2>3. QED
    BY <1>6, <2>1, <2>2
<1>8. PICK e \in Nat \ {0} : e = g.at
  BY <1>7 DEF IsElement
<1>9. At(b, 1) = SEQ /\ g.len = Len(c) /\ Holds(b, e, c) /\ e + Len(c) = 1 + n
  BY <1>7, <1>8 DEF IsElement
<1>10. g.len = Len(b) - (e - 1) <=> x = <<>>
  <2>1. PICK k \in Nat, l \in Nat : k = Len(c) /\ l = Len(x)
    OBVIOUS
  <2>2. Len(b) = n + l
    BY <1>5, <1>6, <2>1
  <2>3. (k = n + l - (e - 1)) <=> (l = 0)
    <3>1. e + k = 1 + n
      BY <1>9, <2>1
    <3>2. k = n + l - (e - 1) => l = 0
      BY <3>1
    <3>3. l = 0 => k = n + l - (e - 1)
      BY <3>1
    <3>4. QED
      BY <3>2, <3>3
  <2>4. l = 0 <=> x = <<>>
    BY <2>1
  <2>5. QED
    BY <1>9, <2>1, <2>2, <2>3, <2>4
<1>11. PICK q, p \in Nat \ {0} : AreThree(b, e, i, t, d, q, p)
  BY <1>3, <1>9, HeldThree
<1>12. /\ Holds(b, e, i) /\ Holds(b, q, t) /\ Holds(b, p, d)
       /\ q = e + Len(i) /\ p = q + Len(t) /\ p + Len(d) = e + Len(c)
  BY <1>3, <1>11 DEF AreThree
<1>13. IsElement(b, p, Len(d), GetFieldLength(b, p + 1), tag, y)
  BY <1>2, <1>4, <1>12, ElementRead
<1>14. PICK h \in Nat \ {0} : h = GetFieldLength(b, p + 1).at
  BY <1>13 DEF IsElement
<1>15. At(b, p) = tag /\ Holds(b, h, y) /\ h + Len(y) = p + Len(d)
  BY <1>13, <1>14 DEF IsElement
<1>16. x = <<>> => h + Len(y) = Len(b) + 1
  BY <1>5, <1>6, <1>9, <1>12, <1>15
<1>17. AreParts(b, m, e, p, h)
  <2>1. q = e + Len(i) /\ p = e + Len(i) + Len(t)
    BY <1>12
  <2>2. QED
    BY <1>1, <1>3, <1>4, <1>6, <1>7, <1>8, <1>9, <1>10, <1>12, <1>14, <1>15, <1>16, <2>1, Zenon DEF AreParts
<1>18. QED
  BY <1>1, <1>17

-----------------------------------------------------------------------------
(* What the fields are called. *)

\* Only the n-th field has this name.
HasName(fields, n, name) ==
  n \in DOMAIN fields /\ \A k \in DOMAIN fields : fields[k].name = name <=> k = n

\* A field is found by its name, if no other field has it.
LEMMA NamedField ==
  ASSUME NEW fields, NEW h, NEW name, NEW n, HasName(fields, n, name)
  PROVE  Named(fields, h, name) = h.val[n]
<1>1. (CHOOSE k \in DOMAIN fields : fields[k].name = name) = n
  BY DEF HasName
<1>2. QED
  BY <1>1 DEF Named

\* The fields before the type.
LEMMA EnvelopeNames ==
  ASSUME NEW s
  PROVE  Named(Envelope, s, "Version") = s.val[1] /\ Named(Envelope, s, "community") = s.val[2]
<1>1. PICK f : f = Envelope
  OBVIOUS
<1>2. DOMAIN f = 1 .. 2 /\ f[1].name = "Version" /\ f[2].name = "community"
  BY <1>1 DEF Envelope, Field
<1>3. 1 \in DOMAIN f /\ 2 \in DOMAIN f /\ \A k \in DOMAIN f : k = 1 \/ k = 2
  BY <1>2
<1>4. HasName(f, 1, "Version") /\ HasName(f, 2, "community")
  BY <1>2, <1>3 DEF HasName
<1>5. Named(f, s, "Version") = s.val[1] /\ Named(f, s, "community") = s.val[2]
  BY <1>4, NamedField
<1>6. QED
  BY <1>1, <1>5

\* The header of version 1.
LEMMA V1Names ==
  ASSUME NEW h
  PROVE  /\ Named(V1Header, h, "TrapOid") = h.val[1] /\ Named(V1Header, h, "GenericID") = h.val[3]
         /\ Named(V1Header, h, "SpecificID") = h.val[4] /\ Named(V1Header, h, "ullSourceTime") = h.val[5]
<1>1. PICK f : f = V1Header
  OBVIOUS
<1>2. /\ DOMAIN f = 1 .. 6
      /\ f[1].name = "TrapOid" /\ f[2].name = "SnmpSourceIP" /\ f[3].name = "GenericID"
      /\ f[4].name = "SpecificID" /\ f[5].name = "ullSourceTime" /\ f[6].name = "varbinds"
  BY <1>1 DEF V1Header, Field
<1>3. /\ \A k \in DOMAIN f : k = 1 \/ k = 2 \/ k = 3 \/ k = 4 \/ k = 5 \/ k = 6
      /\ 1 \in DOMAIN f /\ 3 \in DOMAIN f /\ 4 \in DOMAIN f /\ 5 \in DOMAIN f
  BY <1>2
<1>4. /\ HasName(f, 1, "TrapOid") /\ HasName(f, 3, "GenericID") /\ HasName(f, 4, "SpecificID")
      /\ HasName(f, 5, "ullSourceTime")
  BY <1>2, <1>3 DEF HasName
<1>5. /\ Named(f, h, "TrapOid") = h.val[1] /\ Named(f, h, "GenericID") = h.val[3]
      /\ Named(f, h, "SpecificID") = h.val[4] /\ Named(f, h, "ullSourceTime") = h.val[5]
  BY <1>4, NamedField
<1>6. QED
  BY <1>1, <1>5

\* The header of version 2.
LEMMA V2Names ==
  ASSUME NEW h
  PROVE  /\ Named(V2Header, h, "RequestID") = h.val[1] /\ Named(V2Header, h, "ullSourceTime") = h.val[7]
         /\ Named(V2Header, h, "TrapOid") = h.val[10]
<1>1. PICK f : f = V2Header
  OBVIOUS
<1>2. /\ f[1].name = "RequestID" /\ f[2].name = "Error" /\ f[3].name = "ErrorIndex" /\ f[4].name = "varbinds"
      /\ f[5].name = "varbind 1" /\ f[6].name = "name 1" /\ f[7].name = "ullSourceTime"
      /\ f[8].name = "varbind 2" /\ f[9].name = "name 2" /\ f[10].name = "TrapOid"
  BY <1>1 DEF V2Header, Field
<1>3. DOMAIN f = 1 .. 10
  BY <1>1, TenLong DEF V2Header
<1>4. /\ \A k \in DOMAIN f : k = 1 \/ k = 2 \/ k = 3 \/ k = 4 \/ k = 5 \/ k = 6 \/ k = 7 \/ k = 8 \/ k = 9 \/ k = 10
      /\ 1 \in DOMAIN f /\ 7 \in DOMAIN f /\ 10 \in DOMAIN f
  BY <1>3
<1>5. HasName(f, 1, "RequestID") /\ HasName(f, 7, "ullSourceTime") /\ HasName(f, 10, "TrapOid")
  BY <1>2, <1>4 DEF HasName
<1>6. /\ Named(f, h, "RequestID") = h.val[1] /\ Named(f, h, "ullSourceTime") = h.val[7]
      /\ Named(f, h, "TrapOid") = h.val[10]
  BY <1>5, NamedField
<1>7. QED
  BY <1>1, <1>6

-----------------------------------------------------------------------------
(* The message is decoded. *)

\* A header is read, its varbinds are at v.
IsHeaderRead(b, h, m, s, v) ==
  /\ s.ok /\ s.p = v
  /\ IF m.type = V1TRAP
     THEN s.val[1] = m.oid /\ s.val[3] = m.generic /\ s.val[4] = m.specific /\ s.val[5] = m.time
     ELSE s.val[1] = m.id /\ s.val[7] = m.time /\ s.val[10] = m.oid
  /\ Holds(b, v, VarbindOctets(m)) /\ v + Len(VarbindOctets(m)) = h + Len(Pdu(m))

\* The fields that stand before the arguments.
Header(m) == IF m.type = V1TRAP THEN V1Header ELSE V2Header

\* The header of either version is read.
LEMMA HeaderRead ==
  ASSUME NEW b \in Seq(Nat), Len(b) < DatagramSize, NEW h \in Nat \ {0}, NEW m, IsMessage(m), Holds(b, h, Pdu(m))
  PROVE  \E v \in Nat \ {0} : IsHeaderRead(b, h, m, ReadFields(b, h, Header(m)), v)
<1>1. CASE m.type = V1TRAP
  <2>1. Pdu(m) = V1Pdu(m) /\ Header(m) = V1Header
    BY <1>1 DEF Pdu, Header
  <2>2. Holds(b, h, V1Pdu(m))
    BY <2>1
  <2>3. PICK v \in Nat \ {0} :
           LET s == ReadFields(b, h, V1Header)
           IN /\ s.ok /\ s.p = v
              /\ s.val[1] = m.oid /\ s.val[3] = m.generic /\ s.val[4] = m.specific /\ s.val[5] = m.time
              /\ Holds(b, v, VarbindOctets(m)) /\ v + Len(VarbindOctets(m)) = h + Len(V1Pdu(m))
    BY <2>2, V1HeaderRead
  <2>4. IsHeaderRead(b, h, m, ReadFields(b, h, Header(m)), v)
    BY <1>1, <2>1, <2>3, Zenon DEF IsHeaderRead
  <2>5. QED
    BY <2>4
<1>2. CASE m.type # V1TRAP
  <2>1. Pdu(m) = V2Pdu(m) /\ Header(m) = V2Header
    BY <1>2 DEF Pdu, Header
  <2>2. Holds(b, h, V2Pdu(m))
    BY <2>1
  <2>3. PICK v \in Nat \ {0} :
           LET s == ReadFields(b, h, V2Header)
           IN /\ s.ok /\ s.p = v
              /\ s.val[1] = m.id /\ s.val[7] = m.time /\ s.val[10] = m.oid
              /\ Holds(b, v, VarbindOctets(m)) /\ v + Len(VarbindOctets(m)) = h + Len(V2Pdu(m))
    BY <2>2, V2HeaderRead
  <2>4. IsHeaderRead(b, h, m, ReadFields(b, h, Header(m)), v)
    BY <1>2, <2>1, <2>3, Zenon DEF IsHeaderRead
  <2>5. QED
    BY <2>4
<1>3. QED
  BY <1>1, <1>2

\* The identifier of a trap of version 1 is put together as it is meant.
LEMMA TrapIdMade ==
  ASSUME NEW m, IsMessage(m), m.type = V1TRAP
  PROVE  V1TrapOid(m.oid, m.generic, m.specific) = TrapId(m)
<1>1. PICK oid \in Seq(Nat), generic \in Nat : oid = m.oid /\ generic = m.generic
  BY MessageForm, OidForm
<1>2. Append(oid, generic + 1) = oid \o <<generic + 1>>
  OBVIOUS
<1>3. QED
  BY <1>1, <1>2, Zenon DEF V1TrapOid, Add, TrapId

\* t is the trap m, and its type is at p.
IsDecoded(t, m, p) ==
  /\ t.ok <=> IsTrap(m)
  /\ t.ok => /\ t.type = m.type /\ t.Version = m.version
             /\ t.community = m.community /\ t.time = m.time
             /\ t.TrapOid = TrapId(m)
             /\ m.type # V1TRAP => t.RequestID = m.id
             /\ t.varArgs = m.vars
             /\ t.req = p

\* The octets of a message are decoded into what it says, if it is a trap.
LEMMA MessageDecoded ==
  ASSUME NEW m, IsMessage(m), NEW e \in Nat \ {0}, NEW p \in Nat \ {0}, NEW h \in Nat \ {0},
         AreParts(Encode(m), m, e, p, h)
  PROVE  IsDecoded(Decode(Encode(m)), m, p)
<1>1. PICK b \in Seq(Nat) : b = Encode(m)
  BY EncodeForm
<1>2. Len(b) < DatagramSize /\ AreParts(b, m, e, p, h)
  BY <1>1, EncodeForm
<1>3. PICK env : env = GetFieldLength(b, 2)
  OBVIOUS
<1>4. /\ At(b, 1) = SEQ /\ env.at = e
      /\ env.len = Len(b) - (e - 1) <=> m.extra = <<>>
      /\ Holds(b, e, IntTLV(INT, m.version, m.long))
      /\ Holds(b, e + Len(IntTLV(INT, m.version, m.long)), TLV(STR, m.community, m.long))
      /\ p = e + Len(IntTLV(INT, m.version, m.long)) + Len(TLV(STR, m.community, m.long))
      /\ At(b, p) = m.type
      /\ GetFieldLength(b, p + 1).at = h
      /\ Holds(b, h, Pdu(m))
      /\ m.extra = <<>> => h + Len(Pdu(m)) = Len(b) + 1
  BY <1>2, <1>3, Zenon DEF AreParts
<1>5. /\ m.version \in Int31 /\ m.community \in Ascii /\ m.long \in BOOLEAN /\ AreArguments(m.vars)
  BY MessageForm
<1>6. PICK s : s = ReadFields(b, e, Envelope)
  OBVIOUS
<1>7. s.ok /\ s.p = p /\ s.val[1] = m.version /\ s.val[2] = m.community
  BY <1>2, <1>4, <1>5, <1>6, EnvelopeRead
<1>8. PICK hs : hs = ReadFields(b, h, Header(m))
  OBVIOUS
<1>9. PICK v \in Nat \ {0} : IsHeaderRead(b, h, m, hs, v)
  BY <1>2, <1>4, <1>8, HeaderRead
<1>10. hs.ok /\ hs.p = v /\ Holds(b, v, VarbindOctets(m)) /\ v + Len(VarbindOctets(m)) = h + Len(Pdu(m))
  BY <1>9, Zenon DEF IsHeaderRead
<1>11. PICK a : a = ReadVarbinds(b, v)
  OBVIOUS
<1>12. ASSUME m.extra = <<>>
       PROVE  /\ a.ok <=> \A k \in 1 .. Len(m.vars) : m.vars[k].type \in Known
              /\ a.ok => a.varArgs = m.vars
  <2>1. VarbindOctets(m) = FlattenSeq(VarbindSeqs(m.vars, m.long))
    BY VarbindOctetsForm
  <2>2. v + Len(VarbindOctets(m)) = Len(b) + 1
    BY <1>4, <1>10, <1>12
  <2>3. /\ Holds(b, v, FlattenSeq(VarbindSeqs(m.vars, m.long)))
        /\ v + Len(FlattenSeq(VarbindSeqs(m.vars, m.long))) = Len(b) + 1
    BY <1>10, <2>1, <2>2, Zenon
  <2>4. QED
    BY <1>2, <1>5, <1>11, <2>3, VarbindsRead
<1>13. PICK good \in BOOLEAN :
         good = (/\ At(b, 1) = SEQ /\ env.len = Len(b) - (env.at - 1)
                 /\ s.ok /\ m.type \in {V1TRAP, V2INFORM, V2TRAP}
                 /\ hs.ok /\ a.ok)
  BY Zenon
<1>14. PICK time, TrapOid, RequestID :
         /\ time = Named(Header(m), hs, "ullSourceTime")
         /\ TrapOid = IF m.type = V1TRAP
                      THEN V1TrapOid(Named(Header(m), hs, "TrapOid"), Named(Header(m), hs, "GenericID"),
                                     Named(Header(m), hs, "SpecificID"))
                      ELSE Named(Header(m), hs, "TrapOid")
         /\ RequestID = IF m.type = V1TRAP THEN 0 ELSE Named(Header(m), hs, "RequestID")
  OBVIOUS
<1>15. PICK Version, community : Version = Named(Envelope, s, "Version") /\ community = Named(Envelope, s, "community")
  OBVIOUS
<1>16. PICK t : t = [ok |-> TRUE, type |-> m.type, req |-> p, Version |-> Version, community |-> community,
                     time |-> time, TrapOid |-> TrapOid, RequestID |-> RequestID, varArgs |-> a.varArgs]
  OBVIOUS
<1>17. Decode(b) = IF good THEN t ELSE [ok |-> FALSE]
  <2>1. Decode(b) = LET E == GetFieldLength(b, 2)
                        S == ReadFields(b, E.at, Envelope)
                        T == At(b, S.p)
                        H == IF T = V1TRAP THEN V1Header ELSE V2Header
                        F == ReadFields(b, GetFieldLength(b, S.p + 1).at, H)
                        V == ReadVarbinds(b, F.p)
                    IN TrapOf(b, E, S, T, H, F, V)
    BY Zenon DEF Decode
  <2>2. TrapOf(b, env, s, m.type, Header(m), hs, a) = IF good THEN t ELSE [ok |-> FALSE]
    <3>1. CASE good
      <4>1. TrapOf(b, env, s, m.type, Header(m), hs, a) =
              [ok |-> TRUE, type |-> m.type, req |-> s.p,
               Version |-> Version, community |-> community, time |-> time,
               TrapOid |-> TrapOid, RequestID |-> RequestID, varArgs |-> a.varArgs]
        BY <1>13, <1>14, <1>15, <3>1, Zenon DEF TrapOf
      <4>2. QED
        BY <1>7, <1>16, <3>1, <4>1, Zenon
    <3>2. CASE ~good
      BY <1>13, <3>2, Zenon DEF TrapOf
    <3>3. QED
      BY <3>1, <3>2
  <2>3. /\ s = ReadFields(b, env.at, Envelope) /\ m.type = At(b, s.p)
        /\ Header(m) = (IF m.type = V1TRAP THEN V1Header ELSE V2Header)
        /\ hs = ReadFields(b, GetFieldLength(b, s.p + 1).at, Header(m)) /\ a = ReadVarbinds(b, hs.p)
    BY <1>4, <1>6, <1>7, <1>8, <1>10, <1>11, Zenon DEF Header
  <2>4. Decode(b) = TrapOf(b, env, s, m.type, Header(m), hs, a)
    BY <1>3, <2>1, <2>3
  <2>5. QED
    BY <2>2, <2>4, Zenon
<1>18. good <=> IsTrap(m)
  <2>1. good <=> m.extra = <<>> /\ m.type \in {V1TRAP, V2INFORM, V2TRAP} /\ a.ok
    BY <1>4, <1>7, <1>10, <1>13, Zenon
  <2>2. DOMAIN m.vars = 1 .. Len(m.vars)
    BY <1>5 DEF AreArguments
  <2>3. IsTrap(m) <=> /\ m.type \in {V1TRAP, V2INFORM, V2TRAP} /\ m.extra = <<>>
                      /\ \A k \in 1 .. Len(m.vars) : m.vars[k].type \in Known
    BY <2>2, Zenon DEF IsTrap, Known
  <2>4. QED
    BY <1>12, <2>1, <2>3, Zenon
<1>19. Version = m.version /\ community = m.community
  BY <1>7, <1>15, EnvelopeNames
<1>20. time = m.time /\ TrapOid = TrapId(m) /\ (m.type # V1TRAP => RequestID = m.id)
  <2>1. CASE m.type = V1TRAP
    <3>1. Header(m) = V1Header
      BY <2>1 DEF Header
    <3>2. hs.val[1] = m.oid /\ hs.val[3] = m.generic /\ hs.val[4] = m.specific /\ hs.val[5] = m.time
      BY <1>9, <2>1, Zenon DEF IsHeaderRead
    <3>3. time = m.time /\ TrapOid = V1TrapOid(m.oid, m.generic, m.specific)
      BY <1>14, <2>1, <3>1, <3>2, V1Names, Zenon
    <3>4. QED
      BY <2>1, <3>3, TrapIdMade
  <2>2. CASE m.type # V1TRAP
    <3>1. Header(m) = V2Header
      BY <2>2 DEF Header
    <3>2. hs.val[1] = m.id /\ hs.val[7] = m.time /\ hs.val[10] = m.oid
      BY <1>9, <2>2, Zenon DEF IsHeaderRead
    <3>3. time = m.time /\ TrapOid = m.oid /\ RequestID = m.id
      BY <1>14, <2>2, <3>1, <3>2, V2Names, Zenon
    <3>4. QED
      BY <2>2, <3>3 DEF TrapId
  <2>3. QED
    BY <2>1, <2>2
<1>21. good => a.varArgs = m.vars
  BY <1>4, <1>12, <1>13, <1>18, Zenon DEF IsTrap
<1>22. IsDecoded(Decode(b), m, p)
  <2>1. CASE good
    <3>1. Decode(b) = t
      BY <1>17, <2>1, Zenon
    <3>2. /\ t.ok /\ t.type = m.type /\ t.req = p /\ t.Version = Version /\ t.community = community
          /\ t.time = time /\ t.TrapOid = TrapOid /\ t.RequestID = RequestID /\ t.varArgs = a.varArgs
      BY <1>16
    <3>3. IsDecoded(t, m, p)
      BY <1>18, <1>19, <1>20, <1>21, <2>1, <3>2, Zenon DEF IsDecoded
    <3>4. QED
      BY <3>1, <3>3
  <2>2. CASE ~good
    <3>1. Decode(b) = [ok |-> FALSE]
      BY <1>17, <2>2, Zenon
    <3>2. ~Decode(b).ok
      BY <3>1
    <3>3. QED
      BY <1>18, <2>2, <3>2, Zenon DEF IsDecoded
  <2>3. QED
    BY <2>1, <2>2
<1>23. QED
  BY <1>1, <1>22

-----------------------------------------------------------------------------
(* The acknowledgement. *)

\* An element of the content is replaced, the length is the same.
LEMMA ReplacedInContent ==
  ASSUME NEW tag \in Nat, NEW c \in Seq(Nat), NEW long \in BOOLEAN, NEW q \in 1 .. Len(c), NEW x \in Nat
  PROVE  LET r == Len(TLV(tag, c, long)) - Len(c) + q
         IN /\ r \in 1 .. Len(TLV(tag, c, long))
            /\ TLV(tag, Replaced(c, q, x), long) = Replaced(TLV(tag, c, long), r, x)
<1>1. PICK n \in Nat : n = Len(c) /\ Len(Replaced(c, q, x)) = n
  BY ReplacedForm DEF IsReplaced
<1>2. PICK d \in Seq(Nat) : d = <<tag>> \o LengthOctets(n, long)
  <2>1. <<tag>> \in Seq(Nat) /\ LengthOctets(n, long) \in Seq(Nat)
    BY LengthForm
  <2>2. QED
    BY <2>1, Joined
<1>3. TLV(tag, c, long) = d \o c /\ TLV(tag, Replaced(c, q, x), long) = d \o Replaced(c, q, x)
  BY <1>1, <1>2, Zenon DEF TLV
<1>4. Len(d) + q \in 1 .. Len(d \o c) /\ d \o Replaced(c, q, x) = Replaced(d \o c, Len(d) + q, x)
  BY ReplacedInSecond
<1>5. Len(d \o c) - Len(c) + q = Len(d) + q
  <2>1. Len(d \o c) = Len(d) + Len(c) /\ Len(d) \in Nat /\ Len(c) \in Nat
    BY ConcatProperties
  <2>2. QED
    BY <2>1
<1>6. QED
  BY <1>3, <1>4, <1>5, Zenon

\* The tag of an element is replaced.
LEMMA ReplacedTag ==
  ASSUME NEW tag \in Nat, NEW c \in Seq(Nat), NEW long \in BOOLEAN, NEW x \in Nat
  PROVE  /\ 1 \in 1 .. Len(TLV(tag, c, long))
         /\ TLV(x, c, long) = Replaced(TLV(tag, c, long), 1, x)
<1>1. PICK l \in Seq(Nat) : l = LengthOctets(Len(c), long)
  <2>1. Len(c) \in Nat
    OBVIOUS
  <2>2. LengthOctets(Len(c), long) \in Seq(Nat)
    BY <2>1, LengthForm
  <2>3. QED
    BY <2>2, Zenon
<1>2. PICK a \in Seq(Nat), z \in Seq(Nat) : a = <<tag>> /\ z = <<x>>
  <2>1. <<tag>> \in Seq(Nat) /\ <<x>> \in Seq(Nat)
    OBVIOUS
  <2>2. QED
    BY <2>1, Zenon
<1>3. 1 \in 1 .. Len(a) /\ z = Replaced(a, 1, x)
  BY <1>2 DEF Replaced
<1>4. 1 \in 1 .. Len(a \o l) /\ z \o l = Replaced(a \o l, 1, x)
  BY <1>3, ReplacedInFirst, ZenonT(30)
<1>5. PICK e \in Seq(Nat) : e = a \o l
  BY Joined
<1>6. 1 \in 1 .. Len(e \o c) /\ Replaced(e, 1, x) \o c = Replaced(e \o c, 1, x)
  BY <1>4, <1>5, ReplacedInFirst
<1>7. TLV(tag, c, long) = e \o c /\ TLV(x, c, long) = Replaced(e, 1, x) \o c
  BY <1>1, <1>2, <1>4, <1>5, Zenon DEF TLV
<1>8. QED
  BY <1>6, <1>7, Zenon

\* n says what m says, of another type.
SameBut(n, m, type) ==
  /\ n.type = type
  /\ n.version = m.version /\ n.community = m.community /\ n.id = m.id /\ n.oid = m.oid
  /\ n.generic = m.generic /\ n.specific = m.specific /\ n.time = m.time /\ n.vars = m.vars
  /\ n.long = m.long /\ n.extra = m.extra

\* So does the message with the type changed.
LEMMA TypeChanged ==
  ASSUME NEW m, IsMessage(m), NEW type
  PROVE  SameBut([m EXCEPT !.type = type], m, type)
<1>1. m = [type |-> m.type, version |-> m.version, community |-> m.community, id |-> m.id, oid |-> m.oid,
           generic |-> m.generic, specific |-> m.specific, time |-> m.time, vars |-> m.vars, long |-> m.long,
           extra |-> m.extra]
  BY DEF IsMessage
<1>2. PICK n : n = [m EXCEPT !.type = type]
  OBVIOUS
<1>3. "type" \in DOMAIN m
  BY <1>1
<1>4. SameBut(n, m, type)
  BY <1>2, <1>3 DEF SameBut
<1>5. QED
  BY <1>2, <1>4

\* To replace an element of the last part of the content of a field that x follows
\* is to replace it where it is among the octets.
ReplacedInside(tag, long, k, d, x, q, y) ==
  LET c == k \o d
      all == TLV(tag, c, long)
      r == Len(all) - Len(c) + (Len(k) + q)
  IN TLV(tag, k \o Replaced(d, q, y), long) \o x = Replaced(all \o x, r, y)

\* So it is.
LEMMA ReplacedWhereItIs ==
  ASSUME NEW tag \in Nat, NEW long \in BOOLEAN, NEW k \in Seq(Nat), NEW d \in Seq(Nat), NEW x \in Seq(Nat),
         NEW q \in 1 .. Len(d), NEW y \in Nat
  PROVE  ReplacedInside(tag, long, k, d, x, q, y)
<1>1. PICK c \in Seq(Nat) : c = k \o d
  BY Joined
<1>2. Len(k) + q \in 1 .. Len(k \o d) /\ k \o Replaced(d, q, y) = Replaced(k \o d, Len(k) + q, y)
  BY ReplacedInSecond
<1>3. PICK j \in 1 .. Len(c) : j = Len(k) + q
  BY <1>1, <1>2, Zenon
<1>4. LET r == Len(TLV(tag, c, long)) - Len(c) + j
      IN /\ r \in 1 .. Len(TLV(tag, c, long))
         /\ TLV(tag, Replaced(c, j, y), long) = Replaced(TLV(tag, c, long), r, y)
  BY <1>3, ReplacedInContent, ZenonT(30)
<1>5. PICK all \in Seq(Nat) : all = TLV(tag, c, long)
  BY ElementForm
<1>6. PICK r \in 1 .. Len(all) : r = Len(all) - Len(c) + j /\ TLV(tag, Replaced(c, j, y), long) = Replaced(all, r, y)
  BY <1>4, <1>5, Zenon
<1>7. Replaced(all, r, y) \o x = Replaced(all \o x, r, y)
  BY ReplacedInFirst
<1>8. QED
  BY <1>1, <1>2, <1>3, <1>5, <1>6, <1>7, Zenon DEF ReplacedInside

\* The octets of an inform with the type replaced are those of the response.
LEMMA AcknowledgeEncodes ==
  ASSUME NEW m, IsMessage(m), m.type = V2INFORM, NEW e \in Nat \ {0}, NEW p \in Nat \ {0}, NEW h \in Nat \ {0},
         AreParts(Encode(m), m, e, p, h)
  PROVE  Acknowledge(Encode(m), p) = Encode([m EXCEPT !.type = RESPONSE])
<1>1. PICK n : n = [m EXCEPT !.type = RESPONSE] /\ SameBut(n, m, RESPONSE)
  BY TypeChanged
<1>2. /\ n.type = RESPONSE
      /\ n.version = m.version /\ n.community = m.community /\ n.id = m.id /\ n.oid = m.oid
      /\ n.time = m.time /\ n.vars = m.vars /\ n.long = m.long /\ n.extra = m.extra
  BY <1>1 DEF SameBut
<1>3. PICK long \in BOOLEAN : long = m.long
  BY MessageForm
<1>4. PICK i \in Seq(Nat), t \in Seq(Nat), y \in Seq(Nat), d \in Seq(Nat), c \in Seq(Nat), x \in Seq(Nat) :
        /\ i = IntTLV(INT, m.version, m.long) /\ t = TLV(STR, m.community, m.long)
        /\ y = Pdu(m) /\ d = TypedPdu(m) /\ c = Content(m) /\ x = m.extra
        /\ c = i \o t \o d
  BY EncodeForm, Zenon DEF Content
<1>5. V2INFORM \in Nat /\ RESPONSE \in Nat /\ SEQ \in Nat /\ V2INFORM # V1TRAP /\ RESPONSE # V1TRAP
  BY DEF V2INFORM, RESPONSE, SEQ, V1TRAP
<1>6. PICK tag \in Nat, new \in Nat : tag = SEQ /\ new = RESPONSE
  BY <1>5
<1>7. d = TLV(V2INFORM, y, long)
  BY <1>3, <1>4 DEF TypedPdu
<1>8. V2Pdu(n) = V2Pdu(m)
  <2>1. VarbindOctets(n) = VarbindOctets(m)
    BY <1>2 DEF VarbindOctets
  <2>2. QED
    BY <1>2, <2>1 DEF V2Pdu
<1>9. Pdu(n) = y
  <2>1. Pdu(n) = V2Pdu(n) /\ Pdu(m) = V2Pdu(m)
    BY <1>2, <1>5 DEF Pdu
  <2>2. QED
    BY <1>4, <1>8, <2>1
<1>10. TypedPdu(n) = Replaced(d, 1, RESPONSE) /\ 1 \in 1 .. Len(d)
  <2>1. TypedPdu(n) = TLV(RESPONSE, y, long)
    BY <1>2, <1>3, <1>9, Zenon DEF TypedPdu
  <2>2. 1 \in 1 .. Len(TLV(V2INFORM, y, long)) /\ TLV(RESPONSE, y, long) = Replaced(TLV(V2INFORM, y, long), 1, RESPONSE)
    BY <1>5, ReplacedTag
  <2>3. QED
    BY <1>7, <2>1, <2>2
<1>11. PICK k \in Seq(Nat) : k = i \o t
  BY Joined
<1>12. PICK one \in 1 .. Len(d) : one = 1
  BY <1>10
<1>13. ReplacedInside(tag, long, k, d, x, one, new)
  BY ReplacedWhereItIs
<1>14. PICK r : r = Len(TLV(tag, k \o d, long)) - Len(k \o d) + (Len(k) + one)
  OBVIOUS
<1>15. TLV(tag, k \o Replaced(d, one, new), long) \o x = Replaced(TLV(tag, k \o d, long) \o x, r, new)
  BY <1>13, <1>14, Zenon DEF ReplacedInside
<1>16. Encode(n) = TLV(tag, k \o Replaced(d, one, new), long) \o x
  <2>1. Encode(n) = TLV(SEQ, Content(n), n.long) \o n.extra
    BY Zenon DEF Encode, Content, TypedPdu, Pdu
  <2>2. Content(n) = k \o Replaced(d, 1, RESPONSE)
    BY <1>2, <1>4, <1>10, <1>11, Zenon DEF Content
  <2>3. QED
    BY <1>2, <1>3, <1>4, <1>6, <1>12, <2>1, <2>2, Zenon
<1>17. PICK all \in Seq(Nat) : all = TLV(SEQ, c, long) /\ Encode(m) = all \o x
  <2>1. TLV(SEQ, Content(m), m.long) \in Seq(Nat) /\ Encode(m) = TLV(SEQ, Content(m), m.long) \o m.extra
    BY EncodeForm
  <2>2. QED
    BY <1>3, <1>4, <2>1, Zenon
<1>18. Encode(n) = Replaced(Encode(m), r, RESPONSE)
  BY <1>4, <1>6, <1>11, <1>15, <1>16, <1>17, Zenon
<1>19. p = r
  <2>1. p = e + Len(i) + Len(t) /\ e + Len(c) = 1 + Len(all)
    BY <1>3, <1>4, <1>17, Zenon DEF AreParts
  <2>2. Len(k) = Len(i) + Len(t)
    BY <1>11, ConcatProperties
  <2>3. r = Len(all) - Len(c) + (Len(k) + 1)
    BY <1>4, <1>6, <1>11, <1>12, <1>14, <1>17, Zenon
  <2>4. PICK a, f, g, l \in Nat : a = Len(i) /\ f = Len(t) /\ g = Len(c) /\ l = Len(all)
    OBVIOUS
  <2>5. p = e + a + f /\ e + g = 1 + l /\ r = l - g + (a + f + 1)
    BY <2>1, <2>2, <2>3, <2>4
  <2>6. QED
    BY <2>5
<1>20. QED
  BY <1>1, <1>18, <1>19, Zenon DEF Acknowledge, Replaced

\* A trap starts with its type.
LEMMA TypeAtStart ==
  ASSUME NEW m, IsMessage(m), NEW e, NEW p, NEW h, AreParts(Encode(m), m, e, p, h), m.type # 0
  PROVE  Encode(m)[p] = m.type
BY DEF AreParts, At

-----------------------------------------------------------------------------
(* The packet in the pipeline. *)

\* The initial states satisfy the invariant.
LEMMA InitEventLife == Init => EventLife
BY DEF Init, EventLife

\* Every step preserves the invariant: a trap is decoded once, an event parsed once.
LEMMA NextEventLife ==
  ASSUME EventLife, [Next]_vars
  PROVE  EventLife'
<1>1. CASE DecodePacket
  BY <1>1 DEF DecodePacket, EventLife
<1>2. CASE SendAck
  BY <1>2 DEF SendAck, EventLife
<1>3. CASE ParseEvent
  <2>1. PICK class \in EventClasses :
          event' = [class |-> class, parsed |-> ParseTrap(class, trap.varArgs)]
    BY <1>3 DEF ParseEvent
  <2>2. event'.class = class /\ event'.parsed = ParseTrap(class, trap.varArgs)
    BY <2>1
  <2>3. trap # None /\ trap.ok /\ UNCHANGED <<message, trap>>
    BY <1>3 DEF ParseEvent
  <2>4. QED
    BY <2>2, <2>3 DEF EventLife
<1>4. CASE TellChange
  BY <1>4 DEF TellChange, packetVars, EventLife
<1>5. CASE UNCHANGED vars
  BY <1>5 DEF vars, packetVars, EventLife
<1>6. QED
  BY <1>1, <1>2, <1>3, <1>4, <1>5 DEF Next

\* The initial states satisfy the invariant of the packet.
LEMMA InitPacketLife == Init => PacketLife
BY DEF Init, PacketLife

\* Every step preserves it: the octets change once, when the trap was decoded.
LEMMA NextPacketLife ==
  ASSUME PacketLife, [Next]_vars
  PROVE  PacketLife'
<1>1. CASE DecodePacket
  <2>1. /\ message # None /\ trap = None /\ trap' = Decode(packet)
        /\ UNCHANGED <<message, packet, acknowledged>>
    BY <1>1 DEF DecodePacket
  <2>2. ~acknowledged /\ packet = Encode(message)
    BY <2>1 DEF PacketLife
  <2>3. QED
    BY <2>1, <2>2 DEF PacketLife
<1>2. CASE SendAck
  <2>1. /\ trap # None /\ ~acknowledged /\ trap.ok /\ packet[trap.req] = V2INFORM
        /\ packet' = Acknowledge(packet, trap.req) /\ acknowledged' = TRUE
        /\ UNCHANGED <<message, trap>>
    BY <1>2 DEF SendAck
  <2>2. message # None /\ trap = Decode(Encode(message)) /\ packet = Encode(message)
    BY <2>1 DEF PacketLife
  <2>3. QED
    BY <2>1, <2>2 DEF PacketLife
<1>3. CASE ParseEvent
  BY <1>3 DEF ParseEvent, PacketLife
<1>4. CASE TellChange
  BY <1>4 DEF TellChange, packetVars, PacketLife
<1>5. CASE UNCHANGED vars
  BY <1>5 DEF vars, packetVars, PacketLife
<1>6. QED
  BY <1>1, <1>2, <1>3, <1>4, <1>5 DEF Next

\* A trap is what Decode made of a message agents send, and decoded as it was meant.
LEMMA TrapOfMessage ==
  ASSUME EventLife, PacketLife, trap # None
  PROVE  /\ IsMessage(message)
         /\ \E e, p, h \in Nat \ {0} :
              AreParts(Encode(message), message, e, p, h) /\ IsDecoded(trap, message, p)
<1>1. IsMessage(message) /\ trap = Decode(Encode(message))
  BY TrapPipelineAssumption DEF EventLife, PacketLife
<1>2. PICK e, p, h \in Nat \ {0} : AreParts(Encode(message), message, e, p, h)
  BY <1>1, MessageParts
<1>3. IsDecoded(trap, message, p)
  BY <1>1, <1>2, MessageDecoded
<1>4. QED
  BY <1>1, <1>2, <1>3

\* So it says what the agent said.
LEMMA TrapIsDecoded == EventLife /\ PacketLife => TrapDecoded
<1> SUFFICES ASSUME EventLife, PacketLife, trap # None
             PROVE  TrapDecoded
  BY DEF TrapDecoded
<1>1. PICK p \in Nat \ {0} : IsDecoded(trap, message, p)
  BY TrapOfMessage
<1>2. QED
  BY <1>1, Zenon DEF IsDecoded, TrapDecoded

\* An acknowledged packet is the response to an inform.
LEMMA AckOfInform == EventLife /\ PacketLife => AckIsResponse
<1> SUFFICES ASSUME EventLife, PacketLife, acknowledged
             PROVE  message.type = V2INFORM /\ packet = Encode([message EXCEPT !.type = RESPONSE])
  BY DEF AckIsResponse
<1>1. /\ trap # None /\ trap.ok /\ message # None
      /\ Encode(message)[trap.req] = V2INFORM /\ packet = Acknowledge(Encode(message), trap.req)
  BY DEF PacketLife
<1>2. IsMessage(message)
  BY <1>1, TrapOfMessage
<1>3. PICK e, p, h \in Nat \ {0} :
        AreParts(Encode(message), message, e, p, h) /\ IsDecoded(trap, message, p)
  BY <1>1, TrapOfMessage
<1>4. IsTrap(message) /\ trap.req = p
  BY <1>1, <1>3, Zenon DEF IsDecoded
<1>5. message.type # 0
  BY <1>4 DEF IsTrap, V1TRAP, V2INFORM, V2TRAP
<1>6. message.type = V2INFORM
  BY <1>1, <1>2, <1>3, <1>4, <1>5, TypeAtStart
<1>7. Acknowledge(Encode(message), p) = Encode([message EXCEPT !.type = RESPONSE])
  BY <1>2, <1>3, <1>6, AcknowledgeEncodes
<1>8. QED
  BY <1>1, <1>4, <1>6, <1>7

\* Decode accepts exactly the traps and informs, and finds in their octets what the
\* agent put there, for every message that fits a datagram.
THEOREM TrapDecodedHolds == Spec => []TrapDecoded
BY InitEventLife, NextEventLife, InitPacketLife, NextPacketLife, TrapIsDecoded, PTL DEF Spec

\* What goes back for an inform is a response that says all the inform did, wherever
\* the type stands among the octets.
THEOREM AckIsResponseHolds == Spec => []AckIsResponse
BY InitEventLife, NextEventLife, InitPacketLife, NextPacketLife, AckOfInform, PTL DEF Spec

\* The arguments of a trap that was decoded rightly arrive in the fields they were meant for.
LEMMA SampleOfDecoded == EventLife /\ TrapDecoded => SampleRead
<1>1. SUFFICES ASSUME EventLife, TrapDecoded, event # None, trap.ok,
                      NEW s \in AgentSample, s.class = event.class,
                      Len(s.fields) = Len(message.vars),
                      \A k \in DOMAIN message.vars : message.vars[k].type = STR
               PROVE  /\ TRUE \in event.parsed.returns
                      /\ \A k \in DOMAIN s.fields :
                           s.fields[k] \in DOMAIN event.parsed.fields /\ event.parsed.fields[s.fields[k]] =
                             IF s.fields[k] \in Numeric THEN ToInt(message.vars[k].val) ELSE message.vars[k].val
  BY DEF SampleRead, EventLife
<1>2. trap.varArgs = message.vars /\ message \in Messages
  BY <1>1 DEF EventLife, TrapDecoded
<1>3. DOMAIN message.vars = 1 .. Len(message.vars)
  <2>1. message.vars \in Seq(ToSet(message.vars))
    BY <1>2, TrapPipelineAssumption DEF IsMessage
  <2>2. QED
    BY <2>1
<1>4. event.parsed = ParseTrap(s.class, message.vars)
  BY <1>1, <1>2 DEF EventLife
<1>5. Len(message.vars) = Len(s.fields) /\ \A k \in DOMAIN message.vars : message.vars[k].type = STR
  BY <1>1
<1>6. /\ TRUE \in ParseTrap(s.class, message.vars).returns
      /\ \A k \in DOMAIN s.fields :
           /\ s.fields[k] \in DOMAIN ParseTrap(s.class, message.vars).fields
           /\ ParseTrap(s.class, message.vars).fields[s.fields[k]] =
                IF s.fields[k] \in Numeric THEN ToInt(message.vars[k].val) ELSE message.vars[k].val
  BY <1>3, <1>5, SampleParsed
<1>7. QED
  BY <1>4, <1>6

\* A sample that came as octets arrives in the fields it was meant for, for every
\* message whose arguments are those of a sample.
THEOREM SampleReadHolds == Spec => []SampleRead
BY InitEventLife, NextEventLife, InitPacketLife, NextPacketLife, TrapIsDecoded, SampleOfDecoded, PTL DEF Spec
=============================================================================
