------------------------------ MODULE TrapPipeline ----------------------------
(***************************************************************************)
(* The way of one packet through the pure code of the program: CSnmpTrap   *)
(* decodes it, an inform is acknowledged, a class of event parses it; and  *)
(* the way of one sample of a file system: a threshold is found for it,    *)
(* its state computed, the change of state told.                           *)
(*                                                                         *)
(* What comes in is chosen at the start, well-formed messages by their     *)
(* content; the class of event and the level a file system had before are  *)
(* chosen when they are needed, since the callers that choose them in the  *)
(* code compare addresses (AgentEventFactory.h) or are not written yet     *)
(* (ProcessTrap).                                                          *)
(***************************************************************************)
EXTENDS ModelRules, AgentEvents

CONSTANTS
  Messages,     \* the messages agents send, records as Encode takes them
  Rows,         \* sequences of rows of the table of thresholds
  Samples,      \* records [hostname, volume_name, free, size]
  None          \* nothing yet

\* What the operators below take from a row.
RowFields == {"hostExpr", "volExpr", "WarnFreeMegsThresh", "HighFreeMegsThresh", "WarnUtilThresh",
              "HighUtilThresh", "WarnSevStr", "HighSevStr", "minFSSize", "maxFSSize"}

\* Messages are such as agents encode; rows come in sequences, as records do.
ASSUME TrapPipelineAssumption ==
  /\ \A m \in Messages : IsMessage(m)
  /\ \A rows \in Rows : /\ rows \in Seq(ToSet(rows))
                        /\ \A k \in DOMAIN rows : RowFields \subseteq DOMAIN rows[k]

VARIABLES
  message,      \* what the agent sent, or None
  packet,       \* its octets; those of the acknowledgement once it is sent
  trap,         \* the result of Decode
  acknowledged, \* SendAck was called
  event,        \* the result of ParseTrap, with the class that parsed
  cache, sample, told   \* the thresholds, the sample, and the notification about it

packetVars == <<message, packet, trap, acknowledged, event>>
sampleVars == <<cache, sample, told>>
vars == <<packetVars, sampleVars>>

Init ==
  /\ trap = None /\ event = None /\ told = None /\ acknowledged = FALSE
  /\ \/ /\ message \in Messages /\ packet = Encode(message)
        /\ cache = <<>> /\ sample = None
     \/ /\ message = None /\ packet = <<>>
        /\ \E rows \in Rows : cache = [k \in DOMAIN rows |-> NewThreshold(rows[k])]
        /\ sample \in Samples

DecodePacket ==
  /\ message # None /\ trap = None
  /\ trap' = Decode(packet)
  /\ UNCHANGED <<message, packet, acknowledged, event, sampleVars>>

SendAck ==
  /\ trap # None /\ ~acknowledged /\ event = None
  /\ trap.ok /\ packet[trap.req] = V2INFORM
  /\ packet' = Acknowledge(packet, trap.req) /\ acknowledged' = TRUE
  /\ UNCHANGED <<message, trap, event, sampleVars>>

\* Behind the acknowledgement, if there is one.
ParseEvent ==
  /\ trap # None /\ event = None
  /\ trap.ok /\ (acknowledged \/ trap.type # V2INFORM)
  /\ \E class \in EventClasses : event' = [class |-> class, parsed |-> ParseTrap(class, trap.varArgs)]
  /\ UNCHANGED <<message, packet, trap, acknowledged, sampleVars>>

\* The level of a file system that no threshold matches is not computed.
TellChange ==
  /\ sample # None /\ told = None
  /\ LET k == GetThresholdForFS(cache, sample.hostname, sample.volume_name, sample.size)
     IN /\ k # 0
        /\ LET level == Level(GetState(cache[k], sample.free, sample.size))
           IN \E old \in 0 .. 2 \ {level} :
                told' = [by |-> k, level |-> level,
                         command |-> FileSystemStateChange(cache[k], sample.free, sample.size, old, level)]
  /\ UNCHANGED <<packetVars, cache, sample>>

Next == DecodePacket \/ SendAck \/ ParseEvent \/ TellChange

Spec == Init /\ [][Next]_vars

-----------------------------------------------------------------------------
(***************************************************************************)
(* Properties.                                                             *)
(***************************************************************************)

IsTrap(m) ==
  /\ m.type \in {V1TRAP, V2INFORM, V2TRAP}
  /\ m.extra = <<>>
  /\ \A k \in DOMAIN m.vars : m.vars[k].type \in {INT, TIME, STR, NULL, OID, IPADDR}

\* The identifier of a version 1 trap is made from its enterprise and its two numbers.
TrapId(m) ==
  IF m.type # V1TRAP THEN m.oid
  ELSE IF m.generic = 6 THEN m.oid \o <<0, m.specific>> ELSE Append(m.oid, m.generic + 1)

\* Decode accepts exactly the traps and informs among the well-formed messages, if
\* their arguments are of types it knows, and finds in the octets what the agent put
\* there, whatever form the lengths have and however many octets the numbers take.
TrapDecoded ==
  trap # None =>
    /\ trap.ok <=> IsTrap(message)
    /\ trap.ok => /\ trap.type = message.type /\ trap.Version = message.version
                  /\ trap.community = message.community /\ trap.time = message.time
                  /\ trap.TrapOid = TrapId(message)
                  /\ message.type # V1TRAP => trap.RequestID = message.id
                  /\ trap.varArgs = message.vars

\* The octets that go back for an inform, made in place in the packet that came in,
\* are a response that says all the inform did and nothing else.
AckIsResponse ==
  acknowledged => /\ message.type = V2INFORM
                  /\ packet = Encode([message EXCEPT !.type = RESPONSE])

\* What agents send, in the order of their arguments, for each class of event; the
\* short form is that of agents that do not tell their platform.
AgentSample == {
  [class |-> "DiskMetric",       fields |-> <<"hostname", "volume_name", "fsSizeMb", "availableSpaceMb">>],
  [class |-> "ProcessFail",      fields |-> <<"hostname", "platformId", "processName", "currentState", "desiredState">>],
  [class |-> "ServiceFail",      fields |-> <<"hostname", "platformId", "serviceName", "currentState", "desiredState", "serviceLabel">>],
  [class |-> "ClusterFail",      fields |-> <<"hostname", "platformId", "resourceGroup", "clusterName", "state">>],
  [class |-> "StartMaintenance", fields |-> <<"hostname", "userName", "description", "duration">>],
  [class |-> "StartMaintenance", fields |-> <<"hostname", "platformId", "userName", "description", "duration">>],
  [class |-> "Error",            fields |-> <<"hostname", "message", "severity">>],
  [class |-> "Error",            fields |-> <<"hostname", "platformId", "message", "severity">>],
  [class |-> "Hello",            fields |-> <<"hostname">>],
  [class |-> "Hello",            fields |-> <<"hostname", "platformId", "osFlavor", "ugmonVersion">>],
  [class |-> "Goodbye",          fields |-> <<"hostname">>] }

\* A sample of Testcommands.txt that came as octets arrives in the fields it was
\* meant for (those it lists for the other forms do not: see the README).
SampleRead ==
  event # None =>
    \A s \in AgentSample :
      /\ s.class = event.class
      /\ Len(s.fields) = Len(message.vars)
      /\ \A k \in DOMAIN message.vars : message.vars[k].type = STR
      => /\ TRUE \in event.parsed.returns
         /\ \A k \in DOMAIN s.fields :
              s.fields[k] \in DOMAIN event.parsed.fields /\ event.parsed.fields[s.fields[k]] =
                IF s.fields[k] \in Numeric THEN ToInt(message.vars[k].val) ELSE message.vars[k].val

Only(t, limits) == [l \in DOMAIN t |-> IF l \in limits THEN 0 ELSE t[l]]

\* What is told about a file system is the worse of what its limits in percent and
\* its limits in megabytes say on their own, by the first threshold that matches, and
\* the severity is that of the level named.
WorseLevelTold ==
  told # None =>
    LET t == cache[told.by]
        byMB   == Level(GetState(Only(t, {"WarnUtilThresh", "HighUtilThresh"}), sample.free, sample.size))
        byUtil == Level(GetState(Only(t, {"WarnFreeMegsThresh", "HighFreeMegsThresh"}), sample.free, sample.size))
    IN /\ told.level >= byMB /\ told.level >= byUtil /\ told.level \in {byMB, byUtil}
       /\ <<told.command.newState, told.command.sev>> \in
            {<<"NORM", "Normal">>, <<"WARN", t.WarnSevStr>>, <<"HIGH", t.HighSevStr>>}
       /\ told.command.newState # told.command.oldState
       /\ \A j \in 1 .. told.by - 1 : ~Matches(cache[j], sample.hostname, sample.volume_name, sample.size)

-----------------------------------------------------------------------------
(* The inductive invariants of the proofs. *)

\* The thresholds are those the sample came with.
CacheOK ==
  /\ cache \in Seq(ToSet(cache))
  /\ \A k \in DOMAIN cache : RowFields \subseteq DOMAIN cache[k]

\* An event comes of a trap, a trap of a message, and both stay as they are.
EventLife ==
  /\ message \in Messages \cup {None}
  /\ trap # None => message # None
  /\ event # None =>
       /\ trap # None /\ trap.ok
       /\ event.class \in EventClasses /\ event.parsed = ParseTrap(event.class, trap.varArgs)

\* A trap is what Decode makes of the octets of its message, and the packet still is
\* those octets, but for the type an acknowledgement wrote over.
PacketLife ==
  /\ trap # None => message # None /\ trap = Decode(Encode(message))
  /\ acknowledged => trap # None /\ trap.ok /\ Encode(message)[trap.req] = V2INFORM
  /\ message # None =>
       packet = IF acknowledged THEN Acknowledge(Encode(message), trap.req) ELSE Encode(message)
=============================================================================
