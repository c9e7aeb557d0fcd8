------------------------------ MODULE AgentEvents -----------------------------
(***************************************************************************)
(* From a decoded trap to an agent event: the ParseTrap methods of the     *)
(* classes under AgentEvent.  A class accepts certain numbers of           *)
(* arguments, all of them strings, and takes each of its fields from one   *)
(* argument; which, depends on the number, the version of the agent.       *)
(*                                                                         *)
(* Arguments are records [type, val]; the first one has number 1 here and  *)
(* index 0 in the code.                                                    *)
(***************************************************************************)
EXTENDS Integers, Sequences, SequencesExt, SnmpDecode

\* The names of the events are those of the classes without "Event".
EventClasses == {"DiskMetric", "ProcessFail", "ServiceFail", "ClusterFail",
                 "StartMaintenance", "Error", "Hello", "Goodbye", "Generic"}

\* Fields in the order of the arguments they are taken from.
Ordered(names) == [f \in ToSet(names) |-> CHOOSE k \in DOMAIN names : names[k] = f]

\* A further field.
Added(fields, name, v) ==
  [f \in DOMAIN fields \cup {name} |-> IF f = name THEN v ELSE fields[f]]

\* A volume of the long form: its argument is the platform again, and the sizes
\* come from the two arguments before their own.
DiskMetricForm(n) ==
  CASE n = 4 -> Ordered(<<"hostname", "volume_name", "fsSizeMb", "availableSpaceMb">>)
    [] n = 5 -> Added(Ordered(<<"hostname", "platformId", "fsSizeMb", "availableSpaceMb">>), "volume_name", 2)

\* "current and normal state was swapped in the old format"
ProcessFailForm(n) ==
  CASE n = 4 -> Ordered(<<"hostname", "processName", "desiredState", "currentState">>)
    [] n = 5 -> Ordered(<<"hostname", "platformId", "processName", "currentState", "desiredState">>)
    [] n = 7 -> Ordered(<<"hostname", "platformId", "processName", "currentState", "desiredState", "msgGroup", "severity">>)

ServiceFailForm(n) ==
  CASE n = 5 -> Ordered(<<"hostname", "serviceName", "desiredState", "currentState", "serviceLabel">>)
    [] n = 6 -> Ordered(<<"hostname", "platformId", "serviceName", "currentState", "desiredState", "serviceLabel">>)
    [] n = 8 -> Ordered(<<"hostname", "platformId", "serviceName", "currentState", "desiredState", "serviceLabel", "msgGroup", "msgSeverity">>)

ClusterFailForm(n) == Ordered(<<"hostname", "platformId", "resourceGroup", "clusterName", "state">>)

\* The platform is taken for the name of the user.
StartMaintenanceForm_NoPlatform(n) ==
  CASE n = 4 -> Ordered(<<"hostname", "userName", "description", "duration">>)
    [] n = 5 -> Ordered(<<"hostname", "userName", "description", "duration">>)
StartMaintenanceForm(n) ==
  CASE n = 4 -> Ordered(<<"hostname", "userName", "description", "duration">>)
    [] n = 5 -> Ordered(<<"hostname", "platformId", "userName", "description", "duration">>)

ErrorForm(n) ==
  CASE n = 3 -> Ordered(<<"hostname", "message", "severity">>)
    [] n = 4 -> Ordered(<<"hostname", "platformId", "message", "severity">>)

\* Hello and Goodbye.
HelloForm(n) ==
  CASE n = 1 -> Ordered(<<"hostname">>)
    [] n = 4 -> Ordered(<<"hostname", "platformId", "osFlavor", "ugmonVersion">>)

\* How many arguments a class accepts.
Lengths(class) ==
  CASE class = "DiskMetric"         -> {4, 5}
    [] class = "ProcessFail"        -> {4, 5, 7}
    [] class = "ServiceFail"        -> {5, 6, 8}
    [] class = "ClusterFail"        -> {5}
    [] class = "StartMaintenance"   -> {4, 5}
    [] class = "Error"              -> {3, 4}
    [] class \in {"Hello", "Goodbye"} -> {1, 4}

Form(class, n) ==
  CASE class = "DiskMetric"         -> DiskMetricForm(n)
    [] class = "ProcessFail"        -> ProcessFailForm(n)
    [] class = "ServiceFail"        -> ServiceFailForm(n)
    [] class = "ClusterFail"        -> ClusterFailForm(n)
    [] class = "StartMaintenance"   -> StartMaintenanceForm(n)
    [] class = "Error"              -> ErrorForm(n)
    [] class \in {"Hello", "Goodbye"} -> HelloForm(n)

\* _wcstoi64: the digits at the front (numbers near the limits of 64 bits, which
\* refuse the event, are out of range here).
ToInt(text) ==
  LET isDigit(o) == o \in 48 .. 57
      stop == SelectInSeq(text, LAMBDA o : ~isDigit(o))
      digits == IF stop = 0 THEN text ELSE SubSeq(text, 1, stop - 1)
  IN FoldLeft(LAMBDA v, o : 10 * v + (o - 48), 0, digits)

\* remove_str_quotes_and_back_spaces
CleanText(text) == [k \in DOMAIN text |-> CASE text[k] = 34 -> 39 [] text[k] = 92 -> 47 [] OTHER -> text[k]]

Numeric == {"fsSizeMb", "availableSpaceMb"}

\* Classes whose ParseTrap returns no value once it has taken the fields.
NoReturn == {"Hello", "Goodbye", "ClusterFail", "ServiceFail"}

\* StartMaintenance computes the end of the maintenance from the text.
DurationSeconds(fields) == 60 * ToInt(fields.duration)

\* ParseTrap: the values it can return, and the fields it has set.  A generic event
\* takes the first argument for the name of the host and cleans all; it does not
\* return if one is no string, whose pointer is NULL.
ParseTrap(class, args) ==
  LET n == Len(args)
      refused == [returns |-> {FALSE}, fields |-> <<>>]
  IN IF class = "Generic"
     THEN IF n = 0 THEN refused
          ELSE IF \E k \in 1 .. n : args[k].type # STR THEN [returns |-> {}, fields |-> <<>>]
          ELSE [returns |-> {TRUE},
                fields |-> [hostname |-> args[1].val, args |-> [k \in 1 .. n |-> CleanText(args[k].val)]]]
     ELSE IF n \notin Lengths(class) \/ \E k \in 1 .. n : args[k].type # STR THEN refused
     ELSE LET form == Form(class, n)
              fields == [f \in DOMAIN form |->
                           IF f \in Numeric THEN ToInt(args[form[f]].val) ELSE args[form[f]].val]
          IN [returns |-> IF class \in NoReturn THEN BOOLEAN ELSE {TRUE},
              fields  |-> IF class = "StartMaintenance"
                          THEN Added(fields, "durationSeconds", DurationSeconds(fields)) ELSE fields]
=============================================================================
