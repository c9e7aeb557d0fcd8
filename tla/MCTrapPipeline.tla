---------------------------- MODULE MCTrapPipeline ----------------------------
(* Model values for TrapPipeline. *)
EXTENDS TrapPipeline

name == <<1, 3, 6, 300>>
\* Arguments: one of each kind; a string for a number, and a type that Decode does not know.
Varbinds == { [oid |-> name, type |-> INT, val |-> 200], [oid |-> name, type |-> TIME, val |-> 70000],
              [oid |-> <<1, 3>>, type |-> STR, val |-> <<49, 50, 109>>], [oid |-> name, type |-> NULL, val |-> 0],
              [oid |-> name, type |-> OID, val |-> <<1, 3, 43, 128>>], [oid |-> name, type |-> IPADDR, val |-> 167772161],
              [oid |-> name, type |-> 65, val |-> 1] }
Strings(n) == [k \in 1 .. n |-> [oid |-> name, type |-> STR, val |-> <<48 + k, 34>>]]
Arguments == UNION {[1 .. n -> Varbinds] : n \in 0 .. 2} \cup {Strings(n) : n \in 1 .. 8}

M(type, version, community, id, oid, generic, specific, time, args, long, extra) ==
  [type |-> type, version |-> version, community |-> community, id |-> id, oid |-> oid, generic |-> generic,
   specific |-> specific, time |-> time, vars |-> args, long |-> long, extra |-> extra]

V2Messages == { M(y, 1, <<112>>, id, <<1, 3, 6, 1>>, 0, 0, 70000, v, long, x) :
                y \in {V2INFORM, V2TRAP, 160}, id \in {1, 200}, v \in Arguments, long \in BOOLEAN, x \in {<<>>, <<0>>} }
V1Messages == { M(V1TRAP, 0, c, 0, <<1, 3, 6, 200>>, g, sp, 1, v, long, <<>>) :
                c \in {<<>>, [k \in 1 .. 130 |-> 97]}, g \in {0, 6}, sp \in {7, 300}, v \in Arguments, long \in BOOLEAN }
MCMessages == V1Messages \cup V2Messages

Row(host, mbw, mbh, uw, uh) ==
  [hostExpr |-> host, volExpr |-> {"v"}, WarnFreeMegsThresh |-> mbw, HighFreeMegsThresh |-> mbh,
   WarnUtilThresh |-> uw, HighUtilThresh |-> uh, WarnSevStr |-> "minor", HighSevStr |-> "MAJOR",
   minFSSize |-> 3, maxFSSize |-> 3]
MCRows == { <<Row({"h"}, a, b, c, d), Row({"h", "k"}, 2, 0, 0, 0)>> :
            a \in {0, 4}, b \in {0, 2, 4}, c \in {0, 50}, d \in {0, 75} }
MCSamples == [hostname : {"h", "k"}, volume_name : {"v"}, free : 0 .. 4, size : {0, 4}]
===============================================================================
