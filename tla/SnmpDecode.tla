------------------------------ MODULE SnmpDecode ------------------------------
(***************************************************************************)
(* From the octets of a datagram to a trap: the parsers of asn1parsers.h,  *)
(* CSnmpTrap::Decode of CSnmpTrap.h and the object identifiers of          *)
(* snmpOid.cpp.  Pure operators; a packet is a sequence of octets and a    *)
(* position in it stands for the pointer pTmp.                             *)
(*                                                                         *)
(* An operator named Operation_Variant is a deliberately wrong form of the *)
(* Operation defined after it.                                             *)
(***************************************************************************)
EXTENDS Integers, Sequences, SequencesExt

\* SNMP_TYPE_x and SNMP_V1TRAP etc.: the tags.
BOOL == 1
INT == 2
STR == 4
NULL == 5
OID == 6
SEQ == 48
IPADDR == 64
TIME == 67
RESPONSE == 162
V1TRAP == 164
V2INFORM == 166
V2TRAP == 167

\* Behind the packet there is no octet to rely on; the loop over the varbinds looks
\* at one and then at its bound.
At(b, p) == IF p \in DOMAIN b THEN b[p] ELSE 0

-----------------------------------------------------------------------------
(* The parsers: what they store and the position behind it.                *)

\* Octets, the most significant first: ParseInt, ParseBigInt and ParseIP; the value
\* after each of the octets.
IntValue(b, p, n) ==
  LET v[k \in 0 .. n] == IF k = 0 THEN 0 ELSE 256 * v[k - 1] + At(b, p + k - 1) IN v
ParseInt(b, p, n) == [at |-> p + n, val |-> IntValue(b, p, n)[n]]

\* The long form is taken for a length of one octet.
GetFieldLength_OneOctet(b, p) ==
  IF At(b, p) < 128 THEN [at |-> p + 1, len |-> At(b, p)] ELSE [at |-> p + 2, len |-> At(b, p + 1)]
\* Bit 8 tells the short form from the number of octets of the long one.
GetFieldLength(b, p) ==
  IF At(b, p) < 128 THEN [at |-> p + 1, len |-> At(b, p)]
  ELSE LET r == ParseInt(b, p + 1, At(b, p) % 128) IN [at |-> r.at, len |-> r.val]

\* The value of an element follows its first octet; 0x2b as the first value is 1.3.
AddArc(oids, v) == IF v = 43 /\ oids = <<>> THEN <<1, 3>> ELSE Append(oids, v)

\* Seven bits of an octet, bit 8 says that the value goes on.
AddOctet(s, o) ==
  LET v == 128 * s.val + (o % 128)
  IN IF o >= 128 THEN [oids |-> s.oids, val |-> v, more |-> TRUE]
     ELSE [oids |-> AddArc(s.oids, v), val |-> 0, more |-> FALSE]

OidState(b, p, n) ==
  LET s[k \in 0 .. n] == IF k = 0 THEN [oids |-> <<>>, val |-> 0, more |-> FALSE]
                         ELSE AddOctet(s[k - 1], At(b, p + k - 1))
  IN s
ParseOid(b, p, n) ==
  LET end == OidState(b, p, n)[n]
  IN [at |-> p + n, val |-> IF end.more THEN AddArc(end.oids, end.val) ELSE end.oids]

\* Looks at the octet behind the content and goes on behind that.
ParseBool(b, p) == [at |-> p + 2, val |-> At(b, p + 1) # 0]

\* The signed octets become wide characters.
Wide(o) == IF o < 128 THEN o ELSE o + 65280
ParseStr(b, p, n) == [at |-> p + n, val |-> [k \in 1 .. n |-> Wide(At(b, p + k - 1))]]

-----------------------------------------------------------------------------
(***************************************************************************)
(* The header of a trap: the fields in their order, each with its tag and  *)
(* how it is read.  A "box" is entered, its length ignored.                *)
(***************************************************************************)
Field(name, tag, kind) == [name |-> name, tag |-> tag, kind |-> kind]

Envelope == << Field("Version", INT, "version"), Field("community", STR, "str") >>

V1Header == << Field("TrapOid", OID, "oid"), Field("SnmpSourceIP", IPADDR, "ip"), Field("GenericID", INT, "octet"),
               Field("SpecificID", INT, "int"), Field("ullSourceTime", TIME, "time"), Field("varbinds", SEQ, "box") >>

V2Header == << Field("RequestID", INT, "int"), Field("Error", INT, "int"), Field("ErrorIndex", INT, "int"),
               Field("varbinds", SEQ, "box"),
               Field("varbind 1", SEQ, "box"), Field("name 1", OID, "oid"), Field("ullSourceTime", TIME, "time"),
               Field("varbind 2", SEQ, "box"), Field("name 2", OID, "oid"), Field("TrapOid", OID, "oid") >>

\* Its tag; the address has to have 4 octets, the generic id 1, the version at most 4.
IsField(b, p, f) ==
  /\ At(b, p) = f.tag
  /\ f.kind = "ip" => At(b, p + 1) = 4
  /\ f.kind = "octet" => At(b, p + 1) = 1
  /\ f.kind = "version" => GetFieldLength(b, p + 1).len <= 4

ReadField(b, p, f) ==
  LET h == GetFieldLength(b, p + 1)
  IN CASE f.kind = "oid" -> ParseOid(b, h.at, h.len)
       [] f.kind = "str" -> ParseStr(b, h.at, h.len)
       [] f.kind = "box" -> [at |-> h.at, val |-> <<>>]
       [] OTHER          -> ParseInt(b, h.at, h.len)

\* Where the fields start, and behind the last of them.
FieldStart(b, p, fields) ==
  LET at[k \in 0 .. Len(fields)] == IF k = 0 THEN p ELSE ReadField(b, at[k - 1], fields[k]).at IN at

\* One field after the other: all of them as they have to be, or no trap.
ReadFields(b, p, fields) ==
  LET at == FieldStart(b, p, fields)
  IN IF \A k \in DOMAIN fields : IsField(b, at[k - 1], fields[k])
     THEN [ok |-> TRUE, p |-> at[Len(fields)],
           val |-> [k \in DOMAIN fields |-> ReadField(b, at[k - 1], fields[k]).val]]
     ELSE [ok |-> FALSE]

\* The value of the field with this name.
Named(fields, h, name) == h.val[CHOOSE k \in DOMAIN fields : fields[k].name = name]

\* operator += of CSnmpOid
Add(oid, addOid) == oid \o addOid

V1TrapOid(oid, GenericID, SpecificID) ==
  Add(oid, IF GenericID = 6 THEN <<0, SpecificID>> ELSE <<GenericID + 1>>)

-----------------------------------------------------------------------------
(***************************************************************************)
(* The varbinds: while there is one more sequence tag before the end of    *)
(* the packet.  A type that is not known ends the decoding without a trap. *)
(***************************************************************************)

\* The value of one varbind, type tag at p.
VarValue(b, p) ==
  LET h == GetFieldLength(b, p + 1)
  IN CASE At(b, p) = BOOL                -> ParseBool(b, h.at)
       [] At(b, p) \in {INT, TIME, IPADDR} -> ParseInt(b, h.at, h.len)
       [] At(b, p) = STR                 -> ParseStr(b, h.at, h.len)
       [] At(b, p) = NULL                -> [at |-> p + 2, val |-> 0]
       [] At(b, p) = OID                 -> ParseOid(b, h.at, h.len)

\* One round of the loop; a round that fails reads nothing.
ReadVarbind(b, p) ==
  LET head == GetFieldLength(b, p + 1)
      h    == GetFieldLength(b, head.at + 1)
      name == ParseOid(b, h.at, h.len)
      type == At(b, name.at)
  IN IF At(b, head.at) = OID /\ type \in {BOOL, INT, TIME, STR, NULL, OID, IPADDR}
     THEN LET v == VarValue(b, name.at)
          IN [ok |-> TRUE, at |-> v.at, val |-> [oid |-> name.val, type |-> type, val |-> v.val]]
     ELSE [ok |-> FALSE, at |-> p]

\* A sequence tag, and before the end of the packet.
MoreVarbinds(b, p) == At(b, p) = SEQ /\ p <= Len(b)

\* Where the rounds of the loop start; each reads some octets, if it does not fail.
VarbindStart(b, p) ==
  LET at[k \in 0 .. Len(b)] == IF k = 0 THEN p ELSE ReadVarbind(b, at[k - 1]).at IN at

\* All rounds up to the first one that has nothing to read or fails.
ReadVarbinds(b, p) ==
  LET at == VarbindStart(b, p)
      GoesOn(k) == MoreVarbinds(b, at[k]) /\ ReadVarbind(b, at[k]).ok
      n == CHOOSE k \in 0 .. Len(b) : ~GoesOn(k) /\ \A j \in 0 .. k - 1 : GoesOn(j)
  IN [ok |-> ~MoreVarbinds(b, at[n]), varArgs |-> [k \in 1 .. n |-> ReadVarbind(b, at[k - 1]).val]]

\* What was read, if all of it is as it has to be: the length of the packet env, the
\* envelope s, the type, the fields h of the Header and the arguments v.
TrapOf(b, env, s, type, Header, h, v) ==
  IF /\ At(b, 1) = SEQ /\ env.len = Len(b) - (env.at - 1)
     /\ s.ok /\ type \in {V1TRAP, V2INFORM, V2TRAP}
     /\ h.ok /\ v.ok
  THEN [ok |-> TRUE, type |-> type, req |-> s.p,
        Version |-> Named(Envelope, s, "Version"), community |-> Named(Envelope, s, "community"),
        time |-> Named(Header, h, "ullSourceTime"),
        TrapOid |-> IF type = V1TRAP
                    THEN V1TrapOid(Named(Header, h, "TrapOid"), Named(Header, h, "GenericID"), Named(Header, h, "SpecificID"))
                    ELSE Named(Header, h, "TrapOid"),
        RequestID |-> IF type = V1TRAP THEN 0 ELSE Named(Header, h, "RequestID"),
        varArgs |-> v.varArgs]
  ELSE [ok |-> FALSE]

\* CSnmpTrap::Decode: whether the octets are a trap and what it says; req is the
\* position of the request type, where an acknowledgement is written.
Decode(b) ==
  LET env    == GetFieldLength(b, 2)
      s      == ReadFields(b, env.at, Envelope)
      type   == At(b, s.p)
      Header == IF type = V1TRAP THEN V1Header ELSE V2Header
      h      == ReadFields(b, GetFieldLength(b, s.p + 1).at, Header)
      v      == ReadVarbinds(b, h.p)
  IN TrapOf(b, env, s, type, Header, h, v)

\* The length is overwritten, not the type.
Acknowledge_Behind(b, req) == [b EXCEPT ![req + 1] = RESPONSE]
\* SendAck answers with the packet itself, the request type replaced.
Acknowledge(b, req) == [b EXCEPT ![req] = RESPONSE]

-----------------------------------------------------------------------------
(***************************************************************************)
(* The octets of a trap by the basic encoding rules, the reference for     *)
(* Decode: [type, version, community, id, oid, generic, specific, time,    *)
(* vars, long, extra]; "long" asks for lengths in long form, "extra" adds  *)
(* octets the lengths do not count.                                        *)
(***************************************************************************)
LengthOctets(n, long) == IF long \/ n >= 128 THEN <<130, n \div 256, n % 256>> ELSE <<n>>
TLV(tag, content, long) == <<tag>> \o LengthOctets(Len(content), long) \o content

\* What a digit counts at each place of a number of 32 bits, from the last one on.
Bytes   == <<1, 256, 65536, 16777216>>
Septets == <<1, 128, 16384, 2097152, 268435456>>

\* How many digits a number takes.
Digits(n, places) ==
  CHOOSE k \in DOMAIN places : (k = 1 \/ places[k] <= n) /\ (k = Len(places) \/ n < places[k + 1])

Octets(n) == LET k == Digits(n, Bytes) IN [i \in 1 .. k |-> (n \div Bytes[k - i + 1]) % 256]
\* A number whose first octet has bit 8 set takes a zero before it.
IntOctets(n) == IF Octets(n)[1] >= 128 THEN <<0>> \o Octets(n) ELSE Octets(n)

\* An address is always of four octets.
AddressOctets(n) == [i \in 1 .. 4 |-> (n \div Bytes[5 - i]) % 256]

\* Seven bits of a number in each octet, bit 8 set in all but the last.
Base128(n) ==
  LET k == Digits(n, Septets)
  IN [i \in 1 .. k |-> ((n \div Septets[k - i + 1]) % 128) + (IF i < k THEN 128 ELSE 0)]

OidOctets(oid) == <<40 * oid[1] + oid[2]>> \o FlattenSeq([k \in 1 .. Len(oid) - 2 |-> Base128(oid[k + 2])])

ValueOctets(v) ==
  CASE v.type = OID         -> OidOctets(v.val)
    [] v.type = STR         -> v.val
    [] v.type = NULL        -> <<>>
    [] v.type = IPADDR      -> AddressOctets(v.val)
    [] OTHER                -> IntOctets(v.val)

\* GetFieldLength is not asked for the length of a NULL, which is in short form.
Varbind(v, long) ==
  TLV(SEQ, TLV(OID, OidOctets(v.oid), long) \o TLV(v.type, ValueOctets(v), long /\ v.type # NULL), long)

IntTLV(tag, n, long) == TLV(tag, IntOctets(n), long)
OidTLV(oid, long) == TLV(OID, OidOctets(oid), long)

VarbindOctets(t) == FlattenSeq([k \in DOMAIN t.vars |-> Varbind(t.vars[k], t.long)])

V1Pdu(t) ==
  OidTLV(t.oid, t.long) \o <<IPADDR, 4, 10, 0, 0, 1>> \o <<INT, 1, t.generic>> \o IntTLV(INT, t.specific, t.long)
  \o IntTLV(TIME, t.time, t.long) \o TLV(SEQ, VarbindOctets(t), t.long)

V2Pdu(t) ==
  IntTLV(INT, t.id, t.long) \o IntTLV(INT, 0, t.long) \o IntTLV(INT, 0, t.long)
  \o TLV(SEQ, TLV(SEQ, OidTLV(<<1, 3, 6>>, t.long) \o IntTLV(TIME, t.time, t.long), t.long)
              \o TLV(SEQ, OidTLV(<<1, 3, 7>>, t.long) \o OidTLV(t.oid, t.long), t.long)
              \o VarbindOctets(t), t.long)

Encode(t) ==
  TLV(SEQ, IntTLV(INT, t.version, t.long) \o TLV(STR, t.community, t.long)
           \o TLV(t.type, IF t.type = V1TRAP THEN V1Pdu(t) ELSE V2Pdu(t), t.long), t.long) \o t.extra

\* Numbers of 31 and of 32 bits, by their upper halves.
Int31 == {n \in Nat : n \div 65536 < 32768}
Word  == {n \in Nat : n \div 65536 < 65536}

\* Identifiers of SNMP are those below 1.3; names and texts are of seven bits.
ObjectIds == {oid \in Seq(Word) : Len(oid) >= 2 /\ oid[1] = 1 /\ oid[2] = 3}
Ascii == Seq(0 .. 127)

\* An argument as agents send it; BOOLEANs they do not send.
IsArgument(v) ==
  /\ v = [oid |-> v.oid, type |-> v.type, val |-> v.val]
  /\ v.oid \in ObjectIds /\ v.type \in 0 .. 255 \ {BOOL}
  /\ v.type = STR => v.val \in Ascii
  /\ v.type = NULL => v.val = 0
  /\ v.type = OID => v.val \in ObjectIds
  /\ v.type \notin {STR, NULL, OID} => v.val \in Word

\* A datagram is smaller, so that it fits sockBuf of the listener.
DatagramSize == 65536

\* A message that Encode turns into one datagram.
IsMessage(m) ==
  /\ m = [type |-> m.type, version |-> m.version, community |-> m.community, id |-> m.id, oid |-> m.oid,
          generic |-> m.generic, specific |-> m.specific, time |-> m.time, vars |-> m.vars, long |-> m.long,
          extra |-> m.extra]
  /\ m.type \in 0 .. 255 /\ m.version \in Int31 /\ m.community \in Ascii /\ m.id \in Int31
  /\ m.oid \in ObjectIds /\ m.generic \in 0 .. 255 /\ m.specific \in Int31 /\ m.time \in Word
  /\ m.vars \in Seq(ToSet(m.vars)) /\ \A k \in DOMAIN m.vars : IsArgument(m.vars[k])
  /\ m.long \in BOOLEAN /\ m.extra \in Seq(0 .. 255)
  /\ Len(Encode(m)) < DatagramSize
=============================================================================
