----------------------------- MODULE MCTrapHandler -----------------------------
(* Small instances of TrapHandler for TLC. *)
EXTENDS TrapHandler

CONSTANTS malformed, unknownInform, event, badEvent, e1, t1, t2

\* One packet for each way through processTraps; the inform whose event parses
\* comes with a result of ParseTrap that is not defined.
Kind(d, i, k, r) == [decodes |-> d, inform |-> i, known |-> k, parsed |-> r]
AllPackets == {malformed, unknownInform, event, badEvent}
ThreePackets == {malformed, unknownInform, event}
TwoPackets == {unknownInform, event}
ContentOf(S) == [p \in S |->
  CASE p = malformed     -> Kind(FALSE, TRUE, FALSE, {FALSE})
    [] p = unknownInform -> Kind(TRUE, TRUE, FALSE, {FALSE})
    [] p = event         -> Kind(TRUE, FALSE, TRUE, {TRUE})
    [] p = badEvent      -> Kind(TRUE, TRUE, TRUE, BOOLEAN)]
AllContent == ContentOf(AllPackets)
ThreeContent == ContentOf(ThreePackets)
TwoContent == ContentOf(TwoPackets)
NoEmpty == {}
OneEmpty == {e1}
NoTimers == {}
OneTimer == {t1}
TwoTimers == {t1, t2}
OneLimit == {1}
TheLimits == {0, 1}
AsSizeT(n) == n
=============================================================================
