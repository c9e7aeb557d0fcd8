---------------------------- MODULE MCTrapReceiver ----------------------------
(* Small instances of TrapReceiver for TLC. *)
EXTENDS TrapReceiver

CONSTANTS p1, p2, p3, e1

ThreePackets == {p1, p2, p3}
OneEmpty == {e1}
=============================================================================
