------------------------------ MODULE MCCmdQueue ------------------------------
(* Small instances of CmdQueue for TLC. *)
EXTENDS CmdQueue

CONSTANTS c1, c2, c3

ThreeCmds == {c1, c2, c3}

\* The limits of the safety runs: no slot at all, one, two, and a negative
\* value, which the comparison with size_t turns into a very large one.
AllLimits == {-1, 0, 1, 2}
\* The limits under which progress can be promised.
PositiveLimits == {1, 2}

AllCodes     == {0, 1, 259}
VisibleCodes == {0, 1}
=============================================================================
