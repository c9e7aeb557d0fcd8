---------------------------- MODULE MCCorrelator ----------------------------
(* The requests for TLC: a timer, its renewal or cancellation, and the     *)
(* timer of another id, sent in any order.                                 *)
EXTENDS Correlator

CONSTANTS create, change, other, i1, i2

MCMessages == {create, change, other}
MCIds == {i1, i2}
MCMortal == {change}

Timer(i)  == [id |-> i, delete |-> FALSE, action |-> TRUE, duration |-> 0]
Renewal   == [id |-> i1, delete |-> FALSE, action |-> FALSE, duration |-> 1]
Cancelled == [id |-> i1, delete |-> TRUE, action |-> FALSE, duration |-> 0]

MCRequests == {[m \in MCMessages |-> IF m = create THEN Timer(i1)
                                     ELSE IF m = other THEN Timer(i2) ELSE r] :
                 r \in {Renewal, Cancelled}}
=============================================================================
