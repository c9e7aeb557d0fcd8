----------------------------- MODULE TimerTable -----------------------------
(***************************************************************************)
(* What the correlator promises its clients, without threads, queues and   *)
(* lists: a table of timers by id.  A request creates a timer, renews the  *)
(* one that exists, or cancels it; a timer fires when its duration has     *)
(* passed since it was last renewed, and is gone then.                     *)
(***************************************************************************)
EXTENDS Integers

CONSTANTS Ids,       \* the ids of correlations
          Durations, \* what a request may ask for
          None       \* no timer

VARIABLES table,   \* for each id the timer [start, dur], or None
          handled, \* the number of requests handled
          now      \* the time

Init == /\ table = [i \in Ids |-> None]
        /\ handled = 0
        /\ now = 0

\* A request may report what happened some time ago, but not what is to come.
Request(i) == /\ \/ \E s \in 0..now, d \in Durations :
                      table' = [table EXCEPT ![i] = [start |-> s, dur |-> d]]
                 \/ table' = [table EXCEPT ![i] = None]
              /\ handled' = handled + 1
              /\ UNCHANGED now

\* A timer fires when more time has passed than its duration, not sooner.
Fire(i) == /\ table[i] # None
           /\ now - table[i].start > table[i].dur
           /\ table' = [table EXCEPT ![i] = None]
           /\ UNCHANGED <<handled, now>>

Tick == /\ now' = now + 1
        /\ UNCHANGED <<table, handled>>

\* The end of the program forgets every timer.
Clear == /\ table' = [i \in Ids |-> None]
         /\ UNCHANGED <<handled, now>>

Next == \/ \E i \in Ids : Request(i) \/ Fire(i)
        \/ Tick
        \/ Clear

Spec == Init /\ [][Next]_<<table, handled, now>>
=============================================================================
