---------------------------- MODULE BoundedExecutor ----------------------------
(***************************************************************************)
(* What a client of the command queue may rely on, without lists, counters *)
(* and iterators: jobs are started in the order in which they were         *)
(* submitted, each at most once, and never while the allowed number of     *)
(* jobs or more is running; a running job is finished once; after the      *)
(* executor is closed no job starts.                                       *)
(***************************************************************************)
EXTENDS Integers, Sequences, FiniteSets

CONSTANTS
  Jobs,        \* the jobs that are ever submitted
  Limits,      \* the values of the limit
  Allowed(_)   \* the number of running jobs that a limit stands for

VARIABLES
  pending,  \* the submitted jobs that wait, in order
  running,  \* the jobs that were started and are not finished
  past,     \* the jobs that are over: finished, rejected or dropped
  limit,    \* the present limit
  closed    \* the executor does not start jobs any more

bevars == <<pending, running, past, limit, closed>>

Waiting == {pending[i] : i \in DOMAIN pending}

Init ==
  /\ pending = <<>>
  /\ running = {}
  /\ past = {}
  /\ limit \in Limits
  /\ closed = FALSE

Submit(j) ==
  /\ ~closed
  /\ j \notin Waiting \cup running \cup past
  /\ pending' = Append(pending, j)
  /\ UNCHANGED <<running, past, limit, closed>>

\* The first waiting job takes its turn: it starts or it is rejected.
Turn ==
  /\ ~closed
  /\ pending # <<>>
  /\ Cardinality(running) < Allowed(limit)
  /\ pending' = Tail(pending)
  /\ \/ running' = running \cup {Head(pending)} /\ UNCHANGED past
     \/ past' = past \cup {Head(pending)} /\ UNCHANGED running
  /\ UNCHANGED <<limit, closed>>

Finish(j) ==
  /\ j \in running
  /\ running' = running \ {j}
  /\ past' = past \cup {j}
  /\ UNCHANGED <<pending, limit, closed>>

ChangeLimit(n) ==
  /\ ~closed
  /\ limit' = n
  /\ UNCHANGED <<pending, running, past, closed>>

Close ==
  /\ ~closed
  /\ closed' = TRUE
  /\ UNCHANGED <<pending, running, past, limit>>

Drop ==
  /\ closed
  /\ pending # <<>>
  /\ pending' = Tail(pending)
  /\ past' = past \cup {Head(pending)}
  /\ UNCHANGED <<running, limit, closed>>

Next ==
  \/ \E j \in Jobs : Submit(j) \/ Finish(j)
  \/ \E n \in Limits : ChangeLimit(n)
  \/ Turn
  \/ Close
  \/ Drop

Spec == Init /\ [][Next]_bevars
=============================================================================
