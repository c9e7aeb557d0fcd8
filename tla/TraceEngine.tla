----------------------------- MODULE TraceEngine ------------------------------
(***************************************************************************)
(* The trace engine (TraceEngine.h, TraceEngine.cpp): one object, one      *)
(* message buffer and one log file for all threads, behind a spin lock     *)
(* that outlives the object.                                               *)
(*                                                                         *)
(* A thread calls SendEvent or StopLogTrace at any time; Owner constructs  *)
(* and destroys the object.  tpc says how far a thread is in its call:     *)
(* "out" of the engine, "checked" (pTraceEngine was not NULL), "spin"      *)
(* (waiting for the lock), and then the locked section.                    *)
(*                                                                         *)
(* Service mode: no console is traced to, but the level of the console     *)
(* still takes part in the filter of SendEvent.                            *)
(***************************************************************************)
EXTENDS Integers

CONSTANTS
  Threads,     \* the threads of the process
  Owner,       \* the one that runs wmain
  NoThread,    \* stands for nobody's message in the buffer
  Severities,  \* the severities of the events that are sent
  Levels       \* the trace levels that are set

LOG_ALL     == -1
LOG_DEBUG   == 0
LOG_NORMAL  == 1
LOG_WARNING == 2
LOG_NONE    == 255

ASSUME TraceEngineAssumption ==
  /\ Owner \in Threads
  /\ NoThread \notin Threads
  /\ Severities \subseteq Int
  /\ LOG_DEBUG \in Severities
  /\ Levels \subseteq Int

VARIABLES
  pTraceEngine,       \* the static pointer: "NULL" or "object"
  buffers,            \* the memory of the object: "none", "allocated", "freed"
  slTraceEngine,      \* the spin lock: 0 free, 1 taken
  msgBuf,             \* whose message the buffer holds
  iLogTraceLevel,
  iConsoleTraceLevel,
  bLogTraceRunning,
  hLogFile,           \* "undefined", "open", "closed" or "INVALID_HANDLE_VALUE"
  tpc,                \* where each thread is in its call
  task,               \* what it wants the lock for: "event", "stop" or "destroy"
  sev,                \* the severity of its event
  dtor,               \* how far the destructor is: "no", "stop", "lock", "done"
  crashed             \* a thread has used pTraceEngine when it was NULL

objectVars == <<pTraceEngine, buffers, dtor>>
logVars    == <<iLogTraceLevel, iConsoleTraceLevel, bLogTraceRunning, hLogFile>>
callVars   == <<tpc, task, sev>>
tvars == <<objectVars, slTraceEngine, msgBuf, logVars, callVars, crashed>>

\* The lock is taken before the object exists.
TraceInit ==
  /\ pTraceEngine = "NULL"
  /\ buffers = "none"
  /\ slTraceEngine = 1
  /\ msgBuf = NoThread
  /\ iLogTraceLevel = LOG_NONE
  /\ iConsoleTraceLevel = LOG_NONE
  /\ bLogTraceRunning = FALSE
  /\ hLogFile = "undefined"
  /\ tpc = [t \in Threads |-> "out"]
  /\ task = [t \in Threads |-> "event"]
  /\ sev = [t \in Threads |-> LOG_DEBUG]
  /\ dtor = "no"
  /\ crashed = FALSE

-----------------------------------------------------------------------------
(* The spin lock. *)

\* The lock is looked at and set in two steps: another thread may hold it.
SPINLOCK_NotAtomic == slTraceEngine' = 1
\* InterlockedCompareExchange(&x, 1, 0) returned 0.
SPINLOCK == slTraceEngine = 0 /\ slTraceEngine' = 1

\* InterlockedDecrement.
SPINUNLOCK == slTraceEngine' = slTraceEngine - 1

Acquire(t) ==
  /\ ~crashed
  /\ tpc[t] = "spin"
  /\ SPINLOCK
  /\ tpc' = [tpc EXCEPT ![t] = "locked"]
  /\ UNCHANGED <<objectVars, msgBuf, logVars, task, sev, crashed>>

\* A thread begins to wait for the lock.
Spin(t, what) ==
  /\ tpc' = [tpc EXCEPT ![t] = "spin"]
  /\ task' = [task EXCEPT ![t] = what]

Leave(t) == tpc' = [tpc EXCEPT ![t] = "out"]

-----------------------------------------------------------------------------
(* SendEvent. *)

\* pTraceEngine is not NULL.  (If it is, SendEvent returns: nothing changes.)
BeginEvent(t, s) ==
  /\ ~crashed
  /\ tpc[t] = "out"
  /\ pTraceEngine # "NULL"
  /\ tpc' = [tpc EXCEPT ![t] = "checked"]
  /\ sev' = [sev EXCEPT ![t] = s]
  /\ UNCHANGED <<objectVars, slTraceEngine, msgBuf, logVars, task, crashed>>

\* The levels are read through pTraceEngine, which may be NULL by now.
FilterEvent(t) ==
  /\ ~crashed
  /\ tpc[t] = "checked"
  /\ IF pTraceEngine = "NULL"
     THEN crashed' = TRUE /\ UNCHANGED callVars
     ELSE /\ IF sev[t] < iConsoleTraceLevel /\ sev[t] < iLogTraceLevel
             THEN Leave(t) /\ UNCHANGED task
             ELSE Spin(t, "event")
          /\ UNCHANGED <<sev, crashed>>
  /\ UNCHANGED <<objectVars, slTraceEngine, msgBuf, logVars>>

FormatEvent(t) ==
  /\ ~crashed
  /\ tpc[t] = "locked"
  /\ task[t] = "event"
  /\ msgBuf' = t
  /\ tpc' = [tpc EXCEPT ![t] = "formatted"]
  /\ UNCHANGED <<objectVars, slTraceEngine, logVars, task, sev, crashed>>

\* The text of the thread goes to the log file, if it is above the level.
Writes(t) ==
  /\ tpc[t] = "formatted"
  /\ bLogTraceRunning
  /\ sev[t] >= iLogTraceLevel

WriteEvent(t) ==
  /\ ~crashed
  /\ tpc[t] = "formatted"
  /\ Leave(t)
  /\ SPINUNLOCK
  /\ UNCHANGED <<objectVars, msgBuf, logVars, task, sev, crashed>>

-----------------------------------------------------------------------------
(* The log file. *)

\* StartLogTrace, without the lock.  The file cannot be opened, or it is
\* opened, or it is old and RollLogFile replaces it, which may fail; tracing is
\* then on all the same, as line 157 follows line 108.
StartLogTrace(level) ==
  /\ ~crashed
  /\ IF pTraceEngine = "NULL" \/ bLogTraceRunning
     THEN UNCHANGED logVars
     ELSE /\ iLogTraceLevel' = level
          /\ \/ hLogFile' = "INVALID_HANDLE_VALUE" /\ UNCHANGED bLogTraceRunning
             \/ hLogFile' = "open" /\ bLogTraceRunning' = TRUE
             \/ hLogFile' = "INVALID_HANDLE_VALUE" /\ bLogTraceRunning' = TRUE
          /\ UNCHANGED iConsoleTraceLevel
  /\ UNCHANGED <<objectVars, slTraceEngine, msgBuf, callVars, crashed>>

StopLogTrace(t) ==
  /\ ~crashed
  /\ tpc[t] = "out"
  /\ pTraceEngine # "NULL"
  /\ Spin(t, "stop")
  /\ UNCHANGED <<objectVars, slTraceEngine, msgBuf, logVars, sev, crashed>>

CloseLogFile(t) ==
  /\ ~crashed
  /\ tpc[t] = "locked"
  /\ task[t] = "stop"
  /\ hLogFile' = IF hLogFile = "open" THEN "closed" ELSE hLogFile
  /\ tpc' = [tpc EXCEPT ![t] = "closing"]
  /\ UNCHANGED <<objectVars, slTraceEngine, msgBuf, iLogTraceLevel, iConsoleTraceLevel,
                 bLogTraceRunning, task, sev, crashed>>

\* The handle is kept, and the flag.
ForgetLogFile_Not == UNCHANGED <<hLogFile, bLogTraceRunning>>
ForgetLogFile == hLogFile' = "INVALID_HANDLE_VALUE" /\ bLogTraceRunning' = FALSE

EndStop(t) ==
  /\ ~crashed
  /\ tpc[t] = "closing"
  /\ ForgetLogFile
  /\ Leave(t)
  /\ SPINUNLOCK
  /\ UNCHANGED <<objectVars, msgBuf, iLogTraceLevel, iConsoleTraceLevel, task, sev, crashed>>

\* SetTraceLevel; every caller sets the level of the console to LOG_ALL.
SetTraceLevel(t, level) ==
  /\ ~crashed
  /\ tpc[t] = "out"
  /\ pTraceEngine # "NULL"
  /\ iLogTraceLevel' = level
  /\ iConsoleTraceLevel' = LOG_ALL
  /\ IF level = LOG_NONE THEN Spin(t, "stop") ELSE UNCHANGED <<tpc, task>>
  /\ UNCHANGED <<objectVars, slTraceEngine, msgBuf, bLogTraceRunning, hLogFile, sev, crashed>>

\* A method is called through the pointer of a destroyed engine.
CallWithoutEngine(t) ==
  /\ ~crashed
  /\ tpc[t] = "out"
  /\ pTraceEngine = "NULL"
  /\ crashed' = TRUE
  /\ UNCHANGED <<objectVars, slTraceEngine, msgBuf, logVars, callVars>>

-----------------------------------------------------------------------------
(* The life of the object. *)

\* The new object takes the lock over from before it: from the start of the
\* program, or from the destructor of the last one.
Initialize ==
  /\ ~crashed
  /\ pTraceEngine = "NULL"
  /\ tpc[Owner] = "out"
  /\ pTraceEngine' = "object"
  /\ buffers' = "allocated"
  /\ dtor' = "no"
  /\ iLogTraceLevel' = LOG_NONE
  /\ iConsoleTraceLevel' = LOG_NONE
  /\ bLogTraceRunning' = FALSE
  /\ hLogFile' = "undefined"
  /\ SPINUNLOCK
  /\ UNCHANGED <<msgBuf, callVars, crashed>>

\* The destructor: StopAllTracing, then the lock, then the memory.
BeginDestroy ==
  /\ ~crashed
  /\ tpc[Owner] = "out"
  /\ pTraceEngine = "object"
  /\ dtor = "no"
  /\ dtor' = "stop"
  /\ IF bLogTraceRunning THEN Spin(Owner, "stop") ELSE UNCHANGED <<tpc, task>>
  /\ UNCHANGED <<pTraceEngine, buffers, slTraceEngine, msgBuf, logVars, sev, crashed>>

LockToDestroy ==
  /\ ~crashed
  /\ dtor = "stop"
  /\ tpc[Owner] = "out"
  /\ dtor' = "lock"
  /\ Spin(Owner, "destroy")
  /\ UNCHANGED <<pTraceEngine, buffers, slTraceEngine, msgBuf, logVars, sev, crashed>>

\* The lock is given back at the end, as it is after every other use.
AfterDestroy_Unlocked == SPINUNLOCK
\* "Leave spinlock locked": whoever waits for it waits for ever.
AfterDestroy == UNCHANGED slTraceEngine

Destroy ==
  /\ ~crashed
  /\ tpc[Owner] = "locked"
  /\ task[Owner] = "destroy"
  /\ buffers' = "freed"
  /\ pTraceEngine' = "NULL"
  /\ dtor' = "done"
  /\ Leave(Owner)
  /\ AfterDestroy
  /\ UNCHANGED <<msgBuf, logVars, task, sev, crashed>>

InCall(t) ==
  \/ FilterEvent(t)
  \/ Acquire(t)
  \/ FormatEvent(t)
  \/ WriteEvent(t)
  \/ CloseLogFile(t)
  \/ EndStop(t)

Calls(t) ==
  \/ \E s \in Severities : BeginEvent(t, s)
  \/ \E level \in Levels : StartLogTrace(level) \/ SetTraceLevel(t, level)
  \/ StopLogTrace(t)
  \/ CallWithoutEngine(t)

TraceNext ==
  \/ Initialize \/ BeginDestroy \/ LockToDestroy \/ Destroy
  \/ \E t \in Threads : InCall(t) \/ Calls(t)

TraceSpec == TraceInit /\ [][TraceNext]_tvars

-----------------------------------------------------------------------------
(* Safety. *)

TraceTypeOK ==
  /\ pTraceEngine \in {"NULL", "object"}
  /\ buffers \in {"none", "allocated", "freed"}
  /\ slTraceEngine \in {0, 1}
  /\ msgBuf \in Threads \cup {NoThread}
  /\ iLogTraceLevel \in Int
  /\ iConsoleTraceLevel \in Int
  /\ bLogTraceRunning \in BOOLEAN
  /\ hLogFile \in {"undefined", "open", "closed", "INVALID_HANDLE_VALUE"}
  /\ tpc \in [Threads -> {"out", "checked", "spin", "locked", "formatted", "closing"}]
  /\ task \in [Threads -> {"event", "stop", "destroy"}]
  /\ sev \in [Threads -> Severities]
  /\ dtor \in {"no", "stop", "lock", "done"}
  /\ crashed \in BOOLEAN

InSection(t) == tpc[t] \in {"locked", "formatted", "closing"}

\* The lock is free exactly while the object exists and no thread is in the
\* locked section; one thread at most is.  The lock is not a member of the
\* object: it is taken from before the first Initialize until that returns, and
\* from the destructor on for good.
LockAccounting ==
  /\ slTraceEngine = 0 <=> pTraceEngine = "object" /\ \A t \in Threads : ~InSection(t)
  /\ \A t, u \in Threads : InSection(t) /\ InSection(u) => t = u

\* What a thread writes to the log is its own message: no other thread formats
\* into the one buffer between its formatting and its writing.
MessageIntact == \A t \in Threads : tpc[t] = "formatted" => msgBuf = t

\* A thread that waited for the lock while the engine was destroyed never gets
\* it: nobody formats into a buffer or writes to a file after they are gone.
BuffersAlive ==
  \A t \in Threads : InSection(t) => pTraceEngine = "object" /\ buffers = "allocated"

\* Nobody writes to a handle that was closed: StopLogTrace closes the file and
\* forgets the handle in one locked section.
NoWriteToClosedFile == \A t \in Threads : Writes(t) => hLogFile # "closed"

\* The parts of the engine that the above rest on.
EngineLife ==
  /\ pTraceEngine = "object" <=> buffers = "allocated"
  /\ dtor = "done" <=> buffers = "freed"
  /\ \A t \in Threads : tpc[t] = "formatted" => task[t] = "event"
  /\ \A t \in Threads : tpc[t] = "closing" => task[t] = "stop"
  /\ hLogFile = "closed" => \E t \in Threads : tpc[t] = "closing"

\* The inductive invariant of the proofs.
TraceInv ==
  /\ TraceTypeOK
  /\ EngineLife
  /\ LockAccounting
  /\ MessageIntact
  /\ BuffersAlive
  /\ NoWriteToClosedFile
=============================================================================
