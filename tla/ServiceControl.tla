---------------------------- MODULE ServiceControl ----------------------------
(***************************************************************************)
(* The Windows service (Service.cpp) around the main loop: wmain's service *)
(* mode (TrapHandler.cpp), the control handler, ServiceMainFn, the worker  *)
(* thread that runs HandlerMainFn, and the trace engine they all use.      *)
(*                                                                         *)
(* Three threads: dispatcher runs wmain, stays in Run while the service    *)
(* runs and executes SCMHandler there; serviceMain runs ServiceMainFn;     *)
(* worker runs the main loop, of which only the passes, the look at        *)
(* bDoShutdown, the traces and the change of the log level are kept (see   *)
(* TrapHandler for the rest).  dpc, spc and wpc say where each one is; a   *)
(* thread goes on only when it is out of the trace engine.                 *)
(***************************************************************************)
EXTENDS TraceEngine

CONSTANTS
  dispatcher, serviceMain, worker,
  MaxSuspendCount   \* SuspendThread fails at this count (MAXIMUM_SUSPEND_COUNT)

ASSUME ServiceControlAssumption ==
  /\ Threads = {dispatcher, serviceMain, worker}
  /\ Owner = dispatcher
  /\ worker \notin {dispatcher, serviceMain}
  /\ serviceMain # dispatcher
  /\ {LOG_DEBUG, LOG_NORMAL, LOG_WARNING} \subseteq Severities
  /\ {LOG_DEBUG, LOG_NORMAL} \subseteq Levels
  /\ MaxSuspendCount \in Nat \ {0}

VARIABLES
  dpc, spc, wpc,    \* where each thread is
  dwCurrState,      \* the state of the service, as the SCM was told
  bDoShutdown,
  hQuitEvent,       \* "none", "reset", "set" (a manual-reset event) or "closed"
  hThread,          \* the worker was created and the handle kept
  suspended,        \* the suspend count of the worker
  cfgLevel,         \* the log level UpdateConfig is at
  timedOut          \* history: STOP did not wait for the worker to the end

controlVars == <<dwCurrState, bDoShutdown, hQuitEvent, hThread, suspended>>
svars == <<dpc, spc, wpc, controlVars, cfgLevel, timedOut>>
vars == <<tvars, svars>>

Init ==
  /\ TraceInit
  /\ dpc = "init"
  /\ spc = "none"
  /\ wpc = "none"
  /\ dwCurrState = "STOPPED"
  /\ bDoShutdown = FALSE
  /\ hQuitEvent = "none"
  /\ hThread = FALSE
  /\ suspended = 0
  /\ cfgLevel = LOG_NORMAL
  /\ timedOut = FALSE

ProcessAlive == ~crashed /\ dpc # "exited"

\* The thread can take a step of its own: it is not in a call of the engine.
Free(t) == ProcessAlive /\ tpc[t] = "out"

Trace(t, s) == (pTraceEngine = "NULL" /\ UNCHANGED tvars) \/ BeginEvent(t, s)

Dispatcher(from, to) ==
  /\ Free(dispatcher)
  /\ dpc = from
  /\ dpc' = to
  /\ UNCHANGED <<spc, wpc>>
ServiceMain(from, to) ==
  /\ Free(serviceMain)
  /\ spc = from
  /\ spc' = to
  /\ UNCHANGED <<dpc, wpc>>
Worker(from, to) ==
  /\ Free(worker)
  /\ suspended = 0
  /\ wpc = from
  /\ wpc' = to
  /\ UNCHANGED <<dpc, spc>>

\* A thread that reads the configuration takes a step.
Configures(t, from, to) ==
  \/ t = dispatcher /\ Dispatcher(from, to)
  \/ t = worker /\ Worker(from, to)

TellSCM(state) == dwCurrState' = state

-----------------------------------------------------------------------------
(* UpdateConfig: the change of the log level, by the thread at from.        *)

\* The level that logging is started at, and when: for the levels above NORMAL
\* the present level is compared with the new one, not with LOG_NONE.
StartLevel(level) == IF level <= LOG_NORMAL THEN level ELSE LOG_DEBUG
StartsLog(level) ==
  iLogTraceLevel = (IF level <= LOG_NORMAL THEN LOG_NONE ELSE level)

ChangeLevel(t, from) ==
  \/ /\ Configures(t, from, "start")
     /\ cfgLevel' \in Levels
     /\ Trace(t, LOG_NORMAL)
  \/ /\ Configures(t, "start", "level")
     /\ IF cfgLevel = LOG_NONE THEN StopLogTrace(t)
        ELSE IF StartsLog(cfgLevel) THEN StartLogTrace(StartLevel(cfgLevel))
        ELSE UNCHANGED tvars
     /\ UNCHANGED cfgLevel
  \/ /\ Configures(t, "level", "configured")
     /\ SetTraceLevel(t, cfgLevel)
     /\ UNCHANGED cfgLevel

-----------------------------------------------------------------------------
(* The dispatcher before and after the service runs: wmain. *)

InitializeTrace ==
  /\ Dispatcher("init", "log")
  /\ Initialize
  /\ UNCHANGED <<controlVars, cfgLevel, timedOut>>

StartLog ==
  /\ Dispatcher("log", "config")
  /\ StartLogTrace(LOG_NORMAL)
  /\ UNCHANGED <<controlVars, cfgLevel, timedOut>>

\* InitializeConfig reads the configuration for the first time.
InitializeConfig ==
  /\ ChangeLevel(dispatcher, "config")
  /\ UNCHANGED <<controlVars, timedOut>>

\* InitializeConfig fails, before or after it changed the level.
ConfigFails ==
  /\ \E from \in {"config", "configured"} : Dispatcher(from, "destroy")
  /\ Trace(dispatcher, LOG_WARNING)
  /\ UNCHANGED <<controlVars, cfgLevel, timedOut>>

\* CreateEvent; Run hands the thread to StartServiceCtrlDispatcher.
RunService ==
  /\ Dispatcher("configured", "run")
  /\ hQuitEvent' = "reset"
  /\ UNCHANGED <<tvars, dwCurrState, bDoShutdown, hThread, suspended, cfgLevel, timedOut>>

\* It returns when the service is stopped; delete pS, then the handle is closed.
RunReturns ==
  /\ Dispatcher("run", "destroy")
  /\ spc # "none"
  /\ dwCurrState = "STOPPED"
  /\ hQuitEvent' = "closed"
  /\ UNCHANGED <<tvars, dwCurrState, bDoShutdown, hThread, suspended, cfgLevel, timedOut>>

DeleteTrace ==
  /\ \/ Dispatcher("destroy", "destroying") /\ BeginDestroy
     \/ Dispatcher("destroying", "locking") /\ LockToDestroy
  /\ UNCHANGED <<controlVars, cfgLevel, timedOut>>

EndDeleteTrace ==
  /\ dpc = "locking"
  /\ ProcessAlive
  /\ Destroy
  /\ dpc' = "cleanup"
  /\ UNCHANGED <<spc, wpc, controlVars, cfgLevel, timedOut>>

\* CleanupConfig; wmain returns, and the process ends with all its threads.
ExitProcess ==
  /\ Dispatcher("cleanup", "exited")
  /\ UNCHANGED <<tvars, controlVars, cfgLevel, timedOut>>

-----------------------------------------------------------------------------
(* The service manager starts the service: ServiceMainFn. *)

\* The control handler is registered, or it is not and nothing happens any more.
StartService ==
  /\ dpc = "run"
  /\ \/ ServiceMain("none", "starting") /\ TellSCM("START_PENDING")
     \/ ServiceMain("none", "done") /\ UNCHANGED dwCurrState
  /\ UNCHANGED <<tvars, bDoShutdown, hQuitEvent, hThread, suspended, cfgLevel, timedOut>>

\* ResetEvent and CreateThread.  If that fails, tid was never written: it may
\* be 0 or not.
CreateWorker ==
  /\ Free(serviceMain)
  /\ spc = "starting"
  /\ \/ wpc' = "top" /\ hThread' = TRUE /\ spc' = "created"
     \/ UNCHANGED <<wpc, hThread>> /\ spc' \in {"created", "done"}
  /\ hQuitEvent' = "reset"
  /\ UNCHANGED <<tvars, dpc, dwCurrState, bDoShutdown, suspended, cfgLevel, timedOut>>

TellRunning ==
  /\ ServiceMain("created", "running")
  /\ TellSCM("RUNNING")
  /\ UNCHANGED <<tvars, bDoShutdown, hQuitEvent, hThread, suspended, cfgLevel, timedOut>>

BeforeWait ==
  /\ ServiceMain("running", "waiting")
  /\ Trace(serviceMain, LOG_DEBUG)
  /\ UNCHANGED <<controlVars, cfgLevel, timedOut>>

\* The wait ends when the event is set; it fails when the handle is closed.
AfterWait ==
  /\ ServiceMain("waiting", "done")
  /\ hQuitEvent # "reset"
  /\ Trace(serviceMain, LOG_DEBUG)
  /\ UNCHANGED <<controlVars, cfgLevel, timedOut>>

-----------------------------------------------------------------------------
(* SCMHandler.  The SCM delivers a control to a running or paused service,  *)
(* one at a time.                                                           *)

Controllable == dwCurrState \in {"RUNNING", "PAUSED"}

Stop ==
  /\ Controllable
  /\ Dispatcher("run", "stopping")
  /\ TellSCM("STOP_PENDING")
  /\ bDoShutdown' = TRUE
  /\ UNCHANGED <<tvars, hQuitEvent, hThread, suspended, cfgLevel, timedOut>>

\* The worker is not waited for.
WaitForWorker_Not == Dispatcher("stopping", "signal") /\ UNCHANGED <<tvars, timedOut>>
\* After the 10 s the worker is terminated, wherever it is.
WaitForWorker_Terminate ==
  \/ wpc = "done" /\ Dispatcher("stopping", "signal") /\ UNCHANGED <<tvars, timedOut>>
  \/ /\ wpc # "done" /\ Free(dispatcher) /\ dpc = "stopping"
     /\ dpc' = "signal" /\ wpc' = "done" /\ timedOut' = TRUE
     /\ tpc' = [tpc EXCEPT ![worker] = "out"]
     /\ UNCHANGED <<objectVars, slTraceEngine, msgBuf, logVars, task, sev, crashed, spc>>
\* It is waited for as long as it takes.
WaitForWorker_Again ==
  \/ wpc = "done" /\ Dispatcher("stopping", "signal") /\ UNCHANGED <<tvars, timedOut>>
  \/ /\ wpc # "done" /\ Dispatcher("stopping", "stopping")
     /\ timedOut' = TRUE /\ Trace(dispatcher, LOG_WARNING)
\* The wait ends with the worker, or after 10 s.  It fails without a handle.
WaitForWorker ==
  \/ /\ wpc = "done" \/ ~hThread
     /\ Dispatcher("stopping", "signal")
     /\ UNCHANGED <<tvars, timedOut>>
  \/ /\ wpc # "done" /\ hThread
     /\ Dispatcher("stopping", "signal")
     /\ timedOut' = TRUE
     /\ Trace(dispatcher, LOG_WARNING)

StopWaits ==
  /\ WaitForWorker
  /\ UNCHANGED <<controlVars, cfgLevel>>

SignalQuit ==
  /\ Dispatcher("signal", "stopped")
  /\ hQuitEvent' = "set"
  /\ UNCHANGED <<tvars, dwCurrState, bDoShutdown, hThread, suspended, cfgLevel, timedOut>>

TellStopped ==
  /\ Dispatcher("stopped", "run")
  /\ TellSCM("STOPPED")
  /\ UNCHANGED <<tvars, bDoShutdown, hQuitEvent, hThread, suspended, cfgLevel, timedOut>>

\* The SCM is told before the thread is suspended.
PauseState_Early == "PAUSED"
PauseState == "PAUSE_PENDING"

Pause ==
  /\ Controllable
  /\ Dispatcher("run", "pausing")
  /\ TellSCM(PauseState)
  /\ UNCHANGED <<tvars, bDoShutdown, hQuitEvent, hThread, suspended, cfgLevel, timedOut>>

\* SuspendThread stops the worker wherever it is.
SuspendWorker ==
  /\ Dispatcher("pausing", "paused")
  /\ suspended' = IF hThread /\ suspended < MaxSuspendCount THEN suspended + 1 ELSE suspended
  /\ UNCHANGED <<tvars, dwCurrState, bDoShutdown, hQuitEvent, hThread, cfgLevel, timedOut>>

TellPaused ==
  /\ Dispatcher("paused", "run")
  /\ TellSCM("PAUSED")
  /\ UNCHANGED <<tvars, bDoShutdown, hQuitEvent, hThread, suspended, cfgLevel, timedOut>>

Continue ==
  /\ Controllable
  /\ Dispatcher("run", "resuming")
  /\ TellSCM("CONTINUE_PENDING")
  /\ UNCHANGED <<tvars, bDoShutdown, hQuitEvent, hThread, suspended, cfgLevel, timedOut>>

ResumeWorker ==
  /\ Dispatcher("resuming", "resumed")
  /\ suspended' = IF suspended > 0 THEN suspended - 1 ELSE 0
  /\ UNCHANGED <<tvars, dwCurrState, bDoShutdown, hQuitEvent, hThread, cfgLevel, timedOut>>

TellResumed ==
  /\ Dispatcher("resumed", "run")
  /\ TellSCM("RUNNING")
  /\ UNCHANGED <<tvars, bDoShutdown, hQuitEvent, hThread, suspended, cfgLevel, timedOut>>

-----------------------------------------------------------------------------
(* The worker: passes of the main loop until it sees bDoShutdown. *)

Quits == bDoShutdown

BeginPass ==
  /\ Worker("top", "pass")
  /\ ~Quits
  /\ UNCHANGED <<tvars, controlVars, cfgLevel, timedOut>>

\* The rest of a pass, with a trace or without one.
EndPass ==
  /\ \E from \in {"pass", "configured"} : Worker(from, "top")
  /\ UNCHANGED tvars \/ \E s \in Severities : Trace(worker, s)
  /\ UNCHANGED <<controlVars, cfgLevel, timedOut>>

\* UpdateConfig in a pass; pTrace is used whether the engine lives or not.
WorkerConfig ==
  /\ \/ ChangeLevel(worker, "pass")
     \/ /\ \E from \in {"start", "level"} : Worker(from, from)
        /\ CallWithoutEngine(worker)
        /\ UNCHANGED cfgLevel
  /\ UNCHANGED <<controlVars, timedOut>>

\* SetEvent has no effect once the handle is closed.
WorkerQuits ==
  /\ Worker("top", "quitting")
  /\ Quits
  /\ hQuitEvent' = IF hQuitEvent = "reset" THEN "set" ELSE hQuitEvent
  /\ UNCHANGED <<tvars, dwCurrState, bDoShutdown, hThread, suspended, cfgLevel, timedOut>>

\* The traces of the shutdown, and the end of the thread.
WorkerEnds ==
  /\ \/ Worker("quitting", "ending") /\ (\E s \in {LOG_DEBUG, LOG_WARNING} : Trace(worker, s))
     \/ Worker("ending", "done") /\ UNCHANGED tvars
  /\ UNCHANGED <<controlVars, cfgLevel, timedOut>>

-----------------------------------------------------------------------------
\* A thread goes on in the engine, unless it is suspended.
InEngine(t) ==
  /\ ProcessAlive
  /\ t = worker => suspended = 0
  /\ \/ FilterEvent(t) \/ Acquire(t) \/ FormatEvent(t) \/ WriteEvent(t)
     \/ CloseLogFile(t) \/ EndStop(t)
  /\ UNCHANGED svars

\* The worker was suspended while it held the lock of the engine.
StuckInPause == suspended > 0 /\ InSection(worker)

\* The process is gone; or the service came to nothing, and nobody ends it; or
\* the dispatcher, which alone could resume the worker, waits for its lock.
Terminated ==
  /\ \/ ~ProcessAlive
     \/ dpc = "run" /\ spc = "done" /\ wpc = "none" /\ ~Controllable
     \/ StuckInPause /\ tpc[dispatcher] = "spin"
  /\ UNCHANGED vars

DispatcherStep ==
  \/ InitializeTrace \/ StartLog \/ InitializeConfig \/ ConfigFails \/ RunService
  \/ RunReturns \/ DeleteTrace \/ EndDeleteTrace \/ ExitProcess
  \/ StopWaits \/ SignalQuit \/ TellStopped
  \/ SuspendWorker \/ TellPaused \/ ResumeWorker \/ TellResumed
  \/ InEngine(dispatcher)
ServiceMainStep ==
  StartService \/ CreateWorker \/ TellRunning \/ BeforeWait \/ AfterWait \/ InEngine(serviceMain)
WorkerStep ==
  BeginPass \/ EndPass \/ WorkerConfig \/ WorkerQuits \/ WorkerEnds \/ InEngine(worker)
Control == Stop \/ Pause \/ Continue

Next == DispatcherStep \/ ServiceMainStep \/ WorkerStep \/ Control \/ Terminated

Spec == Init /\ [][Next]_vars

-----------------------------------------------------------------------------
(* Safety. *)

ServiceTypeOK ==
  /\ TraceTypeOK
  /\ dpc \in {"init", "log", "config", "start", "level", "configured", "run", "stopping",
              "signal", "stopped", "pausing", "paused", "resuming", "resumed", "destroy",
              "destroying", "locking", "cleanup", "exited"}
  /\ spc \in {"none", "starting", "created", "running", "waiting", "done"}
  /\ wpc \in {"none", "top", "pass", "start", "level", "configured", "quitting", "ending",
              "done"}
  /\ dwCurrState \in {"STOPPED", "START_PENDING", "RUNNING", "STOP_PENDING",
                      "PAUSE_PENDING", "PAUSED", "CONTINUE_PENDING"}
  /\ bDoShutdown \in BOOLEAN
  /\ hQuitEvent \in {"none", "reset", "set", "closed"}
  /\ hThread \in BOOLEAN
  /\ suspended \in 0 .. MaxSuspendCount
  /\ cfgLevel \in Levels
  /\ timedOut \in BOOLEAN

WorkerRuns == wpc \notin {"none", "done"}

\* wmain before Run and after it.
Starting == {"init", "log", "config", "start", "level", "configured"}
Ending == {"destroy", "destroying", "locking", "cleanup", "exited"}

\* When wmain begins to take the process apart, the worker has ended, unless it
\* did not end within the 10 s that the control handler gave it.
OrderlyStop ==
  dpc \in Ending /\ ~timedOut => ~WorkerRuns

\* While the SCM is told that the service is paused the worker does nothing,
\* however many times it was paused and continued before.
PausedIsQuiet ==
  [][dwCurrState = "PAUSED" =>
       wpc' = wpc /\ tpc'[worker] = tpc[worker]]_vars

\* How the three threads depend on each other: no control is handled before the
\* service runs; STOP is over only after the worker or the time is; there is no
\* worker without a handle.
ServiceLife ==
  /\ dpc \in Starting => spc = "none"
  /\ spc = "none" => dwCurrState = "STOPPED"
  /\ spc \in {"none", "starting"} => wpc = "none"
  /\ spc \in {"starting", "created"} => dpc = "run" /\ dwCurrState = "START_PENDING"
  /\ dpc \in {"signal", "stopped"} /\ ~timedOut => ~WorkerRuns
  /\ dpc = "run" /\ dwCurrState = "STOPPED" /\ ~timedOut => ~WorkerRuns
  /\ ~hThread => wpc = "none" /\ tpc[worker] = "out"

\* A paused worker is suspended; the SCM hears of it in time.
PauseLife ==
  /\ dpc \in {"pausing", "paused"} => dwCurrState = "PAUSE_PENDING"
  /\ dpc \in {"resuming", "resumed"} => dwCurrState = "CONTINUE_PENDING"
  /\ dwCurrState = "PAUSED" \/ dpc = "paused" => suspended > 0 \/ ~hThread

\* The inductive invariant of the proofs.
ServiceInv ==
  /\ ServiceTypeOK
  /\ ServiceLife
  /\ PauseLife
  /\ OrderlyStop

\* Every use the threads make of the trace engine is one that its own module
\* allows, so that its invariants hold in the service.
ImplementsTraceEngine == TraceSpec

-----------------------------------------------------------------------------
(* Liveness.  Every thread is scheduled unless it is suspended, a wait with  *)
(* a time limit ends, and the SCM starts the service.                        *)

Fairness ==
  /\ WF_vars(DispatcherStep)
  /\ WF_vars(ServiceMainStep)
  /\ WF_vars(WorkerStep)

FairSpec == Spec /\ Fairness

\* A stop that was requested ends the process, paused or not, with one
\* exception: the worker was suspended while it held the lock of the engine.
StopEndsProcess == bDoShutdown ~> ~ProcessAlive \/ StuckInPause
=============================================================================
