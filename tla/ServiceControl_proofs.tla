------------------------- MODULE ServiceControl_proofs -------------------------
(***************************************************************************)
(* Theorems about TraceEngine, for every set of threads, and about         *)
(* ServiceControl, for any severities and trace levels and any bound on    *)
(* the suspend count.                                                      *)
(*                                                                         *)
(* The inductive invariant of the engine is TraceInv.  Its heart is        *)
(* LockAccounting, an equivalence: that the lock is free only while the    *)
(* object exists and nobody is inside is what makes it safe to take; that  *)
(* it is taken otherwise is what keeps the waiting threads out after the   *)
(* destructor.  Every step of the service is a step of the engine or       *)
(* leaves it alone, so the invariants of the engine hold in the service.   *)
(***************************************************************************)
EXTENDS ServiceControl, TLAPS

-----------------------------------------------------------------------------
(* The trace engine. *)

USE TraceEngineAssumption DEF TraceEngineAssumption

\* The initial state satisfies the invariant.
LEMMA InitTraceInv == TraceInit => TraceInv
<1> SUFFICES ASSUME TraceInit PROVE TraceInv
  OBVIOUS
<1>1. FALSE \in BOOLEAN /\ LOG_NONE \in Int
  BY DEF LOG_NONE
<1>2. TraceTypeOK
  BY <1>1 DEF TraceInit, TraceTypeOK
<1>3. \A t \in Threads : tpc[t] = "out"
  BY DEF TraceInit
<1>4. EngineLife /\ LockAccounting /\ MessageIntact
  BY <1>3 DEF TraceInit, EngineLife, LockAccounting, MessageIntact, InSection
<1>5. BuffersAlive /\ NoWriteToClosedFile
  BY <1>3 DEF TraceInit, BuffersAlive, NoWriteToClosedFile, Writes, InSection
<1>6. QED
  BY <1>2, <1>4, <1>5 DEF TraceInv

\* SendEvent: the steps of one thread.
LEMMA EventInv ==
  ASSUME TraceInv, NEW t \in Threads,
         \/ \E s \in Severities : BeginEvent(t, s)
         \/ FilterEvent(t) \/ Acquire(t) \/ FormatEvent(t) \/ WriteEvent(t)
  PROVE  TraceInv'
<1> USE DEF TraceInv
<1>1. ASSUME NEW s \in Severities, BeginEvent(t, s)  PROVE TraceInv'
  BY <1>1 DEF BeginEvent, TraceTypeOK, EngineLife, LockAccounting, MessageIntact,
              BuffersAlive, NoWriteToClosedFile, Writes, InSection, objectVars, logVars
<1>2. CASE FilterEvent(t)
  <2>1. CASE pTraceEngine = "NULL"
    BY <1>2, <2>1 DEF FilterEvent, TraceTypeOK, EngineLife, LockAccounting, MessageIntact,
              BuffersAlive, NoWriteToClosedFile, Writes, InSection, objectVars, logVars, callVars
  <2>2. CASE pTraceEngine # "NULL"
    <3>1. /\ tpc[t] = "checked"
          /\ tpc' = [tpc EXCEPT ![t] = "out"] \/ tpc' = [tpc EXCEPT ![t] = "spin"]
          /\ task' = task \/ task' = [task EXCEPT ![t] = "event"]
          /\ UNCHANGED <<objectVars, slTraceEngine, msgBuf, logVars, sev, crashed>>
      BY <1>2, <2>2 DEF FilterEvent, Leave, Spin
    <3>2. QED
      BY <3>1 DEF TraceTypeOK, EngineLife, LockAccounting, MessageIntact,
              BuffersAlive, NoWriteToClosedFile, Writes, InSection, objectVars, logVars
  <2>3. QED
    BY <2>1, <2>2
<1>3. CASE Acquire(t)
  BY <1>3 DEF Acquire, SPINLOCK, TraceTypeOK, EngineLife, LockAccounting, MessageIntact,
              BuffersAlive, NoWriteToClosedFile, Writes, InSection, objectVars, logVars
<1>4. CASE FormatEvent(t)
  BY <1>4 DEF FormatEvent, TraceTypeOK, EngineLife, LockAccounting, MessageIntact,
              BuffersAlive, NoWriteToClosedFile, Writes, InSection, objectVars, logVars
<1>5. CASE WriteEvent(t)
  BY <1>5 DEF WriteEvent, SPINUNLOCK, Leave, TraceTypeOK, EngineLife, LockAccounting,
              MessageIntact, BuffersAlive, NoWriteToClosedFile, Writes, InSection,
              objectVars, logVars
<1>6. QED
  BY <1>1, <1>2, <1>3, <1>4, <1>5

\* The log file: starting and stopping to write it, and the levels.
LEMMA LogInv ==
  ASSUME TraceInv, NEW t \in Threads,
         \/ \E level \in Levels : StartLogTrace(level) \/ SetTraceLevel(t, level)
         \/ StopLogTrace(t) \/ CloseLogFile(t) \/ EndStop(t) \/ CallWithoutEngine(t)
  PROVE  TraceInv'
<1> USE DEF TraceInv
<1>1. ASSUME NEW level \in Levels, StartLogTrace(level)  PROVE TraceInv'
  <2>1. /\ UNCHANGED <<objectVars, slTraceEngine, msgBuf, callVars, crashed>>
        /\ \/ UNCHANGED logVars
           \/ /\ ~bLogTraceRunning
              /\ iLogTraceLevel' = level
              /\ UNCHANGED iConsoleTraceLevel
              /\ hLogFile' \in {"open", "INVALID_HANDLE_VALUE"}
              /\ bLogTraceRunning' \in BOOLEAN
    BY <1>1 DEF StartLogTrace, TraceTypeOK
  <2>2. QED
    BY <2>1 DEF TraceTypeOK, EngineLife, LockAccounting, MessageIntact, BuffersAlive,
                NoWriteToClosedFile, Writes, InSection, objectVars, logVars, callVars
<1>2. ASSUME NEW level \in Levels, SetTraceLevel(t, level)  PROVE TraceInv'
  <2>1. /\ tpc[t] = "out"
        /\ tpc' = tpc \/ tpc' = [tpc EXCEPT ![t] = "spin"]
        /\ task' = task \/ task' = [task EXCEPT ![t] = "stop"]
        /\ iLogTraceLevel' = level
        /\ iConsoleTraceLevel' = -1
        /\ UNCHANGED <<objectVars, slTraceEngine, msgBuf, bLogTraceRunning, hLogFile, sev, crashed>>
    BY <1>2 DEF SetTraceLevel, Spin, LOG_ALL
  <2>2. TraceTypeOK'
    BY <2>1 DEF TraceTypeOK, objectVars
  <2>3. \A u \in Threads : tpc'[u] \notin {"out", "spin"} => tpc'[u] = tpc[u] /\ u # t /\ task'[u] = task[u]
    BY <2>1 DEF TraceTypeOK
  <2>4. \A u \in Threads : InSection(u)' <=> InSection(u)
    BY <2>1 DEF InSection, TraceTypeOK
  <2>5. EngineLife'
    BY <2>1, <2>3 DEF EngineLife, TraceTypeOK, objectVars
  <2>6. LockAccounting' /\ BuffersAlive'
    BY <2>1, <2>4 DEF LockAccounting, BuffersAlive, objectVars
  <2>7. MessageIntact'
    BY <2>1, <2>3 DEF MessageIntact
  <2>8. NoWriteToClosedFile'
    <3>1. ASSUME NEW u \in Threads, Writes(u)', hLogFile' = "closed"  PROVE FALSE
      <4>1. InSection(u)
        BY <3>1, <2>3 DEF Writes, InSection
      <4>2. PICK v \in Threads : tpc[v] = "closing"
        BY <3>1, <2>1 DEF EngineLife
      <4>3. tpc[u] = "formatted"
        BY <3>1, <2>3 DEF Writes
      <4>4. QED
        BY <4>1, <4>2, <4>3 DEF LockAccounting, InSection
    <3>2. QED
      BY <3>1 DEF NoWriteToClosedFile
  <2>9. QED
    BY <2>2, <2>5, <2>6, <2>7, <2>8
<1>3. CASE StopLogTrace(t)
  BY <1>3 DEF StopLogTrace, Spin, TraceTypeOK, EngineLife, LockAccounting,
              MessageIntact, BuffersAlive, NoWriteToClosedFile, Writes, InSection,
              objectVars, logVars
<1>4. CASE CloseLogFile(t)
  <2>1. /\ InSection(t)
        /\ \A u \in Threads : tpc[u] # "formatted"
    BY <1>4 DEF CloseLogFile, InSection, LockAccounting
  <2>2. TraceTypeOK' /\ EngineLife'
    BY <1>4, <2>1 DEF CloseLogFile, TraceTypeOK, EngineLife, objectVars
  <2>3. LockAccounting' /\ BuffersAlive'
    BY <1>4, <2>1 DEF CloseLogFile, TraceTypeOK, LockAccounting, BuffersAlive, InSection,
                      objectVars
  <2>4. MessageIntact' /\ NoWriteToClosedFile'
    BY <1>4, <2>1 DEF CloseLogFile, TraceTypeOK, MessageIntact, NoWriteToClosedFile, Writes
  <2>5. QED
    BY <2>2, <2>3, <2>4
<1>5. CASE EndStop(t)
  <2>1. InSection(t) /\ slTraceEngine = 1
    BY <1>5 DEF EndStop, InSection, LockAccounting, TraceTypeOK
  <2>2. TraceTypeOK'
    <3>1. slTraceEngine' = 0
      BY <1>5, <2>1 DEF EndStop, SPINUNLOCK
    <3>2. bLogTraceRunning' \in BOOLEAN
      BY <1>5, ZenonT(20) DEF EndStop, ForgetLogFile
    <3>3. QED
      BY <1>5, <3>1, <3>2 DEF EndStop, ForgetLogFile, Leave, TraceTypeOK, objectVars
  <2>3. EngineLife' /\ NoWriteToClosedFile'
    BY <1>5 DEF EndStop, ForgetLogFile, Leave, TraceTypeOK, EngineLife, NoWriteToClosedFile, Writes, objectVars
  <2>4. LockAccounting' /\ BuffersAlive' /\ MessageIntact'
    BY <1>5, <2>1 DEF EndStop, ForgetLogFile, SPINUNLOCK, Leave, TraceTypeOK, LockAccounting, BuffersAlive,
                      MessageIntact, InSection, objectVars
  <2>5. QED
    BY <2>2, <2>3, <2>4
<1>6. CASE CallWithoutEngine(t)
  <2>1. TRUE \in BOOLEAN
    OBVIOUS
  <2>2. TraceTypeOK'
    BY <1>6, <2>1 DEF CallWithoutEngine, TraceTypeOK, objectVars, logVars, callVars
  <2>3. QED
    BY <1>6, <2>2 DEF CallWithoutEngine, EngineLife, LockAccounting, MessageIntact,
              BuffersAlive, NoWriteToClosedFile, Writes, InSection, objectVars, logVars, callVars
<1>7. QED
  BY <1>1, <1>2, <1>3, <1>4, <1>5, <1>6

\* The life of the object: Initialize and the destructor.
LEMMA ObjectInv ==
  ASSUME TraceInv, Initialize \/ BeginDestroy \/ LockToDestroy \/ Destroy
  PROVE  TraceInv'
<1> USE DEF TraceInv
<1>1. CASE Initialize
  <2>1. \A t \in Threads : ~InSection(t)
    BY <1>1 DEF Initialize, BuffersAlive
  <2>2. slTraceEngine = 1
    BY <1>1 DEF Initialize, LockAccounting, TraceTypeOK
  <2>3. TraceTypeOK'
    <3>1. slTraceEngine' = 0
      BY <1>1, <2>2 DEF Initialize, SPINUNLOCK
    <3>2. FALSE \in BOOLEAN /\ LOG_NONE \in Int
      BY DEF LOG_NONE
    <3>3. QED
      BY <1>1, <3>1, <3>2 DEF Initialize, TraceTypeOK, callVars
  <2>4. EngineLife' /\ MessageIntact' /\ NoWriteToClosedFile'
    BY <1>1, <2>1 DEF Initialize, EngineLife, MessageIntact, NoWriteToClosedFile, Writes,
                      InSection, callVars
  <2>5. LockAccounting' /\ BuffersAlive'
    BY <1>1, <2>1, <2>2 DEF Initialize, SPINUNLOCK, LockAccounting, BuffersAlive, InSection,
                            callVars
  <2>6. QED
    BY <2>3, <2>4, <2>5
<1>2. CASE BeginDestroy
  <2>1. /\ tpc[Owner] = "out"
        /\ tpc' = tpc \/ tpc' = [tpc EXCEPT ![Owner] = "spin"]
        /\ task' = task \/ task' = [task EXCEPT ![Owner] = "stop"]
        /\ dtor = "no" /\ dtor' = "stop"
        /\ UNCHANGED <<pTraceEngine, buffers, slTraceEngine, msgBuf, logVars, sev, crashed>>
    BY <1>2 DEF BeginDestroy, Spin
  <2>2. QED
    BY <2>1 DEF TraceTypeOK, EngineLife, LockAccounting, MessageIntact,
              BuffersAlive, NoWriteToClosedFile, Writes, InSection, logVars
<1>3. CASE LockToDestroy
  BY <1>3 DEF LockToDestroy, Spin, TraceTypeOK, EngineLife, LockAccounting, MessageIntact,
              BuffersAlive, NoWriteToClosedFile, Writes, InSection, logVars
<1>4. CASE Destroy
  BY <1>4 DEF Destroy, AfterDestroy, Leave, TraceTypeOK, EngineLife, LockAccounting,
              MessageIntact, BuffersAlive, NoWriteToClosedFile, Writes, InSection, logVars
<1>5. QED
  BY <1>1, <1>2, <1>3, <1>4

\* Every step preserves the invariant.
LEMMA NextTraceInv == TraceInv /\ [TraceNext]_tvars => TraceInv'
<1> SUFFICES ASSUME TraceInv, [TraceNext]_tvars PROVE TraceInv'
  OBVIOUS
<1>1. CASE Initialize \/ BeginDestroy \/ LockToDestroy \/ Destroy
  BY <1>1, ObjectInv
<1>2. ASSUME NEW t \in Threads, InCall(t) \/ Calls(t)  PROVE TraceInv'
  BY <1>2, EventInv, LogInv DEF InCall, Calls
<1>3. CASE UNCHANGED tvars
  BY <1>3 DEF tvars, objectVars, logVars, callVars, TraceInv, TraceTypeOK, EngineLife,
              LockAccounting, MessageIntact, BuffersAlive, NoWriteToClosedFile, Writes,
              InSection
<1>4. QED
  BY <1>1, <1>2, <1>3 DEF TraceNext

\* The invariant of the trace engine.
THEOREM TraceInvariant == TraceSpec => []TraceInv
BY InitTraceInv, NextTraceInv, PTL DEF TraceSpec
\* The spin lock excludes, and is free only while the object lives.
THEOREM LockAccountingHolds == TraceSpec => []LockAccounting
<1>1. TraceInv => LockAccounting
  BY DEF TraceInv
<1>2. QED
  BY <1>1, TraceInvariant, PTL

\* The one buffer of SendEvent holds the message of the thread that writes it.
THEOREM MessageIntactHolds == TraceSpec => []MessageIntact
<1>1. TraceInv => MessageIntact
  BY DEF TraceInv
<1>2. QED
  BY <1>1, TraceInvariant, PTL

\* No thread is in the locked section before the buffers are allocated, or after
\* the destructor has freed them, wherever it was when the destructor ran.
THEOREM BuffersAliveHolds == TraceSpec => []BuffersAlive
<1>1. TraceInv => BuffersAlive
  BY DEF TraceInv
<1>2. QED
  BY <1>1, TraceInvariant, PTL

\* The log file is closed and its handle forgotten before anyone can write.
THEOREM NoWriteToClosedFileHolds == TraceSpec => []NoWriteToClosedFile
<1>1. TraceInv => NoWriteToClosedFile
  BY DEF TraceInv
<1>2. QED
  BY <1>1, TraceInvariant, PTL

-----------------------------------------------------------------------------
(* The service. *)

USE ServiceControlAssumption DEF ServiceControlAssumption

\* The steps of the threads that use the engine, from the outside.
LEMMA TraceStep ==
  ASSUME NEW t \in Threads, NEW s \in Severities, Trace(t, s)
  PROVE  TraceNext \/ UNCHANGED tvars
BY DEF Trace, TraceNext, Calls

\* UpdateConfig uses the engine as any thread may.
LEMMA ConfigStep ==
  ASSUME ServiceTypeOK,
         NEW t \in Threads,
         \/ Trace(t, LOG_NORMAL)
         \/ StopLogTrace(t)
         \/ StartLogTrace(StartLevel(cfgLevel))
         \/ SetTraceLevel(t, cfgLevel)
         \/ CallWithoutEngine(t)
         \/ UNCHANGED tvars
  PROVE  TraceNext \/ UNCHANGED tvars
<1>1. cfgLevel \in Levels
  BY DEF ServiceTypeOK
<1>2. CASE Trace(t, LOG_NORMAL)
  BY <1>2, TraceStep
<1>3. CASE StopLogTrace(t) \/ CallWithoutEngine(t)
  BY <1>3 DEF TraceNext, Calls
<1>4. CASE StartLogTrace(StartLevel(cfgLevel))
  BY <1>1, <1>4 DEF StartLevel, TraceNext, Calls
<1>5. CASE SetTraceLevel(t, cfgLevel)
  BY <1>1, <1>5 DEF TraceNext, Calls
<1>6. QED
  BY <1>2, <1>3, <1>4, <1>5

\* Every step of the service is a step of the trace engine or leaves it alone.
LEMMA StepOfTraceEngine ==
  ASSUME ServiceTypeOK, [Next]_vars
  PROVE  TraceNext \/ UNCHANGED tvars
<1>1. CASE InitializeTrace \/ StartLog \/ DeleteTrace \/ EndDeleteTrace
  BY <1>1 DEF InitializeTrace, StartLog, DeleteTrace, EndDeleteTrace, TraceNext, Calls
<1>2. CASE InitializeConfig
  BY <1>2, ConfigStep DEF InitializeConfig, ChangeLevel, Configures
<1>3. CASE ConfigFails \/ StopWaits
  BY <1>3, TraceStep DEF ConfigFails, StopWaits, WaitForWorker
<1>4. CASE RunService \/ RunReturns \/ ExitProcess \/ SignalQuit \/ TellStopped
           \/ SuspendWorker \/ TellPaused \/ ResumeWorker \/ TellResumed \/ Control
           \/ Terminated \/ UNCHANGED vars
  BY <1>4 DEF RunService, RunReturns, ExitProcess, SignalQuit, TellStopped, SuspendWorker,
              TellPaused, ResumeWorker, TellResumed, Control, Stop, Pause, Continue,
              Terminated, vars
<1>5. CASE StartService \/ CreateWorker \/ TellRunning
  BY <1>5 DEF StartService, CreateWorker, TellRunning
<1>6. CASE BeforeWait \/ AfterWait
  BY <1>6, TraceStep DEF BeforeWait, AfterWait
<1>7. CASE BeginPass \/ WorkerQuits
  BY <1>7 DEF BeginPass, WorkerQuits
<1>8. CASE EndPass \/ WorkerEnds
  BY <1>8, TraceStep DEF EndPass, WorkerEnds
<1>9. CASE WorkerConfig
  BY <1>9, ConfigStep DEF WorkerConfig, ChangeLevel, Configures
<1>10. ASSUME NEW t \in Threads, InEngine(t)  PROVE TraceNext
  BY <1>10 DEF InEngine, TraceNext, InCall
<1>11. QED
  BY <1>1, <1>2, <1>3, <1>4, <1>5, <1>6, <1>7, <1>8, <1>9, <1>10
     DEF Next, DispatcherStep, ServiceMainStep, WorkerStep

-----------------------------------------------------------------------------
(* The invariant of the service. *)

\* The calls of another thread leave the worker where it is in the engine.
LEMMA OtherThread ==
  ASSUME TraceTypeOK, NEW t \in Threads, t # worker,
         \/ \E s \in Severities : Trace(t, s)
         \/ StopLogTrace(t)
         \/ \E level \in Int : StartLogTrace(level) \/ SetTraceLevel(t, level)
         \/ InCall(t)
         \/ Initialize
         \/ t = Owner /\ (BeginDestroy \/ LockToDestroy \/ Destroy)
         \/ UNCHANGED tvars
  PROVE  tpc'[worker] = tpc[worker]
<1> USE DEF TraceTypeOK
<1>1. CASE \E s \in Severities : Trace(t, s)
  BY <1>1 DEF Trace, BeginEvent, tvars, callVars
<1>2. CASE StopLogTrace(t) \/ \E level \in Int : StartLogTrace(level) \/ SetTraceLevel(t, level)
  BY <1>2 DEF StopLogTrace, StartLogTrace, SetTraceLevel, Spin, callVars
<1>3. CASE InCall(t)
  BY <1>3 DEF InCall, FilterEvent, Acquire, FormatEvent, WriteEvent, CloseLogFile, EndStop,
              Leave, Spin, callVars
<1>4. CASE Initialize \/ (t = Owner /\ (BeginDestroy \/ LockToDestroy \/ Destroy))
  BY <1>4 DEF Initialize, BeginDestroy, LockToDestroy, Destroy, Leave, Spin, callVars
<1>5. CASE UNCHANGED tvars
  BY <1>5 DEF tvars, callVars
<1>6. QED
  BY <1>1, <1>2, <1>3, <1>4, <1>5

\* No step of the dispatcher or of ServiceMainFn moves the worker in the engine.
LEMMA WorkerLeftAlone ==
  ASSUME ServiceTypeOK,
         DispatcherStep \/ ServiceMainStep \/ Control
  PROVE  tpc'[worker] = tpc[worker]
<1>1. TraceTypeOK /\ cfgLevel \in Levels
  BY DEF ServiceTypeOK
<1>2. CASE InitializeTrace \/ StartLog
  BY <1>2 DEF InitializeTrace, Initialize, StartLog, StartLogTrace, callVars
<1>3. CASE InitializeConfig
  <2>1. StartLevel(cfgLevel) \in Int /\ cfgLevel \in Int
    BY <1>1, TraceEngineAssumption DEF TraceEngineAssumption, StartLevel
  <2>2. QED
    BY <1>1, <1>3, <2>1, OtherThread DEF InitializeConfig, ChangeLevel, Configures
<1>4. CASE ConfigFails \/ StopWaits \/ BeforeWait \/ AfterWait
  BY <1>1, <1>4, OtherThread DEF ConfigFails, StopWaits, WaitForWorker, BeforeWait, AfterWait
<1>5. CASE DeleteTrace \/ EndDeleteTrace
  BY <1>1, <1>5, OtherThread DEF DeleteTrace, EndDeleteTrace
<1>6. CASE RunService \/ RunReturns \/ ExitProcess \/ SignalQuit \/ TellStopped
  BY <1>6 DEF RunService, RunReturns, ExitProcess, SignalQuit, TellStopped, tvars, callVars
<1>7. CASE SuspendWorker \/ TellPaused \/ ResumeWorker \/ TellResumed \/ Control
  BY <1>7 DEF SuspendWorker, TellPaused, ResumeWorker, TellResumed, Control, Stop, Pause,
              Continue, tvars, callVars
<1>8. CASE StartService \/ CreateWorker \/ TellRunning
  BY <1>8 DEF StartService, CreateWorker, TellRunning, tvars, callVars
<1>9. ASSUME NEW t \in {dispatcher, serviceMain}, InEngine(t)  PROVE tpc'[worker] = tpc[worker]
  <2>1. InCall(t) /\ t \in Threads /\ t # worker
    BY <1>9 DEF InEngine, InCall
  <2>2. QED
    BY <1>1, <2>1, OtherThread
<1>10. QED
  BY <1>2, <1>3, <1>4, <1>5, <1>6, <1>7, <1>8, <1>9 DEF DispatcherStep, ServiceMainStep

\* The initial state satisfies the invariant.
LEMMA InitServiceInv == Init => ServiceInv
<1> SUFFICES ASSUME Init PROVE ServiceInv
  OBVIOUS
<1>1. TraceTypeOK
  BY InitTraceInv DEF Init, TraceInv
<1>2. FALSE \in BOOLEAN /\ 0 \in 0 .. MaxSuspendCount
  OBVIOUS
<1>3. ServiceTypeOK
  BY <1>1, <1>2 DEF Init, ServiceTypeOK
<1>4. ServiceLife /\ PauseLife /\ OrderlyStop
  BY DEF Init, TraceInit, ServiceLife, PauseLife, OrderlyStop, WorkerRuns, Starting, Ending
<1>5. QED
  BY <1>3, <1>4 DEF ServiceInv

\* wmain before and after Run.
LEMMA WmainInv ==
  ASSUME ServiceInv, TraceTypeOK',
         \/ InitializeTrace \/ StartLog \/ InitializeConfig \/ ConfigFails \/ RunService
         \/ RunReturns \/ DeleteTrace \/ EndDeleteTrace \/ ExitProcess
  PROVE  ServiceInv'
<1> USE DEF ServiceInv
<1>1. TraceTypeOK /\ cfgLevel \in Levels
  BY DEF ServiceTypeOK
<1>2. tpc'[worker] = tpc[worker]
  BY WorkerLeftAlone DEF DispatcherStep
<1>3. /\ UNCHANGED <<spc, wpc, dwCurrState, bDoShutdown, hThread, suspended, timedOut>>
      /\ hQuitEvent' \in {hQuitEvent, "reset", "closed"}
      /\ cfgLevel' \in Levels
      /\ \/ dpc \in Starting /\ dpc' \in Starting \cup {"run", "destroy"}
         \/ dpc = "run" /\ dpc' = "destroy" /\ spc # "none" /\ dwCurrState = "STOPPED"
         \/ dpc \in Ending /\ dpc' \in Ending
  <2>1. CASE InitializeTrace \/ StartLog \/ ConfigFails \/ RunService
    BY <1>1, <2>1 DEF InitializeTrace, StartLog, ConfigFails, RunService, Dispatcher,
                      controlVars, Starting
  <2>2. CASE InitializeConfig
    BY <1>1, <2>2 DEF InitializeConfig, ChangeLevel, Configures, Dispatcher, controlVars, Starting
  <2>3. CASE RunReturns \/ DeleteTrace \/ EndDeleteTrace \/ ExitProcess
    BY <1>1, <2>3 DEF RunReturns, DeleteTrace, EndDeleteTrace, ExitProcess, Dispatcher,
                      controlVars, Ending
  <2>4. QED
    BY <2>1, <2>2, <2>3
<1>4. ServiceTypeOK'
  BY <1>3 DEF ServiceTypeOK, Starting, Ending
<1>5. ServiceLife' /\ PauseLife' /\ OrderlyStop'
  BY <1>2, <1>3 DEF ServiceTypeOK, ServiceLife, PauseLife, OrderlyStop, WorkerRuns,
                    Starting, Ending
<1>6. QED
  BY <1>4, <1>5

\* ServiceMainFn; it creates the worker before any control can be handled.
LEMMA ServiceMainInv ==
  ASSUME ServiceInv, TraceTypeOK',
         StartService \/ CreateWorker \/ TellRunning \/ BeforeWait \/ AfterWait
  PROVE  ServiceInv'
<1> USE DEF ServiceInv
<1>1. tpc'[worker] = tpc[worker]
  BY WorkerLeftAlone DEF ServiceMainStep
<1>2. CASE StartService
  BY <1>1, <1>2 DEF StartService, ServiceMain, TellSCM, ServiceTypeOK, ServiceLife, PauseLife,
                    OrderlyStop, WorkerRuns, Starting, Ending
<1>3. CASE CreateWorker
  <2>1. hThread' \in BOOLEAN
    BY <1>3, Zenon DEF CreateWorker, ServiceTypeOK
  <2>2. ServiceTypeOK'
    BY <1>3, <2>1 DEF CreateWorker, ServiceTypeOK
  <2>3. ServiceLife' /\ PauseLife' /\ OrderlyStop'
    BY <1>1, <1>3 DEF CreateWorker, ServiceLife, PauseLife, OrderlyStop, WorkerRuns,
                      Starting, Ending
  <2>4. QED
    BY <2>2, <2>3
<1>4. CASE TellRunning
  BY <1>1, <1>4 DEF TellRunning, ServiceMain, TellSCM, ServiceTypeOK, ServiceLife, PauseLife,
                    OrderlyStop, WorkerRuns, Starting, Ending
<1>5. CASE BeforeWait \/ AfterWait
  BY <1>1, <1>5 DEF BeforeWait, AfterWait, ServiceMain, controlVars, ServiceTypeOK,
                    ServiceLife, PauseLife, OrderlyStop, WorkerRuns, Starting, Ending
<1>6. QED
  BY <1>2, <1>3, <1>4, <1>5

\* SCMHandler, the stop control.
LEMMA StopInv ==
  ASSUME ServiceInv, TraceTypeOK', Stop \/ StopWaits \/ SignalQuit \/ TellStopped
  PROVE  ServiceInv'
<1> USE DEF ServiceInv
<1>1. tpc'[worker] = tpc[worker]
  BY WorkerLeftAlone DEF DispatcherStep, Control
<1>2. TRUE \in BOOLEAN
  OBVIOUS
<1>3. CASE Stop
  <2>1. ServiceTypeOK'
    BY <1>2, <1>3 DEF Stop, Dispatcher, TellSCM, ServiceTypeOK
  <2>2. ServiceLife' /\ PauseLife' /\ OrderlyStop'
    BY <1>1, <1>3 DEF Stop, Controllable, Dispatcher, TellSCM, ServiceLife, PauseLife,
                      OrderlyStop, WorkerRuns, Starting, Ending
  <2>3. QED
    BY <2>1, <2>2
<1>4. CASE StopWaits
  <2>1. ServiceTypeOK'
    <3>1. timedOut' \in BOOLEAN
      BY <1>4, Zenon DEF StopWaits, WaitForWorker, tvars, ServiceTypeOK
    <3>2. QED
      BY <1>4, <3>1 DEF StopWaits, WaitForWorker, Dispatcher, controlVars, ServiceTypeOK
  <2>2. /\ dpc = "stopping" /\ dpc' = "signal"
        /\ timedOut' \/ (timedOut' = timedOut /\ (wpc = "done" \/ ~hThread))
        /\ UNCHANGED <<spc, wpc, dwCurrState, hThread, suspended>>
    BY <1>4 DEF StopWaits, WaitForWorker, Dispatcher, controlVars
  <2>3. ServiceLife' /\ PauseLife' /\ OrderlyStop'
    BY <1>1, <2>2 DEF ServiceLife, PauseLife, OrderlyStop, WorkerRuns, Starting, Ending
  <2>4. QED
    BY <2>1, <2>3
<1>5. CASE SignalQuit \/ TellStopped
  BY <1>1, <1>5 DEF SignalQuit, TellStopped, Dispatcher, TellSCM, ServiceTypeOK,
                    ServiceLife, PauseLife, OrderlyStop, WorkerRuns, Starting, Ending
<1>6. QED
  BY <1>3, <1>4, <1>5

\* SCMHandler, the pause and continue controls.
LEMMA PauseInv ==
  ASSUME ServiceInv, TraceTypeOK',
         \/ Pause \/ SuspendWorker \/ TellPaused
         \/ Continue \/ ResumeWorker \/ TellResumed
  PROVE  ServiceInv'
<1> USE DEF ServiceInv
<1>1. tpc'[worker] = tpc[worker]
  BY WorkerLeftAlone DEF DispatcherStep, Control
<1>2. /\ UNCHANGED <<spc, wpc, bDoShutdown, hQuitEvent, hThread, cfgLevel, timedOut>>
      /\ suspended' \in 0 .. MaxSuspendCount
  <2>1. suspended \in 0 .. MaxSuspendCount
    BY DEF ServiceTypeOK
  <2>2. CASE Pause \/ TellPaused \/ Continue \/ TellResumed
    BY <2>1, <2>2 DEF Pause, TellPaused, Continue, TellResumed, Dispatcher
  <2>3. CASE SuspendWorker \/ ResumeWorker
    BY <2>1, <2>3 DEF SuspendWorker, ResumeWorker, Dispatcher
  <2>4. QED
    BY <2>2, <2>3
<1>3. \/ dpc = "run" /\ Controllable /\ dpc' = "pausing" /\ dwCurrState' = "PAUSE_PENDING"
      \/ /\ dpc = "pausing" /\ dpc' = "paused" /\ UNCHANGED dwCurrState
         /\ suspended' > 0 \/ ~hThread
      \/ dpc = "paused" /\ dpc' = "run" /\ dwCurrState' = "PAUSED" /\ UNCHANGED suspended
      \/ dpc = "run" /\ Controllable /\ dpc' = "resuming" /\ dwCurrState' = "CONTINUE_PENDING"
      \/ dpc = "resuming" /\ dpc' = "resumed" /\ UNCHANGED dwCurrState
      \/ dpc = "resumed" /\ dpc' = "run" /\ dwCurrState' = "RUNNING"
  BY DEF Pause, SuspendWorker, TellPaused, Continue, ResumeWorker, TellResumed, Dispatcher,
         TellSCM, PauseState, ServiceTypeOK
<1>4. ServiceTypeOK'
  BY <1>2, <1>3 DEF ServiceTypeOK
<1>5. ServiceLife' /\ PauseLife' /\ OrderlyStop'
  <2>1. spc \notin {"none", "starting", "created"}
    BY <1>3 DEF Controllable, ServiceLife, PauseLife
  <2>2. QED
    BY <1>1, <1>2, <1>3, <2>1 DEF ServiceTypeOK, ServiceLife, PauseLife, OrderlyStop,
                                  WorkerRuns, Starting, Ending
<1>6. QED
  BY <1>4, <1>5

\* The worker's own steps, outside the engine; it must be there to make them.
LEMMA WorkerInv ==
  ASSUME ServiceInv, TraceTypeOK',
         BeginPass \/ EndPass \/ WorkerConfig \/ WorkerQuits \/ WorkerEnds
  PROVE  ServiceInv'
<1> USE DEF ServiceInv
<1>1. /\ wpc \notin {"none", "done"}
      /\ wpc' \in {"top", "pass", "start", "level", "configured", "quitting", "ending", "done"}
      /\ UNCHANGED <<dpc, spc, dwCurrState, bDoShutdown, hThread, suspended, timedOut>>
  <2>1. CASE BeginPass \/ WorkerQuits
    BY <2>1 DEF BeginPass, WorkerQuits, Worker, controlVars
  <2>2. CASE EndPass \/ WorkerEnds
    BY <2>2 DEF EndPass, WorkerEnds, Worker, controlVars
  <2>3. CASE WorkerConfig
    BY <2>3 DEF WorkerConfig, ChangeLevel, Configures, Worker, controlVars, ServiceTypeOK
  <2>4. QED
    BY <2>1, <2>2, <2>3
<1>2. hQuitEvent' \in {hQuitEvent, "set"} /\ cfgLevel' \in Levels
  <2>1. CASE BeginPass \/ WorkerQuits \/ EndPass \/ WorkerEnds
    BY <2>1 DEF BeginPass, WorkerQuits, EndPass, WorkerEnds, controlVars, ServiceTypeOK
  <2>2. CASE WorkerConfig
    BY <2>2 DEF WorkerConfig, ChangeLevel, Configures, controlVars, ServiceTypeOK
  <2>3. QED
    BY <2>1, <2>2
<1>3. ServiceTypeOK'
  BY <1>1, <1>2 DEF ServiceTypeOK
<1>4. ServiceLife' /\ PauseLife' /\ OrderlyStop'
  BY <1>1 DEF ServiceTypeOK, ServiceLife, PauseLife, OrderlyStop, WorkerRuns
<1>5. QED
  BY <1>3, <1>4

\* A thread goes on in the engine.  Without a handle the worker is not in it.
LEMMA EngineStepInv ==
  ASSUME ServiceInv, TraceTypeOK', NEW t \in Threads, InEngine(t)
  PROVE  ServiceInv'
<1> USE DEF ServiceInv
<1>1. UNCHANGED svars
  BY DEF InEngine
<1>2. tpc[worker] = "out" => tpc'[worker] = "out"
  <2>1. TraceTypeOK
    BY DEF ServiceTypeOK
  <2>2. InCall(t)
    BY DEF InEngine, InCall
  <2>3. CASE t # worker
    BY <2>1, <2>2, <2>3, OtherThread
  <2>4. CASE t = worker
    BY <2>1, <2>2, <2>4 DEF InCall, FilterEvent, Acquire, FormatEvent, WriteEvent,
                            CloseLogFile, EndStop
  <2>5. QED
    BY <2>3, <2>4
<1>3. ServiceTypeOK'
  BY <1>1 DEF svars, controlVars, ServiceTypeOK
<1>4. ServiceLife' /\ PauseLife' /\ OrderlyStop'
  BY <1>1, <1>2 DEF svars, controlVars, ServiceLife, PauseLife, OrderlyStop, WorkerRuns
<1>5. QED
  BY <1>3, <1>4

\* Every step preserves the invariant, as long as the engine's is preserved.
LEMMA NextServiceInv == ServiceInv /\ TraceInv /\ [Next]_vars => ServiceInv' /\ TraceInv'
<1> SUFFICES ASSUME ServiceInv, TraceInv, [Next]_vars PROVE ServiceInv' /\ TraceInv'
  OBVIOUS
<1>1. TraceInv' /\ TraceTypeOK'
  <2>1. TraceNext \/ UNCHANGED tvars
    BY StepOfTraceEngine DEF ServiceInv
  <2>2. TraceInv'
    BY <2>1, NextTraceInv
  <2>3. QED
    BY <2>2 DEF TraceInv
<1>2. CASE DispatcherStep
  <2>1. ASSUME InEngine(dispatcher)  PROVE ServiceInv'
    BY <1>1, <2>1, EngineStepInv
  <2>2. QED
    BY <1>1, <1>2, <2>1, WmainInv, StopInv, PauseInv DEF DispatcherStep
<1>3. CASE ServiceMainStep
  <2>1. ASSUME InEngine(serviceMain)  PROVE ServiceInv'
    BY <1>1, <2>1, EngineStepInv
  <2>2. QED
    BY <1>1, <1>3, <2>1, ServiceMainInv DEF ServiceMainStep
<1>4. CASE WorkerStep
  <2>1. ASSUME InEngine(worker)  PROVE ServiceInv'
    BY <1>1, <2>1, EngineStepInv
  <2>2. QED
    BY <1>1, <1>4, <2>1, WorkerInv DEF WorkerStep
<1>5. CASE Control
  BY <1>1, <1>5, StopInv, PauseInv DEF Control
<1>6. CASE Terminated \/ UNCHANGED vars
  BY <1>1, <1>6 DEF Terminated, vars, tvars, callVars, svars, controlVars, ServiceInv,
                    ServiceTypeOK, ServiceLife, PauseLife, OrderlyStop, WorkerRuns
<1>7. QED
  BY <1>1, <1>2, <1>3, <1>4, <1>5, <1>6 DEF Next

-----------------------------------------------------------------------------
(* The theorems. *)

\* The invariant of the service, with that of the engine inside it.
THEOREM ServiceInvariant == Spec => [](ServiceInv /\ TraceInv)
<1>1. Init => ServiceInv /\ TraceInv
  BY InitServiceInv, InitTraceInv DEF Init
<1>2. QED
  BY <1>1, NextServiceInv, PTL DEF Spec

\* Every thread of the service uses the trace engine (SendEvent, StopLogTrace,
\* SetTraceLevel, the destructor) only in the ways TraceEngine allows.
THEOREM ServiceUsesTraceEngine == Spec => ImplementsTraceEngine
<1>1. Init => TraceInit
  BY DEF Init
<1>2. ServiceInv /\ [Next]_vars => [TraceNext]_tvars
  BY StepOfTraceEngine DEF ServiceInv
<1>3. QED
  BY <1>1, <1>2, ServiceInvariant, PTL DEF Spec, ImplementsTraceEngine, TraceSpec

\* wmain takes the process apart only after the worker, or after the 10 s of
\* SCMHandler (Service.cpp:138-142) are over.
THEOREM OrderlyStopHolds == Spec => []OrderlyStop
<1>1. ServiceInv => OrderlyStop
  BY DEF ServiceInv
<1>2. QED
  BY <1>1, ServiceInvariant, PTL

\* The types of the service and of the engine in it.
THEOREM ServiceTypeCorrect == Spec => []ServiceTypeOK
<1>1. ServiceInv => ServiceTypeOK
  BY DEF ServiceInv
<1>2. QED
  BY <1>1, ServiceInvariant, PTL

\* What the log shows of the service, from any number of threads: whole
\* messages, and no use of a buffer or of the file after its end.
THEOREM TraceSafeInService ==
  Spec => [](MessageIntact /\ BuffersAlive /\ NoWriteToClosedFile)
<1>1. TraceInv => MessageIntact /\ BuffersAlive /\ NoWriteToClosedFile
  BY DEF TraceInv
<1>2. QED
  BY <1>1, ServiceInvariant, PTL

\* A paused service does nothing, as SuspendThread came before the SCM heard of
\* the pause (Service.cpp:156-161).
THEOREM PausedIsQuietHolds == Spec => PausedIsQuiet
<1>1. ASSUME ServiceInv, [Next]_vars, dwCurrState = "PAUSED"
      PROVE  wpc' = wpc /\ tpc'[worker] = tpc[worker]
  <2>1. suspended > 0 \/ ~hThread
    BY <1>1 DEF ServiceInv, PauseLife
  <2>2. CASE DispatcherStep \/ ServiceMainStep \/ Control
    <3>1. tpc'[worker] = tpc[worker]
      BY <1>1, <2>2, WorkerLeftAlone DEF ServiceInv
    <3>2. wpc' = wpc \/ CreateWorker
      BY <2>2 DEF DispatcherStep, ServiceMainStep, Control, InitializeTrace, StartLog,
          InitializeConfig, ChangeLevel, Configures, ConfigFails, RunService, RunReturns, DeleteTrace,
          EndDeleteTrace, ExitProcess, StopWaits, WaitForWorker, SignalQuit, TellStopped,
          SuspendWorker, TellPaused, ResumeWorker, TellResumed, InEngine, svars, StartService,
          TellRunning, BeforeWait, AfterWait, Stop, Pause, Continue, Dispatcher, ServiceMain
    <3>3. ~CreateWorker
      BY <1>1 DEF ServiceInv, ServiceLife, CreateWorker
    <3>4. QED
      BY <3>1, <3>2, <3>3
  <2>3. ~WorkerStep
    <3>1. CASE hThread
      <4>1. suspended # 0
        BY <1>1, <2>1, <3>1 DEF ServiceInv, ServiceTypeOK
      <4>2. QED
        BY <4>1 DEF WorkerStep, BeginPass, EndPass, WorkerConfig, ChangeLevel, Configures, WorkerQuits,
                    WorkerEnds, Worker, InEngine
    <3>2. CASE ~hThread
      <4>1. wpc = "none" /\ tpc[worker] = "out"
        BY <1>1, <3>2 DEF ServiceInv, ServiceLife
      <4>2. QED
        BY <4>1 DEF WorkerStep, BeginPass, EndPass, WorkerConfig, ChangeLevel, Configures, WorkerQuits,
                    WorkerEnds, Worker, InEngine, FilterEvent, Acquire, FormatEvent,
                    WriteEvent, CloseLogFile, EndStop
    <3>3. QED
      BY <3>1, <3>2
  <2>4. CASE Terminated \/ UNCHANGED vars
    BY <2>4 DEF Terminated, vars, svars, tvars, callVars
  <2>5. QED
    BY <1>1, <2>2, <2>3, <2>4 DEF Next
<1>2. QED
  BY <1>1, ServiceInvariant, PTL DEF Spec, PausedIsQuiet
=============================================================================
