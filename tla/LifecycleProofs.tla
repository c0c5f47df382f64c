--------------------------- MODULE LifecycleProofs ---------------------------
(***************************************************************************)
(* Theorems about Lifecycle, for any number of clients and job slots and   *)
(* any sequence of signals, outages and kills.                             *)
(***************************************************************************)
EXTENDS Lifecycle, TLAPS

OutageStep == \E v \in Services : Outage(v)
StartStep ==
  \/ \E p \in Procs : validateEnvironment(p) \/ connectDB(p) \/ StartFails(p)
  \/ connectRedis \/ Listen \/ StartWorker
KillStep == \E p \in Procs : Kill(p) \/ \E g \in Signals : Unhandled(p, g)
ClientStep == \E c \in Clients : Connect(c) \/ Request(c) \/ Handle(c) \/ HangUp(c)
ApiStopStep == (\E g \in Signals : shutdown(g)) \/ ServerStep \/ forceShutdown
ProbeStep == DriverNotices \/ AskReady \/ readyCheck \/ Pong \/ ProbeFails
JobStep == \E s \in Slots : TakeJob(s) \/ FinishJob(s)
LoopStep == BotDelays \/ BotStep \/ BotQuitRejects
WorkerStopStep == \E g \in Signals : shutdownWorker(g) \/ StopStep(g)

\* A step belongs to one part of the processes, or nothing happens.
LEMMA StepCases ==
  ASSUME [Next]_vars
  PROVE  \/ OutageStep \/ StartStep \/ KillStep \/ ClientStep \/ ApiStopStep \/ ProbeStep
         \/ JobStep \/ LoopStep \/ WorkerStopStep \/ UNCHANGED vars
BY DEF Next, OutageStep, StartStep, KillStep, ClientStep, ApiStopStep, ProbeStep,
       JobStep, LoopStep, WorkerStopStep

-----------------------------------------------------------------------------
(* Types *)

\* Conjuncts of TypeOK about the two processes, the API's and the worker's variables.
CommonType ==
  /\ up \in [Services -> BOOLEAN] /\ outages \in 0 .. MaxOutages
  /\ phase \in [Procs -> Phases]
  /\ ended \in [Procs -> Endings]
  /\ taken \in [Procs -> SUBSET Signals]

ApiType ==
  /\ conn \in [Clients -> {"closed", "idle", "busy"}]
  /\ work \in [Clients -> 0 .. 2]
  /\ cleanup \in [Resources -> {"none", "pending", "ok", "rejected"}]

ProbeType ==
  /\ link \in BOOLEAN
  /\ probe \in [at : {"none", "limiter", "ping", "ready", "not_ready"}, mongo : BOOLEAN]

WorkerType ==
  /\ bot \in {"off", "working", "sleeping", "quitting", "lost"}
  /\ job \in [Slots -> BOOLEAN]
  /\ stop \in [Signals -> {"none", "bot", "worker", "lock", "queue", "exit"}]
  /\ lock \in {"open", "quitting", "closed"}
  /\ again \subseteq Signals

\* Every step keeps the types of phases, endings and services.
LEMMA CommonTypeStep ==
  ASSUME TypeOK, [Next]_vars
  PROVE  CommonType'
<1> USE LifecycleAssumption
    DEF TypeOK, CommonType, services, Procs, Services, Signals, Phases, Endings
<1>1. CASE OutageStep
  BY <1>1 DEF OutageStep, Outage
<1>2. CASE StartStep
  BY <1>2 DEF StartStep, validateEnvironment, connectDB, StartFails, connectRedis, Listen,
     StartWorker, OnlyPhases, At, GoTo, End
<1>3. CASE KillStep
  BY <1>3 DEF KillStep, Kill, Unhandled, End
<1>4. CASE ClientStep
  BY <1>4 DEF ClientStep, Connect, Request, Handle, HangUp, OnlyWork
<1>5. CASE ApiStopStep
  BY <1>5 DEF ApiStopStep, shutdown, ServerStep, ServerClosed, Settle, Exit, forceShutdown,
     Take, GoTo, End
<1>6. CASE ProbeStep
  BY <1>6 DEF ProbeStep, DriverNotices, AskReady, readyCheck, Pong, ProbeFails, OnlyProbe
<1>7. CASE JobStep
  BY <1>7 DEF JobStep, TakeJob, FinishJob, OnlyWorker
<1>8. CASE LoopStep
  BY <1>8 DEF LoopStep, BotDelays, BotStep, BotWakes, BotAborted, BotQuits, BotQuitRejects,
     OnlyWorker, End
<1>9. CASE WorkerStopStep
  BY <1>9 DEF WorkerStopStep, shutdownWorker, StopStep, closeTelegramBot, closeMonitorWorker,
     LockClosed, LockRejects, closeMonitorQueue, QueueRejects, ExitWorker, OnlyWorker, Take, End
<1>10. CASE UNCHANGED vars
  BY <1>10 DEF vars
<1>11. QED
  BY <1>1, <1>2, <1>3, <1>4, <1>5, <1>6, <1>7, <1>8, <1>9, <1>10, StepCases

\* Every step keeps the types of the API's shutdown.
LEMMA ApiTypeStep ==
  ASSUME TypeOK, [Next]_vars
  PROVE  ApiType'
<1> USE DEF TypeOK, ApiType, apiVars, Resources
<1>1. CASE OutageStep
  BY <1>1 DEF OutageStep, Outage
<1>2. CASE StartStep
  BY <1>2 DEF StartStep, validateEnvironment, connectDB, StartFails, connectRedis, Listen,
     StartWorker, OnlyPhases
<1>3. CASE KillStep
  BY <1>3 DEF KillStep, Kill, Unhandled
<1>4. CASE ClientStep
  BY <1>4 DEF ClientStep, Connect, Request, Handle, HangUp, OnlyWork
<1>5. CASE ApiStopStep
  BY <1>5 DEF ApiStopStep, shutdown, Closing, ServerStep, ServerClosed, Settle, Exit, forceShutdown
<1>6. CASE ProbeStep
  BY <1>6 DEF ProbeStep, DriverNotices, AskReady, readyCheck, Pong, ProbeFails, OnlyProbe
<1>7. CASE JobStep
  BY <1>7 DEF JobStep, TakeJob, FinishJob, OnlyWorker
<1>8. CASE LoopStep
  BY <1>8 DEF LoopStep, BotDelays, BotStep, BotWakes, BotAborted, BotQuits, BotQuitRejects,
     OnlyWorker
<1>9. CASE WorkerStopStep
  BY <1>9 DEF WorkerStopStep, shutdownWorker, StopStep, closeTelegramBot, closeMonitorWorker,
     LockClosed, LockRejects, closeMonitorQueue, QueueRejects, ExitWorker, OnlyWorker
<1>10. CASE UNCHANGED vars
  BY <1>10 DEF vars
<1>11. QED
  BY <1>1, <1>2, <1>3, <1>4, <1>5, <1>6, <1>7, <1>8, <1>9, <1>10, StepCases

\* Every step keeps the types of the worker's shutdowns.
LEMMA WorkerTypeStep ==
  ASSUME TypeOK, [Next]_vars
  PROVE  WorkerType'
<1> USE DEF TypeOK, WorkerType, workerVars, Signals
<1>1. CASE OutageStep
  BY <1>1 DEF OutageStep, Outage
<1>2. CASE StartStep
  BY <1>2 DEF StartStep, validateEnvironment, connectDB, StartFails, connectRedis, Listen,
     StartWorker, OnlyPhases
<1>3. CASE KillStep
  BY <1>3 DEF KillStep, Kill, Unhandled
<1>4. CASE ClientStep
  BY <1>4 DEF ClientStep, Connect, Request, Handle, HangUp, OnlyWork
<1>5. CASE ApiStopStep
  BY <1>5 DEF ApiStopStep, shutdown, ServerStep, ServerClosed, Settle, Exit, forceShutdown
<1>6. CASE ProbeStep
  BY <1>6 DEF ProbeStep, DriverNotices, AskReady, readyCheck, Pong, ProbeFails, OnlyProbe
<1>7. CASE JobStep
  BY <1>7 DEF JobStep, TakeJob, FinishJob
<1>8. CASE LoopStep
  BY <1>8 DEF LoopStep, BotDelays, BotStep, BotWakes, BotAborted, BotQuits, BotQuitRejects
<1>9. CASE WorkerStopStep
  <2>1. PICK g \in Signals : shutdownWorker(g) \/ StopStep(g)
    BY <1>9 DEF WorkerStopStep
  <2>2. CASE shutdownWorker(g)
    BY <2>2 DEF shutdownWorker, Stop
  <2>3. CASE closeTelegramBot(g)
    BY <2>3 DEF closeTelegramBot, Stop
  <2>4. CASE closeMonitorWorker(g)
    <3>1. stop' \in [Signals -> {"none", "bot", "worker", "lock", "queue", "exit"}]
      BY <2>4 DEF closeMonitorWorker, Stop
    <3>2. lock' \in {"open", "quitting", "closed"} /\ again' \subseteq Signals
      BY <2>4 DEF closeMonitorWorker
    <3>3. QED
      BY <2>4, <3>1, <3>2 DEF closeMonitorWorker
  <2>5. CASE LockClosed(g)
    BY <2>5 DEF LockClosed, Stop
  <2>6. CASE LockRejects(g)
    BY <2>6 DEF LockRejects
  <2>7. CASE closeMonitorQueue(g)
    BY <2>7 DEF closeMonitorQueue, Stop
  <2>8. CASE QueueRejects(g)
    BY <2>8 DEF QueueRejects
  <2>9. CASE ExitWorker(g)
    BY <2>9 DEF ExitWorker
  <2>10. QED
    BY <2>1, <2>2, <2>3, <2>4, <2>5, <2>6, <2>7, <2>8, <2>9 DEF StopStep
<1>10. CASE UNCHANGED vars
  BY <1>10 DEF vars
<1>11. QED
  BY <1>1, <1>2, <1>3, <1>4, <1>5, <1>6, <1>7, <1>8, <1>9, <1>10, StepCases

\* Every step keeps the types of the probe and of what the driver knows.
LEMMA ProbeTypeStep ==
  ASSUME TypeOK, [Next]_vars
  PROVE  ProbeType'
<1> USE DEF TypeOK, ProbeType, Services
<1>1. CASE StartStep
  BY <1>1 DEF StartStep, validateEnvironment, connectDB, StartFails, connectRedis, Listen,
     StartWorker, OnlyPhases, apiVars
<1>2. CASE ApiStopStep
  BY <1>2 DEF ApiStopStep, shutdown, ServerStep, ServerClosed, Settle, Exit, forceShutdown, apiVars
<1>3. CASE ProbeStep
  BY <1>3 DEF ProbeStep, DriverNotices, AskReady, readyCheck, Pong, ProbeFails, OnlyProbe
<1>4. CASE OutageStep \/ KillStep \/ ClientStep
  BY <1>4 DEF OutageStep, Outage, KillStep, Kill, Unhandled, ClientStep, Connect, Request, Handle,
     HangUp, OnlyWork, apiVars
<1>5. CASE JobStep \/ LoopStep \/ WorkerStopStep
  BY <1>5 DEF JobStep, TakeJob, FinishJob, LoopStep, BotDelays, BotStep, BotWakes, BotAborted,
     BotQuits, BotQuitRejects, WorkerStopStep, shutdownWorker, StopStep, closeTelegramBot,
     closeMonitorWorker, LockClosed, LockRejects, closeMonitorQueue, QueueRejects, ExitWorker,
     OnlyWorker, apiVars
<1>6. CASE UNCHANGED vars
  BY <1>6 DEF vars, apiVars
<1>7. QED
  BY <1>1, <1>2, <1>3, <1>4, <1>5, <1>6, StepCases

\* The processes begin well typed.
LEMMA InitTyped == Init => TypeOK
<1> SUFFICES ASSUME Init PROVE TypeOK
  OBVIOUS
<1>1. CommonType
  BY LifecycleAssumption DEF Init, CommonType, Procs, Services, Signals, Phases, Endings
<1>2. ApiType
  BY DEF Init, ApiType, Resources
<1>3. ProbeType
  BY DEF Init, ProbeType, NoProbe
<1>4. WorkerType
  BY DEF Init, WorkerType, Signals
<1>5. QED
  BY <1>1, <1>2, <1>3, <1>4 DEF TypeOK, CommonType, ApiType, ProbeType, WorkerType

\* Every step keeps all types.
LEMMA TypedStep ==
  ASSUME TypeOK, [Next]_vars
  PROVE  TypeOK'
<1>1. CommonType' /\ ApiType' /\ ProbeType' /\ WorkerType'
  BY CommonTypeStep, ApiTypeStep, ProbeTypeStep, WorkerTypeStep
<1>2. QED
  BY <1>1 DEF TypeOK, CommonType, ApiType, ProbeType, WorkerType

\* The variables keep their types: no handler answers twice, and no process comes to a
\* phase that it has not.
THEOREM TypeCorrect == Spec => []TypeOK
<1>1. TypeOK /\ [Next]_vars => TypeOK'
  BY TypedStep
<1>2. QED
  BY <1>1, InitTyped, PTL DEF Spec

-----------------------------------------------------------------------------
(* The end of the API *)

\* Connections exist only while the API serves or closes, and not when it ended
\* by itself.
ApiInv ==
  /\ phase["api"] \notin {"serving", "closing"} => \A c \in Clients : conn[c] = "closed"
  /\ ended["api"] \in {"clean", "failed"} => \A c \in Clients : conn[c] = "closed"

\* A step that touches neither phases, endings nor connections keeps the API orderly.
LEMMA ApiStays ==
  ASSUME ApiInv, UNCHANGED <<phase, ended, conn>>
  PROVE  ApiInv'
BY DEF ApiInv

\* Every step keeps the API orderly.
LEMMA ApiInvStep ==
  ASSUME TypeOK, ApiInv, [Next]_vars
  PROVE  ApiInv'
<1> USE DEF TypeOK, Procs, At, GoTo, End
<1>1. CASE StartStep
  BY <1>1 DEF ApiInv, StartStep, validateEnvironment, connectDB, StartFails, connectRedis, Listen,
     StartWorker, OnlyPhases, apiVars
<1>2. CASE KillStep
  BY <1>2 DEF ApiInv, KillStep, Kill, Unhandled, apiVars
<1>3. CASE ClientStep
  BY <1>3 DEF ApiInv, ClientStep, Connect, Request, Handle, HangUp, OnlyWork
<1>4. CASE ApiStopStep
  <2>1. ASSUME NEW g \in Signals, shutdown(g)
        PROVE  ApiInv'
    BY <2>1 DEF ApiInv, shutdown, Closing
  <2>2. CASE ServerClosed
    BY <2>2 DEF ApiInv, ServerClosed
  <2>3. CASE Exit
    BY <2>3 DEF ApiInv, Exit, apiVars
  <2>4. CASE forceShutdown
    BY <2>4 DEF ApiInv, forceShutdown, apiVars
  <2>5. ASSUME NEW r \in Resources, Settle(r)
        PROVE  ApiInv'
    BY <2>5, ApiStays DEF Settle
  <2>6. QED
    BY <1>4, <2>1, <2>2, <2>3, <2>4, <2>5 DEF ApiStopStep, ServerStep
<1>5. CASE WorkerStopStep
  BY <1>5 DEF ApiInv, WorkerStopStep, shutdownWorker, StopStep, closeTelegramBot, closeMonitorWorker,
     LockClosed, LockRejects, closeMonitorQueue, QueueRejects, ExitWorker, OnlyWorker, apiVars
<1>6. CASE OutageStep \/ ProbeStep
  BY <1>6, ApiStays DEF OutageStep, Outage, ProbeStep, DriverNotices, AskReady, readyCheck, Pong,
     ProbeFails, OnlyProbe, apiVars
<1>7. CASE JobStep \/ LoopStep
  <2>1. CASE BotQuitRejects
    BY <2>1 DEF ApiInv, BotQuitRejects, apiVars
  <2>2. CASE JobStep \/ BotDelays \/ BotStep
    BY <2>2, ApiStays DEF JobStep, TakeJob, FinishJob, BotDelays, BotStep, BotWakes, BotAborted,
       BotQuits, OnlyWorker, apiVars
  <2>3. QED
    BY <1>7, <2>1, <2>2 DEF LoopStep
<1>8. CASE UNCHANGED vars
  BY <1>8, ApiStays DEF vars, apiVars
<1>9. QED
  BY <1>1, <1>2, <1>3, <1>4, <1>5, <1>6, <1>7, <1>8, StepCases

-----------------------------------------------------------------------------
(* The end of the worker *)

Closed(g) == stop[g] \in {"lock", "queue", "exit"}

\* How far a shutdown has come tells what is closed, only a second shutdown can call
\* quit() again, and a worker that runs has had Redis.
WorkerInv ==
  /\ \A g \in Signals : stop[g] # "none" => phase["worker"] = "running" /\ g \in taken["worker"]
  /\ \A g \in Signals : Closed(g) => \A s \in Slots : ~job[s]
  /\ \A g \in Signals : stop[g] = "worker" \/ Closed(g) => bot = "off"
  /\ \A g \in Signals : stop[g] \in {"queue", "exit"} => lock = "closed"
  /\ lock = "open" => \A g \in Signals : ~Closed(g)
  /\ lock = "quitting" => \E g \in Signals : Closed(g)
  /\ again # {} => taken["worker"] = Signals
  /\ phase["worker"] = "running" /\ outages = 0 => up["redis"]

\* What OrderlyExit says of the worker.
WorkerEnd ==
  /\ ended["worker"] = "clean" =>
       bot = "off" /\ lock = "closed" /\ \A s \in Slots : ~job[s]
  /\ ended["worker"] = "crashed" =>
       /\ taken["worker"] = Signals \/ outages > 0
       /\ (\E s \in Slots : job[s]) => bot = "lost"

\* A step outside the worker's shutdown keeps the worker orderly.
LEMMA WorkerStays ==
  ASSUME WorkerInv, WorkerEnd, taken'["worker"] = taken["worker"],
         UNCHANGED <<services, workerVars>>, phase'["worker"] = phase["worker"], ended'["worker"] = ended["worker"]
  PROVE  WorkerInv' /\ WorkerEnd'
BY DEF WorkerInv, WorkerEnd, Closed, workerVars, services

\* An outage is counted, and touches nothing else of the worker.
LEMMA WorkerOutage ==
  ASSUME TypeOK, WorkerInv, WorkerEnd, NEW v \in Services, Outage(v)
  PROVE  WorkerInv' /\ WorkerEnd'
BY LifecycleAssumption DEF TypeOK, Outage, WorkerInv, WorkerEnd, Closed, workerVars

\* Each call of a shutdown keeps the worker orderly.
LEMMA WorkerStopKeeps ==
  ASSUME TypeOK, WorkerInv, WorkerEnd, NEW g \in Signals, shutdownWorker(g) \/ StopStep(g)
  PROVE  WorkerInv' /\ WorkerEnd'
<1> USE LifecycleAssumption
    DEF TypeOK, WorkerInv, WorkerEnd, Closed, Procs, Signals, Running, At, Stop, End, OnlyWorker,
        services
<1>1. CASE shutdownWorker(g)
  BY <1>1 DEF shutdownWorker, Take
<1>2. CASE closeTelegramBot(g)
  BY <1>2 DEF closeTelegramBot
<1>3. CASE closeMonitorWorker(g)
  BY <1>3 DEF closeMonitorWorker
<1>4. CASE LockClosed(g)
  BY <1>4 DEF LockClosed
<1>5. CASE LockRejects(g)
  BY <1>5 DEF LockRejects, workerVars
<1>6. CASE closeMonitorQueue(g)
  BY <1>6 DEF closeMonitorQueue
<1>7. CASE QueueRejects(g)
  BY <1>7 DEF QueueRejects, workerVars
<1>8. CASE ExitWorker(g)
  BY <1>8 DEF ExitWorker, workerVars
<1>9. QED
  BY <1>1, <1>2, <1>3, <1>4, <1>5, <1>6, <1>7, <1>8 DEF StopStep

\* Every step keeps the worker orderly.
LEMMA WorkerInvStep ==
  ASSUME TypeOK, WorkerInv, WorkerEnd, [Next]_vars
  PROVE  WorkerInv' /\ WorkerEnd'
<1> USE DEF TypeOK, Procs, At, services
<1>1. CASE StartStep
  <2>1. CASE StartWorker
    BY <2>1 DEF StartWorker, WorkerInv, WorkerEnd, Closed, GoTo
  <2>2. CASE (\E p \in Procs : validateEnvironment(p) \/ connectDB(p) \/ StartFails(p))
             \/ connectRedis \/ Listen
    <3>1. UNCHANGED <<services, workerVars, taken>>
      BY <2>2 DEF validateEnvironment, connectDB, StartFails, connectRedis, Listen, OnlyPhases
    <3>2. /\ phase'["worker"] = "running" \/ phase["worker"] = "running"
               => phase' = phase \/ phase'["worker"] = phase["worker"]
          /\ phase'["worker"] = "running" => phase["worker"] = "running"
          /\ ended'["worker"] = ended["worker"] \/ ended'["worker"] = "failed"
      BY <2>2 DEF validateEnvironment, connectDB, StartFails, connectRedis, Listen, OnlyPhases, GoTo, End
    <3>3. QED
      BY <3>1, <3>2 DEF WorkerInv, WorkerEnd, Closed, workerVars
  <2>3. QED
    BY <1>1, <2>1, <2>2 DEF StartStep
<1>2. CASE KillStep
  BY <1>2 DEF KillStep, Kill, Unhandled, End, WorkerInv, WorkerEnd, Closed, workerVars
<1>3. CASE ApiStopStep
  <2>1. /\ UNCHANGED <<services, workerVars>> /\ taken'["worker"] = taken["worker"]
        /\ phase'["worker"] = phase["worker"] /\ ended'["worker"] = ended["worker"]
    BY <1>3 DEF ApiStopStep, shutdown, ServerStep, ServerClosed, Settle, Exit, forceShutdown,
       Take, GoTo, End
  <2>2. QED
    BY <2>1, WorkerStays
<1>4. CASE JobStep
  BY <1>4 DEF JobStep, TakeJob, FinishJob, Running, Draining, OnlyWorker, WorkerInv, WorkerEnd, Closed
<1>5. CASE LoopStep
  <2> USE DEF Running, OnlyWorker, WorkerInv, WorkerEnd, Closed
  <2>1. CASE BotDelays \/ BotStep
    BY <1>5, <2>1 DEF BotDelays, BotStep, BotWakes, BotAborted, BotQuits
  <2>2. CASE BotQuitRejects
    BY <2>2, LifecycleAssumption DEF BotQuitRejects, End
  <2>3. QED
    BY <1>5, <2>1, <2>2 DEF LoopStep
<1>6. CASE WorkerStopStep
  BY <1>6, WorkerStopKeeps DEF WorkerStopStep
<1>7. CASE OutageStep
  BY <1>7, WorkerOutage DEF OutageStep
<1>8. CASE ClientStep \/ ProbeStep
  BY <1>8, WorkerStays DEF ClientStep, Connect, Request, Handle, HangUp, OnlyWork,
     ProbeStep, DriverNotices, AskReady, readyCheck, Pong, ProbeFails, OnlyProbe
<1>9. CASE UNCHANGED vars
  BY <1>9, WorkerStays DEF vars
<1>10. QED
  BY <1>1, <1>2, <1>3, <1>4, <1>5, <1>6, <1>7, <1>8, <1>9, StepCases

\* The API ends by itself only when nobody waits for an answer; the worker exits only when
\* its jobs, bot and lock are done with, crashes only after both signals or an outage, and
\* leaves a job behind only when the bot's goodbye failed (server.js, worker.js).
THEOREM ProcessesLeaveOrderly == Spec => []OrderlyExit
<1> DEFINE Inv == TypeOK /\ ApiInv /\ WorkerInv /\ WorkerEnd
<1>1. Init => Inv
  <2>1. Init => ApiInv /\ WorkerInv /\ WorkerEnd
    BY DEF Init, ApiInv, WorkerInv, WorkerEnd, Closed, Procs
  <2>2. QED
    BY <2>1, InitTyped
<1>2. Inv /\ [Next]_vars => Inv'
  BY TypedStep, ApiInvStep, WorkerInvStep
<1>3. Inv => OrderlyExit
  BY DEF OrderlyExit, ApiInv, WorkerEnd
<1>4. QED
  BY <1>1, <1>2, <1>3, PTL DEF Spec
=============================================================================
