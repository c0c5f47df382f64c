-------------------------- MODULE MonitorSchedules --------------------------
(***************************************************************************)
(* The monitor API and the BullMQ job schedulers.  Every create, update    *)
(* and delete request writes MongoDB and then Redis, one await at a time,  *)
(* while workers that start synchronise all schedulers with a snapshot of  *)
(* the monitors (monitorController.js, monitorQueue.js, monitorWorker.js). *)
(*                                                                         *)
(* Faults may hold "mongo" and "redis" (a call fails, before or after it   *)
(* took effect) and "crash" (an API process or a starting worker dies).    *)
(***************************************************************************)
EXTENDS Naturals, FiniteSets

CONSTANTS Monitors,   \* monitor identifiers of one user; one is never used twice
          Intervals,  \* check intervals
          Unset,      \* no document, or no scheduler
          Reqs,       \* API requests that can be in progress at once
          Workers,    \* worker processes
          Limit,      \* MAX_MONITORS_PER_USER
          Faults,     \* kinds of fault allowed
          MaxFaults   \* bound: number of faults

ASSUME SchedulesAssumption ==
  /\ Unset \notin Intervals
  /\ IsFiniteSet(Monitors) /\ IsFiniteSet(Reqs)
  /\ Limit \in Nat \ {0}
  /\ MaxFaults \in Nat

VARIABLES
  doc,        \* doc[m]: interval stored in MongoDB, or Unset
  scheduler,  \* scheduler[m]: interval of the job scheduler in Redis, or Unset
  used,       \* identifiers that were given to a monitor
  pc,         \* pc[r]: the await the request is at
  op,         \* op[r]: "create", "update" or "delete"
  target,     \* target[r]: the monitor of the request
  wanted,     \* wanted[r]: the interval the request asks for
  previous,   \* previous[r]: previousFields, what an update loaded
  wpc,        \* wpc[w]: "off", "upserting", "pruning", "on" or "stuck"
  snapshot,   \* snapshot[w]: the monitors found when the worker started
  todo,       \* todo[w]: monitors to upsert, then schedulers to remove
  before,     \* history: before[r], the documents when the request began
  calm,       \* history: no two requests overlapped, and only Redis has failed
  faults      \* bound counter: faults so far

reqVars == <<pc, op, target, wanted, previous, before>>
workerVars == <<wpc, snapshot, todo>>
tally == <<calm, faults>>
vars == <<doc, scheduler, used, reqVars, workerVars, tally>>

Setting == Intervals \cup {Unset}
Docs == [Monitors -> Setting]
Awaits == {"idle", "count", "insert", "find", "save", "upsert", "add", "undo",
           "restore", "reupsert", "purge", "remove", "unschedule",
           "ok", "failed", "refused"}
Ops == {"none", "create", "update", "delete"}

\* The last two conjuncts: a request that writes an interval has one.
TypeOK ==
  /\ doc \in Docs
  /\ scheduler \in Docs
  /\ used \subseteq Monitors
  /\ pc \in [Reqs -> Awaits]
  /\ op \in [Reqs -> Ops]
  /\ target \in [Reqs -> Monitors \cup {Unset}]
  /\ wanted \in [Reqs -> Setting]
  /\ previous \in [Reqs -> Setting]
  /\ wpc \in [Workers -> {"off", "upserting", "pruning", "on", "stuck"}]
  /\ snapshot \in [Workers -> Docs]
  /\ todo \in [Workers -> SUBSET Monitors]
  /\ before \in [Reqs -> Docs]
  /\ calm \in BOOLEAN
  /\ faults \in Nat
  /\ \A r \in Reqs :
       pc[r] \in {"count", "insert", "save", "upsert", "add"} => wanted[r] \in Intervals
  /\ \A r \in Reqs :
       pc[r] \in {"save", "restore", "reupsert"} => previous[r] \in Intervals

Nothing == [m \in Monitors |-> Unset]

Idle ==
  /\ pc = [r \in Reqs |-> "idle"]
  /\ op = [r \in Reqs |-> "none"]
  /\ target = [r \in Reqs |-> Unset]
  /\ wanted = [r \in Reqs |-> Unset]
  /\ previous = [r \in Reqs |-> Unset]
  /\ before = [r \in Reqs |-> Nothing]
  /\ wpc = [w \in Workers |-> "off"]
  /\ snapshot = [w \in Workers |-> Nothing]
  /\ todo = [w \in Workers |-> {}]
  /\ calm = TRUE
  /\ faults = 0

\* A user without monitors.
Init ==
  /\ doc = Nothing
  /\ scheduler = Nothing
  /\ used = {}
  /\ Idle

\* What crashes and failed calls can leave behind: monitors without a
\* scheduler or with an old interval, and schedulers without a monitor.
InitAfterFailures ==
  /\ doc \in Docs
  /\ scheduler \in Docs
  /\ used = Monitors
  /\ Idle

Fault(kind) ==
  /\ kind \in Faults
  /\ faults < MaxFaults
  /\ faults' = faults + 1
  /\ calm' = (calm /\ kind = "redis")

Exists(m) == doc[m] # Unset
Live == {m \in Monitors : Exists(m)}

Goto(r, await) == pc' = [pc EXCEPT ![r] = await]
Store(m, interval) == doc' = [doc EXCEPT ![m] = interval]
Schedule(m, interval) == scheduler' = [scheduler EXCEPT ![m] = interval]
KeepRequest == UNCHANGED <<op, target, wanted, previous, before>>

-----------------------------------------------------------------------------
(* Requests begin. *)

Begin(r, kind, m, interval, await) ==
  /\ pc[r] = "idle"
  /\ Goto(r, await)
  /\ op' = [op EXCEPT ![r] = kind]
  /\ target' = [target EXCEPT ![r] = m]
  /\ wanted' = [wanted EXCEPT ![r] = interval]
  /\ before' = [before EXCEPT ![r] = doc]
  /\ calm' = (calm /\ \A q \in Reqs : pc[q] = "idle")
  /\ UNCHANGED <<doc, scheduler, previous, workerVars, faults>>

\* The identifier is that of the document the request will insert.
BeginCreate(r, m, interval) ==
  /\ m \notin used
  /\ used' = used \cup {m}
  /\ Begin(r, "create", m, interval, "count")

BeginUpdate(r, m, interval) ==
  /\ m \in used
  /\ Begin(r, "update", m, interval, "find")
  /\ UNCHANGED used

BeginDelete(r, m) ==
  /\ m \in used
  /\ Begin(r, "delete", m, Unset, "find")
  /\ UNCHANGED used

-----------------------------------------------------------------------------
(* createMonitor *)

\* Mutant: the limit itself is still allowed to grow.
CountAboveLimit(r) ==
  /\ pc[r] = "count"
  /\ IF Cardinality(Live) > Limit THEN Goto(r, "refused") ELSE Goto(r, "insert")
  /\ KeepRequest
  /\ UNCHANGED <<doc, scheduler, used, workerVars, tally>>

\* countDocuments, and 409 at the limit.
CountMonitors(r) ==
  /\ pc[r] = "count"
  /\ IF Cardinality(Live) >= Limit THEN Goto(r, "refused") ELSE Goto(r, "insert")
  /\ KeepRequest
  /\ UNCHANGED <<doc, scheduler, used, workerVars, tally>>

\* Mutant: the new monitor is answered with 201 before it is scheduled.
InsertOnly(r) ==
  /\ pc[r] = "insert"
  /\ Store(target[r], wanted[r])
  /\ Goto(r, "ok")
  /\ KeepRequest
  /\ UNCHANGED <<scheduler, used, workerVars, tally>>

InsertMonitor(r) ==
  /\ pc[r] = "insert"
  /\ Store(target[r], wanted[r])
  /\ Goto(r, "upsert")
  /\ KeepRequest
  /\ UNCHANGED <<scheduler, used, workerVars, tally>>

\* scheduleMonitor failed: the document is deleted again ...
UndoCreate(r) ==
  /\ pc[r] = "undo"
  /\ Store(target[r], Unset)
  /\ Goto(r, "unschedule")
  /\ KeepRequest
  /\ UNCHANGED <<scheduler, used, workerVars, tally>>

-----------------------------------------------------------------------------
(* updateMonitor *)

\* Mutant: no 404, a monitor that is gone is updated.
FindUnchecked(r) ==
  /\ pc[r] = "find"
  /\ Goto(r, IF op[r] = "update" THEN "save" ELSE "purge")
  /\ previous' = [previous EXCEPT ![r] = doc[target[r]]]
  /\ UNCHANGED <<doc, scheduler, used, op, target, wanted, before, workerVars, tally>>

\* findById, and 404 if there is no such monitor.
FindMonitor(r) ==
  /\ pc[r] = "find"
  /\ IF Exists(target[r])
       THEN /\ Goto(r, IF op[r] = "update" THEN "save" ELSE "purge")
            /\ previous' = [previous EXCEPT ![r] = doc[target[r]]]
       ELSE Goto(r, "refused") /\ UNCHANGED previous
  /\ UNCHANGED <<doc, scheduler, used, op, target, wanted, before, workerVars, tally>>

\* save() writes the interval if it differs from the one that was loaded, and
\* throws if the document is gone.
SaveUpdate(r) ==
  /\ pc[r] = "save"
  /\ IF Exists(target[r])
       THEN /\ IF wanted[r] # previous[r] THEN Store(target[r], wanted[r]) ELSE UNCHANGED doc
            /\ Goto(r, "upsert")
       ELSE Goto(r, "failed") /\ UNCHANGED doc
  /\ KeepRequest
  /\ UNCHANGED <<scheduler, used, workerVars, tally>>

\* Mutant: a failed update is answered, not rolled back.
GiveUp(r) ==
  /\ pc[r] = "restore"
  /\ Goto(r, "failed")
  /\ KeepRequest
  /\ UNCHANGED <<doc, scheduler, used, workerVars, tally>>

\* scheduleMonitor failed: the previous fields are saved again ...
RestoreDocument(r) ==
  /\ pc[r] = "restore"
  /\ IF Exists(target[r])
       THEN /\ IF wanted[r] # previous[r] THEN Store(target[r], previous[r]) ELSE UNCHANGED doc
            /\ Goto(r, "reupsert")
       ELSE Goto(r, "failed") /\ UNCHANGED doc
  /\ KeepRequest
  /\ UNCHANGED <<scheduler, used, workerVars, tally>>

\* ... and scheduled again; a failure of that is logged and swallowed.
RestoreSchedule(r) ==
  /\ pc[r] = "reupsert"
  /\ \/ Schedule(target[r], previous[r]) /\ UNCHANGED tally
     \/ Fault("redis") /\ (Schedule(target[r], previous[r]) \/ UNCHANGED scheduler)
  /\ Goto(r, "failed")
  /\ KeepRequest
  /\ UNCHANGED <<doc, used, workerVars>>

-----------------------------------------------------------------------------
(* scheduleMonitor, from create and update *)

UpsertScheduler(r) ==
  /\ pc[r] = "upsert"
  /\ Schedule(target[r], wanted[r])
  /\ Goto(r, "add")
  /\ KeepRequest
  /\ UNCHANGED <<doc, used, workerVars, tally>>

AddInitialJob(r) ==
  /\ pc[r] = "add"
  /\ Goto(r, "ok")
  /\ KeepRequest
  /\ UNCHANGED <<doc, scheduler, used, workerVars, tally>>

\* Either call of scheduleMonitor rejects.
ScheduleFails(r) ==
  /\ pc[r] \in {"upsert", "add"}
  /\ Fault("redis")
  /\ \/ pc[r] = "upsert" /\ Schedule(target[r], wanted[r])
     \/ UNCHANGED scheduler
  /\ Goto(r, IF op[r] = "create" THEN "undo" ELSE "restore")
  /\ KeepRequest
  /\ UNCHANGED <<doc, used, workerVars>>

-----------------------------------------------------------------------------
(* deleteMonitor; the check history it deletes first belongs to MonitorCheck *)

PurgeLogs(r) ==
  /\ pc[r] = "purge"
  /\ Goto(r, "remove")
  /\ KeepRequest
  /\ UNCHANGED <<doc, scheduler, used, workerVars, tally>>

RemoveMonitor(r) ==
  /\ pc[r] = "remove"
  /\ Store(target[r], Unset)
  /\ Goto(r, "unschedule")
  /\ KeepRequest
  /\ UNCHANGED <<scheduler, used, workerVars, tally>>

\* removeMonitorSchedule, of a delete and of a failed create.  A failure is
\* logged and swallowed.
Unschedule(r) ==
  /\ pc[r] = "unschedule"
  /\ \/ Schedule(target[r], Unset) /\ UNCHANGED tally
     \/ Fault("redis") /\ (Schedule(target[r], Unset) \/ UNCHANGED scheduler)
  /\ Goto(r, IF op[r] = "create" THEN "failed" ELSE "ok")
  /\ KeepRequest
  /\ UNCHANGED <<doc, used, workerVars>>

-----------------------------------------------------------------------------
(* Any request *)

\* What the MongoDB call of the await would store.
MongoEffect(r) ==
  CASE pc[r] = "insert" -> wanted[r]
    [] pc[r] \in {"undo", "remove"} -> Unset
    [] pc[r] = "save" /\ Exists(target[r]) /\ wanted[r] # previous[r] -> wanted[r]
    [] pc[r] = "restore" /\ Exists(target[r]) /\ wanted[r] # previous[r] -> previous[r]
    [] OTHER -> doc[target[r]]

\* A MongoDB call rejects, before or after it took effect: 500.
MongoFails(r) ==
  /\ pc[r] \in {"count", "insert", "find", "save", "undo", "restore", "purge", "remove"}
  /\ Fault("mongo")
  /\ Store(target[r], MongoEffect(r)) \/ UNCHANGED doc
  /\ Goto(r, "failed")
  /\ KeepRequest
  /\ UNCHANGED <<scheduler, used, workerVars>>

\* The request is forgotten: answered, or lost with its API process.
Forget(r) ==
  /\ Goto(r, "idle")
  /\ op' = [op EXCEPT ![r] = "none"]
  /\ target' = [target EXCEPT ![r] = Unset]
  /\ wanted' = [wanted EXCEPT ![r] = Unset]
  /\ previous' = [previous EXCEPT ![r] = Unset]
  /\ before' = [before EXCEPT ![r] = Nothing]
  /\ UNCHANGED <<doc, scheduler, used, workerVars>>

Respond(r) ==
  /\ pc[r] \in {"ok", "failed", "refused"}
  /\ Forget(r)
  /\ UNCHANGED tally

CrashApi(r) ==
  /\ pc[r] # "idle"
  /\ Fault("crash")
  /\ Forget(r)

-----------------------------------------------------------------------------
(* startMonitorWorker and synchronizeMonitorSchedules *)

\* find() reads the monitors once.
BeginSync(w) ==
  /\ wpc[w] = "off"
  /\ wpc' = [wpc EXCEPT ![w] = "upserting"]
  /\ snapshot' = [snapshot EXCEPT ![w] = doc]
  /\ todo' = [todo EXCEPT ![w] = Live]
  /\ UNCHANGED <<doc, scheduler, used, reqVars, tally>>

\* scheduleMonitor for the next monitor of the snapshot.
SyncUpsert(w, m) ==
  /\ wpc[w] = "upserting"
  /\ m \in todo[w]
  /\ Schedule(m, snapshot[w][m])
  /\ todo' = [todo EXCEPT ![w] = @ \ {m}]
  /\ UNCHANGED <<doc, used, reqVars, wpc, snapshot, tally>>

\* Mutant: schedulers of deleted monitors are not looked for.
ListNothing(w) ==
  /\ wpc[w] = "upserting"
  /\ todo[w] = {}
  /\ wpc' = [wpc EXCEPT ![w] = "pruning"]
  /\ UNCHANGED <<doc, scheduler, used, reqVars, snapshot, todo, tally>>

\* getJobSchedulers: what is there now and is not of the snapshot must go.
SyncList(w) ==
  /\ wpc[w] = "upserting"
  /\ todo[w] = {}
  /\ wpc' = [wpc EXCEPT ![w] = "pruning"]
  /\ todo' = [todo EXCEPT ![w] =
                {m \in Monitors : scheduler[m] # Unset /\ snapshot[w][m] = Unset}]
  /\ UNCHANGED <<doc, scheduler, used, reqVars, snapshot, tally>>

SyncPrune(w, m) ==
  /\ wpc[w] = "pruning"
  /\ m \in todo[w]
  /\ Schedule(m, Unset)
  /\ todo' = [todo EXCEPT ![w] = @ \ {m}]
  /\ UNCHANGED <<doc, used, reqVars, wpc, snapshot, tally>>

\* The worker runs, or stops: whatever it read is forgotten.
EnterWorker(w, state) ==
  /\ wpc' = [wpc EXCEPT ![w] = state]
  /\ snapshot' = [snapshot EXCEPT ![w] = Nothing]
  /\ todo' = [todo EXCEPT ![w] = {}]
  /\ UNCHANGED <<doc, scheduler, used, reqVars>>

SyncDone(w) ==
  /\ wpc[w] = "pruning"
  /\ todo[w] = {}
  /\ EnterWorker(w, "on")
  /\ UNCHANGED tally

\* A failed call rejects start().  That only sets the exit code: the connections
\* that are open keep the process alive, without a worker, and it is not restarted.
StartFails(w) ==
  /\ \/ wpc[w] = "off" /\ Fault("mongo")
     \/ wpc[w] \in {"upserting", "pruning"} /\ Fault("redis")
  /\ EnterWorker(w, "stuck")

\* A process that dies is restarted.
CrashWorker(w) ==
  /\ wpc[w] \in {"upserting", "pruning", "on"}
  /\ Fault("crash")
  /\ EnterWorker(w, "off")

\* A deployment or an operator restarts the worker.
StopWorker(w) ==
  /\ wpc[w] \in {"on", "stuck"}
  /\ EnterWorker(w, "off")
  /\ UNCHANGED tally

-----------------------------------------------------------------------------
RequestStep(r) ==
  \/ CountMonitors(r) \/ InsertMonitor(r) \/ UndoCreate(r)
  \/ FindMonitor(r) \/ SaveUpdate(r) \/ RestoreDocument(r) \/ RestoreSchedule(r)
  \/ UpsertScheduler(r) \/ AddInitialJob(r) \/ ScheduleFails(r)
  \/ PurgeLogs(r) \/ RemoveMonitor(r) \/ Unschedule(r)
  \/ MongoFails(r) \/ Respond(r)

NewRequest(r) ==
  \E m \in Monitors :
    \/ \E i \in Intervals : BeginCreate(r, m, i) \/ BeginUpdate(r, m, i)
    \/ BeginDelete(r, m)

WorkerStep(w) ==
  \/ BeginSync(w) \/ SyncList(w) \/ SyncDone(w)
  \/ \E m \in Monitors : SyncUpsert(w, m) \/ SyncPrune(w, m)

Next ==
  \/ \E r \in Reqs : NewRequest(r) \/ RequestStep(r) \/ CrashApi(r)
  \/ \E w \in Workers : WorkerStep(w) \/ StartFails(w) \/ CrashWorker(w) \/ StopWorker(w)

Spec == Init /\ [][Next]_vars

\* A worker process that ended is started again (docker-compose.yml) and its
\* calls end.  Nothing restarts one that is stuck.
RecoverySpec ==
  InitAfterFailures /\ [][Next]_vars /\ \A w \in Workers : WF_vars(WorkerStep(w))

-----------------------------------------------------------------------------
(* Properties. *)

Quiet == /\ \A r \in Reqs : pc[r] = "idle"
         /\ \A w \in Workers : wpc[w] \in {"off", "on", "stuck"}

\* "Each monitor has a BullMQ job scheduler that respects its configured
\* interval" (README.md:39-40), once no request and no start is in progress, if
\* requests came one at a time and nothing but a Redis call has failed.
EveryMonitorScheduled ==
  Quiet /\ calm => \A m \in Monitors : Exists(m) => scheduler[m] = doc[m]

\* The monitor exists, has no scheduler, and no create is about to make it one.
Unchecked(m) ==
  /\ Exists(m)
  /\ scheduler[m] = Unset
  /\ ~ \E r \in Reqs : op[r] = "create" /\ target[r] = m /\ pc[r] = "upsert"

\* Concurrent requests may disagree on the interval, but leave no monitor
\* unscheduled (the document goes before its scheduler does): each call that
\* failed or was cut off by a crash costs at most one.
UncheckedMonitorsAreFaults == Cardinality({m \in Monitors : Unchecked(m)}) <= faults

\* A request answered with an error, after a Redis call failed and with no other
\* request beside it, has changed no document, and its compensation left the
\* schedulers of the monitors that exist in step.
FailedRequestLeavesNoTrace ==
  \A r \in Reqs : pc[r] = "failed" /\ calm =>
    /\ doc = before[r]
    /\ \A m \in Monitors : Exists(m) => scheduler[m] = doc[m]

\* Counting and inserting are not atomic: concurrent creates can pass the
\* limit ("Accounts are limited to 20 monitors by default", README.md:53), but by
\* no more than the other requests in progress.
QuotaOvershootBounded == Cardinality(Live) <= Limit + Cardinality(Reqs) - 1

\* Whatever failures left behind, starting workers bring the schedulers in
\* step with the monitors for good, unless requests interfere or start fails.
SchedulesRecover == <>[](scheduler = doc)
=============================================================================
