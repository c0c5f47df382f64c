----------------------- MODULE MonitorSchedulesProofs -----------------------
(***************************************************************************)
(* Theorems about MonitorSchedules, for any number of monitors, requests,  *)
(* intervals and faults.  Those about schedulers assume that no worker     *)
(* starts in between (the run sched_start shows why).                      *)
(***************************************************************************)
EXTENDS MonitorSchedules, FiniteSetTheorems, TLAPS

\* The steps by what they write.  Those that touch one request only by its pc ...
Creating(r) == CountMonitors(r) \/ InsertMonitor(r) \/ UndoCreate(r)
Updating(r) == FindMonitor(r) \/ SaveUpdate(r) \/ RestoreDocument(r) \/ RestoreSchedule(r)
Scheduling(r) == UpsertScheduler(r) \/ AddInitialJob(r) \/ ScheduleFails(r)
Deleting(r) == PurgeLogs(r) \/ RemoveMonitor(r) \/ Unschedule(r)
\* ... those that make it another one ...
Forgetting(r) == Respond(r) \/ CrashApi(r)
\* ... and those of workers.
Working(w) == WorkerStep(w) \/ StartFails(w) \/ CrashWorker(w) \/ StopWorker(w)

\* A step belongs to one request or one starting worker, or nothing happens.
LEMMA StepCases ==
  ASSUME [Next]_vars
  PROVE  \/ \E r \in Reqs : NewRequest(r) \/ Creating(r) \/ Updating(r) \/ Scheduling(r)
                            \/ Deleting(r) \/ MongoFails(r) \/ Forgetting(r)
         \/ \E w \in Workers : Working(w)
         \/ UNCHANGED vars
BY DEF Next, RequestStep, Creating, Updating, Scheduling, Deleting, Forgetting, Working

\* A worker writes schedulers and its own state only.
LEMMA WorkersLeaveRequests ==
  ASSUME NEW w \in Workers, Working(w)
  PROVE  UNCHANGED <<doc, used, reqVars>>
BY DEF Working, WorkerStep, BeginSync, SyncUpsert, SyncList, SyncPrune, SyncDone, StartFails,
       CrashWorker, StopWorker, EnterWorker

-----------------------------------------------------------------------------
(* Types *)

\* What a request that is past its first call holds, whatever await it is at: a
\* monitor, and the intervals that the calls to come will write.
Armed(r) ==
  /\ pc[r] # "idle" => target[r] \in Monitors
  /\ op[r] \in {"create", "update"} => wanted[r] \in Intervals
  /\ pc[r] \in {"count", "insert", "undo"} => op[r] = "create"
  /\ pc[r] \in {"save", "restore", "reupsert"} => op[r] = "update"
  /\ pc[r] \in {"purge", "remove"} => op[r] = "delete"
  /\ pc[r] = "find" => op[r] \in {"update", "delete"}
  /\ pc[r] \in {"upsert", "add"} =>
       op[r] = "create" \/ (op[r] = "update" /\ previous[r] \in Intervals)

Typed == TypeOK /\ \A r \in Reqs : Armed(r)

RequestTypes ==
  /\ doc \in Docs /\ scheduler \in Docs /\ used \subseteq Monitors
  /\ pc \in [Reqs -> Awaits] /\ op \in [Reqs -> Ops]
  /\ target \in [Reqs -> Monitors \cup {Unset}]
  /\ wanted \in [Reqs -> Setting] /\ previous \in [Reqs -> Setting]
  /\ before \in [Reqs -> Docs]
  /\ calm \in BOOLEAN /\ faults \in Nat
  /\ \A r \in Reqs : pc[r] \in {"save", "restore", "reupsert"} => previous[r] \in Intervals
  /\ \A r \in Reqs : Armed(r)

WorkerTypes ==
  /\ wpc \in [Workers -> {"off", "upserting", "pruning", "on", "stuck"}]
  /\ snapshot \in [Workers -> Docs]
  /\ todo \in [Workers -> SUBSET Monitors]

\* The types, split by requests and workers.
LEMMA TypedParts == Typed <=> RequestTypes /\ WorkerTypes
<1>1. RequestTypes =>
        \A r \in Reqs : pc[r] \in {"count", "insert", "save", "upsert", "add"} => wanted[r] \in Intervals
  BY DEF RequestTypes, Armed
<1>2. QED
  BY <1>1 DEF Typed, TypeOK, RequestTypes, WorkerTypes

\* The types hold at the beginning.
LEMMA InitTyped == Init => Typed
BY SchedulesAssumption
   DEF Init, Idle, Nothing, Typed, TypeOK, Armed, Docs, Setting, Awaits, Ops

\* A fault is counted as a number.
LEMMA FaultTyped ==
  ASSUME RequestTypes, NEW kind, Fault(kind)
  PROVE  calm' \in BOOLEAN /\ faults' \in Nat
BY DEF RequestTypes, Fault

\* Writing a document keeps the type of the documents.
LEMMA StoreTyped ==
  ASSUME doc \in Docs, NEW m, NEW interval \in Setting, Store(m, interval)
  PROVE  doc' \in Docs
BY DEF Store, Docs

\* Writing a scheduler keeps the type of the schedulers.
LEMMA ScheduleTyped ==
  ASSUME scheduler \in Docs, NEW m, NEW interval \in Setting, Schedule(m, interval)
  PROVE  scheduler' \in Docs
BY DEF Schedule, Docs

\* One request goes on, and nothing but its pc changes of what it holds.
LEMMA GoesOn ==
  ASSUME RequestTypes, NEW r \in Reqs, NEW await \in Awaits, Goto(r, await), KeepRequest,
         UNCHANGED used, doc' \in Docs, scheduler' \in Docs, calm' \in BOOLEAN, faults' \in Nat,
         pc[r] # "idle", await # "find",
         await \in {"count", "insert", "undo"} => op[r] = "create",
         await \in {"save", "restore", "reupsert"} => op[r] = "update" /\ previous[r] \in Intervals,
         await \in {"purge", "remove"} => op[r] = "delete",
         await \in {"upsert", "add"} =>
           op[r] = "create" \/ (op[r] = "update" /\ previous[r] \in Intervals)
  PROVE  RequestTypes'
<1>1. pc' \in [Reqs -> Awaits] /\ pc'[r] = await /\ \A q \in Reqs : q # r => pc'[q] = pc[q]
  BY DEF Goto, RequestTypes
<1>2. \A q \in Reqs : Armed(q)'
  BY <1>1 DEF RequestTypes, Armed, KeepRequest
<1>3. \A q \in Reqs : pc'[q] \in {"save", "restore", "reupsert"} => previous'[q] \in Intervals
  BY <1>1 DEF RequestTypes, KeepRequest
<1>4. QED
  BY <1>1, <1>2, <1>3 DEF RequestTypes, KeepRequest

\* A new request has what it needs.
LEMMA BeginTyped ==
  ASSUME RequestTypes, NEW r \in Reqs, NewRequest(r)
  PROVE  RequestTypes'
<1>1. PICK m \in Monitors, i \in Setting, kind \in Ops, await \in {"count", "find"} :
        /\ Begin(r, kind, m, i, await)
        /\ used' \subseteq Monitors
        /\ kind \in {"create", "update"} => i \in Intervals
        /\ IF await = "count" THEN kind = "create" ELSE kind \in {"update", "delete"}
  BY DEF NewRequest, BeginCreate, BeginUpdate, BeginDelete, RequestTypes, Ops, Setting
<1>2. /\ pc' \in [Reqs -> Awaits] /\ op' \in [Reqs -> Ops]
      /\ target' \in [Reqs -> Monitors \cup {Unset}]
      /\ wanted' \in [Reqs -> Setting] /\ before' \in [Reqs -> Docs]
      /\ pc'[r] = await /\ op'[r] = kind /\ target'[r] = m /\ wanted'[r] = i
      /\ UNCHANGED previous
  BY <1>1 DEF RequestTypes, Begin, Goto, Awaits
<1>3. \A q \in Reqs : q # r => /\ pc'[q] = pc[q] /\ op'[q] = op[q]
                              /\ target'[q] = target[q] /\ wanted'[q] = wanted[q]
  BY <1>1 DEF RequestTypes, Begin, Goto
<1>4. \A q \in Reqs : Armed(q)'
  BY <1>1, <1>2, <1>3 DEF RequestTypes, Armed
<1>5. \A q \in Reqs : pc'[q] \in {"save", "restore", "reupsert"} => previous'[q] \in Intervals
  BY <1>2, <1>3 DEF RequestTypes
<1>6. calm' \in BOOLEAN /\ UNCHANGED <<doc, scheduler, faults>>
  BY <1>1 DEF Begin
<1>7. QED
  BY <1>1, <1>2, <1>4, <1>5, <1>6 DEF RequestTypes

\* A request that ends leaves the types as they were.
LEMMA ForgetTyped ==
  ASSUME RequestTypes, NEW r \in Reqs, Forgetting(r)
  PROVE  RequestTypes'
<1>1. Forget(r) /\ calm' \in BOOLEAN /\ faults' \in Nat
  BY FaultTyped DEF Forgetting, Respond, CrashApi, tally, RequestTypes
<1>2. /\ pc' \in [Reqs -> Awaits] /\ op' \in [Reqs -> Ops]
      /\ target' \in [Reqs -> Monitors \cup {Unset}]
      /\ wanted' \in [Reqs -> Setting] /\ previous' \in [Reqs -> Setting]
      /\ before' \in [Reqs -> Docs]
      /\ pc'[r] = "idle" /\ op'[r] = "none"
  BY <1>1 DEF RequestTypes, Forget, Goto, Awaits, Ops, Setting, Docs, Nothing
<1>3. \A q \in Reqs : q # r => /\ pc'[q] = pc[q] /\ op'[q] = op[q] /\ previous'[q] = previous[q]
                              /\ target'[q] = target[q] /\ wanted'[q] = wanted[q]
  BY <1>1 DEF RequestTypes, Forget, Goto
<1>4. \A q \in Reqs : Armed(q)'
  BY <1>2, <1>3 DEF RequestTypes, Armed
<1>5. \A q \in Reqs : pc'[q] \in {"save", "restore", "reupsert"} => previous'[q] \in Intervals
  BY <1>2, <1>3 DEF RequestTypes
<1>6. QED
  BY <1>1, <1>2, <1>4, <1>5 DEF RequestTypes, Forget

\* Looking up the monitor of a request, found or not, keeps the types of the requests.
LEMMA FindTyped ==
  ASSUME RequestTypes, NEW r \in Reqs, FindMonitor(r)
  PROVE  RequestTypes'
<1>1. op[r] \in {"update", "delete"}
  BY DEF FindMonitor, RequestTypes, Armed
<1>2. target[r] \in Monitors /\ pc[r] = "find"
  BY DEF FindMonitor, RequestTypes, Armed
<1>3. CASE ~Exists(target[r])
  BY <1>2, <1>3, GoesOn DEF FindMonitor, Awaits, KeepRequest, RequestTypes, tally
<1>4. CASE Exists(target[r])
  <2>1. doc[target[r]] \in Intervals
    BY <1>2, <1>4 DEF Exists, RequestTypes, Docs, Setting
  <2> DEFINE await == IF op[r] = "update" THEN "save" ELSE "purge"
  <2>2. /\ pc' \in [Reqs -> Awaits] /\ previous' \in [Reqs -> Setting]
        /\ pc'[r] = await /\ previous'[r] = doc[target[r]]
        /\ \A q \in Reqs : q # r => pc'[q] = pc[q] /\ previous'[q] = previous[q]
    BY <1>4, <2>1 DEF FindMonitor, Goto, RequestTypes, Awaits, Setting
  <2>3. UNCHANGED <<doc, scheduler, used, op, target, wanted, before, calm, faults>>
    BY DEF FindMonitor, tally
  <2>4. \A q \in Reqs : Armed(q)'
    <3>1. Armed(r)'
      BY <1>1, <1>2, <2>1, <2>2, <2>3 DEF RequestTypes, Armed
    <3>2. ASSUME NEW q \in Reqs, q # r
          PROVE  Armed(q)'
      <4>1. Armed(q)
        BY DEF RequestTypes
      <4>2. UNCHANGED <<pc[q], op[q], target[q], wanted[q], previous[q]>>
        BY <2>2, <2>3, <3>2
      <4>3. QED
        BY <4>1, <4>2 DEF Armed
    <3>3. QED
      BY <3>1, <3>2
  <2>5. \A q \in Reqs : pc'[q] \in {"save", "restore", "reupsert"} => previous'[q] \in Intervals
    BY <2>1, <2>2 DEF RequestTypes
  <2>6. QED
    BY <2>2, <2>3, <2>4, <2>5 DEF RequestTypes
<1>5. QED
  BY <1>3, <1>4

\* What a failed write may have written is a setting.
LEMMA MongoEffectTyped ==
  ASSUME RequestTypes, NEW r \in Reqs, pc[r] # "idle"
  PROVE  MongoEffect(r) \in Setting
BY DEF MongoEffect, RequestTypes, Docs, Setting, Armed

\* Every step keeps the types of the requests.
LEMMA RequestTypesStep ==
  ASSUME Typed, [Next]_vars
  PROVE  RequestTypes'
<1>1. RequestTypes
  BY TypedParts
<1>2. \A r \in Reqs : Armed(r) /\ wanted[r] \in Setting /\ previous[r] \in Setting
  BY <1>1 DEF RequestTypes
<1>3. ASSUME NEW r \in Reqs, Creating(r)
      PROVE  RequestTypes'
  <2>1. doc' \in Docs
    BY <1>1, <1>2, <1>3, StoreTyped DEF RequestTypes, Creating, CountMonitors, InsertMonitor, UndoCreate, Setting
  <2>2. UNCHANGED <<scheduler, used, calm, faults>> /\ KeepRequest
    BY <1>3 DEF Creating, CountMonitors, InsertMonitor, UndoCreate, tally
  <2>3. op[r] = "create" /\ pc[r] # "idle"
    BY <1>2, <1>3 DEF Creating, CountMonitors, InsertMonitor, UndoCreate, Armed
  <2>4. PICK await \in {"refused", "insert", "upsert", "unschedule"} : Goto(r, await)
    BY <1>3 DEF Creating, CountMonitors, InsertMonitor, UndoCreate
  <2>5. await \in Awaits
    BY DEF Awaits
  <2>6. calm' \in BOOLEAN /\ faults' \in Nat /\ scheduler' \in Docs
    BY <1>1, <2>2 DEF RequestTypes
  <2>7. QED
    BY <1>1, <2>1, <2>2, <2>3, <2>4, <2>5, <2>6, GoesOn
<1>4. ASSUME NEW r \in Reqs, SaveUpdate(r)
      PROVE  RequestTypes'
  <2>1. doc' \in Docs
    BY <1>1, <1>2, <1>4, StoreTyped DEF RequestTypes, SaveUpdate
  <2>2. UNCHANGED <<scheduler, used, calm, faults>> /\ KeepRequest
    BY <1>4 DEF SaveUpdate, tally
  <2>3. op[r] = "update" /\ previous[r] \in Intervals /\ pc[r] # "idle"
        /\ \E await \in {"upsert", "failed"} : Goto(r, await)
    BY <1>1, <1>2, <1>4 DEF SaveUpdate, Armed, RequestTypes
  <2>4. QED
    BY <1>1, <2>1, <2>2, <2>3, GoesOn DEF Awaits, RequestTypes
<1>5. ASSUME NEW r \in Reqs, RestoreDocument(r)
      PROVE  RequestTypes'
  <2>1. doc' \in Docs
    BY <1>1, <1>2, <1>5, StoreTyped DEF RequestTypes, RestoreDocument
  <2>2. UNCHANGED <<scheduler, used, calm, faults>> /\ KeepRequest
    BY <1>5 DEF RestoreDocument, tally
  <2>3. op[r] = "update" /\ previous[r] \in Intervals /\ pc[r] # "idle"
        /\ \E await \in {"reupsert", "failed"} : Goto(r, await)
    BY <1>1, <1>2, <1>5 DEF RestoreDocument, Armed, RequestTypes
  <2>4. QED
    BY <1>1, <2>1, <2>2, <2>3, GoesOn DEF Awaits, RequestTypes
<1>6. ASSUME NEW r \in Reqs, RestoreSchedule(r)
      PROVE  RequestTypes'
  <2>1. scheduler' \in Docs /\ calm' \in BOOLEAN /\ faults' \in Nat
    BY <1>1, <1>2, <1>6, ScheduleTyped, FaultTyped DEF RequestTypes, RestoreSchedule, tally
  <2>2. UNCHANGED <<doc, used>> /\ KeepRequest /\ Goto(r, "failed") /\ pc[r] # "idle"
    BY <1>6 DEF RestoreSchedule
  <2>3. QED
    BY <1>1, <2>1, <2>2, GoesOn DEF Awaits, RequestTypes
<1>7. ASSUME NEW r \in Reqs, Scheduling(r)
      PROVE  RequestTypes'
  <2>1. scheduler' \in Docs /\ calm' \in BOOLEAN /\ faults' \in Nat
    BY <1>1, <1>2, <1>7, ScheduleTyped, FaultTyped
       DEF RequestTypes, Scheduling, UpsertScheduler, AddInitialJob, ScheduleFails, tally
  <2>2. UNCHANGED <<doc, used>> /\ KeepRequest /\ pc[r] \in {"upsert", "add"}
    BY <1>7 DEF Scheduling, UpsertScheduler, AddInitialJob, ScheduleFails
  <2>3. \/ Goto(r, "add") \/ Goto(r, "ok")
        \/ op[r] = "create" /\ Goto(r, "undo")
        \/ op[r] # "create" /\ Goto(r, "restore")
    BY <1>7 DEF Scheduling, UpsertScheduler, AddInitialJob, ScheduleFails
  <2>4. op[r] = "create" \/ (op[r] = "update" /\ previous[r] \in Intervals)
    BY <1>2, <2>2 DEF Armed
  <2>5. QED
    BY <1>1, <2>1, <2>2, <2>3, <2>4, GoesOn DEF Awaits, RequestTypes
<1>8. ASSUME NEW r \in Reqs, Deleting(r)
      PROVE  RequestTypes'
  <2>1. doc' \in Docs /\ scheduler' \in Docs /\ calm' \in BOOLEAN /\ faults' \in Nat
    BY <1>1, <1>8, StoreTyped, ScheduleTyped, FaultTyped
       DEF RequestTypes, Deleting, PurgeLogs, RemoveMonitor, Unschedule, tally, Setting
  <2>2. UNCHANGED used /\ KeepRequest /\ pc[r] \in {"purge", "remove", "unschedule"}
    BY <1>8 DEF Deleting, PurgeLogs, RemoveMonitor, Unschedule
  <2>3. \/ Goto(r, "remove") /\ pc[r] = "purge"
        \/ Goto(r, "unschedule") \/ Goto(r, "failed") \/ Goto(r, "ok")
    BY <1>8 DEF Deleting, PurgeLogs, RemoveMonitor, Unschedule
  <2>4. pc[r] = "purge" => op[r] = "delete"
    BY <1>2 DEF Armed
  <2>5. QED
    BY <1>1, <2>1, <2>2, <2>3, <2>4, GoesOn DEF Awaits
<1>9. ASSUME NEW r \in Reqs, MongoFails(r)
      PROVE  RequestTypes'
  <2>1. UNCHANGED <<scheduler, used>> /\ KeepRequest /\ Goto(r, "failed") /\ pc[r] # "idle"
        /\ Fault("mongo") /\ (Store(target[r], MongoEffect(r)) \/ UNCHANGED doc)
    BY <1>9 DEF MongoFails
  <2>2. doc' \in Docs
    BY <1>1, <2>1, MongoEffectTyped, StoreTyped DEF RequestTypes
  <2>3. QED
    BY <1>1, <2>1, <2>2, FaultTyped, GoesOn DEF Awaits, RequestTypes
<1>10. ASSUME NEW w \in Workers, Working(w)
       PROVE  RequestTypes'
  <2>1. UNCHANGED <<doc, used, pc, op, target, wanted, previous, before>>
    BY <1>10, WorkersLeaveRequests DEF reqVars
  <2>2. calm' \in BOOLEAN /\ faults' \in Nat
    BY <1>1, <1>10, FaultTyped
       DEF Working, WorkerStep, BeginSync, SyncUpsert, SyncList, SyncPrune, SyncDone,
           StartFails, CrashWorker, StopWorker, tally, RequestTypes
  <2>3. scheduler' \in Docs
    <3>1. ASSUME NEW m \in Monitors, SyncUpsert(w, m) \/ SyncPrune(w, m)
          PROVE  scheduler' \in Docs
      <4>1. snapshot[w][m] \in Setting
        BY TypedParts DEF WorkerTypes, Docs
      <4>2. QED
        BY <1>1, <3>1, <4>1, ScheduleTyped DEF SyncUpsert, SyncPrune, RequestTypes, Setting
    <3>2. QED
      BY <1>1, <1>10, <3>1
         DEF Working, WorkerStep, BeginSync, SyncList, SyncDone, StartFails, CrashWorker,
             StopWorker, EnterWorker, RequestTypes
  <2>4. QED
    BY <1>1, <2>1, <2>2, <2>3 DEF RequestTypes, Armed
<1>11. CASE UNCHANGED vars
  BY <1>1, <1>11 DEF vars, reqVars, tally, RequestTypes, Armed
<1>12. QED
  BY <1>1, <1>3, <1>4, <1>5, <1>6, <1>7, <1>8, <1>9, <1>10, <1>11, StepCases, BeginTyped,
     ForgetTyped, FindTyped DEF Updating

\* Every step keeps the types of the workers.
LEMMA WorkerTypesStep ==
  ASSUME Typed, [Next]_vars
  PROVE  WorkerTypes'
<1> USE TypedParts DEF WorkerTypes, RequestTypes, Docs, Setting, workerVars
<1>1. ASSUME NEW r \in Reqs,
             NewRequest(r) \/ Creating(r) \/ Updating(r) \/ Scheduling(r)
               \/ Deleting(r) \/ MongoFails(r) \/ Forgetting(r)
      PROVE  UNCHANGED workerVars
  BY <1>1 DEF NewRequest, BeginCreate, BeginUpdate, BeginDelete, Begin, Creating, CountMonitors,
     InsertMonitor, UndoCreate, Updating, FindMonitor, SaveUpdate, RestoreDocument,
     RestoreSchedule, Scheduling, UpsertScheduler, AddInitialJob, ScheduleFails, Deleting,
     PurgeLogs, RemoveMonitor, Unschedule, MongoFails, Forgetting, Respond, CrashApi, Forget
<1>2. ASSUME NEW w \in Workers, Working(w)
      PROVE  WorkerTypes'
  <2>1. CASE BeginSync(w)
    BY <2>1 DEF BeginSync, Live
  <2>2. CASE SyncList(w)
    BY <2>2 DEF SyncList
  <2>3. ASSUME NEW m \in Monitors, SyncUpsert(w, m) \/ SyncPrune(w, m)
        PROVE  WorkerTypes'
    BY <2>3 DEF SyncUpsert, SyncPrune
  <2>4. ASSUME NEW state \in {"off", "on", "stuck"}, EnterWorker(w, state)
        PROVE  WorkerTypes'
    BY <2>4 DEF EnterWorker, Nothing
  <2>5. QED
    BY <1>2, <2>1, <2>2, <2>3, <2>4
       DEF Working, WorkerStep, SyncDone, StartFails, CrashWorker, StopWorker
<1>3. CASE UNCHANGED vars
  BY <1>3 DEF vars
<1>4. QED
  BY <1>1, <1>2, <1>3, StepCases

\* Every step keeps all types.
LEMMA TypedStep == Typed /\ [Next]_vars => Typed'
<1>1. (RequestTypes /\ WorkerTypes => Typed)'
  <2>1. RequestTypes' =>
        \A r \in Reqs : pc'[r] \in {"count", "insert", "save", "upsert", "add"} => wanted'[r] \in Intervals
    BY DEF RequestTypes, Armed
  <2>2. QED
    BY <2>1 DEF Typed, TypeOK, RequestTypes, WorkerTypes
<1>2. QED
  BY <1>1, RequestTypesStep, WorkerTypesStep

\* Every variable keeps its type, and a call that writes an interval has one, for any
\* overlap of requests and workers and any faults.
THEOREM TypeCorrect == Spec => []TypeOK
<1>1. Typed => TypeOK
  BY DEF Typed
<1>2. QED
  BY <1>1, InitTyped, TypedStep, PTL DEF Spec
-----------------------------------------------------------------------------
(* The limit of monitors *)

Inserting == {r \in Reqs : pc[r] = "insert"}

\* A create that has counted has a place, whether it is taken or not.
PlacesBounded == Cardinality(Live) + Cardinality(Inserting) <= Limit + Cardinality(Reqs) - 1

\* The places taken can be counted.
LEMMA Finite ==
  /\ IsFiniteSet(Live) /\ IsFiniteSet(Inserting)
  /\ Cardinality(Live) \in Nat /\ Cardinality(Inserting) \in Nat /\ Cardinality(Reqs) \in Nat
BY SchedulesAssumption, FS_Subset, FS_CardinalityType DEF Live, Inserting

\* Whatever adds a document or a place took a place or found room.
LEMMA PlacesStep ==
  ASSUME Typed, [Next]_vars
  PROVE  \/ Live' \subseteq Live /\ Inserting' \subseteq Inserting
         \/ Cardinality(Live) < Limit /\ UNCHANGED doc
         \/ \E r \in Inserting : Live' \subseteq Live \cup {target[r]} /\ Inserting' \subseteq Inserting \ {r}
<1> DEFINE Shrinks == Live' \subseteq Live /\ Inserting' \subseteq Inserting
<1>1. doc \in Docs /\ pc \in [Reqs -> Awaits]
  BY DEF Typed, TypeOK
<1>2. ASSUME NEW r \in Reqs, NEW await, Goto(r, await), await # "insert"
      PROVE  Inserting' \subseteq Inserting \ {r}
  BY <1>1, <1>2 DEF Inserting, Goto
<1>3. ASSUME NEW m, NEW interval, Store(m, interval), interval = Unset \/ Exists(m)
      PROVE  Live' \subseteq Live
  BY <1>1, <1>3 DEF Live, Exists, Store, Docs
<1>4. ASSUME NEW m, NEW interval, Store(m, interval)
      PROVE  Live' \subseteq Live \cup {m}
  BY <1>1, <1>4 DEF Live, Exists, Store, Docs
<1>5. ASSUME UNCHANGED doc
      PROVE  Live' = Live
  BY <1>5 DEF Live, Exists
<1>6. ASSUME NEW r \in Reqs, NewRequest(r)
      PROVE  Shrinks
  <2>1. PICK await \in {"count", "find"} : Goto(r, await)
    BY <1>6 DEF NewRequest, BeginCreate, BeginUpdate, BeginDelete, Begin
  <2>2. UNCHANGED doc
    BY <1>6 DEF NewRequest, BeginCreate, BeginUpdate, BeginDelete, Begin
  <2>3. QED
    BY <1>2, <1>5, <2>1, <2>2
<1>7. ASSUME NEW r \in Reqs, CountMonitors(r)
      PROVE  Shrinks \/ (Cardinality(Live) < Limit /\ UNCHANGED doc)
  <2>1. CASE Cardinality(Live) >= Limit
    BY <1>2, <1>5, <1>7, <2>1 DEF CountMonitors
  <2>2. CASE ~(Cardinality(Live) >= Limit)
    BY <1>7, <2>2, Finite, SchedulesAssumption DEF CountMonitors
  <2>3. QED
    BY <2>1, <2>2
<1>8. ASSUME NEW r \in Reqs, InsertMonitor(r)
      PROVE  r \in Inserting /\ Live' \subseteq Live \cup {target[r]} /\ Inserting' \subseteq Inserting \ {r}
  BY <1>2, <1>4, <1>8 DEF InsertMonitor, Inserting
<1>9. ASSUME NEW r \in Reqs, UndoCreate(r) \/ Updating(r) \/ Scheduling(r) \/ Deleting(r)
      PROVE  Shrinks
  <2>1. \E await : await # "insert" /\ Goto(r, await)
    BY <1>9 DEF UndoCreate, Updating, FindMonitor, SaveUpdate, RestoreDocument, RestoreSchedule,
       Scheduling, UpsertScheduler, AddInitialJob, ScheduleFails, Deleting, PurgeLogs,
       RemoveMonitor, Unschedule
  <2>2. \/ UNCHANGED doc
        \/ \E m, interval : Store(m, interval) /\ (interval = Unset \/ Exists(m))
    BY <1>9 DEF UndoCreate, Updating, FindMonitor, SaveUpdate, RestoreDocument, RestoreSchedule,
       Scheduling, UpsertScheduler, AddInitialJob, ScheduleFails, Deleting, PurgeLogs,
       RemoveMonitor, Unschedule
  <2>3. QED
    BY <1>2, <1>3, <1>5, <2>1, <2>2
<1>10. ASSUME NEW r \in Reqs, MongoFails(r)
       PROVE  \/ Shrinks
              \/ r \in Inserting /\ Live' \subseteq Live \cup {target[r]} /\ Inserting' \subseteq Inserting \ {r}
  <2>1. Inserting' \subseteq Inserting \ {r}
    BY <1>2, <1>10 DEF MongoFails
  <2>2. CASE UNCHANGED doc
    BY <1>5, <2>1, <2>2
  <2>3. CASE Store(target[r], MongoEffect(r)) /\ pc[r] = "insert"
    BY <1>4, <2>1, <2>3 DEF Inserting
  <2>4. CASE Store(target[r], MongoEffect(r)) /\ pc[r] # "insert"
    <3>1. MongoEffect(r) = Unset \/ Exists(target[r])
      BY <2>4 DEF MongoEffect, Exists
    <3>2. QED
      BY <1>3, <2>1, <2>4, <3>1
  <2>5. QED
    BY <1>10, <2>2, <2>3, <2>4 DEF MongoFails
<1>11. ASSUME NEW r \in Reqs, Forgetting(r)
       PROVE  Shrinks
  <2>1. Goto(r, "idle") /\ UNCHANGED doc
    BY <1>11 DEF Forgetting, Respond, CrashApi, Forget
  <2>2. QED
    BY <1>2, <1>5, <2>1
<1>12. ASSUME UNCHANGED <<doc, pc>>
       PROVE  Shrinks
  BY <1>5, <1>12 DEF Inserting
<1>13. (\E w \in Workers : Working(w)) \/ UNCHANGED vars => UNCHANGED <<doc, pc>>
  BY WorkersLeaveRequests DEF vars, reqVars
<1>14. QED
  BY <1>6, <1>7, <1>8, <1>9, <1>10, <1>11, <1>12, <1>13, StepCases DEF Creating

\* Every step keeps the places taken within the limit and the other requests.
LEMMA PlacesKept == Typed /\ PlacesBounded /\ [Next]_vars => PlacesBounded'
<1> SUFFICES ASSUME Typed, PlacesBounded, [Next]_vars
             PROVE  PlacesBounded'
  OBVIOUS
<1>1. /\ Live' \subseteq Monitors /\ Inserting' \subseteq Reqs
      /\ IsFiniteSet(Live') /\ Cardinality(Live') \in Nat
      /\ IsFiniteSet(Inserting') /\ Cardinality(Inserting') \in Nat
      /\ Cardinality(Inserting') <= Cardinality(Reqs)
  BY SchedulesAssumption, FS_Subset, FS_CardinalityType DEF Live, Inserting
<1>2. CASE Live' \subseteq Live /\ Inserting' \subseteq Inserting
  <2>1. Cardinality(Live') <= Cardinality(Live) /\ Cardinality(Inserting') <= Cardinality(Inserting)
    BY <1>2, Finite, FS_Subset
  <2>2. QED
    BY <1>1, <2>1, Finite, SchedulesAssumption DEF PlacesBounded
<1>3. CASE Cardinality(Live) < Limit /\ UNCHANGED doc
  <2>1. Live' = Live
    BY <1>3 DEF Live, Exists
  <2>2. QED
    BY <1>1, <1>3, <2>1, Finite, SchedulesAssumption DEF PlacesBounded
<1>4. ASSUME NEW r \in Inserting,
             Live' \subseteq Live \cup {target[r]}, Inserting' \subseteq Inserting \ {r}
      PROVE  PlacesBounded'
  <2>1. Cardinality(Live') <= Cardinality(Live) + 1
    <3>1. /\ IsFiniteSet(Live \cup {target[r]})
          /\ Cardinality(Live \cup {target[r]}) <= Cardinality(Live) + 1
      BY Finite, FS_AddElement
    <3>2. /\ Cardinality(Live') <= Cardinality(Live \cup {target[r]})
          /\ Cardinality(Live \cup {target[r]}) \in Nat
      BY <1>4, <3>1, FS_Subset, FS_CardinalityType
    <3>3. QED
      BY <1>1, <3>1, <3>2, Finite
  <2>2. Cardinality(Inserting') <= Cardinality(Inserting) - 1
    <3>1. /\ IsFiniteSet(Inserting \ {r})
          /\ Cardinality(Inserting \ {r}) = Cardinality(Inserting) - 1
      BY Finite, FS_RemoveElement
    <3>2. QED
      BY <1>4, <3>1, FS_Subset
  <2>3. QED
    BY <1>1, <2>1, <2>2, Finite, SchedulesAssumption DEF PlacesBounded
<1>5. QED
  BY <1>2, <1>3, <1>4, PlacesStep

\* Counting and inserting are not atomic: creates that overlap pass the limit by at most
\* the other requests in progress (createMonitor), whatever fails.
THEOREM OvershootIsBounded == Spec => []QuotaOvershootBounded
<1>1. Init => PlacesBounded
  <2>1. Init => Live = {} /\ Inserting = {}
    BY DEF Init, Idle, Live, Exists, Inserting, Nothing
  <2>2. QED
    BY <2>1, FS_EmptySet, Finite, SchedulesAssumption DEF PlacesBounded
<1>2. PlacesBounded => QuotaOvershootBounded
  BY Finite, SchedulesAssumption DEF PlacesBounded, QuotaOvershootBounded
<1>3. QED
  BY <1>1, <1>2, InitTyped, TypedStep, PlacesKept, PTL DEF Spec
-----------------------------------------------------------------------------
(* Monitors without a scheduler *)

\* An identifier is used by one create.  Until the document is there nothing but a find can
\* be under way for it, and a document whose scheduler is to go does not come back.
Ids ==
  /\ Live \subseteq used
  /\ \A r \in Reqs : pc[r] # "idle" => target[r] \in used
  /\ \A r \in Reqs : pc[r] \in {"count", "insert"} =>
       /\ ~Exists(target[r])
       /\ \A q \in Reqs \ {r} : target[q] = target[r] =>
            pc[q] \in {"idle", "find", "refused", "failed", "ok"}
  /\ \A r \in Reqs : pc[r] = "unschedule" => ~Exists(target[r])

\* A step of a request that is in progress, other than its last.
Proceeding(r) ==
  Creating(r) \/ Updating(r) \/ Scheduling(r) \/ Deleting(r) \/ MongoFails(r)

\* What such a step does to the documents, and from where to where it goes.
Advances(r, await) ==
  /\ Goto(r, await)
  /\ pc[r] # "idle" /\ await \notin {"idle", "count", "find"}
  /\ UNCHANGED <<op, target, used>>
  /\ \A m \in Monitors : m # target[r] => doc'[m] = doc[m]
  /\ doc'[target[r]] # Unset => Exists(target[r]) \/ pc[r] = "insert"
  /\ await = "insert" => pc[r] = "count" /\ UNCHANGED doc
  /\ await = "unschedule" => doc'[target[r]] = Unset
  /\ pc[r] = "find" /\ await \notin {"failed", "refused"} => Exists(target[r])
  /\ pc[r] \notin {"ok", "failed", "refused"}

\* A write changes the document it is about, and no other.
LEMMA StoreEffect ==
  ASSUME doc \in Docs, NEW n, NEW interval, Store(n, interval)
  PROVE  /\ \A m \in Monitors : m # n => doc'[m] = doc[m]
         /\ n \in Monitors => doc'[n] = interval
BY DEF Store, Docs

\* A request that proceeds takes one of its steps.
LEMMA ProceedingAdvances ==
  ASSUME Typed, NEW r \in Reqs, Proceeding(r)
  PROVE  \E await : Advances(r, await)
<1>1. doc \in Docs /\ Armed(r)
  BY DEF Typed, TypeOK
<1>2. CASE CountMonitors(r) \/ FindMonitor(r) \/ PurgeLogs(r)
  <2>1. pc[r] \in {"count", "find", "purge"} /\ UNCHANGED <<doc, op, target, used>>
    BY <1>2 DEF CountMonitors, FindMonitor, PurgeLogs, KeepRequest
  <2>2. PICK await : /\ Goto(r, await)
                     /\ \/ await \in {"refused", "insert"} /\ pc[r] = "count"
                        \/ await = "refused" /\ pc[r] = "find"
                        \/ await \in {"save", "purge"} /\ pc[r] = "find" /\ Exists(target[r])
                        \/ await = "remove" /\ pc[r] = "purge"
    BY <1>2 DEF CountMonitors, FindMonitor, PurgeLogs
  <2>3. Advances(r, await)
    BY <2>1, <2>2 DEF Advances, Exists
  <2>4. QED
    BY <2>3
<1>3. CASE InsertMonitor(r)
  <2>1. Advances(r, "upsert")
    BY <1>1, <1>3, StoreEffect DEF InsertMonitor, KeepRequest, Advances, Exists
  <2>2. QED
    BY <2>1
<1>4. CASE UndoCreate(r) \/ RemoveMonitor(r)
  <2>1. Advances(r, "unschedule")
    BY <1>1, <1>4, StoreEffect DEF UndoCreate, RemoveMonitor, KeepRequest, Advances, Exists, Armed
  <2>2. QED
    BY <2>1
<1>5. CASE SaveUpdate(r) \/ RestoreDocument(r)
  <2>1. pc[r] \in {"save", "restore"} /\ UNCHANGED <<op, target, used>>
    BY <1>5 DEF SaveUpdate, RestoreDocument, KeepRequest
  <2>2. PICK await \in {"upsert", "failed", "reupsert"} : Goto(r, await)
    BY <1>5 DEF SaveUpdate, RestoreDocument
  <2>3. /\ \A m \in Monitors : m # target[r] => doc'[m] = doc[m]
        /\ Exists(target[r]) \/ UNCHANGED doc
    BY <1>1, <1>5, StoreEffect DEF SaveUpdate, RestoreDocument
  <2>4. Advances(r, await)
    BY <2>1, <2>2, <2>3 DEF Advances, Exists
  <2>5. QED
    BY <2>4
<1>6. CASE RestoreSchedule(r) \/ Scheduling(r) \/ Unschedule(r)
  <2>1. pc[r] \in {"reupsert", "upsert", "add", "unschedule"} /\ UNCHANGED <<doc, op, target, used>>
    BY <1>6 DEF RestoreSchedule, Scheduling, UpsertScheduler, AddInitialJob, ScheduleFails,
       Unschedule, KeepRequest
  <2>2. PICK await \in {"failed", "add", "ok", "undo", "restore"} : Goto(r, await)
    BY <1>6 DEF RestoreSchedule, Scheduling, UpsertScheduler, AddInitialJob, ScheduleFails,
       Unschedule
  <2>3. Advances(r, await)
    BY <2>1, <2>2 DEF Advances, Exists
  <2>4. QED
    BY <2>3
<1>7. CASE MongoFails(r)
  <2>1. /\ pc[r] \notin {"idle", "unschedule", "ok", "failed", "refused"} /\ UNCHANGED <<op, target, used>> /\ Goto(r, "failed")
        /\ Store(target[r], MongoEffect(r)) \/ UNCHANGED doc
    BY <1>7 DEF MongoFails, KeepRequest
  <2>2. target[r] \in Monitors
    BY <1>1, <2>1 DEF Armed
  <2>3. /\ \A m \in Monitors : m # target[r] => doc'[m] = doc[m]
        /\ doc'[target[r]] \in {MongoEffect(r), doc[target[r]]}
    BY <1>1, <2>1, <2>2, StoreEffect
  <2>4. MongoEffect(r) # Unset => Exists(target[r]) \/ pc[r] = "insert"
    BY DEF MongoEffect, Exists
  <2>5. Advances(r, "failed")
    BY <2>1, <2>3, <2>4 DEF Advances, Exists
  <2>6. QED
    BY <2>5
<1>8. QED
  BY <1>2, <1>3, <1>4, <1>5, <1>6, <1>7 DEF Proceeding, Creating, Updating, Scheduling, Deleting

\* With no worker starting, every step is one of a request.
LEMMA RequestCases ==
  ASSUME [Next]_vars, Workers = {}
  PROVE  \/ \E r \in Reqs : NewRequest(r) \/ Proceeding(r) \/ Forgetting(r)
         \/ UNCHANGED vars
BY StepCases DEF Proceeding

\* Every step keeps identifiers used once.
LEMMA IdsStep == Typed /\ Ids /\ Workers = {} /\ [Next]_vars => Ids'
<1> SUFFICES ASSUME Typed, Ids, Workers = {}, [Next]_vars
             PROVE  Ids'
  OBVIOUS
<1>1. /\ pc \in [Reqs -> Awaits] /\ target \in [Reqs -> Monitors \cup {Unset}] /\ doc \in Docs
      /\ \A r \in Reqs : pc[r] # "idle" => target[r] \in Monitors
  BY DEF Typed, TypeOK, Armed
<1>2. ASSUME NEW r \in Reqs, NewRequest(r)
      PROVE  Ids'
  <2>1. PICK m \in Monitors, await \in {"count", "find"} :
          /\ pc[r] = "idle" /\ Goto(r, await) /\ target' = [target EXCEPT ![r] = m]
          /\ UNCHANGED doc
          /\ \/ await = "count" /\ m \notin used /\ used' = used \cup {m}
             \/ await = "find" /\ m \in used /\ used' = used
    BY <1>2 DEF NewRequest, BeginCreate, BeginUpdate, BeginDelete, Begin
  <2>2. /\ pc'[r] = await /\ target'[r] = m
        /\ \A q \in Reqs : q # r => pc'[q] = pc[q] /\ target'[q] = target[q]
    BY <1>1, <2>1 DEF Goto
  <2>3. await = "count" =>
          ~Exists(m) /\ \A q \in Reqs \ {r} : pc[q] = "idle" \/ target[q] # m
    BY <2>1 DEF Ids, Live
  <2>4. Live' \subseteq used' /\ \A q \in Reqs : pc'[q] # "idle" => target'[q] \in used'
    <3>1. used \subseteq used' /\ m \in used'
      BY <2>1
    <3>2. Live' = Live
      BY <2>1 DEF Live, Exists
    <3>3. QED
      BY <2>2, <3>1, <3>2 DEF Ids
  <2>5. ASSUME NEW q \in Reqs, pc'[q] \in {"count", "insert"}
        PROVE  /\ ~Exists(target[q])'
               /\ \A p \in Reqs \ {q} : target'[p] = target'[q] =>
                     pc'[p] \in {"idle", "find", "refused", "failed", "ok"}
    <3>1. CASE q = r
      BY <2>1, <2>2, <2>3, <2>5, <3>1 DEF Exists
    <3>2. CASE q # r
      <4>1. /\ target[q] \in used /\ ~Exists(target[q])
            /\ \A p \in Reqs \ {q} : target[p] = target[q] =>
                  pc[p] \in {"idle", "find", "refused", "failed", "ok"}
        BY <2>2, <2>5, <3>2 DEF Ids
      <4>2. target'[q] = target[q] /\ (target[q] = m => await = "find")
        BY <2>1, <2>2, <3>2, <4>1
      <4>3. QED
        BY <2>1, <2>2, <4>1, <4>2 DEF Exists
    <3>3. QED
      BY <3>1, <3>2
  <2>6. \A q \in Reqs : pc'[q] = "unschedule" => ~Exists(target[q])'
    BY <2>1, <2>2 DEF Ids, Exists
  <2>7. QED
    BY <2>4, <2>5, <2>6 DEF Ids
<1>3. ASSUME NEW r \in Reqs, NEW await, Advances(r, await)
      PROVE  Ids'
  <2>1. /\ pc'[r] = await /\ \A q \in Reqs : q # r => pc'[q] = pc[q]
        /\ UNCHANGED <<target, used>> /\ target[r] \in Monitors
    BY <1>1, <1>3 DEF Goto, Advances
  <2>2. Live' \subseteq used'
    BY <1>1, <1>3, <2>1 DEF Advances, Ids, Live, Exists
  <2>3. \A q \in Reqs : pc'[q] # "idle" => target'[q] \in used'
    BY <1>3, <2>1 DEF Advances, Ids
  <2>4. ASSUME NEW q \in Reqs, pc'[q] \in {"count", "insert"}
        PROVE  /\ ~Exists(target[q])'
               /\ \A p \in Reqs \ {q} : target'[p] = target'[q] =>
                     pc'[p] \in {"idle", "find", "refused", "failed", "ok"}
    <3>1. /\ ~Exists(target[q])
          /\ \A p \in Reqs \ {q} : target[p] = target[q] =>
                pc[p] \in {"idle", "find", "refused", "failed", "ok"}
      BY <1>3, <2>1, <2>4 DEF Advances, Ids
    <3>2. CASE q = r
      BY <1>3, <2>1, <2>4, <3>1, <3>2 DEF Advances, Exists
    <3>3. CASE q # r
      <4>1. target[q] \in Monitors /\ pc[q] \in {"count", "insert"}
        BY <1>1, <2>1, <2>4, <3>3
      <4>2. CASE target[r] = target[q]
        <5>1. pc[r] \in {"find", "refused", "failed", "ok"}
          BY <1>3, <3>1, <3>3, <4>2 DEF Advances
        <5>2. doc'[target[q]] = Unset
          BY <1>3, <3>1, <4>2, <5>1 DEF Advances, Exists
        <5>3. await \in {"idle", "find", "refused", "failed", "ok"}
          BY <1>1, <1>3, <2>1, <3>1, <4>2, <5>1 DEF Advances, Proceeding
        <5>4. QED
          BY <2>1, <3>1, <5>2, <5>3 DEF Exists
      <4>3. CASE target[r] # target[q]
        BY <1>3, <2>1, <3>1, <4>1, <4>3 DEF Advances, Exists
      <4>4. QED
        BY <4>2, <4>3
    <3>4. QED
      BY <3>2, <3>3
  <2>5. ASSUME NEW q \in Reqs, pc'[q] = "unschedule"
        PROVE  ~Exists(target[q])'
    <3>1. CASE q = r
      BY <1>3, <2>1, <2>5, <3>1 DEF Advances, Exists
    <3>2. CASE q # r
      <4>1. pc[q] = "unschedule" /\ ~Exists(target[q]) /\ target[q] \in Monitors
        BY <1>1, <2>1, <2>5, <3>2 DEF Ids
      <4>2. target[q] = target[r] => pc[r] # "insert"
        BY <3>2, <4>1 DEF Ids
      <4>3. QED
        BY <1>3, <2>1, <4>1, <4>2 DEF Advances, Exists
    <3>3. QED
      BY <3>1, <3>2
  <2>6. QED
    BY <2>2, <2>3, <2>4, <2>5 DEF Ids
<1>4. ASSUME NEW r \in Reqs, Forgetting(r)
      PROVE  Ids'
  <2>1. /\ pc'[r] = "idle" /\ UNCHANGED <<doc, used>>
        /\ \A q \in Reqs : q # r => pc'[q] = pc[q] /\ target'[q] = target[q]
    BY <1>1, <1>4 DEF Forgetting, Respond, CrashApi, Forget, Goto
  <2>2. QED
    BY <2>1 DEF Ids, Live, Exists
<1>5. CASE UNCHANGED vars
  BY <1>5 DEF vars, reqVars, Ids, Live, Exists
<1>6. QED
  BY <1>2, <1>3, <1>4, <1>5, RequestCases, ProceedingAdvances

UncheckedSet == {m \in Monitors : Unchecked(m)}

\* A step adds a monitor without a scheduler only if it is a fault, and then the one it
\* worked on.
LEMMA UncheckedStep ==
  ASSUME Typed, Ids, NEW r \in Reqs, NewRequest(r) \/ Proceeding(r) \/ Forgetting(r)
  PROVE  \/ UncheckedSet' \subseteq UncheckedSet /\ faults' = faults
         \/ UncheckedSet' \subseteq UncheckedSet \cup {target[r]} /\ faults' = faults + 1
<1>1. /\ pc \in [Reqs -> Awaits] /\ op \in [Reqs -> Ops]
      /\ target \in [Reqs -> Monitors \cup {Unset}] /\ doc \in Docs /\ scheduler \in Docs
      /\ Armed(r) /\ Unset \notin Intervals
      /\ pc[r] \in {"save", "restore", "reupsert"} => previous[r] \in Intervals
  BY SchedulesAssumption DEF Typed, TypeOK
<1>2. \A q \in Reqs : q # r => pc'[q] = pc[q] /\ op'[q] = op[q] /\ target'[q] = target[q]
  BY <1>1 DEF Goto, KeepRequest, NewRequest, BeginCreate, BeginUpdate, BeginDelete, Begin,
     Proceeding, Creating, CountMonitors, InsertMonitor, UndoCreate, Updating, FindMonitor,
     SaveUpdate, RestoreDocument, RestoreSchedule, Scheduling, UpsertScheduler, AddInitialJob,
     ScheduleFails, Deleting, PurgeLogs, RemoveMonitor, Unschedule, MongoFails, Forgetting,
     Respond, CrashApi, Forget
<1> DEFINE Touches(m) == m = target[r] /\ pc[r] # "idle"
<1>3. ASSUME NEW m \in Monitors, doc'[m] = doc[m], scheduler'[m] = scheduler[m],
             ~(Touches(m) /\ pc[r] = "upsert")
      PROVE  Unchecked(m)' => Unchecked(m)
  <2>1. ASSUME NEW q \in Reqs, op[q] = "create", target[q] = m, pc[q] = "upsert"
        PROVE  op'[q] = "create" /\ target'[q] = m /\ pc'[q] = "upsert"
    BY <1>2, <1>3, <2>1
  <2>2. QED
    BY <1>3, <2>1 DEF Unchecked, Exists
<1>4. ASSUME NEW m \in Monitors, ~Touches(m)
      PROVE  Unchecked(m)' => Unchecked(m)
  <2>1. UNCHANGED <<doc[m], scheduler[m]>>
    BY <1>1, <1>4 DEF Docs, Store, Schedule, NewRequest, BeginCreate, BeginUpdate, BeginDelete, Begin,
     Proceeding, Creating, CountMonitors, InsertMonitor, UndoCreate, Updating, FindMonitor,
     SaveUpdate, RestoreDocument, RestoreSchedule, Scheduling, UpsertScheduler, AddInitialJob,
     ScheduleFails, Deleting, PurgeLogs, RemoveMonitor, Unschedule, MongoFails, Forgetting,
     Respond, CrashApi, Forget
  <2>2. QED
    BY <1>3, <1>4, <2>1
<1>5. ASSUME faults' = faults + 1
      PROVE  UncheckedSet' \subseteq UncheckedSet \cup {target[r]} /\ faults' = faults + 1
  BY <1>4, <1>5 DEF UncheckedSet
<1>6. ASSUME UNCHANGED <<doc, scheduler>>, pc[r] # "upsert"
      PROVE  UncheckedSet' \subseteq UncheckedSet
  BY <1>3, <1>6 DEF UncheckedSet
<1>7. ASSUME pc[r] # "idle", \A m \in Monitors : m = target[r] => ~Unchecked(m)'
      PROVE  UncheckedSet' \subseteq UncheckedSet
  BY <1>4, <1>7 DEF UncheckedSet
<1>8. CASE NewRequest(r)
  <2>1. UNCHANGED <<doc, scheduler, faults>> /\ pc[r] = "idle"
    BY <1>8 DEF NewRequest, BeginCreate, BeginUpdate, BeginDelete, Begin
  <2>2. QED
    BY <1>6, <2>1
<1>9. CASE CountMonitors(r) \/ FindMonitor(r) \/ AddInitialJob(r) \/ PurgeLogs(r) \/ Respond(r)
  <2>1. UNCHANGED <<doc, scheduler, faults>> /\ pc[r] # "upsert"
    BY <1>9 DEF CountMonitors, FindMonitor, AddInitialJob, PurgeLogs, Respond, Forget, tally
  <2>2. QED
    BY <1>6, <2>1
<1>10. CASE InsertMonitor(r)
  <2>1. pc'[r] = "upsert" /\ op'[r] = "create" /\ target'[r] = target[r] /\ pc[r] # "idle" /\ faults' = faults
    BY <1>1, <1>10 DEF InsertMonitor, Goto, KeepRequest, Armed, tally
  <2>2. QED
    BY <1>7, <2>1 DEF Unchecked
<1>11. CASE UndoCreate(r) \/ RemoveMonitor(r)
  <2>1. pc[r] # "idle" /\ faults' = faults /\ (\A m \in Monitors : m = target[r] => doc'[m] = Unset)
    BY <1>1, <1>11 DEF UndoCreate, RemoveMonitor, Store, Exists, tally, Docs
  <2>2. QED
    BY <1>7, <2>1 DEF Unchecked, Exists, UncheckedSet
<1>12. CASE SaveUpdate(r) \/ RestoreDocument(r)
  <2>1. /\ op'[r] = op[r] /\ op[r] = "update" /\ UNCHANGED <<scheduler, faults>>
        /\ doc'[target[r]] # Unset => doc[target[r]] # Unset
    BY <1>1, <1>12 DEF SaveUpdate, RestoreDocument, KeepRequest, Armed, tally, Exists
  <2>2. ASSUME NEW m \in Monitors, m = target[r], Unchecked(m)'
        PROVE  Unchecked(m)
    <3>1. doc[m] # Unset /\ scheduler[m] = Unset
      BY <2>1, <2>2 DEF Unchecked, Exists
    <3>2. ASSUME NEW q \in Reqs, op[q] = "create", target[q] = m, pc[q] = "upsert"
          PROVE  FALSE
      <4>1. q # r
        BY <2>1, <3>2
      <4>2. op'[q] = "create" /\ target'[q] = m /\ pc'[q] = "upsert"
        BY <1>2, <3>2, <4>1
      <4>3. QED
        BY <2>2, <4>2 DEF Unchecked
    <3>3. QED
      BY <3>1, <3>2 DEF Unchecked, Exists
  <2>3. QED
    BY <1>4, <2>1, <2>2 DEF UncheckedSet
<1>13. CASE UpsertScheduler(r)
  <2>1. pc[r] # "idle" /\ faults' = faults /\ (\A m \in Monitors : m = target[r] => scheduler'[m] = wanted[r])
    BY <1>1, <1>13 DEF UpsertScheduler, Schedule, tally, Docs
  <2>2. wanted[r] # Unset
    BY <1>1, <1>13 DEF UpsertScheduler, Armed
  <2>3. QED
    BY <1>7, <2>1, <2>2 DEF Unchecked
<1>14. CASE RestoreSchedule(r)
  <2>1. CASE Fault("redis")
    BY <1>5, <2>1 DEF Fault
  <2>2. CASE Schedule(target[r], previous[r]) /\ UNCHANGED tally
    <3>1. pc[r] # "idle" /\ (\A m \in Monitors : m = target[r] => scheduler'[m] = previous[r])
      BY <1>1, <1>14, <2>2 DEF RestoreSchedule, Schedule, Docs
    <3>2. previous[r] # Unset
      BY <1>1, <1>14 DEF RestoreSchedule
    <3>3. QED
      BY <1>7, <2>2, <3>1, <3>2 DEF Unchecked, tally
  <2>3. QED
    BY <1>14, <2>1, <2>2 DEF RestoreSchedule
<1>15. CASE Unschedule(r)
  <2>1. CASE Fault("redis")
    BY <1>5, <2>1 DEF Fault
  <2>2. CASE UNCHANGED tally
    <3>1. pc[r] # "idle" /\ doc'[target[r]] = Unset
      BY <1>15 DEF Unschedule, Ids, Exists
    <3>2. QED
      BY <1>7, <2>2, <3>1 DEF Unchecked, Exists, tally
  <2>3. QED
    BY <1>15, <2>1, <2>2 DEF Unschedule
<1>16. CASE ScheduleFails(r) \/ MongoFails(r) \/ CrashApi(r)
  BY <1>5, <1>16 DEF ScheduleFails, MongoFails, CrashApi, Fault
<1>17. QED
  BY <1>8, <1>9, <1>10, <1>11, <1>12, <1>13, <1>14, <1>15, <1>16
     DEF Proceeding, Creating, Updating, Scheduling, Deleting, Forgetting

\* A monitor is left without its scheduler only by a fault.
LEMMA UncheckedKept ==
  Typed /\ Ids /\ UncheckedMonitorsAreFaults /\ Workers = {} /\ [Next]_vars
    => UncheckedMonitorsAreFaults'
<1> SUFFICES ASSUME Typed, Ids, UncheckedMonitorsAreFaults, Workers = {}, [Next]_vars
             PROVE  Cardinality(UncheckedSet') <= faults'
  BY DEF UncheckedMonitorsAreFaults, UncheckedSet
<1>1. /\ IsFiniteSet(UncheckedSet) /\ Cardinality(UncheckedSet) \in Nat
      /\ IsFiniteSet(UncheckedSet') /\ Cardinality(UncheckedSet') \in Nat
      /\ faults \in Nat /\ Cardinality(UncheckedSet) <= faults
  BY SchedulesAssumption, FS_Subset, FS_CardinalityType
     DEF UncheckedSet, Typed, TypeOK, UncheckedMonitorsAreFaults
<1>2. CASE UncheckedSet' \subseteq UncheckedSet /\ faults' = faults
  <2>1. Cardinality(UncheckedSet') <= Cardinality(UncheckedSet)
    BY <1>1, <1>2, FS_Subset
  <2>2. QED
    BY <1>1, <1>2, <2>1
<1>3. ASSUME NEW m, UncheckedSet' \subseteq UncheckedSet \cup {m}, faults' = faults + 1
      PROVE  Cardinality(UncheckedSet') <= faults'
  <2>1. /\ IsFiniteSet(UncheckedSet \cup {m})
        /\ Cardinality(UncheckedSet \cup {m}) <= Cardinality(UncheckedSet) + 1
    BY <1>1, FS_AddElement
  <2>2. /\ Cardinality(UncheckedSet') <= Cardinality(UncheckedSet \cup {m})
        /\ Cardinality(UncheckedSet \cup {m}) \in Nat
    BY <1>3, <2>1, FS_Subset, FS_CardinalityType
  <2>3. QED
    BY <1>1, <1>3, <2>1, <2>2
<1>4. CASE UNCHANGED vars
  <2>1. UncheckedSet' = UncheckedSet /\ faults' = faults
    BY <1>4 DEF vars, reqVars, tally, UncheckedSet, Unchecked, Exists
  <2>2. QED
    BY <1>2, <2>1
<1>5. QED
  BY <1>2, <1>3, <1>4, RequestCases, UncheckedStep

\* Without a worker that starts in between, each monitor left unscheduled cost a failed call
\* or a crash, for any overlap of creates, updates and deletes.
THEOREM OnlyFaultsUnschedule ==
  ASSUME Workers = {}
  PROVE  Spec => []UncheckedMonitorsAreFaults
<1>1. Init => Ids /\ UncheckedMonitorsAreFaults
  <2>1. Init => Ids
    BY DEF Init, Idle, Ids, Live, Exists, Nothing
  <2>2. Init => UncheckedSet = {} /\ faults = 0
    BY DEF Init, Idle, UncheckedSet, Unchecked, Exists, Nothing
  <2>3. QED
    BY <2>1, <2>2, FS_EmptySet DEF UncheckedMonitorsAreFaults, UncheckedSet
<1>2. Typed /\ Ids /\ UncheckedMonitorsAreFaults /\ [Next]_vars
        => (Typed /\ Ids /\ UncheckedMonitorsAreFaults)'
  BY TypedStep, IdsStep, UncheckedKept
<1>3. QED
  BY <1>1, <1>2, InitTyped, PTL DEF Spec

-----------------------------------------------------------------------------
(* Compensation *)

\* Documents and schedulers agree, but for the monitors of S.
InStep(S) == \A m \in Monitors \ S : Exists(m) => scheduler[m] = doc[m]

\* Documents of other monitors are as they were when the request began.
Elsewhere(r) == \A m \in Monitors : m # target[r] => doc[m] = before[r][m]

\* How far a request that nothing disturbs has come, or has gone back.
Stage(r) ==
  /\ pc[r] \in {"count", "insert", "find", "save", "purge", "remove", "refused", "failed", "ok"}
       => InStep({})
  /\ pc[r] \in {"count", "insert", "find", "save", "purge", "remove", "refused", "failed", "reupsert"}
       => doc = before[r]
  /\ pc[r] \in {"save", "reupsert"} => doc[target[r]] = previous[r]
  /\ pc[r] \in {"upsert", "add", "undo", "restore"} =>
       /\ Elsewhere(r) /\ doc[target[r]] = wanted[r]
       /\ before[r][target[r]] = IF op[r] = "create" THEN Unset ELSE previous[r]
  /\ pc[r] \in {"upsert", "add", "undo", "restore", "reupsert", "unschedule"} => InStep({target[r]})
  /\ pc[r] = "add" => scheduler[target[r]] = wanted[r]
  /\ pc[r] = "unschedule" /\ op[r] = "create" => doc = before[r]
  /\ pc[r] \in {"undo", "restore", "reupsert"} => faults # 0

Undisturbed ==
  calm =>
    /\ \A r, q \in Reqs : pc[r] # "idle" /\ pc[q] # "idle" => r = q
    /\ \A r \in Reqs : pc[r] # "idle" => Stage(r)
    /\ (\A r \in Reqs : pc[r] = "idle") => InStep({})

\* The request alone decides whether the invariant is kept.
LEMMA StageSuffices ==
  ASSUME Typed, Undisturbed, NEW r \in Reqs, Proceeding(r), calm' => calm /\ Stage(r)'
  PROVE  Undisturbed'
<1>1. PICK await : Goto(r, await) /\ pc[r] # "idle" /\ await # "idle"
  BY ProceedingAdvances DEF Advances
<1>2. pc'[r] # "idle" /\ \A q \in Reqs : q # r => pc'[q] = pc[q]
  BY <1>1 DEF Goto, Typed, TypeOK
<1>3. calm' => \A q \in Reqs : pc'[q] # "idle" => q = r
  BY <1>1, <1>2 DEF Undisturbed
<1>4. QED
  BY <1>2, <1>3 DEF Undisturbed

\* A document restored by a request that is alone is the one it found.
LEMMA Restored ==
  ASSUME Typed, NEW r \in Reqs, Elsewhere(r), Store(target[r], before[r][target[r]])
  PROVE  doc' = before[r]
<1>1. doc \in Docs /\ before[r] \in Docs
  BY DEF Typed, TypeOK
<1>2. \A m \in Monitors : doc'[m] = before[r][m]
  BY <1>1 DEF Store, Elsewhere, Docs
<1>3. doc' \in Docs
  BY <1>1 DEF Store, Docs
<1>4. QED
  BY <1>1, <1>2, <1>3 DEF Docs

\* A request that meets no other reaches its next stage.
LEMMA StageStep ==
  ASSUME Typed, Ids, Undisturbed, MaxFaults \in {0, 1}, NEW r \in Reqs, Proceeding(r), calm'
  PROVE  calm /\ Stage(r)'
<1>1. calm
  BY DEF Proceeding, Creating, CountMonitors, InsertMonitor, UndoCreate, Updating, FindMonitor,
     SaveUpdate, RestoreDocument, RestoreSchedule, Scheduling, UpsertScheduler, AddInitialJob,
     ScheduleFails, Deleting, PurgeLogs, RemoveMonitor, Unschedule, MongoFails, Fault, tally
<1>2. /\ doc \in Docs /\ scheduler \in Docs /\ before[r] \in Docs /\ pc \in [Reqs -> Awaits]
      /\ Armed(r) /\ faults \in Nat /\ previous \in [Reqs -> Setting]
  BY DEF Typed, TypeOK
<1>3. pc[r] # "idle" /\ target[r] \in Monitors /\ Stage(r)
  BY <1>1, <1>2, ProceedingAdvances DEF Advances, Undisturbed, Armed
<1>4. Unset \notin Intervals
  BY SchedulesAssumption
<1> SUFFICES Stage(r)'
  BY <1>1
<1> USE <1>2, <1>3
<1>5. CASE CountMonitors(r) \/ PurgeLogs(r)
  <2>1. /\ pc'[r] \in {"refused", "insert", "remove"} /\ pc[r] \in {"count", "purge"}
        /\ UNCHANGED <<doc, scheduler, before>>
    BY <1>5 DEF CountMonitors, PurgeLogs, Goto, KeepRequest
  <2>2. QED
    BY <2>1 DEF Stage, InStep, Exists
<1>6. CASE FindMonitor(r)
  <2>1. /\ pc[r] = "find" /\ UNCHANGED <<doc, scheduler, before, target>>
        /\ \/ pc'[r] = "refused"
           \/ pc'[r] \in {"save", "purge"} /\ previous'[r] = doc[target[r]]
    BY <1>6 DEF FindMonitor, Goto
  <2>2. QED
    BY <2>1 DEF Stage, InStep, Exists
<1>7. CASE InsertMonitor(r)
  <2>1. /\ pc[r] = "insert" /\ pc'[r] = "upsert" /\ op[r] = "create" /\ ~Exists(target[r])
        /\ UNCHANGED <<scheduler, before, target, op, wanted, previous>>
        /\ Store(target[r], wanted[r])
    BY <1>7 DEF InsertMonitor, Goto, KeepRequest, Armed, Ids
  <2>2. doc'[target[r]] = wanted[r] /\ \A m \in Monitors : m # target[r] => doc'[m] = doc[m]
    BY <2>1, StoreEffect
  <2>3. doc = before[r] /\ InStep({})
    BY <2>1 DEF Stage
  <2>4. InStep({target[r]})' /\ Elsewhere(r)'
    BY <2>1, <2>2, <2>3 DEF InStep, Exists, Elsewhere
  <2>5. QED
    BY <2>1, <2>2, <2>3, <2>4 DEF Stage, Exists
<1>8. CASE UndoCreate(r)
  <2>1. /\ pc[r] = "undo" /\ pc'[r] = "unschedule" /\ op[r] = "create"
        /\ UNCHANGED <<scheduler, before, target, op>> /\ Store(target[r], Unset)
    BY <1>8 DEF UndoCreate, Goto, KeepRequest, Armed
  <2>2. doc' = before[r] /\ \A m \in Monitors : m # target[r] => doc'[m] = doc[m]
    BY <2>1, Restored, StoreEffect DEF Stage
  <2>3. InStep({target[r]})'
    BY <2>1, <2>2 DEF Stage, InStep, Exists
  <2>4. QED
    BY <2>1, <2>2, <2>3 DEF Stage
<1>9. CASE SaveUpdate(r)
  <2>1. /\ pc[r] = "save" /\ op[r] = "update" /\ wanted[r] \in Intervals
        /\ UNCHANGED <<scheduler, before, target, op, wanted, previous>>
        /\ doc[target[r]] = previous[r] /\ doc = before[r] /\ InStep({})
    BY <1>9 DEF SaveUpdate, KeepRequest, Armed, Stage
  <2>2. previous[r] \in Intervals
    BY <2>1 DEF Typed, TypeOK
  <2>3. pc'[r] = "upsert" /\ doc'[target[r]] = wanted[r]
        /\ \A m \in Monitors : m # target[r] => doc'[m] = doc[m]
    BY <1>4, <1>9, <2>1, <2>2, StoreEffect DEF SaveUpdate, Goto, Exists
  <2>4. InStep({target[r]})' /\ Elsewhere(r)'
    BY <2>1, <2>3 DEF InStep, Exists, Elsewhere
  <2>5. QED
    BY <2>1, <2>3, <2>4 DEF Stage
<1>10. CASE RestoreDocument(r)
  <2>1. /\ pc[r] = "restore" /\ op[r] = "update" /\ wanted[r] \in Intervals /\ faults # 0
        /\ UNCHANGED <<scheduler, before, target, op, previous, faults>>
        /\ doc[target[r]] = wanted[r] /\ Elsewhere(r) /\ InStep({target[r]})
        /\ before[r][target[r]] = previous[r]
    BY <1>10 DEF RestoreDocument, KeepRequest, Armed, Stage, tally
  <2>2. pc'[r] = "reupsert" /\ Store(target[r], before[r][target[r]])
    <3>1. Exists(target[r])
      BY <1>4, <2>1 DEF Exists
    <3>2. wanted[r] = previous[r] /\ UNCHANGED doc => Store(target[r], previous[r])
      BY <2>1 DEF Store, Docs
    <3>3. QED
      BY <1>10, <2>1, <3>1, <3>2 DEF RestoreDocument, Goto
  <2>3. doc' = before[r] /\ \A m \in Monitors : m # target[r] => doc'[m] = doc[m]
    BY <2>1, <2>2, Restored, StoreEffect
  <2>4. InStep({target[r]})'
    BY <2>1, <2>3 DEF InStep, Exists
  <2>5. QED
    BY <2>1, <2>2, <2>3, <2>4 DEF Stage
<1>11. CASE RestoreSchedule(r)
  <2>1. /\ pc[r] = "reupsert" /\ pc'[r] = "failed" /\ faults # 0
        /\ UNCHANGED <<doc, before, target>>
        /\ doc[target[r]] = previous[r] /\ doc = before[r] /\ InStep({target[r]})
    BY <1>11 DEF RestoreSchedule, Goto, KeepRequest, Stage
  <2>2. Schedule(target[r], previous[r])
    <3>1. MaxFaults <= 1 /\ ~(faults < MaxFaults)
      BY <2>1
    <3>2. QED
      BY <1>11, <3>1 DEF RestoreSchedule, Fault
  <2>3. InStep({})'
    BY <2>1, <2>2 DEF InStep, Exists, Schedule, Docs
  <2>4. QED
    BY <2>1, <2>3 DEF Stage
<1>12. CASE UpsertScheduler(r)
  <2>1. /\ pc[r] = "upsert" /\ pc'[r] = "add" /\ UNCHANGED <<doc, before, target, op, wanted, previous>>
        /\ Schedule(target[r], wanted[r])
    BY <1>12 DEF UpsertScheduler, Goto, KeepRequest
  <2>2. scheduler'[target[r]] = wanted[r] /\ InStep({target[r]})'
    BY <2>1 DEF Stage, InStep, Exists, Schedule, Docs
  <2>3. Elsewhere(r)'
    BY <2>1 DEF Stage, Elsewhere
  <2>4. QED
    BY <2>1, <2>2, <2>3 DEF Stage
<1>13. CASE AddInitialJob(r)
  <2>1. pc[r] = "add" /\ pc'[r] = "ok" /\ UNCHANGED <<doc, scheduler, target>>
    BY <1>13 DEF AddInitialJob, Goto, KeepRequest
  <2>2. InStep({})'
    BY <2>1 DEF Stage, InStep, Exists
  <2>3. QED
    BY <2>1, <2>2 DEF Stage
<1>14. CASE ScheduleFails(r)
  <2>1. /\ pc[r] \in {"upsert", "add"} /\ pc'[r] \in {"undo", "restore"} /\ faults' # 0
        /\ UNCHANGED <<doc, before, target, op, wanted, previous>>
        /\ Schedule(target[r], wanted[r]) \/ UNCHANGED scheduler
    BY <1>14 DEF ScheduleFails, Goto, KeepRequest, Fault
  <2>2. InStep({target[r]})'
    BY <2>1 DEF Stage, InStep, Exists, Schedule, Docs
  <2>3. Elsewhere(r)'
    BY <2>1 DEF Stage, Elsewhere
  <2>4. QED
    BY <2>1, <2>2, <2>3 DEF Stage
<1>15. CASE RemoveMonitor(r)
  <2>1. /\ pc[r] = "remove" /\ pc'[r] = "unschedule" /\ op[r] = "delete"
        /\ UNCHANGED <<scheduler, target, op>> /\ Store(target[r], Unset)
    BY <1>15 DEF RemoveMonitor, Goto, KeepRequest, Armed
  <2>2. InStep({target[r]})'
    BY <2>1, StoreEffect DEF Stage, InStep, Exists
  <2>3. QED
    BY <2>1, <2>2 DEF Stage
<1>16. CASE Unschedule(r)
  <2>1. /\ pc[r] = "unschedule" /\ ~Exists(target[r]) /\ UNCHANGED <<doc, before, target>>
        /\ pc'[r] = IF op[r] = "create" THEN "failed" ELSE "ok"
        /\ Schedule(target[r], Unset) \/ UNCHANGED scheduler
    BY <1>16 DEF Unschedule, Goto, KeepRequest, Ids
  <2>2. InStep({})'
    BY <2>1 DEF Stage, InStep, Exists, Schedule, Docs
  <2>3. QED
    BY <2>1, <2>2 DEF Stage
<1>17. CASE MongoFails(r)
  BY <1>17 DEF MongoFails, Fault
<1>18. QED
  BY <1>1, <1>5, <1>6, <1>7, <1>8, <1>9, <1>10, <1>11, <1>12, <1>13, <1>14, <1>15, <1>16, <1>17
     DEF Proceeding, Creating, Updating, Scheduling, Deleting

\* Every step keeps the stages of requests that meet no other.
LEMMA UndisturbedKept ==
  ASSUME Typed, Ids, Undisturbed, MaxFaults \in {0, 1}, Workers = {}, [Next]_vars
  PROVE  Undisturbed'
<1>1. pc \in [Reqs -> Awaits] /\ before \in [Reqs -> Docs]
  BY DEF Typed, TypeOK
<1>2. ASSUME NEW r \in Reqs, NewRequest(r)
      PROVE  Undisturbed'
  <2>1. /\ UNCHANGED <<doc, scheduler>> /\ before'[r] = doc
        /\ pc'[r] \in {"count", "find"} /\ \A q \in Reqs : q # r => pc'[q] = pc[q]
        /\ calm' => calm /\ \A q \in Reqs : pc[q] = "idle"
    BY <1>1, <1>2 DEF NewRequest, BeginCreate, BeginUpdate, BeginDelete, Begin, Goto
  <2>2. calm' => InStep({})'
    BY <2>1 DEF Undisturbed, InStep, Exists
  <2>3. calm' => Stage(r)'
    BY <2>1, <2>2 DEF Stage
  <2>4. QED
    BY <2>1, <2>3 DEF Undisturbed
<1>3. ASSUME NEW r \in Reqs, Proceeding(r)
      PROVE  Undisturbed'
  BY <1>3, StageStep, StageSuffices
<1>4. ASSUME NEW r \in Reqs, Forgetting(r)
      PROVE  Undisturbed'
  <2>1. /\ UNCHANGED <<doc, scheduler>> /\ pc'[r] = "idle"
        /\ \A q \in Reqs : q # r => pc'[q] = pc[q]
    BY <1>1, <1>4 DEF Forgetting, Respond, CrashApi, Forget, Goto
  <2>2. calm' => calm /\ pc[r] \in {"ok", "failed", "refused"}
    <3>1. CASE Respond(r)
      BY <3>1 DEF Respond, tally
    <3>2. CASE CrashApi(r)
      BY <3>2 DEF CrashApi, Fault
    <3>3. QED
      BY <1>4, <3>1, <3>2 DEF Forgetting
  <2>3. calm' => \A q \in Reqs : pc'[q] = "idle"
    BY <2>1, <2>2 DEF Undisturbed
  <2>4. calm' => InStep({})'
    BY <2>1, <2>2 DEF Undisturbed, Stage, InStep, Exists
  <2>5. QED
    BY <2>3, <2>4 DEF Undisturbed
<1>5. CASE UNCHANGED vars
  <2>1. UNCHANGED <<doc, scheduler, pc, op, target, wanted, previous, before, calm, faults>>
    BY <1>5 DEF vars, reqVars, tally
  <2>2. \A r \in Reqs : Stage(r) => Stage(r)'
    BY <2>1 DEF Stage, InStep, Exists, Elsewhere
  <2>3. InStep({}) => InStep({})'
    BY <2>1 DEF InStep, Exists
  <2>4. QED
    BY <2>1, <2>2, <2>3 DEF Undisturbed
<1>6. QED
  BY <1>2, <1>3, <1>4, <1>5, RequestCases

\* With at most one fault, such requests are always at one of their stages.
LEMMA UndisturbedAlways ==
  ASSUME Workers = {}, MaxFaults \in {0, 1}
  PROVE  Spec => [](Typed /\ Undisturbed)
<1>1. Init => Ids /\ Undisturbed
  BY DEF Init, Idle, Ids, Undisturbed, InStep, Live, Exists, Nothing
<1>2. Typed /\ Ids /\ Undisturbed /\ [Next]_vars => (Typed /\ Ids /\ Undisturbed)'
  BY TypedStep, IdsStep, UndisturbedKept
<1>3. QED
  BY <1>1, <1>2, InitTyped, PTL DEF Spec

\* Requests one after the other leave documents and schedulers in step (README.md:39-40),
\* even if a call to Redis fails.
THEOREM SerialRequestsSchedule ==
  ASSUME Workers = {}, MaxFaults \in {0, 1}
  PROVE  Spec => []EveryMonitorScheduled
<1>1. Typed /\ Undisturbed => EveryMonitorScheduled
  BY DEF EveryMonitorScheduled, Quiet, Undisturbed, InStep
<1>2. QED
  BY <1>1, UndisturbedAlways, PTL

\* A create or update that failed in Redis is undone: documents are as before it and the
\* schedulers in step with them (createMonitor, updateMonitor).
THEOREM FailureIsUndone ==
  ASSUME Workers = {}, MaxFaults \in {0, 1}
  PROVE  Spec => []FailedRequestLeavesNoTrace
<1>1. Typed /\ Undisturbed => FailedRequestLeavesNoTrace
  BY DEF FailedRequestLeavesNoTrace, Undisturbed, Stage, InStep
<1>2. QED
  BY <1>1, UndisturbedAlways, PTL
=============================================================================
