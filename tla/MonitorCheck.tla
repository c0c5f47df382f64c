---------------------------- MODULE MonitorCheck ----------------------------
(***************************************************************************)
(* The monitor worker: concurrency slots of any number of worker processes *)
(* take check jobs from the BullMQ queue and run processMonitorCheck, one  *)
(* await at a time, against MongoDB, Redis, the checked endpoint and       *)
(* Telegram, while the API edits and deletes monitors.                     *)
(*                                                                         *)
(* Faults is the set of kinds of fault a run allows:                       *)
(*   "crash"     a busy slot dies with its worker; BullMQ may hand its job on    *)
(*   "mongo"     a MongoDB call fails, before or after taking effect       *)
(*   "redis"     the lock's reply is lost, or its release fails            *)
(*   "telegram"  the alert cannot be delivered                             *)
(*   "lease"     a lock's TTL runs out while its holder is still checking  *)
(***************************************************************************)
EXTENDS MonitorState, FiniteSets, Sequences

CONSTANTS Monitors,      \* identifiers of the monitors that exist at the start
          Slots,         \* concurrency slots of all worker processes
          Codes,         \* HTTP status codes
          NoResponse,    \* the endpoint did not answer (statusCode null)
          NoDoc,         \* the document of a deleted monitor
          NoMonitor,     \* what an idle slot works on
          Free,          \* the value of a lock key that does not exist
          Faults,        \* kinds of fault allowed, see above
          MaxQueued,     \* bound: jobs waiting per monitor
          MaxFailures,   \* bound: a monitor failing this often is not checked again
          MaxFaults,     \* bound: number of faults (a crash counts each busy slot)
          MaxChanges     \* bound: number of edits and of changes of an endpoint

Doc == [status : Statuses, failureCount : Nat, downSince : BOOLEAN,
        expectedStatus : Codes]

ASSUME ConstantsAssumption ==
  /\ NoResponse \notin Codes
  /\ NoDoc \notin Doc
  /\ NoMonitor \notin Monitors
  /\ Free \notin Slots
  /\ IsFiniteSet(Slots)
  /\ MaxQueued \in Nat /\ MaxFailures \in Nat
  /\ MaxFaults \in Nat /\ MaxChanges \in Nat

VARIABLES
  docs,      \* docs[m]: the EndpointMonitor document, or NoDoc
  purged,    \* purged[m]: a delete request has removed the history, not yet the document
  lock,      \* lock[m]: slot whose token the Redis lock key holds, or Free
  queue,     \* queue[m]: jobs of the monitor that wait for a slot
  answer,    \* answer[m]: what its endpoint answers now
  pc,        \* pc[s]: the await the slot is at
  job,       \* job[s]: the monitor the slot checks, or NoMonitor
  seen,      \* seen[s]: the document it loaded, or NoDoc
  code,      \* code[s]: the status code the check got
  outcome,   \* outcome[s]: Quiet, Rejected or the alert to send after the release
  turns,     \* history: turns[m] counts the persisted changes the owner should hear of
  sent,      \* history: sent[m], the alerts Telegram delivered, in order
  faults,    \* bound counter: faults so far
  changes    \* bound counter: edits and changes of an endpoint so far

slotVars == <<pc, job, seen, code, outcome>>
tally    == <<turns, sent>>
bounds   == <<faults, changes>>
apiVars  == <<purged, answer>>
vars     == <<docs, apiVars, lock, queue, slotVars, tally, bounds>>

Answers == Codes \cup {NoResponse}
Alert == [status : {"UP", "DOWN"}, turn : Nat]
Quiet == [status |-> "none", turn |-> 0]     \* nothing to send
Rejected == [status |-> "error", turn |-> 0] \* the try block threw
Awaits == {"idle", "acquire", "load", "test", "save", "log", "release", "alert"}

TypeOK ==
  /\ docs \in [Monitors -> Doc \cup {NoDoc}]
  /\ purged \in [Monitors -> BOOLEAN]
  /\ lock \in [Monitors -> Slots \cup {Free}]
  /\ queue \in [Monitors -> Nat]
  /\ answer \in [Monitors -> Answers]
  /\ pc \in [Slots -> Awaits]
  /\ job \in [Slots -> Monitors \cup {NoMonitor}]
  /\ seen \in [Slots -> Doc \cup {NoDoc}]
  /\ code \in [Slots -> Answers]
  /\ outcome \in [Slots -> Alert \cup {Quiet, Rejected}]
  /\ turns \in [Monitors -> Nat]
  /\ sent \in [Monitors -> Seq(Alert)]
  /\ faults \in Nat
  /\ changes \in Nat

\* The worker starts on monitors that the API has just created.
Init ==
  /\ \E expected \in [Monitors -> Codes] :
       docs = [m \in Monitors |-> [status |-> "PENDING", failureCount |-> 0,
                                   downSince |-> FALSE,
                                   expectedStatus |-> expected[m]]]
  /\ purged = [m \in Monitors |-> FALSE]
  /\ lock = [m \in Monitors |-> Free]
  /\ queue = [m \in Monitors |-> 0]
  /\ answer \in [Monitors -> Answers]
  /\ pc = [s \in Slots |-> "idle"]
  /\ job = [s \in Slots |-> NoMonitor]
  /\ seen = [s \in Slots |-> NoDoc]
  /\ code = [s \in Slots |-> NoResponse]
  /\ outcome = [s \in Slots |-> Quiet]
  /\ turns = [m \in Monitors |-> 0]
  /\ sent = [m \in Monitors |-> << >>]
  /\ faults = 0
  /\ changes = 0

Exists(m) == docs[m] # NoDoc

\* The awaits between a successful acquire and the release of the lock.
Checking(s) == pc[s] \in {"load", "test", "save", "log", "release"}

Fault(kind) ==
  /\ kind \in Faults
  /\ faults < MaxFaults
  /\ faults' = faults + 1
  /\ UNCHANGED changes

-----------------------------------------------------------------------------
(* What the slots do between awaits. *)

Goto(s, await) == pc' = [pc EXCEPT ![s] = await]

\* The job is over: the slot forgets it.
Done(s) ==
  /\ Goto(s, "idle")
  /\ job' = [job EXCEPT ![s] = NoMonitor]
  /\ seen' = [seen EXCEPT ![s] = NoDoc]
  /\ code' = [code EXCEPT ![s] = NoResponse]
  /\ outcome' = [outcome EXCEPT ![s] = Quiet]

\* BullMQ puts a failed or stalled job back unless its attempts are used up.
Requeue(m) ==
  \/ queue' = queue
  \/ queue[m] < MaxQueued /\ queue' = [queue EXCEPT ![m] = @ + 1]

\* processMonitorCheck rejected.
JobFails(s) == Done(s) /\ Requeue(job[s])

\* The steps below fail inside the try block: the lock is released next.
Throw(s) ==
  /\ Goto(s, "release")
  /\ outcome' = [outcome EXCEPT ![s] = Rejected]
  /\ UNCHANGED <<job, seen, code>>

-----------------------------------------------------------------------------
(* processMonitorCheck *)

\* A slot starts the oldest job of a monitor.
TakeJob(s, m) ==
  /\ pc[s] = "idle"
  /\ queue[m] > 0
  /\ Exists(m) => \/ docs[m].failureCount < MaxFailures
                  \/ answer[m] = docs[m].expectedStatus
  /\ queue' = [queue EXCEPT ![m] = @ - 1]
  /\ Goto(s, "acquire")
  /\ job' = [job EXCEPT ![s] = m]
  /\ UNCHANGED <<docs, apiVars, lock, seen, code, outcome, tally, bounds>>

\* Mutant: SET without NX.
AcquireWithoutNX(s) ==
  /\ pc[s] = "acquire"
  /\ lock' = [lock EXCEPT ![job[s]] = s]
  /\ Goto(s, "load")
  /\ UNCHANGED <<docs, apiVars, queue, job, seen, code, outcome, tally, bounds>>

\* SET NX PX found no key.
AcquireLock(s) ==
  /\ pc[s] = "acquire"
  /\ lock[job[s]] = Free
  /\ lock' = [lock EXCEPT ![job[s]] = s]
  /\ Goto(s, "load")
  /\ UNCHANGED <<docs, apiVars, queue, job, seen, code, outcome, tally, bounds>>

\* The key exists: the job completes as skipped.
LockBusy(s) ==
  /\ pc[s] = "acquire"
  /\ lock[job[s]] # Free
  /\ Done(s)
  /\ UNCHANGED <<docs, apiVars, lock, queue, tally, bounds>>

\* The connection drops after SET took effect; ioredis sends it again and
\* the second SET finds the key, so the job is skipped and the key stays.
LockReplyLost(s) ==
  /\ pc[s] = "acquire"
  /\ lock[job[s]] = Free
  /\ Fault("redis")
  /\ lock' = [lock EXCEPT ![job[s]] = s]
  /\ Done(s)
  /\ UNCHANGED <<docs, apiVars, queue, tally>>

LoadMonitor(s) ==
  /\ pc[s] = "load"
  /\ Exists(job[s])
  /\ seen' = [seen EXCEPT ![s] = docs[job[s]]]
  /\ Goto(s, "test")
  /\ UNCHANGED <<docs, apiVars, lock, queue, job, code, outcome, tally, bounds>>

\* The monitor was deleted: skipped, after the release.
MonitorGone(s) ==
  /\ pc[s] = "load"
  /\ ~ Exists(job[s])
  /\ Goto(s, "release")
  /\ UNCHANGED <<docs, apiVars, lock, queue, job, seen, code, outcome, tally, bounds>>

LoadFails(s) ==
  /\ pc[s] = "load"
  /\ Fault("mongo")
  /\ Throw(s)
  /\ UNCHANGED <<docs, apiVars, lock, queue, tally>>

\* testApiEndpoint never throws: a failure is a result like any other.
CheckEndpoint(s) ==
  /\ pc[s] = "test"
  /\ code' = [code EXCEPT ![s] = answer[job[s]]]
  /\ Goto(s, "save")
  /\ UNCHANGED <<docs, apiVars, lock, queue, job, seen, outcome, tally, bounds>>

IsSuccess(s) == code[s] = seen[s].expectedStatus
Verdict(s) == calculateMonitorState(seen[s], IsSuccess(s))

\* Assigning a path its loaded value does not mark it modified, so save()
\* leaves what another writer stored there.
Assign(stored, loaded, new) == IF new = loaded THEN stored ELSE new

\* Mutant: save() writes every path the check loaded, edited since or not.
CheckedWhole(s) ==
  LET next == Verdict(s)
  IN [seen[s] EXCEPT !.status = next.nextStatus,
                     !.failureCount = next.nextFailureCount,
                     !.downSince = next.nextStatus = "DOWN"]

\* The document after the assignments of the check and monitor.save().
Checked(s) ==
  LET stored == docs[job[s]]
      loaded == seen[s]
      next == Verdict(s)
      turned == next.nextStatus # loaded.status
  IN [status |-> Assign(stored.status, loaded.status, next.nextStatus),
      failureCount |->
        Assign(stored.failureCount, loaded.failureCount, next.nextFailureCount),
      downSince |->
        IF turned /\ next.nextStatus = "DOWN" THEN TRUE
        ELSE IF turned /\ loaded.status = "DOWN" /\ loaded.downSince THEN FALSE
        ELSE stored.downSince,
      expectedStatus |-> stored.expectedStatus]

\* A change of the persisted status that the owner should hear of.
Turned(old, new) == old # new /\ "DOWN" \in {old, new}

\* save() reaches MongoDB: the document changes, the history keeps the count.
Persist(s) ==
  LET m == job[s]
  IN /\ Exists(m)
     /\ docs' = [docs EXCEPT ![m] = Checked(s)]
     /\ turns' = IF Turned(docs[m].status, Checked(s).status)
                   THEN [turns EXCEPT ![m] = @ + 1] ELSE turns

SaveMonitor(s) ==
  /\ pc[s] = "save"
  /\ Persist(s)
  /\ outcome' = [outcome EXCEPT ![s] =
                   IF ChangeIsTold(seen[s].status, Verdict(s).nextStatus)
                     THEN [status |-> Verdict(s).nextStatus, turn |-> turns'[job[s]]]
                     ELSE Quiet]
  /\ Goto(s, "log")
  /\ UNCHANGED <<apiVars, lock, queue, job, seen, code, sent, bounds>>

\* save() finds no document to update and throws.
SaveGone(s) ==
  /\ pc[s] = "save"
  /\ ~ Exists(job[s])
  /\ Throw(s)
  /\ UNCHANGED <<docs, apiVars, lock, queue, tally, bounds>>

\* save() fails before or after the update was applied.
SaveFails(s) ==
  /\ pc[s] = "save"
  /\ Fault("mongo")
  /\ Persist(s) \/ UNCHANGED <<docs, turns>>
  /\ Throw(s)
  /\ UNCHANGED <<apiVars, lock, queue, sent>>

\* MonitoringLog.create; what is in the history is CheckHistory's subject.
WriteLog(s) ==
  /\ pc[s] = "log"
  /\ Goto(s, "release")
  /\ UNCHANGED <<docs, apiVars, lock, queue, job, seen, code, outcome, tally, bounds>>

\* MonitoringLog.create fails, before or after the log was written.
LogFails(s) ==
  /\ pc[s] = "log"
  /\ Fault("mongo")
  /\ Throw(s)
  /\ UNCHANGED <<docs, apiVars, lock, queue, tally>>

\* After the finally block: reject, finish, or go on to the alert.
AfterRelease(s) ==
  \/ outcome[s] = Rejected /\ JobFails(s)
  \/ outcome[s] = Quiet /\ Done(s) /\ UNCHANGED queue
  \/ /\ outcome[s] \in Alert
     /\ Goto(s, "alert")
     /\ UNCHANGED <<queue, job, seen, code, outcome>>

\* Compare-and-delete: only a key that still holds the slot's token goes.
ReleaseLock(s) ==
  /\ pc[s] = "release"
  /\ lock' = [lock EXCEPT ![job[s]] = IF @ = s THEN Free ELSE @]
  /\ AfterRelease(s)
  /\ UNCHANGED <<docs, apiVars, tally, bounds>>

\* The release fails, which is logged and swallowed: the key waits for its TTL.
ReleaseFails(s) ==
  /\ pc[s] = "release"
  /\ Fault("redis")
  /\ AfterRelease(s)
  /\ UNCHANGED <<docs, apiVars, lock, tally>>

\* sendTelegramMonitorAlert finds the chat and delivers the message.
SendAlert(s) ==
  /\ pc[s] = "alert"
  /\ sent' = [sent EXCEPT ![job[s]] = Append(@, outcome[s])]
  /\ Done(s)
  /\ UNCHANGED <<docs, apiVars, lock, queue, turns, bounds>>

\* No bot, no linked chat, or sendMessage failed: logged, and the job completes.
AlertUndelivered(s) ==
  /\ pc[s] = "alert"
  /\ Fault("telegram")
  /\ Done(s)
  /\ UNCHANGED <<docs, apiVars, lock, queue, tally>>

\* User.findById is outside the try block: its failure fails the job.
AlertLookupFails(s) ==
  /\ pc[s] = "alert"
  /\ Fault("mongo")
  /\ JobFails(s)
  /\ UNCHANGED <<docs, apiVars, lock, tally>>

\* A slot dies with its worker process; BullMQ may queue its stalled job again.  The
\* death of a process is these steps of all its busy slots, in any order, a fault each:
\* until its own step, a slot that is to die is one that has not moved on.
Crash(s) ==
  /\ pc[s] # "idle"
  /\ Fault("crash")
  /\ JobFails(s)
  /\ UNCHANGED <<docs, apiVars, lock, tally>>

-----------------------------------------------------------------------------
(* The rest of the system. *)

\* The job scheduler, or an initial job of the API, adds a check.  A deleted
\* monitor may still have a scheduler: its removal can fail.
Enqueue(m) ==
  /\ queue[m] < MaxQueued
  /\ queue' = [queue EXCEPT ![m] = @ + 1]
  /\ UNCHANGED <<docs, apiVars, lock, slotVars, tally, bounds>>

\* Mutant: the key is set without PX.
NeverExpires(m) == FALSE /\ UNCHANGED vars

\* Redis drops the key at the end of its TTL.  Without "lease" faults the
\* TTL outlasts the check of a slot that holds the lock.
Expire(m) ==
  /\ lock[m] # Free
  /\ \/ ~ \E s \in Slots : lock[m] = s /\ job[s] = m /\ Checking(s)
     \/ "lease" \in Faults
  /\ lock' = [lock EXCEPT ![m] = Free]
  /\ UNCHANGED <<docs, apiVars, queue, slotVars, tally, bounds>>

Change ==
  /\ changes < MaxChanges
  /\ changes' = changes + 1
  /\ UNCHANGED faults

\* The endpoint starts to answer differently, or the owner edits the URL.
ChangeAnswer(m) ==
  /\ Change
  /\ \E a \in Answers \ {answer[m]} : answer' = [answer EXCEPT ![m] = a]
  /\ UNCHANGED <<docs, purged, lock, queue, slotVars, tally>>

\* The document after save() wrote the expected status, and that path only.
Edited(d, c) == [status |-> d.status, failureCount |-> d.failureCount,
                 downSince |-> d.downSince, expectedStatus |-> c]

\* updateMonitor saves another expected status.
EditMonitor(m) ==
  /\ Exists(m)
  /\ Change
  /\ \E c \in Codes \ {docs[m].expectedStatus} :
       docs' = [docs EXCEPT ![m] = Edited(@, c)]
  /\ UNCHANGED <<apiVars, lock, queue, slotVars, tally>>

\* deleteMonitor removes the check history ...
DeleteLogs(m) ==
  /\ Exists(m)
  /\ ~ purged[m]
  /\ purged' = [purged EXCEPT ![m] = TRUE]
  /\ UNCHANGED <<docs, answer, lock, queue, slotVars, tally, bounds>>

\* ... and then the monitor,
DeleteMonitor(m) ==
  /\ purged[m]
  /\ docs' = [docs EXCEPT ![m] = NoDoc]
  /\ purged' = [purged EXCEPT ![m] = FALSE]
  /\ UNCHANGED <<answer, lock, queue, slotVars, tally, bounds>>

\* ... unless deleteOne fails or the API dies, which leaves the monitor
\* without its history.
DeleteFails(m) ==
  /\ purged[m]
  /\ Fault("mongo") \/ Fault("crash")
  /\ purged' = [purged EXCEPT ![m] = FALSE]
  /\ UNCHANGED <<docs, answer, lock, queue, slotVars, tally>>

-----------------------------------------------------------------------------
SlotStep(s) ==
  \/ AcquireLock(s) \/ LockBusy(s) \/ LockReplyLost(s)
  \/ LoadMonitor(s) \/ MonitorGone(s) \/ LoadFails(s)
  \/ CheckEndpoint(s)
  \/ SaveMonitor(s) \/ SaveGone(s) \/ SaveFails(s)
  \/ WriteLog(s) \/ LogFails(s)
  \/ ReleaseLock(s) \/ ReleaseFails(s)
  \/ SendAlert(s) \/ AlertUndelivered(s) \/ AlertLookupFails(s)

Environment(m) ==
  \/ Enqueue(m) \/ Expire(m) \/ ChangeAnswer(m) \/ EditMonitor(m)
  \/ DeleteLogs(m) \/ DeleteMonitor(m) \/ DeleteFails(m)

Next ==
  \/ \E s \in Slots : SlotStep(s) \/ Crash(s)
  \/ \E s \in Slots, m \in Monitors : TakeJob(s, m)
  \/ \E m \in Monitors : Environment(m)

Spec == Init /\ [][Next]_vars

\* Every await ends, every lock expires, every monitor is scheduled again and
\* again, and the queue is first in, first out.
Fairness ==
  /\ \A s \in Slots : WF_vars(SlotStep(s))
  /\ \A m \in Monitors :
       /\ WF_vars(Enqueue(m))
       /\ WF_vars(Expire(m))
       /\ SF_vars(\E s \in Slots : TakeJob(s, m))

FairSpec == Spec /\ Fairness

-----------------------------------------------------------------------------
(* Properties. *)

\* Two slots never check the same monitor at the same time (the lock of
\* acquireMonitorLock; README.md:54-55).
OneCheckAtATime ==
  \A s, t \in Slots :
    s # t /\ Checking(s) /\ Checking(t) => job[s] # job[t]

\* Whatever checks, retries, edits and faults interleave, the stored verdict
\* is coherent: DOWN exactly while FailureThreshold failures in a row stand,
\* and the start of an outage is known exactly while it lasts.
VerdictCoherent ==
  \A m \in Monitors : Exists(m) =>
    /\ docs[m].status = "DOWN" <=> docs[m].failureCount >= FailureThreshold
    /\ docs[m].downSince <=> docs[m].status = "DOWN"

\* No persisted change is reported twice, in spite of retries, stalled jobs
\* and crashes (the alert follows the save, and a retry finds it done).
NoRepeatedAlert ==
  \A m \in Monitors : \A i, j \in DOMAIN sent[m] :
    sent[m][i].turn = sent[m][j].turn => i = j

\* The alert of change k of monitor m is delivered or about to be.
Told(m, k) ==
  \/ \E i \in DOMAIN sent[m] : sent[m][i].turn = k
  \/ \E s \in Slots : /\ job[s] = m
                      /\ outcome[s] \in Alert
                      /\ outcome[s].turn = k

\* "Get one alert when an endpoint is confirmed down and another when it
\* recovers" (TelegramSettings.tsx:105): a change can stay untold, as the alert
\* is not retried, but each untold change cost a fault; overlapping checks,
\* edits and deletes lose none.
UntoldChangesAreFaults ==
  \A m \in Monitors : Cardinality({k \in 1 .. turns[m] : ~Told(m, k)}) <= faults

\* The alerts of monitor m that say st, delivered or about to be.
Alerts(m, st) ==
  Cardinality({i \in DOMAIN sent[m] : sent[m][i].status = st})
    + Cardinality({s \in Slots : /\ job[s] = m
                                 /\ outcome[s] \in Alert
                                 /\ outcome[s].status = st})
Standing(m) == IF docs[m].status = "DOWN" THEN 1 ELSE 0

\* "Get one alert when an endpoint is confirmed down and another when it
\* recovers" (TelegramSettings.tsx:105), as the owner can count it: in whatever order
\* the messages arrive (they are sent after the release and carry no time), the DOWN
\* messages exceed the UP messages by one during an outage and by none outside it,
\* but for one message per fault.  Overlapping checks, retries and edits add none.
AlertsPairUp ==
  \A m \in Monitors : Exists(m) =>
    /\ Alerts(m, "DOWN") <= Alerts(m, "UP") + Standing(m) + faults
    /\ Alerts(m, "UP") + Standing(m) <= Alerts(m, "DOWN") + faults

\* A check that loaded a monitor before an edit does not undo the edit when
\* it saves, and an edit never touches the verdict (only modified paths are
\* written).
EditsSurviveChecks ==
  [][\A m \in Monitors : Exists(m) /\ Exists(m)' =>
       \/ docs'[m].expectedStatus = docs[m].expectedStatus
       \/ /\ UNCHANGED slotVars
          /\ docs'[m] = Edited(docs[m], docs'[m].expectedStatus)]_vars

\* The worker implements the abstract incident of one monitor: every save is
\* one whole check of the stored verdict, none is lost or counted twice.
HealthOf(d) ==
  IF d = NoDoc THEN [status |-> "REMOVED", streak |-> 0, sinceKnown |-> FALSE]
  ELSE [status |-> d.status, streak |-> d.failureCount, sinceKnown |-> d.downSince]
health == [m \in Monitors |-> HealthOf(docs[m])]
Watch == INSTANCE Incidents WITH Monitors <- Monitors,
                                FailureThreshold <- FailureThreshold,
                                health <- health
ImplementsIncidents == Watch!Spec

Failing(m) == Exists(m) /\ answer[m] # docs[m].expectedStatus
Passing(m) == Exists(m) /\ answer[m] = docs[m].expectedStatus

\* An endpoint that keeps failing is eventually reported DOWN for good, one
\* that keeps answering as expected UP, whatever was in flight before.
VerdictFollowsEndpoint ==
  \A m \in Monitors :
    /\ <>[]Failing(m) => <>[](Exists(m) /\ docs[m].status = "DOWN")
    /\ <>[]Passing(m) => <>[](Exists(m) /\ docs[m].status = "UP")

\* A lock never stays taken: crashed holders and lost replies included.
LocksAreFreed ==
  \A m \in Monitors : lock[m] # Free ~> lock[m] = Free
=============================================================================
