------------------------- MODULE MonitorCheckProofs -------------------------
(***************************************************************************)
(* Proofs about MonitorCheck for any monitors, slots, codes, threshold and *)
(* bounds, as long as no lease runs out under its holder ("lease" is not   *)
(* in Faults; every other fault is allowed).                               *)
(***************************************************************************)
EXTENDS MonitorCheck, FiniteSetTheorems, TLAPS

\* A busy slot works on a monitor.
WorksOnMonitor == \A s \in Slots : pc[s] # "idle" => job[s] \in Monitors

\* A slot that tests or saves has a loaded document.
HasLoaded == \A s \in Slots : pc[s] \in {"test", "save"} => seen[s] \in Doc

\* A slot that is about to send has an alert.
HasAlert == \A s \in Slots : pc[s] = "alert" => outcome[s] \in Alert

\* Typing and the facts it rests on.
Typed == TypeOK /\ WorksOnMonitor /\ HasLoaded /\ HasAlert

\* The key of a monitor under check holds the token of the slot that checks it.
HoldsLock == \A s \in Slots : Checking(s) => lock[job[s]] = s

\* What a slot loaded is still what is stored, edits of the expectation aside.
Fresh ==
  \A s \in Slots : pc[s] \in {"test", "save"} /\ Exists(job[s]) =>
    /\ seen[s].status = docs[job[s]].status
    /\ seen[s].failureCount = docs[job[s]].failureCount
    /\ seen[s].downSince = docs[job[s]].downSince

\* The inductive invariant.
IInv == Typed /\ HoldsLock /\ Fresh /\ VerdictCoherent

-----------------------------------------------------------------------------
\* calculateMonitorState returns a count and a status of the schema.
LEMMA VerdictType ==
  ASSUME NEW d \in Doc, NEW b \in BOOLEAN
  PROVE  /\ calculateMonitorState(d, b).nextFailureCount \in Nat
         /\ calculateMonitorState(d, b).nextStatus \in Statuses
BY ThresholdAssumption DEF calculateMonitorState, Doc, Statuses

\* Saving a check leaves a document of the schema.
LEMMA CheckedType ==
  ASSUME NEW s \in Slots, seen[s] \in Doc, docs[job[s]] \in Doc
  PROVE  Checked(s) \in Doc
<1> DEFINE v == Verdict(s)
<1>1. IsSuccess(s) \in BOOLEAN
  BY DEF IsSuccess
<1>2. v.nextFailureCount \in Nat /\ v.nextStatus \in Statuses
  BY <1>1, VerdictType DEF Verdict
<1> HIDE DEF v
<1>3. QED
  BY <1>2 DEF Checked, Assign, Doc, v

\* A fault changes only the fault counter.
LEMMA FaultType ==
  ASSUME faults \in Nat, changes \in Nat, NEW kind, Fault(kind)
  PROVE  faults' \in Nat /\ changes' \in Nat
BY DEF Fault

\* A slot that ends its check is idle, with locals of the right type.
LEMMA DoneType ==
  ASSUME Typed, NEW s \in Slots, Done(s)
  PROVE  /\ pc' \in [Slots -> Awaits]
         /\ job' \in [Slots -> Monitors \cup {NoMonitor}]
         /\ seen' \in [Slots -> Doc \cup {NoDoc}]
         /\ code' \in [Slots -> Answers]
         /\ outcome' \in [Slots -> Alert \cup {Quiet, Rejected}]
         /\ WorksOnMonitor'
         /\ HasLoaded'
         /\ HasAlert'
BY DEF Typed, TypeOK, Done, Goto, Awaits, Answers, WorksOnMonitor, HasLoaded, HasAlert

\* Throwing keeps the slot typed.
LEMMA ThrowType ==
  ASSUME Typed, NEW s \in Slots, Throw(s), pc[s] # "idle"
  PROVE  /\ pc' \in [Slots -> Awaits]
         /\ job' \in [Slots -> Monitors \cup {NoMonitor}]
         /\ seen' \in [Slots -> Doc \cup {NoDoc}]
         /\ code' \in [Slots -> Answers]
         /\ outcome' \in [Slots -> Alert \cup {Quiet, Rejected}]
         /\ WorksOnMonitor'
         /\ HasLoaded'
         /\ HasAlert'
BY DEF Typed, TypeOK, Throw, Goto, Awaits, WorksOnMonitor, HasLoaded, HasAlert

\* A failed job keeps slot and queue typed.
LEMMA JobFailsType ==
  ASSUME Typed, NEW s \in Slots, JobFails(s), pc[s] # "idle"
  PROVE  /\ pc' \in [Slots -> Awaits]
         /\ job' \in [Slots -> Monitors \cup {NoMonitor}]
         /\ seen' \in [Slots -> Doc \cup {NoDoc}]
         /\ code' \in [Slots -> Answers]
         /\ outcome' \in [Slots -> Alert \cup {Quiet, Rejected}]
         /\ queue' \in [Monitors -> Nat]
         /\ WorksOnMonitor'
         /\ HasLoaded'
         /\ HasAlert'
<1>1. job[s] \in Monitors
  BY DEF Typed, WorksOnMonitor
<1>2. queue' \in [Monitors -> Nat]
  <2>1. queue \in [Monitors -> Nat] /\ Requeue(job[s])
    BY DEF JobFails, Typed, TypeOK
  <2>2. queue[job[s]] + 1 \in Nat
    BY <1>1, <2>1
  <2>3. QED
    BY <1>1, <2>1, <2>2 DEF Requeue
<1>3. QED
  BY <1>2, DoneType DEF JobFails

\* A persisted check keeps documents and the history typed.
LEMMA PersistType ==
  ASSUME Typed, NEW s \in Slots, pc[s] = "save", Persist(s)
  PROVE  /\ docs' \in [Monitors -> Doc \cup {NoDoc}]
         /\ turns' \in [Monitors -> Nat]
<1>1. /\ job[s] \in Monitors
      /\ seen[s] \in Doc
      /\ docs[job[s]] \in Doc
  BY DEF Typed, TypeOK, WorksOnMonitor, HasLoaded, Persist, Exists
<1>2. Checked(s) \in Doc
  BY <1>1, CheckedType
<1>3. QED
  BY <1>1, <1>2 DEF Persist, Typed, TypeOK

\* What follows the release of the lock.
LEMMA AfterReleaseType ==
  ASSUME Typed, NEW s \in Slots, AfterRelease(s), pc[s] = "release"
  PROVE  /\ pc' \in [Slots -> Awaits]
         /\ job' \in [Slots -> Monitors \cup {NoMonitor}]
         /\ seen' \in [Slots -> Doc \cup {NoDoc}]
         /\ code' \in [Slots -> Answers]
         /\ outcome' \in [Slots -> Alert \cup {Quiet, Rejected}]
         /\ queue' \in [Monitors -> Nat]
         /\ WorksOnMonitor'
         /\ HasLoaded'
         /\ HasAlert'
<1>1. CASE outcome[s] = Rejected /\ JobFails(s)
  BY <1>1, JobFailsType
<1>2. CASE outcome[s] = Quiet /\ Done(s) /\ UNCHANGED queue
  BY <1>2, DoneType DEF Typed, TypeOK
<1>3. CASE /\ outcome[s] \in Alert
           /\ Goto(s, "alert")
           /\ UNCHANGED <<queue, job, seen, code, outcome>>
  BY <1>3 DEF Typed, TypeOK, Goto, Awaits, WorksOnMonitor, HasLoaded, HasAlert
<1>4. QED
  BY <1>1, <1>2, <1>3 DEF AfterRelease

-----------------------------------------------------------------------------
\* No slot is busy at the beginning.
LEMMA TypedInit == Init => Typed
BY DEF Init, Typed, TypeOK, Doc, Statuses, Answers, Alert, Awaits, Quiet,
       WorksOnMonitor, HasLoaded, HasAlert

\* Typing is preserved by every step.
LEMMA TypedStep == Typed /\ [Next]_vars => Typed'
<1> SUFFICES ASSUME Typed, [Next]_vars PROVE Typed'
  OBVIOUS
<1> USE DEF apiVars, slotVars, tally, bounds
<1>1. ASSUME NEW s \in Slots, NEW m \in Monitors, TakeJob(s, m) PROVE Typed'
  BY <1>1 DEF TakeJob, Typed, TypeOK, Goto, Awaits, WorksOnMonitor, HasLoaded, HasAlert
<1>2. ASSUME NEW s \in Slots, AcquireLock(s) PROVE Typed'
  BY <1>2 DEF AcquireLock, Typed, TypeOK, Goto, Awaits, WorksOnMonitor, HasLoaded, HasAlert
<1>3. ASSUME NEW s \in Slots, LockBusy(s) PROVE Typed'
  BY <1>3, DoneType DEF LockBusy, Typed, TypeOK
<1>4. ASSUME NEW s \in Slots, LockReplyLost(s) PROVE Typed'
  BY <1>4, DoneType, FaultType DEF LockReplyLost, Typed, TypeOK
<1>5. ASSUME NEW s \in Slots, LoadMonitor(s) PROVE Typed'
  BY <1>5 DEF LoadMonitor, Exists, Typed, TypeOK, Goto, Awaits, WorksOnMonitor, HasLoaded, HasAlert
<1>6. ASSUME NEW s \in Slots, MonitorGone(s) PROVE Typed'
  BY <1>6 DEF MonitorGone, Typed, TypeOK, Goto, Awaits, WorksOnMonitor, HasLoaded, HasAlert
<1>7. ASSUME NEW s \in Slots, LoadFails(s) PROVE Typed'
  BY <1>7, ThrowType, FaultType DEF LoadFails, Typed, TypeOK
<1>8. ASSUME NEW s \in Slots, CheckEndpoint(s) PROVE Typed'
  BY <1>8 DEF CheckEndpoint, Typed, TypeOK, Goto, Awaits, WorksOnMonitor, HasLoaded, HasAlert
<1>9. ASSUME NEW s \in Slots, SaveMonitor(s) PROVE Typed'
  <2>1. /\ docs' \in [Monitors -> Doc \cup {NoDoc}]
        /\ turns' \in [Monitors -> Nat]
    BY <1>9, PersistType DEF SaveMonitor
  <2>2. outcome' \in [Slots -> Alert \cup {Quiet, Rejected}]
    <3>1. job[s] \in Monitors /\ seen[s] \in Doc
      BY <1>9 DEF SaveMonitor, Typed, WorksOnMonitor, HasLoaded, HasAlert
    <3>2. /\ Verdict(s).nextStatus \in Statuses
          /\ turns'[job[s]] \in Nat
      BY <2>1, <3>1, VerdictType DEF Verdict, IsSuccess
    <3>3. ASSUME ChangeIsTold(seen[s].status, Verdict(s).nextStatus)
          PROVE  Verdict(s).nextStatus \in {"UP", "DOWN"}
      BY <3>3 DEF ChangeIsTold, shouldSendStatusAlert
    <3>4. QED
      BY <1>9, <3>2, <3>3 DEF SaveMonitor, Alert, Typed, TypeOK
  <2>3. QED
    BY <1>9, <2>1, <2>2 DEF SaveMonitor, Typed, TypeOK, Goto, Awaits,
                            WorksOnMonitor, HasLoaded, HasAlert
<1>10. ASSUME NEW s \in Slots, SaveGone(s) PROVE Typed'
  BY <1>10, ThrowType DEF SaveGone, Typed, TypeOK
<1>11. ASSUME NEW s \in Slots, SaveFails(s) PROVE Typed'
  <2>1. /\ docs' \in [Monitors -> Doc \cup {NoDoc}]
        /\ turns' \in [Monitors -> Nat]
    BY <1>11, PersistType DEF SaveFails, Typed, TypeOK
  <2>2. QED
    BY <1>11, <2>1, ThrowType, FaultType DEF SaveFails, Typed, TypeOK
<1>12. ASSUME NEW s \in Slots, WriteLog(s) PROVE Typed'
  BY <1>12 DEF WriteLog, Typed, TypeOK, Goto, Awaits, WorksOnMonitor, HasLoaded, HasAlert
<1>13. ASSUME NEW s \in Slots, LogFails(s) PROVE Typed'
  BY <1>13, ThrowType, FaultType DEF LogFails, Typed, TypeOK
<1>14. ASSUME NEW s \in Slots, ReleaseLock(s) PROVE Typed'
  BY <1>14, AfterReleaseType DEF ReleaseLock, Typed, TypeOK
<1>15. ASSUME NEW s \in Slots, ReleaseFails(s) PROVE Typed'
  BY <1>15, AfterReleaseType, FaultType DEF ReleaseFails, Typed, TypeOK
<1>16. ASSUME NEW s \in Slots, SendAlert(s) PROVE Typed'
  <2>1. job[s] \in Monitors /\ outcome[s] \in Alert
    BY <1>16 DEF SendAlert, Typed, WorksOnMonitor, HasAlert
  <2>2. Append(sent[job[s]], outcome[s]) \in Seq(Alert)
    BY <2>1 DEF Typed, TypeOK
  <2>3. sent' \in [Monitors -> Seq(Alert)]
    BY <1>16, <2>1, <2>2 DEF SendAlert, Typed, TypeOK
  <2>4. QED
    BY <1>16, <2>3, DoneType DEF SendAlert, Typed, TypeOK
<1>17. ASSUME NEW s \in Slots, AlertUndelivered(s) PROVE Typed'
  BY <1>17, DoneType, FaultType DEF AlertUndelivered, Typed, TypeOK
<1>18. ASSUME NEW s \in Slots, AlertLookupFails(s) PROVE Typed'
  BY <1>18, JobFailsType, FaultType DEF AlertLookupFails, Typed, TypeOK
<1>19. ASSUME NEW s \in Slots, Crash(s) PROVE Typed'
  BY <1>19, JobFailsType, FaultType DEF Crash, Typed, TypeOK
<1>20. ASSUME NEW m \in Monitors, Environment(m) PROVE Typed'
  <2> USE DEF Typed, TypeOK, WorksOnMonitor, HasLoaded, HasAlert
  <2>1. CASE Enqueue(m)
    BY <2>1 DEF Enqueue
  <2>2. CASE Expire(m)
    BY <2>2 DEF Expire
  <2>3. CASE ChangeAnswer(m)
    BY <2>3 DEF ChangeAnswer, Change
  <2>4. CASE EditMonitor(m)
    <3>1. PICK c \in Codes : docs' = [docs EXCEPT ![m] = Edited(@, c)]
      BY <2>4 DEF EditMonitor
    <3>2. Edited(docs[m], c) \in Doc
      BY <2>4 DEF EditMonitor, Exists, Edited, Doc
    <3>3. docs' \in [Monitors -> Doc \cup {NoDoc}]
      BY <3>1, <3>2
    <3>4. QED
      BY <2>4, <3>3 DEF EditMonitor, Change
  <2>5. CASE DeleteLogs(m)
    BY <2>5 DEF DeleteLogs
  <2>6. CASE DeleteMonitor(m)
    BY <2>6 DEF DeleteMonitor
  <2>7. CASE DeleteFails(m)
    BY <2>7, FaultType DEF DeleteFails
  <2>8. QED
    BY <1>20, <2>1, <2>2, <2>3, <2>4, <2>5, <2>6, <2>7 DEF Environment
<1>21. CASE UNCHANGED vars
  BY <1>21 DEF vars, Typed, TypeOK, WorksOnMonitor, HasLoaded, HasAlert
<1>22. QED
  BY <1>1, <1>2, <1>3, <1>4, <1>5, <1>6, <1>7, <1>8, <1>9, <1>10, <1>11, <1>12,
     <1>13, <1>14, <1>15, <1>16, <1>17, <1>18, <1>19, <1>20, <1>21
     DEF Next, SlotStep

\* Every value of every variable has its type, with any faults.
THEOREM TypeCorrect == Spec => []TypeOK
<1>1. Spec => []Typed
  BY TypedInit, TypedStep, PTL DEF Spec
<1>2. QED
  BY <1>1, PTL DEF Typed

-----------------------------------------------------------------------------
(* Mutual exclusion. *)

\* Every busy slot that checks holds its own lock, so no two check one monitor.
LEMMA LockExcludes == HoldsLock => OneCheckAtATime
BY DEF HoldsLock, OneCheckAtATime

\* A slot that leaves the checking awaits, or stays at one with its job and
\* lock, disturbs nobody's lock.
LEMMA HoldsLockFrame ==
  ASSUME Typed, HoldsLock, NEW s \in Slots, lock' = lock,
         \A t \in Slots \ {s} : pc'[t] = pc[t] /\ job'[t] = job[t],
         Checking(s)' => Checking(s) /\ job'[s] = job[s]
  PROVE  HoldsLock'
BY DEF HoldsLock, Checking

\* No lock is held at the beginning.
LEMMA HoldsLockInit == Init => HoldsLock
BY DEF Init, HoldsLock, Checking

\* Unless leases run out, a lock is taken when free and dropped by its holder
\* or once nobody checks under it.
LEMMA HoldsLockStep ==
  ASSUME "lease" \notin Faults
  PROVE  Typed /\ HoldsLock /\ [Next]_vars => HoldsLock'
<1> SUFFICES ASSUME Typed, HoldsLock, [Next]_vars PROVE HoldsLock'
  OBVIOUS
<1> USE DEF apiVars, slotVars, tally, bounds
<1>1. ASSUME NEW s \in Slots, NEW m \in Monitors, TakeJob(s, m) PROVE HoldsLock'
  BY <1>1, HoldsLockFrame DEF TakeJob, Goto, Typed, TypeOK, Checking
<1>2. ASSUME NEW s \in Slots, AcquireLock(s) PROVE HoldsLock'
  <2>1. job[s] \in Monitors
    BY <1>2 DEF AcquireLock, Typed, WorksOnMonitor
  <2>2. ASSUME NEW t \in Slots, Checking(t)' PROVE lock'[job'[t]] = t
    <3>1. CASE t = s
      BY <1>2, <2>1, <3>1 DEF AcquireLock, Typed, TypeOK
    <3>2. CASE t # s
      <4>1. Checking(t) /\ job'[t] = job[t] /\ lock[job[t]] = t
        BY <1>2, <2>2, <3>2 DEF AcquireLock, Goto, Checking, HoldsLock, Typed, TypeOK
      <4>2. job[t] # job[s]
        BY <1>2, <4>1, ConstantsAssumption DEF AcquireLock
      <4>3. QED
        BY <1>2, <4>1, <4>2 DEF AcquireLock, Typed, TypeOK
    <3>3. QED
      BY <3>1, <3>2
  <2>3. QED
    BY <2>2 DEF HoldsLock
<1>3. ASSUME NEW s \in Slots, LockReplyLost(s) PROVE HoldsLock'
  <2>1. job[s] \in Monitors /\ ~ Checking(s)'
    BY <1>3 DEF LockReplyLost, Done, Goto, Checking, Typed, TypeOK, WorksOnMonitor
  <2>2. ASSUME NEW t \in Slots, Checking(t)' PROVE lock'[job'[t]] = t
    <3>1. Checking(t) /\ job'[t] = job[t] /\ lock[job[t]] = t
      BY <1>3, <2>1, <2>2 DEF LockReplyLost, Done, Goto, Checking, HoldsLock, Typed, TypeOK
    <3>2. job[t] # job[s]
      BY <1>3, <3>1, ConstantsAssumption DEF LockReplyLost
    <3>3. QED
      BY <1>3, <3>1, <3>2 DEF LockReplyLost, Typed, TypeOK
  <2>3. QED
    BY <2>2 DEF HoldsLock
<1>4. ASSUME NEW s \in Slots,
             LockBusy(s) \/ AlertUndelivered(s) \/ AlertLookupFails(s)
               \/ SendAlert(s) \/ Crash(s)
      PROVE  HoldsLock'
  <2>1. Done(s) /\ lock' = lock
    BY <1>4 DEF LockBusy, AlertUndelivered, AlertLookupFails, SendAlert, Crash, JobFails
  <2>2. QED
    BY <2>1, HoldsLockFrame DEF Done, Goto, Checking, Typed, TypeOK
<1>5. ASSUME NEW s \in Slots,
             LoadFails(s) \/ SaveGone(s) \/ SaveFails(s) \/ LogFails(s)
      PROVE  HoldsLock'
  <2>1. Throw(s) /\ lock' = lock /\ Checking(s)
    BY <1>5 DEF LoadFails, SaveGone, SaveFails, LogFails, Checking
  <2>2. QED
    BY <2>1, HoldsLockFrame DEF Throw, Goto, Checking, Typed, TypeOK
<1>6. ASSUME NEW s \in Slots,
             LoadMonitor(s) \/ MonitorGone(s) \/ CheckEndpoint(s)
               \/ SaveMonitor(s) \/ WriteLog(s)
      PROVE  HoldsLock'
  <2>1. /\ lock' = lock /\ job' = job /\ Checking(s)
        /\ \A t \in Slots \ {s} : pc'[t] = pc[t]
    BY <1>6 DEF LoadMonitor, MonitorGone, CheckEndpoint, SaveMonitor, WriteLog,
                Checking, Goto, Typed, TypeOK
  <2>2. QED
    BY <2>1, HoldsLockFrame
<1>7. ASSUME NEW s \in Slots, AfterRelease(s), pc[s] = "release"
      PROVE  /\ ~ Checking(s)'
             /\ \A t \in Slots \ {s} : pc'[t] = pc[t] /\ job'[t] = job[t]
  BY <1>7 DEF AfterRelease, JobFails, Done, Goto, Checking, Typed, TypeOK
<1>8. ASSUME NEW s \in Slots, ReleaseLock(s) PROVE HoldsLock'
  <2>1. ASSUME NEW t \in Slots, Checking(t)' PROVE lock'[job'[t]] = t
    <3>1. t # s /\ Checking(t) /\ job'[t] = job[t] /\ lock[job[t]] = t
      BY <1>7, <1>8, <2>1 DEF ReleaseLock, HoldsLock, Checking
    <3>2. job[t] \in Monitors
      BY <3>1 DEF Checking, Typed, WorksOnMonitor
    <3>3. QED
      BY <1>8, <3>1, <3>2 DEF ReleaseLock, Typed, TypeOK
  <2>2. QED
    BY <2>1 DEF HoldsLock
<1>9. ASSUME NEW s \in Slots, ReleaseFails(s) PROVE HoldsLock'
  BY <1>7, <1>9, HoldsLockFrame DEF ReleaseFails
<1>10. ASSUME NEW m \in Monitors, Expire(m) PROVE HoldsLock'
  BY <1>10 DEF Expire, HoldsLock, Checking, Typed, TypeOK, WorksOnMonitor
<1>11. ASSUME NEW m \in Monitors,
              Enqueue(m) \/ ChangeAnswer(m) \/ EditMonitor(m) \/ DeleteLogs(m)
                \/ DeleteMonitor(m) \/ DeleteFails(m)
       PROVE  HoldsLock'
  BY <1>11 DEF Enqueue, ChangeAnswer, EditMonitor, DeleteLogs, DeleteMonitor,
               DeleteFails, HoldsLock, Checking
<1>12. CASE UNCHANGED vars
  BY <1>12 DEF vars, HoldsLock, Checking
<1>13. QED
  BY <1>1, <1>2, <1>3, <1>4, <1>5, <1>6, <1>8, <1>9, <1>10, <1>11, <1>12
     DEF Next, SlotStep, Environment

\* No two slots check the same monitor at the same time, for any number of
\* slots and monitors and whatever fails, unless a lease runs out.
THEOREM MutualExclusion ==
  ASSUME "lease" \notin Faults
  PROVE  Spec => []OneCheckAtATime
<1>1. Init => Typed /\ HoldsLock
  BY TypedInit, HoldsLockInit
<1>2. (Typed /\ HoldsLock) /\ [Next]_vars => (Typed /\ HoldsLock)'
  BY TypedStep, HoldsLockStep
<1>3. Typed /\ HoldsLock => OneCheckAtATime
  BY LockExcludes
<1>4. QED
  BY <1>1, <1>2, <1>3, PTL DEF Spec

-----------------------------------------------------------------------------
(* The stored verdict. *)

\* The verdict of the stored document, whatever was loaded.
Stored(s) == calculateMonitorState(docs[job[s]], IsSuccess(s))

\* A save that happens under the lock stores one whole check of the document
\* as it is: nothing another writer did to the verdict is overwritten.
LEMMA SaveIsWholeCheck ==
  ASSUME Typed, Fresh, VerdictCoherent, NEW s \in Slots, pc[s] = "save", Exists(job[s])
  PROVE  /\ Verdict(s) = Stored(s)
         /\ Checked(s).status = Stored(s).nextStatus
         /\ Checked(s).failureCount = Stored(s).nextFailureCount
         /\ Checked(s).downSince <=> Stored(s).nextStatus = "DOWN"
         /\ Checked(s).expectedStatus = docs[job[s]].expectedStatus
<1> DEFINE d == docs[job[s]]
           l == seen[s]
<1>1. /\ job[s] \in Monitors
      /\ d \in Doc /\ l \in Doc
  BY DEF Typed, TypeOK, WorksOnMonitor, HasLoaded, Exists
<1>2. /\ l.status = d.status
      /\ l.failureCount = d.failureCount
      /\ l.downSince = d.downSince
  BY DEF Fresh
<1>3. d.downSince <=> d.status = "DOWN"
  BY <1>1 DEF VerdictCoherent
<1>4. Verdict(s) = Stored(s)
  BY <1>2 DEF Verdict, Stored, calculateMonitorState
<1>5. /\ Checked(s).status = Stored(s).nextStatus
      /\ Checked(s).failureCount = Stored(s).nextFailureCount
      /\ Checked(s).expectedStatus = d.expectedStatus
  BY <1>2, <1>4 DEF Checked, Assign
<1>6. Checked(s).downSince <=> Stored(s).nextStatus = "DOWN"
  BY <1>2, <1>3, <1>4 DEF Checked
<1>7. QED
  BY <1>4, <1>5, <1>6

\* calculateMonitorState keeps DOWN and the threshold together.
LEMMA VerdictStaysCoherent ==
  ASSUME NEW d \in Doc, NEW b \in BOOLEAN,
         d.status = "DOWN" <=> d.failureCount >= FailureThreshold
  PROVE  LET v == calculateMonitorState(d, b)
         IN  v.nextStatus = "DOWN" <=> v.nextFailureCount >= FailureThreshold
BY ThresholdAssumption DEF calculateMonitorState, Doc, Statuses

\* What a persisted check does to the documents.
LEMMA PersistStores ==
  ASSUME Typed, NEW s \in Slots, pc[s] = "save", Persist(s)
  PROVE  /\ job[s] \in Monitors
         /\ Exists(job[s])
         /\ docs'[job[s]] = Checked(s)
         /\ Checked(s) \in Doc
         /\ \A m \in Monitors \ {job[s]} : docs'[m] = docs[m]
<1>1. job[s] \in Monitors /\ Exists(job[s])
  BY DEF Typed, WorksOnMonitor, Persist
<1>2. seen[s] \in Doc /\ docs[job[s]] \in Doc
  BY <1>1 DEF Typed, TypeOK, HasLoaded, Exists
<1>3. Checked(s) \in Doc
  BY <1>2, CheckedType
<1>4. QED
  BY <1>1, <1>3 DEF Persist, Typed, TypeOK

\* Steps that leave the verdict of a document alone.
KeepsVerdict(m) ==
  Exists(m)' => /\ Exists(m)
                /\ docs'[m].status = docs[m].status
                /\ docs'[m].failureCount = docs[m].failureCount
                /\ docs'[m].downSince = docs[m].downSince

\* Every step persists a check of the lock's holder or changes no verdict.
LEMMA DocSteps ==
  ASSUME Typed, [Next]_vars
  PROVE  \/ \E s \in Slots : pc[s] = "save" /\ Persist(s) /\ pc'[s] \in {"log", "release"}
                            /\ job' = job /\ seen' = seen
                            /\ \A t \in Slots \ {s} : pc'[t] = pc[t]
         \/ \A m \in Monitors : KeepsVerdict(m)
<1> USE DEF apiVars, slotVars, tally, bounds
<1>1. ASSUME docs' = docs PROVE \A m \in Monitors : KeepsVerdict(m)
  BY <1>1 DEF KeepsVerdict, Exists
<1>2. ASSUME NEW s \in Slots, SaveMonitor(s) \/ (SaveFails(s) /\ Persist(s))
      PROVE  /\ pc[s] = "save" /\ Persist(s) /\ pc'[s] \in {"log", "release"}
             /\ job' = job /\ seen' = seen
             /\ \A t \in Slots \ {s} : pc'[t] = pc[t]
  BY <1>2 DEF SaveMonitor, SaveFails, Throw, Goto, Typed, TypeOK
<1>3. ASSUME NEW s \in Slots, SlotStep(s) \/ Crash(s)
      PROVE  \/ docs' = docs
             \/ SaveMonitor(s)
             \/ SaveFails(s) /\ Persist(s)
  BY <1>3 DEF SlotStep, AcquireLock, LockBusy, LockReplyLost, LoadMonitor, MonitorGone,
              LoadFails, CheckEndpoint, SaveGone, SaveFails, WriteLog, LogFails,
              ReleaseLock, ReleaseFails, SendAlert, AlertUndelivered,
              AlertLookupFails, Crash
<1>4. ASSUME NEW s \in Slots, NEW m \in Monitors, TakeJob(s, m) PROVE docs' = docs
  BY <1>4 DEF TakeJob
<1>5. ASSUME NEW m \in Monitors, Environment(m)
      PROVE  \A n \in Monitors : KeepsVerdict(n)
  <2>1. CASE EditMonitor(m)
    BY <2>1 DEF EditMonitor, Edited, KeepsVerdict, Exists, Typed, TypeOK
  <2>2. CASE DeleteMonitor(m)
    BY <2>2 DEF DeleteMonitor, KeepsVerdict, Exists, Typed, TypeOK
  <2>3. CASE docs' = docs
    BY <1>1, <2>3
  <2>4. QED
    BY <1>5, <2>1, <2>2, <2>3
       DEF Environment, Enqueue, Expire, ChangeAnswer, DeleteLogs, DeleteFails
<1>6. CASE UNCHANGED vars
  BY <1>1, <1>6 DEF vars
<1>7. QED
  BY <1>1, <1>2, <1>3, <1>4, <1>5, <1>6 DEF Next

\* A slot tests or saves what it loaded, now or in an earlier step.
LEMMA SeenSteps ==
  ASSUME Typed, [Next]_vars, NEW t \in Slots, pc'[t] \in {"test", "save"}
  PROVE  \/ /\ docs' = docs
            /\ job'[t] = job[t]
            /\ seen'[t] = docs[job[t]]
         \/ /\ pc[t] \in {"test", "save"}
            /\ job'[t] = job[t]
            /\ seen'[t] = seen[t]
<1> USE DEF apiVars, slotVars, tally, bounds, Typed, TypeOK, Goto
<1>1. ASSUME NEW s \in Slots, LoadMonitor(s)
      PROVE  \/ docs' = docs /\ job'[t] = job[t] /\ seen'[t] = docs[job[t]]
             \/ pc[t] = pc'[t] /\ job'[t] = job[t] /\ seen'[t] = seen[t]
  BY <1>1 DEF LoadMonitor
<1>2. ASSUME NEW s \in Slots, CheckEndpoint(s)
      PROVE  /\ pc[t] \in {"test", "save"}
             /\ job'[t] = job[t]
             /\ seen'[t] = seen[t]
  BY <1>2 DEF CheckEndpoint
<1>3. ASSUME NEW s \in Slots, Done(s) \/ Throw(s)
      PROVE  pc[t] = pc'[t] /\ job'[t] = job[t] /\ seen'[t] = seen[t]
  BY <1>3 DEF Done, Throw
<1>4. ASSUME NEW s \in Slots, AfterRelease(s)
      PROVE  pc[t] = pc'[t] /\ job'[t] = job[t] /\ seen'[t] = seen[t]
  BY <1>4 DEF AfterRelease, JobFails, Done
<1>5. ASSUME NEW s \in Slots, NEW m \in Monitors, TakeJob(s, m)
      PROVE  pc[t] = pc'[t] /\ job'[t] = job[t] /\ seen'[t] = seen[t]
  BY <1>5 DEF TakeJob
<1>6. ASSUME NEW s \in Slots,
             AcquireLock(s) \/ MonitorGone(s) \/ SaveMonitor(s) \/ WriteLog(s)
      PROVE  pc[t] = pc'[t] /\ job'[t] = job[t] /\ seen'[t] = seen[t]
  BY <1>6 DEF AcquireLock, MonitorGone, SaveMonitor, WriteLog
<1>7. ASSUME NEW s \in Slots, SlotStep(s) \/ Crash(s)
      PROVE  \/ LoadMonitor(s) \/ CheckEndpoint(s) \/ Done(s) \/ Throw(s)
             \/ AfterRelease(s) \/ AcquireLock(s) \/ MonitorGone(s)
             \/ SaveMonitor(s) \/ WriteLog(s)
  BY <1>7 DEF SlotStep, LockBusy, LockReplyLost, LoadFails, SaveGone, SaveFails,
              LogFails, ReleaseLock, ReleaseFails, SendAlert, AlertUndelivered,
              AlertLookupFails, Crash, JobFails
<1>8. ASSUME NEW m \in Monitors, Environment(m)
      PROVE  pc[t] = pc'[t] /\ job'[t] = job[t] /\ seen'[t] = seen[t]
  BY <1>8 DEF Environment, Enqueue, Expire, ChangeAnswer, EditMonitor, DeleteLogs,
              DeleteMonitor, DeleteFails
<1>9. CASE UNCHANGED vars
  BY <1>9 DEF vars
<1>10. QED
  BY <1>1, <1>2, <1>3, <1>4, <1>5, <1>6, <1>7, <1>8, <1>9 DEF Next

\* Under the lock, what a slot loaded stays what is stored.
LEMMA FreshStep ==
  ASSUME Typed, HoldsLock, Fresh, [Next]_vars
  PROVE  Fresh'
<1> SUFFICES ASSUME NEW t \in Slots, pc'[t] \in {"test", "save"},
                    docs'[job'[t]] # NoDoc
             PROVE  /\ seen'[t].status = docs'[job'[t]].status
                    /\ seen'[t].failureCount = docs'[job'[t]].failureCount
                    /\ seen'[t].downSince = docs'[job'[t]].downSince
  BY DEF Fresh, Exists
<1>1. CASE docs' = docs /\ job'[t] = job[t] /\ seen'[t] = docs[job[t]]
  BY <1>1
<1>2. CASE pc[t] \in {"test", "save"} /\ job'[t] = job[t] /\ seen'[t] = seen[t]
  <2>1. job[t] \in Monitors /\ lock[job[t]] = t
    BY <1>2 DEF Typed, WorksOnMonitor, HoldsLock, Checking
  <2>2. ASSUME NEW s \in Slots, pc[s] = "save", Persist(s),
               pc'[s] \in {"log", "release"}
        PROVE  docs'[job[t]] = docs[job[t]]
    <3>1. s # t
      BY <2>2
    <3>2. lock[job[s]] = s
      BY <2>2 DEF HoldsLock, Checking
    <3>3. job[s] # job[t]
      BY <2>1, <3>1, <3>2
    <3>4. QED
      BY <2>1, <2>2, <3>3, PersistStores
  <2>3. KeepsVerdict(job[t])
    BY <2>1, <2>2, DocSteps, <1>2 DEF KeepsVerdict, Exists
  <2>4. Exists(job[t])
    BY <1>2, <2>3 DEF KeepsVerdict, Exists
  <2>5. QED
    BY <1>2, <2>3, <2>4 DEF KeepsVerdict, Exists, Fresh
<1>3. QED
  BY <1>1, <1>2, SeenSteps

\* A whole check keeps the verdict coherent, and nothing else touches it.
LEMMA CoherentStep ==
  ASSUME Typed, Fresh, VerdictCoherent, [Next]_vars
  PROVE  VerdictCoherent'
<1>1. ASSUME NEW s \in Slots, pc[s] = "save", Persist(s)
      PROVE  VerdictCoherent'
  <2>1. job[s] \in Monitors /\ Exists(job[s]) /\ docs[job[s]] \in Doc
    BY <1>1, PersistStores DEF Typed, TypeOK, Exists
  <2>2. docs[job[s]].status = "DOWN" <=> docs[job[s]].failureCount >= FailureThreshold
    BY <2>1 DEF VerdictCoherent
  <2>3. Stored(s).nextStatus = "DOWN" <=> Stored(s).nextFailureCount >= FailureThreshold
    BY <2>1, <2>2, VerdictStaysCoherent DEF Stored, IsSuccess
  <2>4. /\ Checked(s).status = "DOWN" <=> Checked(s).failureCount >= FailureThreshold
        /\ Checked(s).downSince <=> Checked(s).status = "DOWN"
    BY <1>1, <2>1, <2>3, SaveIsWholeCheck
  <2>5. QED
    BY <1>1, <2>1, <2>4, PersistStores DEF VerdictCoherent, Exists
<1>2. ASSUME \A m \in Monitors : KeepsVerdict(m)
      PROVE  VerdictCoherent'
  BY <1>2 DEF VerdictCoherent, KeepsVerdict, Exists
<1>3. QED
  BY <1>1, <1>2, DocSteps

\* The invariant holds at the beginning.
LEMMA IInvInit == Init => IInv
<1> SUFFICES ASSUME Init PROVE IInv
  OBVIOUS
<1>1. Fresh
  BY DEF Init, Fresh
<1>2. VerdictCoherent
  BY ThresholdAssumption DEF Init, VerdictCoherent, Exists
<1>3. QED
  BY <1>1, <1>2, TypedInit, HoldsLockInit DEF IInv

\* The invariant lasts while no lock runs out under its holder.
LEMMA IInvStep ==
  ASSUME "lease" \notin Faults
  PROVE  IInv /\ [Next]_vars => IInv'
BY TypedStep, HoldsLockStep, FreshStep, CoherentStep DEF IInv

\* Whatever interleaves and fails short of a lease running out, DOWN means
\* FailureThreshold failures in a row and the outage's start is known.
THEOREM VerdictAlwaysCoherent ==
  ASSUME "lease" \notin Faults
  PROVE  Spec => []VerdictCoherent
<1>1. IInv => VerdictCoherent
  BY DEF IInv
<1>2. QED
  BY IInvInit, IInvStep, <1>1, PTL DEF Spec

-----------------------------------------------------------------------------
(* Refinement of Incidents. *)

\* A check of a coherent document is a step of the abstract incident.
LEMMA CheckIsIncidentStep ==
  ASSUME IInv, NEW s \in Slots, pc[s] = "save", Persist(s)
  PROVE  Watch!Next
<1> DEFINE m == job[s]
           d == docs[m]
           v == Stored(s)
<1>1. /\ m \in Monitors /\ Exists(m)
      /\ docs'[m] = Checked(s)
      /\ Checked(s) \in Doc
      /\ \A n \in Monitors \ {m} : docs'[n] = docs[n]
  BY PersistStores DEF IInv
<1>2. /\ d \in Doc /\ d # NoDoc
      /\ d.status = "DOWN" <=> d.failureCount >= FailureThreshold
      /\ d.downSince <=> d.status = "DOWN"
      /\ d.failureCount \in Nat
      /\ d.downSince \in BOOLEAN
  BY <1>1 DEF IInv, VerdictCoherent, Typed, TypeOK, Exists, Doc
<1>3. /\ Checked(s).status = v.nextStatus
      /\ Checked(s).failureCount = v.nextFailureCount
      /\ Checked(s).downSince <=> v.nextStatus = "DOWN"
  BY <1>1, SaveIsWholeCheck DEF IInv
<1>4. Checked(s) # NoDoc /\ Checked(s).downSince \in BOOLEAN
  BY <1>1, ConstantsAssumption DEF Doc
<1>5. HealthOf(d) = Watch!State(d.status, d.failureCount, d.downSince)
  BY <1>2 DEF HealthOf, Watch!State
<1>6. HealthOf(docs'[m]) =
        Watch!State(v.nextStatus, v.nextFailureCount, v.nextStatus = "DOWN")
  BY <1>1, <1>3, <1>4 DEF HealthOf, Watch!State
<1>7. /\ health[m] = HealthOf(d)
      /\ health' = [health EXCEPT ![m] = HealthOf(docs'[m])]
  BY <1>1 DEF health
<1>8. /\ health[m].status = d.status
      /\ health[m].streak = d.failureCount
      /\ health[m].sinceKnown = d.downSince
      /\ d.status \in Statuses
  BY <1>2, <1>5, <1>7 DEF Watch!State, Doc
<1>9. Watch!Watched(m)
  BY <1>8 DEF Watch!Watched, Statuses
<1>10. CASE IsSuccess(s)
  <2>1. v.nextStatus = "UP" /\ v.nextFailureCount = 0
    BY <1>10 DEF Stored, calculateMonitorState
  <2>2. Watch!Succeed(m)
    BY <1>6, <1>7, <1>9, <2>1 DEF Watch!Succeed
  <2>3. QED
    BY <1>1, <2>2 DEF Watch!Next
<1>11. CASE ~ IsSuccess(s)
  <2>1. /\ v.nextFailureCount = d.failureCount + 1
        /\ v.nextStatus = IF d.failureCount + 1 >= FailureThreshold THEN "DOWN"
                          ELSE d.status
    BY <1>11 DEF Stored, calculateMonitorState
  <2>2. CASE d.failureCount + 1 < FailureThreshold
    <3>1. d.status # "DOWN" /\ d.downSince = FALSE
      BY <1>2, <2>2, ThresholdAssumption
    <3>2. v.nextStatus = d.status
      BY <1>2, <2>1, <2>2, ThresholdAssumption
    <3>3. HealthOf(docs'[m]) =
            Watch!State(health[m].status, health[m].streak + 1, health[m].sinceKnown)
      BY <1>6, <1>8, <2>1, <3>1, <3>2 DEF Watch!State
    <3>4. Watch!Tolerate(m)
      BY <1>7, <1>8, <1>9, <2>2, <3>3 DEF Watch!Tolerate
    <3>5. QED
      BY <1>1, <3>4 DEF Watch!Next
  <2>3. CASE d.failureCount + 1 = FailureThreshold
    <3>1. d.status # "DOWN" /\ v.nextStatus = "DOWN"
      BY <1>2, <2>1, <2>3, ThresholdAssumption
    <3>2. Watch!Confirm(m)
      BY <1>6, <1>7, <1>8, <1>9, <2>1, <2>3, <3>1 DEF Watch!Confirm
    <3>3. QED
      BY <1>1, <3>2 DEF Watch!Next
  <2>4. CASE d.failureCount + 1 > FailureThreshold
    <3>1. d.status = "DOWN" /\ d.downSince = TRUE /\ v.nextStatus = "DOWN"
      BY <1>2, <2>1, <2>4, ThresholdAssumption
    <3>2. d.failureCount >= FailureThreshold
      BY <1>2, <2>4, ThresholdAssumption
    <3>3. HealthOf(docs'[m]) =
            Watch!State(health[m].status, health[m].streak + 1, health[m].sinceKnown)
      BY <1>6, <1>8, <2>1, <3>1 DEF Watch!State
    <3>4. Watch!Persist(m)
      BY <1>7, <1>8, <1>9, <3>1, <3>2, <3>3 DEF Watch!Persist
    <3>5. QED
      BY <1>1, <3>4 DEF Watch!Next
  <2>5. QED
    BY <1>2, <2>2, <2>3, <2>4, ThresholdAssumption
<1>12. QED
  BY <1>10, <1>11 DEF IsSuccess

\* Deleting the document removes the monitor.
LEMMA DeleteIsRemoval ==
  ASSUME Typed, NEW m \in Monitors, DeleteMonitor(m)
  PROVE  [Watch!Next]_health
<1>1. docs' = [docs EXCEPT ![m] = NoDoc] /\ docs \in [Monitors -> Doc \cup {NoDoc}]
  BY DEF DeleteMonitor, Typed, TypeOK
<1>2. CASE docs[m] = NoDoc
  <2>1. docs' = docs
    BY <1>1, <1>2
  <2>2. QED
    BY <2>1 DEF health
<1>3. CASE docs[m] # NoDoc
  <2>1. health[m].status \in Statuses
    BY <1>1, <1>3 DEF health, HealthOf, Doc
  <2>2. health' = [health EXCEPT ![m] = Watch!Removed]
    BY <1>1 DEF health, HealthOf, Watch!Removed, Watch!State
  <2>3. Watch!Remove(m)
    BY <2>1, <2>2 DEF Watch!Remove, Watch!Watched, Statuses
  <2>4. QED
    BY <2>3 DEF Watch!Next
<1>4. QED
  BY <1>2, <1>3

\* Editing the expectation is invisible to the incident.
LEMMA EditIsStutter ==
  ASSUME Typed, NEW m \in Monitors, EditMonitor(m)
  PROVE  UNCHANGED health
<1>1. PICK c \in Codes : docs' = [docs EXCEPT ![m] = Edited(@, c)]
  BY DEF EditMonitor
<1>2. docs[m] \in Doc /\ docs[m] # NoDoc /\ docs \in [Monitors -> Doc \cup {NoDoc}]
  BY DEF EditMonitor, Exists, Typed, TypeOK
<1>3. Edited(docs[m], c) \in Doc
  BY <1>2 DEF Edited, Doc
<1>4. HealthOf(Edited(docs[m], c)) = HealthOf(docs[m])
  BY <1>2, <1>3, ConstantsAssumption DEF HealthOf, Edited
<1>5. QED
  BY <1>1, <1>2, <1>4 DEF health

\* Every step of the worker and the API is a step of the incidents or none.
LEMMA StepRefines ==
  ASSUME IInv, [Next]_vars
  PROVE  [Watch!Next]_health
<1> USE DEF apiVars, slotVars, tally, bounds
<1>1. Typed
  BY DEF IInv
<1>2. ASSUME docs' = docs PROVE UNCHANGED health
  BY <1>2 DEF health
<1>3. ASSUME NEW s \in Slots, SlotStep(s) \/ Crash(s)
      PROVE  docs' = docs \/ (pc[s] = "save" /\ Persist(s))
  BY <1>3 DEF SlotStep, AcquireLock, LockBusy, LockReplyLost, LoadMonitor, MonitorGone,
              LoadFails, CheckEndpoint, SaveMonitor, SaveGone, SaveFails, WriteLog,
              LogFails, ReleaseLock, ReleaseFails, SendAlert, AlertUndelivered,
              AlertLookupFails, Crash
<1>4. ASSUME NEW s \in Slots, NEW m \in Monitors, TakeJob(s, m) PROVE docs' = docs
  BY <1>4 DEF TakeJob
<1>5. ASSUME NEW m \in Monitors, Environment(m)
      PROVE  docs' = docs \/ EditMonitor(m) \/ DeleteMonitor(m)
  BY <1>5 DEF Environment, Enqueue, Expire, ChangeAnswer, DeleteLogs, DeleteFails
<1>6. CASE UNCHANGED vars
  BY <1>2, <1>6 DEF vars
<1>7. QED
  BY <1>1, <1>2, <1>3, <1>4, <1>5, <1>6, CheckIsIncidentStep, EditIsStutter,
     DeleteIsRemoval DEF Next

\* The monitors the worker starts on are new incidents.
LEMMA InitRefines == Init => Watch!Init
<1> SUFFICES ASSUME Init PROVE Watch!Init
  OBVIOUS
<1>1. \A m \in Monitors : /\ docs[m] \in Doc
                          /\ docs[m].status = "PENDING"
                          /\ docs[m].failureCount = 0
                          /\ docs[m].downSince = FALSE
  BY DEF Init, Doc, Statuses
<1>2. \A m \in Monitors : HealthOf(docs[m]) = Watch!New
  BY <1>1, ConstantsAssumption DEF HealthOf, Watch!New, Watch!State
<1>3. QED
  BY <1>2 DEF Watch!Init, health

\* The worker implements Incidents for every number of slots, monitors and
\* failures, unless a lease runs out.
THEOREM Refinement ==
  ASSUME "lease" \notin Faults
  PROVE  Spec => ImplementsIncidents
<1>1. Init => Watch!Init
  BY InitRefines
<1>2. IInv /\ [Next]_vars => [Watch!Next]_health
  BY StepRefines
<1>3. QED
  BY <1>1, <1>2, IInvInit, IInvStep, PTL DEF Spec, ImplementsIncidents, Watch!Spec

-----------------------------------------------------------------------------
(* Alerts. *)

\* A slot keeps an alert only from the save that caused it to its delivery.
PendingBusy ==
  \A s \in Slots : outcome[s] \in Alert => pc[s] \in {"log", "release", "alert"}

\* Alerts report changes that were counted, ...
SentCounted ==
  \A m \in Monitors : \A i \in DOMAIN sent[m] : sent[m][i].turn <= turns[m]
PendingCounted ==
  \A s \in Slots : outcome[s] \in Alert => outcome[s].turn <= turns[job[s]]

\* ... a pending alert was not sent, and no two slots hold the same one.
PendingUnsent ==
  \A s \in Slots : outcome[s] \in Alert =>
    \A i \in DOMAIN sent[job[s]] : sent[job[s]][i].turn # outcome[s].turn
PendingOnce ==
  \A s, t \in Slots :
    s # t /\ outcome[s] \in Alert /\ outcome[t] \in Alert /\ job[s] = job[t]
      => outcome[s].turn # outcome[t].turn

AlertInv == /\ PendingBusy /\ SentCounted /\ PendingCounted
            /\ PendingUnsent /\ PendingOnce /\ NoRepeatedAlert

\* A slot's alert, if it has one after the step, is the one it had before.
NoNewAlert(s) ==
  outcome'[s] \in Alert =>
    /\ outcome'[s] = outcome[s]
    /\ job'[s] = job[s]
    /\ pc'[s] \in {"log", "release", "alert"}

\* What was sent are alerts.
LEMMA SentTyped ==
  ASSUME Typed, NEW m \in Monitors, NEW i \in DOMAIN sent[m]
  PROVE  sent[m][i] \in Alert /\ sent[m][i].turn \in Nat /\ turns[m] \in Nat
<1>1. sent[m] \in Seq(Alert) /\ turns[m] \in Nat
  BY DEF Typed, TypeOK
<1>2. sent[m][i] \in Alert
  BY <1>1
<1>3. QED
  BY <1>1, <1>2 DEF Alert

\* Steps that neither decide on an alert nor deliver one.
LEMMA AlertFrame ==
  ASSUME Typed, Typed', AlertInv, sent' = sent,
         \A m \in Monitors : turns'[m] >= turns[m],
         \A t \in Slots : NoNewAlert(t)
  PROVE  AlertInv'
<1> USE DEF NoNewAlert
<1>1. PendingBusy'
  BY DEF AlertInv, PendingBusy
<1>2. SentCounted'
  <2> SUFFICES ASSUME NEW m \in Monitors, NEW i \in DOMAIN sent[m]
               PROVE  sent[m][i].turn <= turns'[m]
    BY DEF SentCounted
  <2>1. sent[m][i].turn <= turns[m]
    BY DEF AlertInv, SentCounted
  <2>2. sent[m][i].turn \in Nat /\ turns[m] \in Nat /\ turns'[m] \in Nat
    BY SentTyped DEF Typed, TypeOK
  <2>3. QED
    BY <2>1, <2>2
<1>3. PendingCounted'
  <2> SUFFICES ASSUME NEW s \in Slots, outcome'[s] \in Alert
               PROVE  outcome'[s].turn <= turns'[job'[s]]
    BY DEF PendingCounted
  <2>1. job[s] \in Monitors
    BY DEF AlertInv, PendingBusy, Typed, WorksOnMonitor
  <2>2. /\ outcome'[s].turn \in Nat
        /\ turns[job[s]] \in Nat /\ turns'[job[s]] \in Nat
    BY <2>1 DEF Typed, TypeOK, Alert
  <2>3. outcome[s].turn <= turns[job[s]]
    BY DEF AlertInv, PendingCounted
  <2>4. QED
    BY <2>1, <2>2, <2>3
<1>4. PendingUnsent' /\ PendingOnce' /\ NoRepeatedAlert'
  BY DEF AlertInv, PendingUnsent, PendingOnce, NoRepeatedAlert
<1>5. QED
  BY <1>1, <1>2, <1>3, <1>4 DEF AlertInv

\* A save that turns the loaded verdict turns the stored one.
LEMMA ToldIsTurned ==
  ASSUME IInv, NEW s \in Slots, pc[s] = "save", Exists(job[s])
  PROVE  ChangeIsTold(seen[s].status, Verdict(s).nextStatus)
           <=> Turned(docs[job[s]].status, Checked(s).status)
<1>1. /\ Checked(s).status = Verdict(s).nextStatus
      /\ seen[s].status = docs[job[s]].status
  BY SaveIsWholeCheck DEF IInv, Fresh
<1>2. Verdict(s).nextStatus \in {"UP", "DOWN", seen[s].status}
  BY DEF Verdict, calculateMonitorState
<1>3. QED
  BY <1>1, <1>2 DEF ChangeIsTold, shouldSendStatusAlert, Turned

\* The alert a save decides on has a number of its own.
LEMMA SaveAlert ==
  ASSUME IInv, Typed', AlertInv, NEW s \in Slots, SaveMonitor(s)
  PROVE  AlertInv'
<1> DEFINE m == job[s]
<1>1. /\ Typed
      /\ pc[s] = "save" /\ pc' = [pc EXCEPT ![s] = "log"] /\ job' = job /\ sent' = sent
      /\ m \in Monitors /\ Exists(m)
      /\ turns[m] \in Nat
  BY DEF SaveMonitor, Persist, Goto, IInv, Typed, TypeOK, WorksOnMonitor
<1>2. \A t \in Slots \ {s} : outcome'[t] = outcome[t] /\ pc'[t] = pc[t]
  BY <1>1 DEF SaveMonitor, Typed, TypeOK
<1>3. pc'[s] = "log"
  BY <1>1 DEF Typed, TypeOK
<1>4. CASE ~ ChangeIsTold(seen[s].status, Verdict(s).nextStatus)
  <2>1. outcome'[s] = Quiet
    BY <1>1, <1>4 DEF SaveMonitor, Typed, TypeOK
  <2>2. turns' = turns
    BY <1>1, <1>4, ToldIsTurned DEF SaveMonitor, Persist
  <2>3. \A n \in Monitors : turns'[n] >= turns[n]
    BY <1>1, <2>2 DEF Typed, TypeOK
  <2>4. \A t \in Slots : NoNewAlert(t)
    BY <1>1, <1>2, <2>1 DEF NoNewAlert, Quiet, Alert, AlertInv, PendingBusy
  <2>5. QED
    BY <1>1, <2>3, <2>4, AlertFrame
<1>5. CASE ChangeIsTold(seen[s].status, Verdict(s).nextStatus)
  <2>1. turns' = [turns EXCEPT ![m] = @ + 1]
    BY <1>1, <1>5, ToldIsTurned DEF SaveMonitor, Persist
  <2>2. /\ turns'[m] = turns[m] + 1
        /\ \A n \in Monitors \ {m} : turns'[n] = turns[n]
    BY <1>1, <2>1 DEF Typed, TypeOK
  <2>3. outcome'[s].turn = turns[m] + 1
    BY <1>1, <1>5, <2>2 DEF SaveMonitor, Typed, TypeOK
  <2>4. \A t \in Slots \ {s} : outcome[t] \in Alert =>
           /\ job[t] \in Monitors
           /\ turns[job[t]] \in Nat
           /\ outcome[t].turn \in Nat
           /\ outcome[t].turn <= turns[job[t]]
    BY <1>1 DEF AlertInv, PendingBusy, PendingCounted, Typed, TypeOK, WorksOnMonitor, Alert
  <2>5. PendingBusy'
    BY <1>2, <1>3 DEF AlertInv, PendingBusy
  <2>6. SentCounted'
    <3> SUFFICES ASSUME NEW n \in Monitors, NEW i \in DOMAIN sent[n]
                 PROVE  sent[n][i].turn <= turns'[n]
      BY <1>1 DEF SentCounted
    <3>1. sent[n][i].turn \in Nat /\ turns[n] \in Nat /\ sent[n][i].turn <= turns[n]
      BY <1>1, SentTyped DEF AlertInv, SentCounted
    <3>2. QED
      BY <2>2, <3>1
  <2>7. PendingCounted'
    BY <1>1, <1>2, <2>2, <2>3, <2>4 DEF PendingCounted
  <2>8. PendingUnsent'
    <3> SUFFICES ASSUME NEW t \in Slots, outcome'[t] \in Alert,
                        NEW i \in DOMAIN sent[job[t]]
                 PROVE  sent[job[t]][i].turn # outcome'[t].turn
      BY <1>1 DEF PendingUnsent
    <3>1. CASE t = s
      <4>1. sent[m][i].turn \in Nat /\ sent[m][i].turn <= turns[m]
        BY <1>1, <3>1, SentTyped DEF AlertInv, SentCounted
      <4>2. QED
        BY <1>1, <2>3, <3>1, <4>1
    <3>2. CASE t # s
      BY <1>2, <3>2 DEF AlertInv, PendingUnsent
    <3>3. QED
      BY <3>1, <3>2
  <2>9. PendingOnce'
    BY <1>1, <1>2, <2>3, <2>4 DEF AlertInv, PendingOnce
  <2>10. NoRepeatedAlert'
    BY <1>1 DEF AlertInv, NoRepeatedAlert
  <2>11. QED
    BY <2>5, <2>6, <2>7, <2>8, <2>9, <2>10 DEF AlertInv
<1>6. QED
  BY <1>4, <1>5

\* The elements of a sequence and the one appended to it.
LEMMA AppendElements ==
  ASSUME NEW T, NEW q \in Seq(T), NEW e \in T
  PROVE  \A i \in DOMAIN Append(q, e) :
           \/ i \in DOMAIN q /\ i # Len(q) + 1 /\ Append(q, e)[i] = q[i]
           \/ i \notin DOMAIN q /\ i = Len(q) + 1 /\ Append(q, e)[i] = e
OBVIOUS

\* Delivering a pending alert repeats none.
LEMMA SendKeepsInv ==
  ASSUME Typed, Typed', AlertInv, NEW s \in Slots, SendAlert(s)
  PROVE  AlertInv'
<1> DEFINE m == job[s]
           a == outcome[s]
<1>1. /\ m \in Monitors /\ a \in Alert
      /\ sent[m] \in Seq(Alert)
      /\ turns' = turns
      /\ sent'[m] = Append(sent[m], a)
      /\ \A n \in Monitors \ {m} : sent'[n] = sent[n]
  BY DEF SendAlert, Typed, TypeOK, WorksOnMonitor, HasAlert
<1>2. /\ outcome'[s] = Quiet
      /\ \A t \in Slots \ {s} : /\ outcome'[t] = outcome[t]
                               /\ job'[t] = job[t]
                               /\ pc'[t] = pc[t]
  BY DEF SendAlert, Done, Goto, Typed, TypeOK
<1>3. Quiet \notin Alert
  BY DEF Quiet, Alert
<1>4. \A i \in DOMAIN sent'[m] :
         \/ i \in DOMAIN sent[m] /\ i # Len(sent[m]) + 1 /\ sent'[m][i] = sent[m][i]
         \/ i = Len(sent[m]) + 1 /\ sent'[m][i] = a
  BY <1>1, AppendElements
<1>5. PendingBusy' /\ PendingCounted' /\ PendingOnce'
  BY <1>1, <1>2, <1>3 DEF AlertInv, PendingBusy, PendingCounted, PendingOnce
<1>6. SentCounted'
  <2> SUFFICES ASSUME NEW n \in Monitors, NEW i \in DOMAIN sent'[n]
               PROVE  sent'[n][i].turn <= turns[n]
    BY <1>1 DEF SentCounted
  <2>1. CASE n # m
    BY <1>1, <2>1 DEF AlertInv, SentCounted
  <2>2. CASE n = m
    <3>1. CASE i \in DOMAIN sent[m] /\ sent'[m][i] = sent[m][i]
      BY <2>2, <3>1 DEF AlertInv, SentCounted
    <3>2. CASE sent'[m][i] = a
      BY <1>1, <2>2, <3>2 DEF AlertInv, PendingCounted
    <3>3. QED
      BY <1>4, <2>2, <3>1, <3>2
  <2>3. QED
    BY <2>1, <2>2
<1>7. PendingUnsent'
  <2> SUFFICES ASSUME NEW t \in Slots, outcome'[t] \in Alert, t # s,
                      NEW i \in DOMAIN sent'[job[t]]
               PROVE  sent'[job[t]][i].turn # outcome[t].turn
    BY <1>2, <1>3 DEF PendingUnsent
  <2>1. outcome[t] \in Alert /\ job[t] \in Monitors
    BY <1>2 DEF AlertInv, PendingBusy, Typed, WorksOnMonitor
  <2>2. CASE job[t] # m
    BY <1>1, <2>1, <2>2 DEF AlertInv, PendingUnsent
  <2>3. CASE job[t] = m
    <3>1. a.turn # outcome[t].turn
      BY <1>1, <2>1, <2>3 DEF AlertInv, PendingOnce
    <3>2. QED
      BY <1>4, <2>1, <2>3, <3>1 DEF AlertInv, PendingUnsent
  <2>4. QED
    BY <2>2, <2>3
<1>8. NoRepeatedAlert'
  <2> SUFFICES ASSUME NEW n \in Monitors,
                      NEW i \in DOMAIN sent'[n], NEW j \in DOMAIN sent'[n],
                      sent'[n][i].turn = sent'[n][j].turn
               PROVE  i = j
    BY DEF NoRepeatedAlert
  <2>1. CASE n # m
    BY <1>1, <2>1 DEF AlertInv, NoRepeatedAlert
  <2>2. CASE n = m
    <3>1. \A k \in DOMAIN sent[m] : sent[m][k].turn # a.turn
      BY <1>1 DEF AlertInv, PendingUnsent
    <3>2. CASE i \in DOMAIN sent[m] /\ j \in DOMAIN sent[m]
      <4>1. sent'[m][i] = sent[m][i] /\ sent'[m][j] = sent[m][j]
        BY <1>1, <1>4, <2>2, <3>2
      <4>2. QED
        BY <1>1, <2>2, <3>2, <4>1 DEF AlertInv, NoRepeatedAlert
    <3>3. CASE i \notin DOMAIN sent[m] /\ j \notin DOMAIN sent[m]
      BY <1>4, <2>2, <3>3
    <3>4. CASE i \in DOMAIN sent[m] /\ j \notin DOMAIN sent[m]
      BY <1>4, <2>2, <3>1, <3>4
    <3>5. CASE i \notin DOMAIN sent[m] /\ j \in DOMAIN sent[m]
      BY <1>4, <2>2, <3>1, <3>5
    <3>6. QED
      BY <3>2, <3>3, <3>4, <3>5
  <2>3. QED
    BY <2>1, <2>2
<1>9. QED
  BY <1>5, <1>6, <1>7, <1>8 DEF AlertInv

\* No step repeats an alert.
LEMMA AlertStep ==
  ASSUME IInv, Typed', AlertInv, [Next]_vars
  PROVE  AlertInv'
<1> USE DEF apiVars, slotVars, tally, bounds
<1>1. Typed
  BY DEF IInv
<1>2. \A t \in Slots : outcome[t] \in Alert => pc[t] \in {"log", "release", "alert"}
  BY DEF AlertInv, PendingBusy
<1>3. \A m \in Monitors : turns[m] >= turns[m]
  BY <1>1 DEF Typed, TypeOK
<1>4. Quiet \notin Alert /\ Rejected \notin Alert
  BY DEF Quiet, Rejected, Alert
<1>5. ASSUME NEW s \in Slots, Done(s) \/ Throw(s) \/ AfterRelease(s)
      PROVE  \A t \in Slots : NoNewAlert(t)
  BY <1>1, <1>2, <1>4, <1>5
     DEF Done, Throw, AfterRelease, JobFails, Goto, NoNewAlert, Typed, TypeOK
<1>6. ASSUME NEW s \in Slots, LockBusy(s) \/ LockReplyLost(s) \/ LoadFails(s)
               \/ SaveGone(s) \/ LogFails(s) \/ ReleaseLock(s) \/ ReleaseFails(s)
               \/ AlertUndelivered(s) \/ AlertLookupFails(s) \/ Crash(s)
      PROVE  AlertInv'
  <2>1. /\ Done(s) \/ Throw(s) \/ AfterRelease(s)
        /\ turns' = turns /\ sent' = sent
    BY <1>6 DEF LockBusy, LockReplyLost, LoadFails, SaveGone, LogFails, ReleaseLock,
                ReleaseFails, AlertUndelivered, AlertLookupFails, Crash, JobFails
  <2>2. QED
    BY <1>1, <1>3, <1>5, <2>1, AlertFrame
<1>7. ASSUME NEW s \in Slots, SaveFails(s)
      PROVE  AlertInv'
  <2>1. Throw(s) /\ sent' = sent
    BY <1>7 DEF SaveFails
  <2>2. \A m \in Monitors : turns'[m] >= turns[m]
    <3>1. turns \in [Monitors -> Nat]
      BY <1>1 DEF Typed, TypeOK
    <3>2. CASE turns' = turns
      BY <1>3, <3>2
    <3>3. CASE turns' = [turns EXCEPT ![job[s]] = @ + 1]
      BY <3>1, <3>3
    <3>4. QED
      BY <1>7, <3>2, <3>3 DEF SaveFails, Persist
  <2>3. QED
    BY <1>1, <1>5, <2>1, <2>2, AlertFrame
<1>8. ASSUME NEW s \in Slots, AcquireLock(s) \/ LoadMonitor(s) \/ MonitorGone(s)
               \/ CheckEndpoint(s) \/ WriteLog(s)
      PROVE  AlertInv'
  <2>1. /\ turns' = turns /\ sent' = sent
        /\ \A t \in Slots : NoNewAlert(t)
    BY <1>1, <1>2, <1>8 DEF AcquireLock, LoadMonitor, MonitorGone, CheckEndpoint,
                            WriteLog, Goto, NoNewAlert, Typed, TypeOK
  <2>2. QED
    BY <1>1, <1>3, <2>1, AlertFrame
<1>9. ASSUME NEW s \in Slots, NEW m \in Monitors, TakeJob(s, m)
      PROVE  AlertInv'
  <2>1. /\ turns' = turns /\ sent' = sent
        /\ \A t \in Slots : NoNewAlert(t)
    BY <1>1, <1>2, <1>9 DEF TakeJob, Goto, NoNewAlert, Typed, TypeOK
  <2>2. QED
    BY <1>1, <1>3, <2>1, AlertFrame
<1>10. ASSUME UNCHANGED <<slotVars, tally>>
       PROVE  AlertInv'
  BY <1>1, <1>2, <1>3, <1>10, AlertFrame DEF NoNewAlert
<1>11. ASSUME NEW m \in Monitors, Environment(m)
       PROVE  UNCHANGED <<slotVars, tally>>
  BY <1>11 DEF Environment, Enqueue, Expire, ChangeAnswer, EditMonitor, DeleteLogs,
               DeleteMonitor, DeleteFails
<1>12. CASE UNCHANGED vars
  BY <1>10, <1>12 DEF vars
<1>13. QED
  BY <1>1, <1>6, <1>7, <1>8, <1>9, <1>10, <1>11, <1>12, SaveAlert, SendKeepsInv
     DEF Next, SlotStep

\* No change of a verdict is reported twice, whatever crashes, fails and is
\* retried, unless a lease runs out.
THEOREM AlertsAreNotRepeated ==
  ASSUME "lease" \notin Faults
  PROVE  Spec => []NoRepeatedAlert
<1>1. Init => IInv /\ AlertInv
  <2>1. Init => AlertInv
    BY DEF Init, AlertInv, PendingBusy, SentCounted, PendingCounted, PendingUnsent,
           PendingOnce, NoRepeatedAlert, Quiet, Alert
  <2>2. QED
    BY <2>1, IInvInit
<1>2. (IInv /\ AlertInv) /\ [Next]_vars => (IInv /\ AlertInv)'
  <2>1. IInv' => Typed'
    BY DEF IInv
  <2>2. QED
    BY <2>1, IInvStep, AlertStep
<1>3. IInv /\ AlertInv => NoRepeatedAlert
  BY DEF AlertInv
<1>4. QED
  BY <1>1, <1>2, <1>3, PTL DEF Spec

-----------------------------------------------------------------------------
(* Alerts and edits: edits and checks do not undo each other, only faults lose an
   alert, and the alerts pair up. *)

(* Edits *)

\* What each step does to the documents: a check leaves the expected status, an edit
\* everything else.
LEMMA EditStep ==
  ASSUME Typed, [Next]_vars, NEW m \in Monitors, Exists(m), Exists(m)'
  PROVE  \/ docs'[m].expectedStatus = docs[m].expectedStatus
         \/ /\ UNCHANGED slotVars
            /\ docs'[m] = Edited(docs[m], docs'[m].expectedStatus)
<1> USE DEF apiVars, slotVars, tally, bounds
<1>1. ASSUME NEW s \in Slots, pc[s] = "save", Persist(s)
      PROVE  docs'[m].expectedStatus = docs[m].expectedStatus
  <2>1. CASE m = job[s]
    <3>1. docs'[m] = Checked(s)
      BY <1>1, <2>1, PersistStores
    <3>2. Checked(s).expectedStatus = docs[m].expectedStatus
      BY <2>1 DEF Checked
    <3>3. QED
      BY <3>1, <3>2
  <2>2. CASE m # job[s]
    BY <1>1, <2>2, PersistStores
  <2>3. QED
    BY <2>1, <2>2
<1>2. ASSUME NEW s \in Slots, SlotStep(s) \/ Crash(s)
      PROVE  docs' = docs \/ (pc[s] = "save" /\ Persist(s))
  BY <1>2 DEF SlotStep, AcquireLock, LockBusy, LockReplyLost, LoadMonitor, MonitorGone,
              LoadFails, CheckEndpoint, SaveMonitor, SaveGone, SaveFails, WriteLog, LogFails,
              ReleaseLock, ReleaseFails, SendAlert, AlertUndelivered,
              AlertLookupFails, Crash
<1>3. ASSUME NEW s \in Slots, NEW n \in Monitors, TakeJob(s, n) PROVE docs' = docs
  BY <1>3 DEF TakeJob
<1>4. ASSUME NEW n \in Monitors, EditMonitor(n)
      PROVE  \/ docs'[m] = docs[m]
             \/ UNCHANGED slotVars /\ docs'[m] = Edited(docs[m], docs'[m].expectedStatus)
  BY <1>4 DEF EditMonitor, Edited, Typed, TypeOK
<1>5. ASSUME NEW n \in Monitors, DeleteMonitor(n)
      PROVE  docs'[m] = docs[m]
  BY <1>5 DEF DeleteMonitor, Exists, Typed, TypeOK
<1>6. ASSUME NEW n \in Monitors, Environment(n)
      PROVE  docs' = docs \/ EditMonitor(n) \/ DeleteMonitor(n)
  BY <1>6 DEF Environment, Enqueue, Expire, ChangeAnswer, DeleteLogs, DeleteFails
<1>7. CASE UNCHANGED vars
  BY <1>7 DEF vars
<1>8. QED
  BY <1>1, <1>2, <1>3, <1>4, <1>5, <1>6, <1>7 DEF Next

\* In any interleaving, leases that run out included, a check that loaded a monitor
\* before an edit does not undo the edit, and an edit does not touch the verdict.
THEOREM EditsAndChecksAreApart == Spec => EditsSurviveChecks
<1>1. Init => Typed
  BY TypedInit
<1>2. Typed /\ [Next]_vars => Typed'
  BY TypedStep
<1>3. Typed /\ [Next]_vars =>
        [\A m \in Monitors : Exists(m) /\ Exists(m)' =>
           \/ docs'[m].expectedStatus = docs[m].expectedStatus
           \/ /\ UNCHANGED slotVars
              /\ docs'[m] = Edited(docs[m], docs'[m].expectedStatus)]_vars
  BY EditStep
<1>4. QED
  BY <1>1, <1>2, <1>3, PTL DEF Spec, EditsSurviveChecks

-----------------------------------------------------------------------------
(* What a step counts *)

IsDown(d) == d.status = "DOWN"

\* A step that counts no change of m does not turn it between DOWN and another status.
CountsTurn(m) ==
  \/ turns'[m] = turns[m] + 1
  \/ turns'[m] = turns[m] /\ (Exists(m)' => Exists(m) /\ (IsDown(docs'[m]) <=> IsDown(docs[m])))

\* turns' of every step.
LEMMA TurnSteps ==
  ASSUME Typed, [Next]_vars
  PROVE  \/ \E s \in Slots : pc[s] = "save" /\ Persist(s)
         \/ turns' = turns
<1> USE DEF apiVars, slotVars, tally, bounds
<1>1. ASSUME NEW s \in Slots, SlotStep(s) \/ Crash(s)
      PROVE  turns' = turns \/ (pc[s] = "save" /\ Persist(s))
  BY <1>1 DEF SlotStep, AcquireLock, LockBusy, LockReplyLost, LoadMonitor, MonitorGone,
              LoadFails, CheckEndpoint, SaveMonitor, SaveGone, SaveFails, WriteLog, LogFails,
              ReleaseLock, ReleaseFails, SendAlert, AlertUndelivered,
              AlertLookupFails, Crash
<1>2. ASSUME NEW s \in Slots, NEW m \in Monitors, TakeJob(s, m) PROVE turns' = turns
  BY <1>2 DEF TakeJob
<1>3. ASSUME NEW m \in Monitors, Environment(m) PROVE turns' = turns
  BY <1>3 DEF Environment, Enqueue, Expire, ChangeAnswer, EditMonitor, DeleteLogs,
              DeleteMonitor, DeleteFails
<1>4. CASE UNCHANGED vars
  BY <1>4 DEF vars
<1>5. QED
  BY <1>1, <1>2, <1>3, <1>4 DEF Next

\* A persisted check counts exactly the changes to and from DOWN.
LEMMA PersistCounts ==
  ASSUME Typed, NEW s \in Slots, pc[s] = "save", Persist(s)
  PROVE  /\ \A m \in Monitors : CountsTurn(m)
         /\ \A m \in Monitors \ {job[s]} : turns'[m] = turns[m]
<1>1. /\ job[s] \in Monitors /\ Exists(job[s]) /\ docs'[job[s]] = Checked(s)
      /\ \A m \in Monitors \ {job[s]} : docs'[m] = docs[m]
  BY PersistStores
<1>2. turns \in [Monitors -> Nat]
  BY DEF Typed, TypeOK
<1>3. \A m \in Monitors \ {job[s]} : turns'[m] = turns[m]
  BY <1>2 DEF Persist
<1>4. CASE Turned(docs[job[s]].status, Checked(s).status)
  BY <1>1, <1>2, <1>3, <1>4 DEF Persist, CountsTurn, Exists
<1>5. CASE ~Turned(docs[job[s]].status, Checked(s).status)
  BY <1>1, <1>2, <1>3, <1>5 DEF Persist, CountsTurn, Turned, Exists, IsDown
<1>6. QED
  BY <1>3, <1>4, <1>5

\* What a whole step counts, for every monitor.
LEMMA StepCounts ==
  ASSUME Typed, [Next]_vars
  PROVE  \A m \in Monitors : CountsTurn(m)
<1>1. CASE \E s \in Slots : pc[s] = "save" /\ Persist(s)
  BY <1>1, PersistCounts
<1>2. CASE turns' = turns /\ \A m \in Monitors : KeepsVerdict(m)
  BY <1>2 DEF CountsTurn, KeepsVerdict, IsDown
<1>3. QED
  BY <1>1, <1>2, TurnSteps, DocSteps

\* Only a save makes an alert and only SendAlert delivers one.
LEMMA AlertSteps ==
  ASSUME Typed, AlertInv, [Next]_vars
  PROVE  \/ sent' = sent /\ \A t \in Slots : NoNewAlert(t)
         \/ \E s \in Slots : SaveMonitor(s) \/ SendAlert(s)
<1> USE DEF apiVars, slotVars, tally, bounds
<1>1. \A t \in Slots : outcome[t] \in Alert => pc[t] \in {"log", "release", "alert"}
  BY DEF AlertInv, PendingBusy
<1>2. Quiet \notin Alert /\ Rejected \notin Alert
  BY DEF Quiet, Rejected, Alert
<1>3. ASSUME NEW s \in Slots, Done(s) \/ Throw(s) \/ AfterRelease(s)
      PROVE  \A t \in Slots : NoNewAlert(t)
  BY <1>1, <1>2, <1>3
     DEF Done, Throw, AfterRelease, JobFails, Goto, NoNewAlert, Typed, TypeOK
<1>4. ASSUME NEW s \in Slots, LockBusy(s) \/ LockReplyLost(s) \/ LoadFails(s)
               \/ SaveGone(s) \/ SaveFails(s) \/ LogFails(s) \/ ReleaseLock(s) \/ ReleaseFails(s)
               \/ AlertUndelivered(s) \/ AlertLookupFails(s) \/ Crash(s)
      PROVE  (Done(s) \/ Throw(s) \/ AfterRelease(s)) /\ sent' = sent
  BY <1>4 DEF LockBusy, LockReplyLost, LoadFails, SaveGone, SaveFails, LogFails, ReleaseLock,
              ReleaseFails, AlertUndelivered, AlertLookupFails, Crash, JobFails
<1>5. ASSUME NEW s \in Slots, AcquireLock(s) \/ LoadMonitor(s) \/ MonitorGone(s)
               \/ CheckEndpoint(s) \/ WriteLog(s)
      PROVE  sent' = sent /\ \A t \in Slots : NoNewAlert(t)
  BY <1>1, <1>5 DEF AcquireLock, LoadMonitor, MonitorGone, CheckEndpoint,
                    WriteLog, Goto, NoNewAlert, Typed, TypeOK
<1>6. ASSUME NEW s \in Slots, NEW m \in Monitors, TakeJob(s, m)
      PROVE  sent' = sent /\ \A t \in Slots : NoNewAlert(t)
  BY <1>1, <1>6 DEF TakeJob, Goto, NoNewAlert, Typed, TypeOK
<1>7. ASSUME NEW m \in Monitors, Environment(m)
      PROVE  UNCHANGED <<slotVars, sent>>
  BY <1>7 DEF Environment, Enqueue, Expire, ChangeAnswer, EditMonitor, DeleteLogs,
              DeleteMonitor, DeleteFails
<1>8. ASSUME UNCHANGED <<slotVars, sent>>
      PROVE  sent' = sent /\ \A t \in Slots : NoNewAlert(t)
  BY <1>1, <1>8 DEF NoNewAlert
<1>9. CASE UNCHANGED vars
  BY <1>8, <1>9 DEF vars
<1>10. QED
  BY <1>3, <1>4, <1>5, <1>6, <1>7, <1>8, <1>9 DEF Next, SlotStep

\* At first there are no alerts.
LEMMA AlertInvInit == Init => AlertInv
BY DEF Init, AlertInv, PendingBusy, SentCounted, PendingCounted, PendingUnsent,
       PendingOnce, NoRepeatedAlert, Quiet, Alert

-----------------------------------------------------------------------------
(* Changes that are not told *)

UntoldTurns(m) == {k \in 1 .. turns[m] : ~Told(m, k)}

\* A slot's alert, if it has one, survives the step.
KeepsAlert(s) == outcome[s] \in Alert => outcome'[s] = outcome[s] /\ job'[s] = job[s]

\* An alert is lost, or a change has none, only by a fault.
LEMMA AlertLosses ==
  ASSUME Typed, AlertInv, [Next]_vars
  PROVE  \/ \E s \in Slots : SaveMonitor(s) \/ SendAlert(s)
         \/ /\ UNCHANGED <<sent, turns>> /\ faults' \in {faults, faults + 1}
            /\ \A t \in Slots : KeepsAlert(t)
         \/ /\ UNCHANGED <<sent, turns>> /\ faults' = faults + 1
            /\ \E s \in Slots : \A t \in Slots \ {s} : KeepsAlert(t)
         \/ /\ sent' = sent /\ faults' = faults + 1
            /\ \A t \in Slots : KeepsAlert(t)
            /\ \E s \in Slots : pc[s] = "save" /\ Persist(s)
<1> USE DEF apiVars, slotVars, tally, bounds
<1>1. \A t \in Slots : outcome[t] \in Alert => pc[t] \in {"log", "release", "alert"}
  BY DEF AlertInv, PendingBusy
<1>2. Quiet \notin Alert /\ Rejected \notin Alert
  BY DEF Quiet, Rejected, Alert
<1>3. ASSUME NEW s \in Slots, Done(s) \/ Throw(s) \/ AfterRelease(s)
      PROVE  \A t \in Slots \ {s} : KeepsAlert(t)
  BY <1>3 DEF Done, Throw, AfterRelease, JobFails, Goto, KeepsAlert, Typed, TypeOK
<1>4. ASSUME NEW s \in Slots, pc[s] \in {"idle", "acquire", "load", "save"} \/ AfterRelease(s)
      PROVE  KeepsAlert(s)
  BY <1>1, <1>2, <1>4 DEF KeepsAlert, AfterRelease
<1>5. ASSUME NEW s \in Slots, LockBusy(s) \/ LockReplyLost(s) \/ LoadFails(s) \/ SaveGone(s)
               \/ ReleaseLock(s) \/ ReleaseFails(s)
      PROVE  /\ UNCHANGED <<sent, turns>> /\ faults' \in {faults, faults + 1}
             /\ \A t \in Slots : KeepsAlert(t)
  <2>1. /\ UNCHANGED <<sent, turns>> /\ faults' \in {faults, faults + 1}
        /\ Done(s) \/ Throw(s) \/ AfterRelease(s)
        /\ pc[s] \in {"acquire", "load", "save"} \/ AfterRelease(s)
    BY <1>5 DEF LockBusy, LockReplyLost, LoadFails, SaveGone, ReleaseLock, ReleaseFails, Fault
  <2>2. QED
    BY <1>3, <1>4, <2>1
<1>6. ASSUME NEW s \in Slots, SaveFails(s)
      PROVE  /\ sent' = sent /\ faults' = faults + 1
             /\ \A t \in Slots : KeepsAlert(t)
             /\ turns' = turns \/ (pc[s] = "save" /\ Persist(s))
  <2>1. Throw(s) /\ pc[s] = "save"
    BY <1>6 DEF SaveFails
  <2>2. QED
    BY <1>3, <1>4, <1>6, <2>1 DEF SaveFails, Fault
<1>7. ASSUME NEW s \in Slots, LogFails(s) \/ AlertUndelivered(s) \/ AlertLookupFails(s) \/ Crash(s)
      PROVE  /\ UNCHANGED <<sent, turns>> /\ faults' = faults + 1
             /\ \A t \in Slots \ {s} : KeepsAlert(t)
  <2>1. UNCHANGED <<sent, turns>> /\ faults' = faults + 1 /\ (Done(s) \/ Throw(s))
    BY <1>7 DEF LogFails, AlertUndelivered, AlertLookupFails, Crash, JobFails, Fault
  <2>2. QED
    BY <1>3, <2>1
<1>8. ASSUME NEW s \in Slots, AcquireLock(s) \/ LoadMonitor(s) \/ MonitorGone(s)
               \/ CheckEndpoint(s) \/ WriteLog(s)
      PROVE  UNCHANGED <<sent, turns, faults, outcome, job>>
  BY <1>8 DEF AcquireLock, LoadMonitor, MonitorGone, CheckEndpoint, WriteLog
<1>9. ASSUME NEW s \in Slots, NEW m \in Monitors, TakeJob(s, m)
      PROVE  UNCHANGED <<sent, turns, faults>> /\ \A t \in Slots : KeepsAlert(t)
  BY <1>1, <1>9 DEF TakeJob, Goto, KeepsAlert, Typed, TypeOK
<1>10. ASSUME NEW m \in Monitors, Environment(m)
       PROVE  UNCHANGED <<sent, turns, outcome, job>> /\ faults' \in {faults, faults + 1}
  BY <1>10 DEF Environment, Enqueue, Expire, ChangeAnswer, Change, EditMonitor, DeleteLogs,
               DeleteMonitor, DeleteFails, Fault
<1>11. ASSUME UNCHANGED <<outcome, job>> PROVE \A t \in Slots : KeepsAlert(t)
  BY <1>11 DEF KeepsAlert
<1>12. CASE UNCHANGED vars
  BY <1>11, <1>12 DEF vars
<1>13. QED
  BY <1>5, <1>6, <1>7, <1>8, <1>9, <1>10, <1>11, <1>12 DEF Next, SlotStep

\* What was told stays told, but for the alert that a slot loses.
LEMMA ToldStays ==
  ASSUME NEW m \in Monitors, NEW k, Told(m, k), sent' = sent, NEW s \in Slots,
         \A t \in Slots \ {s} : KeepsAlert(t)
  PROVE  Told(m, k)' \/ (k = outcome[s].turn /\ ~KeepsAlert(s))
BY DEF Told, KeepsAlert

\* A step leaves a further change of m untold only if it is a fault, and at most one.
LEMMA UntoldStep ==
  ASSUME IInv, AlertInv, [Next]_vars, NEW m \in Monitors
  PROVE  \/ UntoldTurns(m)' \subseteq UntoldTurns(m) /\ faults' \in {faults, faults + 1}
         \/ \E k : UntoldTurns(m)' \subseteq UntoldTurns(m) \cup {k} /\ faults' = faults + 1
<1> USE DEF UntoldTurns
<1>1. Typed /\ turns[m] \in Nat
  BY DEF IInv, Typed, TypeOK
<1>2. ASSUME UNCHANGED <<sent, turns>>, \A t \in Slots : KeepsAlert(t)
      PROVE  UntoldTurns(m)' \subseteq UntoldTurns(m)
  BY <1>2 DEF Told, KeepsAlert
<1>3. ASSUME UNCHANGED <<sent, turns>>, NEW s \in Slots, \A t \in Slots \ {s} : KeepsAlert(t)
      PROVE  UntoldTurns(m)' \subseteq UntoldTurns(m) \cup {outcome[s].turn}
  BY <1>3, ToldStays
<1>4. ASSUME NEW s \in Slots, pc[s] = "save", Persist(s), sent' = sent,
             \A t \in Slots : KeepsAlert(t)
      PROVE  UntoldTurns(m)' \subseteq UntoldTurns(m) \cup {turns[m] + 1}
  <2>1. turns'[m] = turns[m] \/ turns'[m] = turns[m] + 1
    BY <1>1, <1>4, PersistCounts DEF CountsTurn
  <2>2. \A k : Told(m, k) => Told(m, k)'
    BY <1>4 DEF Told, KeepsAlert
  <2>3. QED
    BY <1>1, <2>1, <2>2
<1>5. ASSUME NEW s \in Slots, SaveMonitor(s)
      PROVE  UntoldTurns(m)' \subseteq UntoldTurns(m) /\ faults' = faults
  <2>1. /\ pc[s] = "save" /\ Persist(s) /\ UNCHANGED <<sent, job, faults>> /\ Exists(job[s])
        /\ job[s] \in Monitors
    BY <1>1, <1>5 DEF SaveMonitor, Persist, bounds, Typed, WorksOnMonitor
  <2>2. \A t \in Slots : KeepsAlert(t)
    BY <1>1, <1>5 DEF SaveMonitor, KeepsAlert, AlertInv, PendingBusy, Typed, TypeOK
  <2>3. \A k : Told(m, k) => Told(m, k)'
    BY <2>1, <2>2 DEF Told, KeepsAlert
  <2>4. CASE turns'[m] = turns[m]
    BY <2>1, <2>3, <2>4
  <2>5. CASE turns'[m] # turns[m]
    <3>1. m = job[s] /\ turns'[m] = turns[m] + 1
      BY <1>1, <2>1, <2>5, PersistCounts DEF CountsTurn
    <3>2. Turned(docs[m].status, Checked(s).status)
      BY <2>1, <2>5, <3>1 DEF Persist
    <3>3. ChangeIsTold(seen[s].status, Verdict(s).nextStatus)
      BY <2>1, <3>1, <3>2, ToldIsTurned
    <3>4. outcome'[s] = [status |-> Verdict(s).nextStatus, turn |-> turns[m] + 1]
      BY <1>1, <1>5, <3>1, <3>3 DEF SaveMonitor, Typed, TypeOK
    <3>5. outcome'[s] \in Alert
      BY <1>1, <3>3, <3>4 DEF Alert, ChangeIsTold, shouldSendStatusAlert
    <3>6. \A k : k = turns[m] + 1 => Told(m, k)'
      BY <2>1, <3>1, <3>4, <3>5 DEF Told
    <3>7. QED
      BY <1>1, <2>1, <2>3, <3>1, <3>6
  <2>6. QED
    BY <2>4, <2>5
<1>6. ASSUME NEW s \in Slots, SendAlert(s)
      PROVE  UntoldTurns(m)' \subseteq UntoldTurns(m) /\ faults' = faults
  <2>1. /\ job[s] \in Monitors /\ outcome[s] \in Alert /\ sent[job[s]] \in Seq(Alert)
        /\ UNCHANGED <<turns, faults>>
        /\ sent'[job[s]] = Append(sent[job[s]], outcome[s])
        /\ \A n \in Monitors \ {job[s]} : sent'[n] = sent[n]
        /\ \A t \in Slots \ {s} : outcome'[t] = outcome[t] /\ job'[t] = job[t]
    BY <1>1, <1>6 DEF SendAlert, Done, Typed, TypeOK, WorksOnMonitor, HasAlert, bounds
  <2>2. ASSUME NEW k, Told(m, k) PROVE Told(m, k)'
    <3>1. CASE \E i \in DOMAIN sent[m] : sent[m][i].turn = k
      <4>1. \A i \in DOMAIN sent[m] : i \in DOMAIN sent'[m] /\ sent'[m][i] = sent[m][i]
        BY <2>1
      <4>2. QED
        BY <3>1, <4>1 DEF Told
    <3>2. CASE \E t \in Slots \ {s} : job[t] = m /\ outcome[t] \in Alert /\ outcome[t].turn = k
      BY <2>1, <3>2 DEF Told
    <3>3. CASE job[s] = m /\ outcome[s].turn = k
      <4>1. Len(sent[m]) + 1 \in DOMAIN sent'[m] /\ sent'[m][Len(sent[m]) + 1] = outcome[s]
        BY <2>1, <3>3
      <4>2. QED
        BY <3>3, <4>1 DEF Told
    <3>4. QED
      BY <2>2, <3>1, <3>2, <3>3 DEF Told
  <2>3. QED
    BY <2>1, <2>2
<1>7. QED
  BY <1>1, <1>2, <1>3, <1>4, <1>5, <1>6, AlertLosses

\* A set that gains at most one element.
LEMMA OneMore ==
  ASSUME NEW S, NEW T, NEW k, IsFiniteSet(S), T \subseteq S \cup {k}
  PROVE  Cardinality(T) \in Nat /\ Cardinality(T) <= Cardinality(S) + 1
<1>1. /\ IsFiniteSet(S \cup {k}) /\ Cardinality(S) \in Nat
      /\ Cardinality(S \cup {k}) \in Nat /\ Cardinality(S \cup {k}) <= Cardinality(S) + 1
  <2>1. Cardinality(S) \in Nat
    BY FS_CardinalityType
  <2>2. /\ IsFiniteSet(S \cup {k})
        /\ Cardinality(S \cup {k}) = IF k \in S THEN Cardinality(S) ELSE Cardinality(S) + 1
    BY FS_AddElement
  <2>3. QED
    BY <2>1, <2>2
<1>2. Cardinality(T) <= Cardinality(S \cup {k}) /\ IsFiniteSet(T)
  BY <1>1, FS_Subset
<1>3. Cardinality(T) \in Nat
  BY <1>2, FS_CardinalityType
<1>4. QED
  BY <1>1, <1>2, <1>3

\* The count of untold changes stays within the faults.
LEMMA UntoldKept ==
  ASSUME IInv, AlertInv, UntoldChangesAreFaults, [Next]_vars
  PROVE  UntoldChangesAreFaults'
<1> SUFFICES ASSUME NEW m \in Monitors
             PROVE  Cardinality(UntoldTurns(m)') <= faults'
  BY DEF UntoldChangesAreFaults, UntoldTurns
<1>1. /\ turns[m] \in Nat /\ IsFiniteSet(1 .. turns[m])
      /\ faults \in Nat /\ Cardinality(UntoldTurns(m)) <= faults
  BY FS_Interval DEF IInv, Typed, TypeOK, UntoldChangesAreFaults, UntoldTurns
<1>2. UntoldTurns(m) \subseteq 1 .. turns[m]
  BY DEF UntoldTurns
<1>3. IsFiniteSet(UntoldTurns(m))
  BY <1>1, <1>2, FS_Subset
<1>4. Cardinality(UntoldTurns(m)) \in Nat
  BY <1>3, FS_CardinalityType
<1>5. CASE UntoldTurns(m)' \subseteq UntoldTurns(m) /\ faults' \in {faults, faults + 1}
  <2>1. Cardinality(UntoldTurns(m)') <= Cardinality(UntoldTurns(m)) /\ IsFiniteSet(UntoldTurns(m)')
    BY <1>3, <1>5, FS_Subset
  <2>2. Cardinality(UntoldTurns(m)') \in Nat
    BY <2>1, FS_CardinalityType
  <2>3. QED
    BY <1>1, <1>4, <1>5, <2>1, <2>2
<1>6. ASSUME NEW k, UntoldTurns(m)' \subseteq UntoldTurns(m) \cup {k}, faults' = faults + 1
      PROVE  Cardinality(UntoldTurns(m)') <= faults'
  <2>1. /\ Cardinality(UntoldTurns(m)') \in Nat
        /\ Cardinality(UntoldTurns(m)') <= Cardinality(UntoldTurns(m)) + 1
    BY <1>3, <1>6, OneMore
  <2>2. QED
    BY <1>1, <1>4, <1>6, <2>1
<1>7. QED
  BY <1>5, <1>6, UntoldStep

\* However checks, retries, edits and deletes interleave, each change that the owner is not
\* told of cost a fault of its own, unless a lease runs out under its holder.
THEOREM OnlyFaultsLoseAlerts ==
  ASSUME "lease" \notin Faults
  PROVE  Spec => []UntoldChangesAreFaults
<1>1. Init => IInv /\ AlertInv /\ UntoldChangesAreFaults
  <2>1. Init => UntoldChangesAreFaults
    <3> SUFFICES ASSUME Init, NEW m \in Monitors
                 PROVE  Cardinality({k \in 1 .. turns[m] : ~Told(m, k)}) <= faults
      BY DEF UntoldChangesAreFaults
    <3>1. {k \in 1 .. turns[m] : ~Told(m, k)} = {} /\ faults = 0
      BY DEF Init
    <3>2. QED
      BY <3>1, FS_EmptySet
  <2>2. QED
    BY <2>1, IInvInit, AlertInvInit
<1>2. (IInv /\ AlertInv /\ UntoldChangesAreFaults) /\ [Next]_vars
        => (IInv /\ AlertInv /\ UntoldChangesAreFaults)'
  <2>1. IInv' => Typed'
    BY DEF IInv
  <2>2. QED
    BY <2>1, IInvStep, AlertStep, UntoldKept
<1>3. QED
  BY <1>1, <1>2, PTL DEF Spec
-----------------------------------------------------------------------------
(* The alerts pair up *)

\* The two parts of Alerts(m, st).
SentSet(m, st) == {i \in DOMAIN sent[m] : sent[m][i].status = st}
PendingSet(m, st) ==
  {s \in Slots : job[s] = m /\ outcome[s] \in Alert /\ outcome[s].status = st}

\* The property for one monitor.
PairUp(m) ==
  /\ Alerts(m, "DOWN") <= Alerts(m, "UP") + Standing(m) + faults
  /\ Alerts(m, "UP") + Standing(m) <= Alerts(m, "DOWN") + faults

\* Messages of one status are finitely many, and a further one adds at most itself.
LEMMA SequenceCounts ==
  ASSUME NEW q \in Seq(Alert), NEW st
  PROVE  /\ Cardinality({i \in DOMAIN q : q[i].status = st}) \in Nat
         /\ \A a \in Alert :
              Cardinality({i \in DOMAIN Append(q, a) : Append(q, a)[i].status = st}) =
                Cardinality({i \in DOMAIN q : q[i].status = st})
                  + IF a.status = st THEN 1 ELSE 0
<1> DEFINE S == {i \in DOMAIN q : q[i].status = st}
<1>1. Len(q) \in Nat /\ DOMAIN q = 1 .. Len(q) /\ S \subseteq 1 .. Len(q)
  OBVIOUS
<1>2. IsFiniteSet(S)
  <2>1. IsFiniteSet(1 .. Len(q))
    BY <1>1, FS_Interval
  <2> HIDE DEF S
  <2>2. QED
    BY <1>1, <2>1, FS_Subset
<1>3. Cardinality(S) \in Nat
  BY <1>2, FS_CardinalityType
<1>4. ASSUME NEW a \in Alert
      PROVE  Cardinality({i \in DOMAIN Append(q, a) : Append(q, a)[i].status = st}) =
               Cardinality(S) + IF a.status = st THEN 1 ELSE 0
  <2> DEFINE T == {i \in DOMAIN Append(q, a) : Append(q, a)[i].status = st}
  <2>1. CASE a.status = st
    <3>1. T = S \cup {Len(q) + 1} /\ Len(q) + 1 \notin S
      BY <1>1, <2>1
    <3>2. Cardinality(S \cup {Len(q) + 1}) = Cardinality(S) + 1
      BY <1>2, <3>1, FS_AddElement
    <3>3. QED
      BY <2>1, <3>1, <3>2
  <2>2. CASE a.status # st
    <3>1. T = S
      BY <1>1, <2>2
    <3> HIDE DEF S, T
    <3>2. Cardinality(T) = Cardinality(S) + IF a.status = st THEN 1 ELSE 0
      BY <1>3, <2>2, <3>1
    <3>3. QED
      BY <3>2 DEF S, T
  <2>3. QED
    BY <2>1, <2>2
<1>5. QED
  BY <1>3, <1>4

\* A set of slots, and the set with one slot more.
LEMMA SlotCounts ==
  ASSUME NEW S, S \subseteq Slots, NEW s \in Slots, s \notin S
  PROVE  /\ Cardinality(S) \in Nat
         /\ Cardinality(S \cup {s}) = Cardinality(S) + 1
<1>1. IsFiniteSet(S)
  BY ConstantsAssumption, FS_Subset
<1>2. QED
  BY <1>1, FS_CardinalityType, FS_AddElement

\* The counts of both statuses are numbers.
LEMMA AlertsType ==
  ASSUME Typed, NEW m \in Monitors, NEW st
  PROVE  /\ Cardinality(SentSet(m, st)) \in Nat
         /\ Cardinality(PendingSet(m, st)) \in Nat
         /\ Alerts(m, st) = Cardinality(SentSet(m, st)) + Cardinality(PendingSet(m, st))
<1>1. sent[m] \in Seq(Alert)
  BY DEF Typed, TypeOK
<1>2. Cardinality(SentSet(m, st)) \in Nat
  BY <1>1, SequenceCounts DEF SentSet
<1>3. PendingSet(m, st) \subseteq Slots
  BY DEF PendingSet
<1>4. Cardinality(PendingSet(m, st)) \in Nat
  BY <1>3, ConstantsAssumption, FS_Subset, FS_CardinalityType
<1>5. QED
  BY <1>2, <1>4 DEF Alerts, SentSet, PendingSet

\* The same sum after a step.
LEMMA AlertsPrimed ==
  ASSUME NEW m \in Monitors, NEW st
  PROVE  Alerts(m, st)' = Cardinality(SentSet(m, st)') + Cardinality(PendingSet(m, st)')
BY DEF Alerts, SentSet, PendingSet

\* A step that sends nothing and neither makes nor loses an alert.
LEMMA AlertsStay ==
  ASSUME NEW m \in Monitors, NEW st, sent' = sent,
         \A t \in Slots : NoNewAlert(t) /\ KeepsAlert(t)
  PROVE  SentSet(m, st)' = SentSet(m, st) /\ PendingSet(m, st)' = PendingSet(m, st)
BY DEF SentSet, PendingSet, NoNewAlert, KeepsAlert

\* A step in which at most the alert of slot s is lost.
LEMMA AlertsLost ==
  ASSUME NEW m \in Monitors, NEW st, sent' = sent, NEW s \in Slots,
         \A t \in Slots : NoNewAlert(t), \A t \in Slots \ {s} : KeepsAlert(t)
  PROVE  /\ SentSet(m, st)' = SentSet(m, st)
         /\ \/ PendingSet(m, st)' = PendingSet(m, st)
            \/ /\ outcome[s].status = st /\ s \notin PendingSet(m, st)'
               /\ PendingSet(m, st) = PendingSet(m, st)' \cup {s}
BY DEF SentSet, PendingSet, NoNewAlert, KeepsAlert

\* Standing follows DOWN.
LEMMA StandingKept ==
  ASSUME Typed, NEW m \in Monitors, CountsTurn(m), turns'[m] = turns[m], Exists(m)'
  PROVE  Exists(m) /\ Standing(m)' = Standing(m)
<1>1. turns[m] \in Nat
  BY DEF Typed, TypeOK
<1>2. QED
  BY <1>1 DEF CountsTurn, Standing, IsDown

\* A step that loses an alert, or turns a verdict without one, is a fault.
LEMMA PairUpLoss ==
  ASSUME Typed, Typed', AlertInv, [Next]_vars, NEW m \in Monitors, Exists(m)',
         Exists(m) => PairUp(m),
         ~ \E s \in Slots : SaveMonitor(s) \/ SendAlert(s)
  PROVE  PairUp(m)'
<1>1. /\ faults \in Nat /\ turns[m] \in Nat
      /\ Standing(m) \in {0, 1} /\ Standing(m)' \in {0, 1}
      /\ CountsTurn(m)
  BY StepCounts DEF Standing, Typed, TypeOK
<1>2. sent' = sent /\ \A t \in Slots : NoNewAlert(t)
  BY AlertSteps
<1>3. \A st \in {"UP", "DOWN"} :
        /\ Cardinality(SentSet(m, st)) \in Nat
        /\ Cardinality(PendingSet(m, st)) \in Nat
        /\ Alerts(m, st) = Cardinality(SentSet(m, st)) + Cardinality(PendingSet(m, st))
        /\ Alerts(m, st)' = Cardinality(SentSet(m, st)') + Cardinality(PendingSet(m, st)')
  BY AlertsType, AlertsPrimed
<1>4. CASE /\ UNCHANGED <<sent, turns>> /\ faults' \in {faults, faults + 1}
           /\ \A t \in Slots : KeepsAlert(t)
  <2>1. Exists(m) /\ Standing(m)' = Standing(m)
    BY <1>1, <1>4, StandingKept
  <2>2. \A st \in {"UP", "DOWN"} : Alerts(m, st)' = Alerts(m, st) /\ Alerts(m, st) \in Nat
    BY <1>2, <1>3, <1>4, AlertsStay
  <2>3. PairUp(m)
    BY <2>1
  <2>4. QED
    BY <1>1, <1>4, <2>1, <2>2, <2>3 DEF PairUp
<1>5. CASE /\ UNCHANGED <<sent, turns>> /\ faults' = faults + 1
           /\ \E s \in Slots : \A t \in Slots \ {s} : KeepsAlert(t)
  <2>1. PICK s \in Slots : \A t \in Slots \ {s} : KeepsAlert(t)
    BY <1>5
  <2>2. Exists(m) /\ Standing(m)' = Standing(m)
    BY <1>1, <1>5, StandingKept
  <2>3. PairUp(m)
    BY <2>2
  <2>4. ASSUME NEW st \in {"UP", "DOWN"}
        PROVE  /\ Alerts(m, st) \in Nat /\ Alerts(m, st)' \in Nat
               /\ \/ Alerts(m, st)' = Alerts(m, st)
                  \/ Alerts(m, st) = Alerts(m, st)' + 1 /\ outcome[s].status = st
    <3>1. SentSet(m, st)' = SentSet(m, st)
      BY <1>2, <2>1, AlertsLost
    <3>2. CASE PendingSet(m, st)' = PendingSet(m, st)
      BY <1>3, <3>1, <3>2
    <3>3. CASE /\ outcome[s].status = st /\ s \notin PendingSet(m, st)'
               /\ PendingSet(m, st) = PendingSet(m, st)' \cup {s}
      <4>1. PendingSet(m, st)' \subseteq Slots
        BY DEF PendingSet
      <4>2. /\ Cardinality(PendingSet(m, st)') \in Nat
            /\ Cardinality(PendingSet(m, st)) = Cardinality(PendingSet(m, st)') + 1
        BY <3>3, <4>1, SlotCounts
      <4>3. QED
        BY <1>3, <3>1, <3>3, <4>2
    <3>4. QED
      BY <1>2, <2>1, <3>2, <3>3, AlertsLost
  <2>5. QED
    BY <1>1, <1>5, <2>2, <2>3, <2>4 DEF PairUp
<1>6. CASE /\ sent' = sent /\ faults' = faults + 1
           /\ \A t \in Slots : KeepsAlert(t)
           /\ \E s \in Slots : pc[s] = "save" /\ Persist(s)
  <2>1. Exists(m)
    <3>1. PICK s \in Slots : pc[s] = "save" /\ Persist(s)
      BY <1>6
    <3>2. QED
      BY <3>1, PersistStores DEF Exists
  <2>2. \A st \in {"UP", "DOWN"} : Alerts(m, st)' = Alerts(m, st) /\ Alerts(m, st) \in Nat
    BY <1>2, <1>3, <1>6, AlertsStay
  <2>3. QED
    BY <1>1, <1>6, <2>1, <2>2 DEF PairUp
<1>7. QED
  BY <1>4, <1>5, <1>6, AlertLosses

\* A save that turns the verdict has the alert that says so.
LEMMA PairUpSave ==
  ASSUME IInv, Typed', AlertInv, AlertsPairUp, [Next]_vars, NEW s \in Slots, SaveMonitor(s),
         NEW m \in Monitors, Exists(m)'
  PROVE  PairUp(m)'
<1>1. /\ Typed /\ pc[s] = "save" /\ Persist(s) /\ UNCHANGED <<sent, job, faults>>
      /\ job[s] \in Monitors /\ Exists(job[s]) /\ faults \in Nat /\ turns[m] \in Nat
      /\ turns \in [Monitors -> Nat]
  BY DEF SaveMonitor, Persist, bounds, IInv, Typed, TypeOK, WorksOnMonitor
<1>2. /\ \A t \in Slots \ {s} : outcome'[t] = outcome[t]
      /\ outcome[s] \notin Alert
  BY <1>1 DEF SaveMonitor, AlertInv, PendingBusy, Typed, TypeOK
<1>3. /\ docs'[job[s]] = Checked(s)
      /\ \A n \in Monitors \ {job[s]} : docs'[n] = docs[n]
  BY <1>1, PersistStores
<1>4. Exists(m) /\ PairUp(m)
  BY <1>1, <1>3 DEF Exists, AlertsPairUp, PairUp
<1>5. \A st \in {"UP", "DOWN"} :
        /\ Cardinality(SentSet(m, st)) \in Nat
        /\ Cardinality(PendingSet(m, st)) \in Nat
        /\ Alerts(m, st) = Cardinality(SentSet(m, st)) + Cardinality(PendingSet(m, st))
        /\ Alerts(m, st)' = Cardinality(SentSet(m, st)') + Cardinality(PendingSet(m, st)')
        /\ SentSet(m, st)' = SentSet(m, st)
  BY <1>1, AlertsType, AlertsPrimed DEF SentSet
<1>6. CASE m = job[s] /\ Turned(docs[m].status, Checked(s).status)
  <2> DEFINE new == Verdict(s).nextStatus
  <2>1. /\ ChangeIsTold(seen[s].status, new) /\ Checked(s).status = new
        /\ turns'[m] \in Nat
    BY <1>1, <1>6, ToldIsTurned, SaveIsWholeCheck DEF IInv, Fresh, Typed, TypeOK
  <2>2. outcome'[s] = [status |-> new, turn |-> turns'[m]]
    BY <1>1, <1>6, <2>1 DEF SaveMonitor, Typed, TypeOK
  <2>3. new \in {"UP", "DOWN"} /\ outcome'[s] \in Alert /\ outcome'[s].status = new
    BY <2>1, <2>2 DEF Alert, ChangeIsTold, shouldSendStatusAlert
  <2> HIDE DEF new
  <2>4. \A st \in {"UP", "DOWN"} :
           /\ s \notin PendingSet(m, st) /\ PendingSet(m, st) \subseteq Slots
           /\ PendingSet(m, st)' =
                IF st = new THEN PendingSet(m, st) \cup {s} ELSE PendingSet(m, st)
    BY <1>1, <1>2, <1>6, <2>3 DEF PendingSet
  <2>5. ASSUME NEW st \in {"UP", "DOWN"}
        PROVE  Alerts(m, st) \in Nat /\ Alerts(m, st)' = Alerts(m, st) + IF st = new THEN 1 ELSE 0
    <3>1. CASE st = new
      <4>1. Cardinality(PendingSet(m, st)') = Cardinality(PendingSet(m, st)) + 1
        BY <2>4, <3>1, SlotCounts
      <4>2. QED
        BY <1>5, <3>1, <4>1
    <3>2. CASE st # new
      BY <1>5, <2>4, <3>2
    <3>3. QED
      BY <3>1, <3>2
  <2>6. /\ Standing(m) = IF new = "DOWN" THEN 0 ELSE 1
        /\ Standing(m)' = IF new = "DOWN" THEN 1 ELSE 0
    BY <1>3, <1>6, <2>1, <2>3 DEF Standing, Turned
  <2>7. CASE new = "DOWN"
    BY <1>1, <1>4, <2>5, <2>6, <2>7 DEF PairUp
  <2>8. CASE new = "UP"
    BY <1>1, <1>4, <2>5, <2>6, <2>8 DEF PairUp
  <2>9. QED
    BY <2>3, <2>7, <2>8
<1>7. CASE ~(m = job[s] /\ Turned(docs[m].status, Checked(s).status))
  <2>1. m = job[s] => outcome'[s] = Quiet
    <3>1. CASE m = job[s]
      <4>1. ~ChangeIsTold(seen[s].status, Verdict(s).nextStatus)
        BY <1>1, <1>7, <3>1, ToldIsTurned
      <4>2. QED
        BY <1>1, <4>1 DEF SaveMonitor, Typed, TypeOK
    <3>2. QED
      BY <3>1
  <2>2. Quiet \notin Alert
    BY DEF Quiet, Alert
  <2>3. \A st \in {"UP", "DOWN"} : PendingSet(m, st)' = PendingSet(m, st)
    BY <1>1, <1>2, <2>1, <2>2 DEF PendingSet
  <2>4. Standing(m)' = Standing(m) /\ Standing(m) \in {0, 1}
    BY <1>3, <1>7 DEF Standing, Turned
  <2>5. QED
    BY <1>1, <1>4, <1>5, <2>3, <2>4 DEF PairUp
<1>8. QED
  BY <1>6, <1>7

\* A delivered message was counted while it was pending.
LEMMA PairUpSend ==
  ASSUME IInv, AlertsPairUp, NEW s \in Slots, SendAlert(s), NEW m \in Monitors, Exists(m)'
  PROVE  PairUp(m)'
<1>1. /\ Typed /\ job[s] \in Monitors /\ outcome[s] \in Alert
      /\ \A n \in Monitors : sent[n] \in Seq(Alert)
      /\ UNCHANGED <<docs, faults>> /\ faults \in Nat
      /\ sent'[job[s]] = Append(sent[job[s]], outcome[s])
      /\ \A n \in Monitors \ {job[s]} : sent'[n] = sent[n]
      /\ outcome'[s] = Quiet
      /\ \A t \in Slots \ {s} : outcome'[t] = outcome[t] /\ job'[t] = job[t]
  BY DEF SendAlert, Done, IInv, Typed, TypeOK, WorksOnMonitor, HasAlert, bounds
<1>2. Exists(m) /\ PairUp(m) /\ Standing(m)' = Standing(m) /\ Standing(m) \in {0, 1}
  BY <1>1 DEF Exists, AlertsPairUp, PairUp, Standing
<1>3. Quiet \notin Alert
  BY DEF Quiet, Alert
<1>4. ASSUME NEW st \in {"UP", "DOWN"}
      PROVE  Alerts(m, st) \in Nat /\ Alerts(m, st)' = Alerts(m, st)
  <2>1. /\ Cardinality(SentSet(m, st)) \in Nat
        /\ Cardinality(PendingSet(m, st)) \in Nat
        /\ Alerts(m, st) = Cardinality(SentSet(m, st)) + Cardinality(PendingSet(m, st))
        /\ Alerts(m, st)' = Cardinality(SentSet(m, st)') + Cardinality(PendingSet(m, st)')
    BY <1>1, AlertsType, AlertsPrimed
  <2>2. m = job[s] => SentSet(m, st)' = {i \in DOMAIN Append(sent[m], outcome[s]) :
                                           Append(sent[m], outcome[s])[i].status = st}
    BY <1>1 DEF SentSet
  <2>3. m = job[s] => Cardinality(SentSet(m, st)') =
          Cardinality(SentSet(m, st)) + IF outcome[s].status = st THEN 1 ELSE 0
    <3>1. \A a \in Alert :
            Cardinality({i \in DOMAIN Append(sent[m], a) : Append(sent[m], a)[i].status = st}) =
              Cardinality(SentSet(m, st)) + IF a.status = st THEN 1 ELSE 0
      <4> DEFINE q == sent[m]
      <4>1. q \in Seq(Alert)
        BY <1>1
      <4>2. SentSet(m, st) = {i \in DOMAIN q : q[i].status = st}
        BY DEF SentSet
      <4> HIDE DEF q
      <4>3. \A a \in Alert :
              Cardinality({i \in DOMAIN Append(q, a) : Append(q, a)[i].status = st}) =
                Cardinality({i \in DOMAIN q : q[i].status = st})
                  + IF a.status = st THEN 1 ELSE 0
        BY <4>1, SequenceCounts
      <4>4. QED
        BY <4>2, <4>3, Zenon DEF q
    <3>2. QED
      BY <1>1, <2>2, <3>1, Zenon
  <2>4. CASE m = job[s] /\ outcome[s].status = st
    <3>1. Cardinality(SentSet(m, st)') = Cardinality(SentSet(m, st)) + 1
      BY <2>3, <2>4
    <3>2. /\ PendingSet(m, st) = PendingSet(m, st)' \cup {s}
          /\ s \notin PendingSet(m, st)' /\ PendingSet(m, st)' \subseteq Slots
      BY <1>1, <1>3, <2>4 DEF PendingSet
    <3>3. /\ Cardinality(PendingSet(m, st)') \in Nat
          /\ Cardinality(PendingSet(m, st)) = Cardinality(PendingSet(m, st)') + 1
      BY <3>2, SlotCounts
    <3>4. QED
      BY <2>1, <3>1, <3>3
  <2>5. CASE ~(m = job[s] /\ outcome[s].status = st)
    <3>1. PendingSet(m, st)' = PendingSet(m, st)
      BY <1>1, <1>3, <2>5 DEF PendingSet
    <3>2. Cardinality(SentSet(m, st)') = Cardinality(SentSet(m, st))
      <4>1. CASE m = job[s]
        BY <2>1, <2>3, <2>5, <4>1
      <4>2. CASE m # job[s]
        BY <1>1, <4>2 DEF SentSet
      <4>3. QED
        BY <4>1, <4>2
    <3>3. QED
      BY <2>1, <3>1, <3>2
  <2>6. QED
    BY <2>4, <2>5
<1>5. QED
  BY <1>1, <1>2, <1>4 DEF PairUp

\* Whatever overlaps, is retried, overtaken or edited, the DOWN and UP messages of a monitor
\* pair up but for one message per fault, unless a lease runs out under its holder.
THEOREM DownAndUpPairUp ==
  ASSUME "lease" \notin Faults
  PROVE  Spec => []AlertsPairUp
<1>1. Init => IInv /\ AlertInv /\ AlertsPairUp
  <2>1. Init => AlertsPairUp
    <3> SUFFICES ASSUME Init, NEW m \in Monitors
                 PROVE  PairUp(m)
      BY DEF AlertsPairUp, PairUp
    <3>1. \A st : SentSet(m, st) = {} /\ PendingSet(m, st) = {}
      BY ConstantsAssumption DEF Init, SentSet, PendingSet
    <3>2. ASSUME NEW st PROVE Alerts(m, st) = 0
      <4>1. Alerts(m, st) = Cardinality(SentSet(m, st)) + Cardinality(PendingSet(m, st))
        BY TypedInit, AlertsType
      <4>2. QED
        BY <3>1, <4>1, FS_EmptySet
    <3>3. Standing(m) = 0 /\ faults = 0
      BY DEF Init, Standing
    <3>4. QED
      BY <3>2, <3>3 DEF PairUp
  <2>2. QED
    BY <2>1, IInvInit, AlertInvInit
<1>2. (IInv /\ AlertInv /\ AlertsPairUp) /\ [Next]_vars => (IInv /\ AlertInv /\ AlertsPairUp)'
  <2> SUFFICES ASSUME IInv, AlertInv, AlertsPairUp, [Next]_vars
               PROVE  (IInv /\ AlertInv /\ AlertsPairUp)'
    OBVIOUS
  <2>1. IInv' /\ Typed /\ Typed' /\ AlertInv'
    BY IInvStep, AlertStep DEF IInv
  <2>2. ASSUME NEW m \in Monitors, Exists(m)'
        PROVE  PairUp(m)'
    <3>1. Exists(m) => PairUp(m)
      BY DEF AlertsPairUp, PairUp
    <3>2. QED
      BY <2>1, <2>2, <3>1, PairUpLoss, PairUpSave, PairUpSend
  <2>3. AlertsPairUp'
    BY <2>2 DEF AlertsPairUp, PairUp
  <2>4. QED
    BY <2>1, <2>3
<1>3. QED
  BY <1>1, <1>2, PTL DEF Spec
=============================================================================
