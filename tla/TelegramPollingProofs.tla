----------------------- MODULE TelegramPollingProofs ------------------------
(***************************************************************************)
(* Proofs about TelegramPolling for any processes, accounts, chats, tokens *)
(* and bounds.  No update is lost under any faults at all; one process     *)
(* leads as long as no lease runs out under its holder.                    *)
(***************************************************************************)
EXTENDS TelegramPolling, SequenceTheorems, TLAPS

\* The loop has a batch.
InBatch(p) == pc[p] = "renew" \/ Handling(p)

\* Typing of what the offsets depend on.
Counters ==
  /\ confirmed \in Nat
  /\ pc \in [Procs -> Awaits]
  /\ offset \in [Procs -> Nat \ {0}]
  /\ next \in [Procs -> Nat]
  /\ \A p \in Procs : InBatch(p) => next[p] # 0

\* A loop asks Telegram only for updates above ones that are handled.
OffsetsHandled == \A p \in Procs : 1 .. (offset[p] - 1) \subseteq handled

\* Inside a batch everything before the current update is handled.
BatchHandled ==
  \A p \in Procs :
    /\ InBatch(p) => 1 .. (next[p] - 1) \subseteq handled
    /\ pc[p] = "after" => next[p] \in handled

\* The inductive invariant.
Acknowledged == Counters /\ NoUpdateLost /\ OffsetsHandled /\ BatchHandled

-----------------------------------------------------------------------------
\* Arithmetic of offsets.
LEMMA Successor == \A n \in Nat : n + 1 \in Nat \ {0} /\ (n + 1) - 1 = n
<1>1. \A n \in Nat : n + 1 \in Nat \ {0}
  OBVIOUS
<1>2. \A n \in Nat : (n + 1) - 1 = n
  OBVIOUS
<1>3. QED
  BY <1>1, <1>2

\* Everything the invariant speaks of but pc stays, and pc leaves the batch.
LEMMA OutOfBatch ==
  ASSUME Acknowledged, NEW p \in Procs, NEW await \in Awaits \ {"renew", "handle", "exists", "reply", "after"},
         Goto(p, await), UNCHANGED <<confirmed, offset, next, handled>>
  PROVE  Acknowledged'
BY DEF Acknowledged, Counters, NoUpdateLost, OffsetsHandled, BatchHandled, InBatch, Handling,
       Goto, Awaits

\* pc stays in the batch.
LEMMA StaysInBatch ==
  ASSUME Acknowledged, NEW p \in Procs, NEW await \in {"handle", "exists", "reply"},
         InBatch(p), Goto(p, await), UNCHANGED <<confirmed, offset, next, handled>>
  PROVE  Acknowledged'
BY DEF Acknowledged, Counters, NoUpdateLost, OffsetsHandled, BatchHandled, InBatch, Handling,
       Goto, Awaits

\* A handler that returns has handled the current update.
LEMMA UpdateHandled ==
  ASSUME Acknowledged, NEW p \in Procs, InBatch(p), Goto(p, "after"),
         handled' = handled \cup {next[p]}, UNCHANGED <<confirmed, offset, next>>
  PROVE  Acknowledged'
BY DEF Acknowledged, Counters, NoUpdateLost, OffsetsHandled, BatchHandled, InBatch, Handling,
       Goto, Awaits

\* A handler that throws leaves the offset at the current update.
LEMMA ThrowKeeps ==
  ASSUME Acknowledged, NEW p \in Procs, InBatch(p), HandlerThrows(p),
         UNCHANGED <<confirmed, next, handled>>
  PROVE  Acknowledged'
BY DEF Acknowledged, Counters, NoUpdateLost, OffsetsHandled, BatchHandled, InBatch, Handling,
       HandlerThrows, Goto, Awaits

\* What getUpdates confirms is handled.
LEMMA AcknowledgeKeeps ==
  ASSUME Acknowledged, NEW p \in Procs, Acknowledge(p) \/ UNCHANGED confirmed, UNCHANGED handled
  PROVE  confirmed' \in Nat /\ NoUpdateLost'
BY DEF Acknowledged, Counters, NoUpdateLost, OffsetsHandled, Acknowledge, Larger

\* A loop that forgets its batch starts with an undefined offset.
LEMMA Forgets ==
  ASSUME Acknowledged, NEW p \in Procs, NEW await \in {"off", "wait"}, Goto(p, await),
         offset' = [offset EXCEPT ![p] = 1], next' = [next EXCEPT ![p] = 0],
         UNCHANGED <<confirmed, handled>>
  PROVE  Acknowledged'
BY DEF Acknowledged, Counters, NoUpdateLost, OffsetsHandled, BatchHandled, InBatch, Handling,
       Goto, Awaits

\* Nothing is acknowledged at the beginning.
LEMMA AcknowledgedInit == Init => Acknowledged
BY DEF Init, Acknowledged, Counters, NoUpdateLost, OffsetsHandled, BatchHandled, InBatch,
       Handling, Awaits

\* The polling loop.
LEMMA LoopKeeps ==
  ASSUME Acknowledged, NEW p \in Procs, Loop(p)
  PROVE  Acknowledged'
<1> USE DEF KeepData, KeepPolling, accounts, telegram, locals, history, Awaits
<1>1. CASE Start(p)
  BY <1>1, OutOfBatch DEF Start
<1>2. CASE AcquirePollingLease(p)
  BY <1>2, OutOfBatch DEF AcquirePollingLease
<1>3. CASE AcquireFails(p)
  BY <1>3, OutOfBatch DEF AcquireFails
<1>4. CASE DeleteWebhook(p)
  BY <1>4, OutOfBatch DEF DeleteWebhook
<1>5. CASE GetUpdates(p)
  <2>1. /\ Acknowledge(p) /\ UNCHANGED <<handled, offset>> /\ Goto(p, "renew")
        /\ next' = [next EXCEPT ![p] = Larger(offset[p], confirmed' + 1)]
    BY <1>5 DEF GetUpdates
  <2>2. confirmed' \in Nat /\ NoUpdateLost'
    BY <2>1, AcknowledgeKeeps
  <2>3. /\ Larger(offset[p], confirmed' + 1) \in Nat \ {0}
        /\ 1 .. (Larger(offset[p], confirmed' + 1) - 1) \subseteq handled
    <3>1. /\ offset[p] \in Nat \ {0} /\ confirmed' + 1 \in Nat \ {0}
          /\ 1 .. (offset[p] - 1) \subseteq handled
          /\ 1 .. ((confirmed' + 1) - 1) \subseteq handled
      <4>1. offset[p] \in Nat \ {0} /\ 1 .. (offset[p] - 1) \subseteq handled
        BY DEF Acknowledged, Counters, OffsetsHandled
      <4>2. confirmed' + 1 \in Nat \ {0} /\ (confirmed' + 1) - 1 = confirmed'
        BY <2>2, Successor
      <4>3. 1 .. confirmed' \subseteq handled
        BY <2>1, <2>2 DEF NoUpdateLost
      <4>4. QED
        BY <4>1, <4>2, <4>3
    <3>2. CASE offset[p] > confirmed' + 1
      BY <3>1, <3>2 DEF Larger
    <3>3. CASE ~(offset[p] > confirmed' + 1)
      BY <3>1, <3>3 DEF Larger
    <3>4. QED
      BY <3>2, <3>3
  <2>4. QED
    BY <2>1, <2>2, <2>3 DEF Acknowledged, Counters, OffsetsHandled, BatchHandled, InBatch,
                            Handling, Goto
<1>6. CASE GetUpdatesFails(p)
  <2>1. /\ Acknowledge(p) \/ UNCHANGED confirmed
        /\ UNCHANGED <<handled, offset, next>>
        /\ Goto(p, "retry")
    BY <1>6 DEF GetUpdatesFails
  <2>2. confirmed' \in Nat /\ NoUpdateLost'
    BY <2>1, AcknowledgeKeeps
  <2>3. QED
    BY <2>1, <2>2 DEF Acknowledged, Counters, OffsetsHandled, BatchHandled, InBatch,
                      Handling, Goto
<1>7. CASE PollAborted(p)
  <2>1. /\ Acknowledge(p) \/ UNCHANGED confirmed
        /\ UNCHANGED <<handled, offset, next>>
        /\ Goto(p, "release")
    BY <1>7 DEF PollAborted
  <2>2. confirmed' \in Nat /\ NoUpdateLost'
    BY <2>1, AcknowledgeKeeps
  <2>3. QED
    BY <2>1, <2>2 DEF Acknowledged, Counters, OffsetsHandled, BatchHandled, InBatch,
                      Handling, Goto
<1>8. CASE RenewPollingLease(p)
  <2>1. /\ pc[p] = "renew" /\ UNCHANGED <<confirmed, offset, next, handled>>
        /\ Goto(p, "handle") \/ Goto(p, "release") \/ Goto(p, "retry")
    BY <1>8 DEF RenewPollingLease
  <2>2. QED
    BY <2>1, OutOfBatch, StaysInBatch DEF InBatch
<1>9. CASE BatchDone(p)
  <2>1. /\ pc[p] = "handle" /\ UNCHANGED <<confirmed, next, handled>>
        /\ offset' = [offset EXCEPT ![p] = next[p]] /\ Goto(p, "poll")
    BY <1>9 DEF BatchDone
  <2>2. QED
    BY <2>1 DEF Acknowledged, Counters, NoUpdateLost, OffsetsHandled, BatchHandled, InBatch,
                Handling, Goto
<1>10. CASE RetryPolling(p)
  <2>1. /\ pc[p] = "retry" /\ UNCHANGED <<confirmed, offset, next, handled>>
        /\ Goto(p, "pause") \/ Goto(p, "release") \/ UNCHANGED pc
    BY <1>10 DEF RetryPolling
  <2>2. CASE UNCHANGED pc
    BY <2>1, <2>2 DEF Acknowledged, Counters, NoUpdateLost, OffsetsHandled, BatchHandled,
                      InBatch, Handling
  <2>3. QED
    BY <2>1, <2>2, OutOfBatch
<1>11. CASE Pause(p)
  BY <1>11, OutOfBatch DEF Pause
<1>12. CASE ReleasePollingLease(p)
  BY <1>12, Forgets DEF ReleasePollingLease
<1>13. CASE Wait(p)
  BY <1>13, OutOfBatch DEF Wait
<1>14. QED
  BY <1>1, <1>2, <1>3, <1>4, <1>5, <1>6, <1>7, <1>8, <1>9, <1>10, <1>11, <1>12, <1>13 DEF Loop

\* The handler of an update.
LEMMA HandleKeeps ==
  ASSUME Acknowledged, NEW p \in Procs, Handle(p)
  PROVE  Acknowledged'
<1> USE DEF KeepHandling, accounts, telegram, locals, history, InBatch, Handling
<1>1. CASE Ignore(p)
  BY <1>1, UpdateHandled DEF Ignore
<1>2. CASE Welcome(p)
  BY <1>2, StaysInBatch DEF Welcome
<1>3. CASE RedeemToken(p)
  <2>1. /\ pc[p] = "handle" /\ UNCHANGED <<confirmed, offset, next, handled>>
        /\ Goto(p, "reply") \/ Goto(p, "exists")
    BY <1>3 DEF RedeemToken
  <2>2. QED
    BY <2>1, StaysInBatch
<1>4. CASE RedeemFails(p)
  BY <1>4, ThrowKeeps DEF RedeemFails
<1>5. CASE CheckConnected(p)
  BY <1>5, StaysInBatch DEF CheckConnected
<1>6. CASE CheckFails(p)
  BY <1>6, ThrowKeeps DEF CheckFails
<1>7. CASE Reply(p)
  BY <1>7, UpdateHandled DEF Reply
<1>8. CASE ReplyFails(p)
  BY <1>8, ThrowKeeps DEF ReplyFails
<1>9. CASE Advance(p)
  <2>1. /\ pc[p] = "after" /\ UNCHANGED <<confirmed, offset, handled>>
        /\ next' = [next EXCEPT ![p] = next[p] + 1] /\ Goto(p, "handle")
    BY <1>9 DEF Advance
  <2>2. next[p] \in Nat /\ next[p] \in handled /\ 1 .. (next[p] - 1) \subseteq handled
    BY <2>1 DEF Acknowledged, Counters, BatchHandled
  <2>3. next[p] + 1 \in Nat \ {0} /\ 1 .. (next[p] + 1 - 1) \subseteq handled
    BY <2>2
  <2>4. QED
    BY <2>1, <2>3 DEF Acknowledged, Counters, NoUpdateLost, OffsetsHandled, BatchHandled,
                      Goto, Awaits
<1>10. CASE AdvanceFails(p)
  <2>1. /\ UNCHANGED <<confirmed, offset, next, handled>>
        /\ Goto(p, "release") \/ Goto(p, "retry")
    BY <1>10 DEF AdvanceFails
  <2>2. QED
    BY <2>1, OutOfBatch DEF Awaits
<1>11. QED
  BY <1>1, <1>2, <1>3, <1>4, <1>5, <1>6, <1>7, <1>8, <1>9, <1>10 DEF Handle

\* The invariant is inductive.
LEMMA AcknowledgedStep == Acknowledged /\ [Next]_vars => Acknowledged'
<1> SUFFICES ASSUME Acknowledged, [Next]_vars PROVE Acknowledged'
  OBVIOUS
<1> USE DEF KeepData, KeepBot, accounts, telegram, locals, history
<1>1. ASSUME UNCHANGED <<confirmed, pc, offset, next, handled>> PROVE Acknowledged'
  BY <1>1 DEF Acknowledged, Counters, NoUpdateLost, OffsetsHandled, BatchHandled, InBatch,
              Handling
<1>2. ASSUME NEW p \in Procs, Loop(p) \/ Handle(p) PROVE Acknowledged'
  BY <1>2, LoopKeeps, HandleKeeps
<1>3. ASSUME NEW p \in Procs, Abort(p) PROVE Acknowledged'
  BY <1>1, <1>3 DEF Abort
<1>4. ASSUME NEW p \in Procs, Crash(p) PROVE Acknowledged'
  BY <1>4, Forgets DEF Crash
<1>5. CASE Expire
  BY <1>1, <1>5 DEF Expire
<1>6. ASSUME NEW u \in Users, Api(u) PROVE Acknowledged'
  BY <1>1, <1>6 DEF Api, CreateLink, ExpireLink, Disconnect
<1>7. CASE Message
  BY <1>1, <1>7 DEF Message, Send
<1>8. CASE UNCHANGED vars
  BY <1>1, <1>8 DEF vars
<1>9. QED
  BY <1>2, <1>3, <1>4, <1>5, <1>6, <1>7, <1>8 DEF Next

\* Telegram never forgets an update that no handler has finished, whatever
\* fails, crashes or runs out (processUpdateBatch, pollUpdates).
THEOREM NoUpdateIsLost == Spec => []NoUpdateLost
<1>1. Acknowledged => NoUpdateLost
  BY DEF Acknowledged
<1>2. QED
  BY <1>1, AcknowledgedInit, AcknowledgedStep, PTL DEF Spec

-----------------------------------------------------------------------------
\* A loop that leads has the lease.
HoldsLease == \A p \in Procs : Leading(p) => lease = p

\* No process leads at the beginning.
LEMMA HoldsLeaseInit == Init => HoldsLease
BY DEF Init, HoldsLease, Leading

\* The lease stays with the loop that leads.
LEMMA HoldsLeaseStep ==
  ASSUME "lease" \notin Faults, pc \in [Procs -> Awaits], HoldsLease, [Next]_vars
  PROVE  HoldsLease'
<1> USE DEF KeepData, KeepBot, KeepPolling, KeepHandling, HoldsLease, Leading, Goto, Awaits
<1>1. ASSUME UNCHANGED <<lease, pc>> PROVE HoldsLease'
  BY <1>1
<1>2. ASSUME NEW p \in Procs, NEW await \in Awaits, Leading(p), Goto(p, await), UNCHANGED lease
      PROVE  HoldsLease'
  BY <1>2
<1>3. ASSUME NEW p \in Procs, Loop(p) PROVE HoldsLease'
  <2>1. CASE Start(p)
    BY <2>1 DEF Start
  <2>2. CASE AcquirePollingLease(p)
    BY <2>2, PollingAssumption DEF AcquirePollingLease
  <2>3. CASE AcquireFails(p)
    BY <2>3, PollingAssumption DEF AcquireFails
  <2>4. CASE DeleteWebhook(p)
    BY <2>4, <1>2 DEF DeleteWebhook
  <2>5. CASE GetUpdates(p)
    BY <2>5, <1>2 DEF GetUpdates
  <2>6. CASE GetUpdatesFails(p)
    BY <2>6, <1>2 DEF GetUpdatesFails
  <2>7. CASE PollAborted(p)
    BY <2>7, <1>2 DEF PollAborted
  <2>8. CASE RenewPollingLease(p)
    BY <2>8, <1>2 DEF RenewPollingLease
  <2>9. CASE BatchDone(p)
    BY <2>9, <1>2 DEF BatchDone
  <2>10. CASE RetryPolling(p)
    BY <2>10, <1>1, <1>2 DEF RetryPolling
  <2>11. CASE Pause(p)
    BY <2>11, <1>2 DEF Pause
  <2>12. CASE ReleasePollingLease(p)
    BY <2>12 DEF ReleasePollingLease
  <2>13. CASE Wait(p)
    BY <2>13 DEF Wait
  <2>14. QED
    BY <1>3, <2>1, <2>2, <2>3, <2>4, <2>5, <2>6, <2>7, <2>8, <2>9, <2>10, <2>11, <2>12, <2>13
       DEF Loop
<1>4. ASSUME NEW p \in Procs, Handle(p) PROVE HoldsLease'
  <2>1. CASE Ignore(p)
    BY <2>1, <1>2 DEF Ignore
  <2>2. CASE Welcome(p)
    BY <2>2, <1>2 DEF Welcome
  <2>3. CASE RedeemToken(p)
    BY <2>3, <1>2 DEF RedeemToken
  <2>4. CASE RedeemFails(p)
    BY <2>4, <1>2 DEF RedeemFails, HandlerThrows
  <2>5. CASE CheckConnected(p)
    BY <2>5, <1>2 DEF CheckConnected
  <2>6. CASE CheckFails(p)
    BY <2>6, <1>2 DEF CheckFails, HandlerThrows
  <2>7. CASE Reply(p)
    BY <2>7, <1>2 DEF Reply
  <2>8. CASE ReplyFails(p)
    BY <2>8, <1>2 DEF ReplyFails, HandlerThrows
  <2>9. CASE Advance(p)
    BY <2>9, <1>2 DEF Advance
  <2>10. CASE AdvanceFails(p)
    BY <2>10, <1>2 DEF AdvanceFails
  <2>11. QED
    BY <1>4, <2>1, <2>2, <2>3, <2>4, <2>5, <2>6, <2>7, <2>8, <2>9, <2>10 DEF Handle
<1>5. ASSUME NEW p \in Procs, Abort(p) PROVE HoldsLease'
  BY <1>1, <1>5 DEF Abort
<1>6. ASSUME NEW p \in Procs, Crash(p) PROVE HoldsLease'
  BY <1>6 DEF Crash
<1>7. CASE Expire
  BY <1>7 DEF Expire
<1>8. ASSUME NEW u \in Users, Api(u) PROVE HoldsLease'
  BY <1>1, <1>8 DEF Api, CreateLink, ExpireLink, Disconnect
<1>9. CASE Message
  BY <1>1, <1>9 DEF Message, Send
<1>10. CASE UNCHANGED vars
  BY <1>1, <1>10 DEF vars
<1>11. QED
  BY <1>3, <1>4, <1>5, <1>6, <1>7, <1>8, <1>9, <1>10 DEF Next

\* The Redis lease elects one leader, however calls fail and processes die, if
\* its holder renews it in time (acquirePollingLease, renewPollingLease).
THEOREM SingleLeader ==
  ASSUME "lease" \notin Faults
  PROVE  Spec => []OneLeader
<1>1. Init => Acknowledged /\ HoldsLease
  BY AcknowledgedInit, HoldsLeaseInit
<1>2. Acknowledged /\ HoldsLease /\ [Next]_vars => (Acknowledged /\ HoldsLease)'
  BY AcknowledgedStep, HoldsLeaseStep DEF Acknowledged, Counters
<1>3. HoldsLease => OneLeader
  BY DEF HoldsLease, OneLeader
<1>4. QED
  BY <1>1, <1>2, <1>3, PTL DEF Spec

-----------------------------------------------------------------------------
\* Where the loop is in its batch.
InBounds ==
  \A p \in Procs :
    /\ pc[p] \in {"renew", "handle"} => next[p] \in 1 .. last[p] + 1
    /\ pc[p] \in {"exists", "reply", "after"} => next[p] \in 1 .. last[p]

\* Typing and the facts it rests on.
Typed == TypeOK /\ InBounds

\* The update being handled is one that was sent.
LEMMA CurrentUpdate ==
  ASSUME Typed, NEW p \in Procs,
         \/ pc[p] = "handle" /\ next[p] <= last[p]
         \/ pc[p] \in {"exists", "reply", "after"}
  PROVE  /\ next[p] \in 1 .. Len(inbox)
         /\ next[p] \in Ids
         /\ Update(p).chat \in Chats
         /\ Update(p).token \in Tokens \cup {Bare, Other}
<1>1. /\ next[p] \in Nat /\ last[p] \in Nat /\ MaxUpdates \in Nat
      /\ Len(inbox) \in Nat
      /\ last[p] <= Len(inbox) /\ Len(inbox) <= MaxUpdates
  BY PollingAssumption DEF Typed, TypeOK
<1>2. next[p] \in 1 .. last[p]
  BY <1>1 DEF Typed, InBounds
<1>3. next[p] \in 1 .. Len(inbox) /\ next[p] \in Ids
  BY <1>1, <1>2 DEF Ids
<1>4. inbox \in Seq([chat : Chats, token : Tokens \cup {Bare, Other}])
  BY DEF Typed, TypeOK
<1>5. inbox[next[p]] \in [chat : Chats, token : Tokens \cup {Bare, Other}]
  BY <1>3, <1>4, ElementOfSeq
<1>6. QED
  BY <1>3, <1>5 DEF Update

\* A batch starts at most one past the updates and ends within them.
LEMMA BatchBounds ==
  ASSUME NEW o \in Nat \ {0}, NEW c \in Nat, NEW l \in Nat, NEW b \in Nat \ {0},
         o <= l + 1, c <= l
  PROVE  /\ Larger(o, c + 1) \in Nat \ {0}
         /\ Smaller(l, Larger(o, c + 1) + b - 1) \in Nat
         /\ Larger(o, c + 1) <= Smaller(l, Larger(o, c + 1) + b - 1) + 1
         /\ Smaller(l, Larger(o, c + 1) + b - 1) <= l
<1>1. Larger(o, c + 1) \in Nat \ {0} /\ Larger(o, c + 1) <= l + 1
  BY DEF Larger
<1> DEFINE f == Larger(o, c + 1)
<1> HIDE DEF f
<1>2. f \in Nat \ {0} /\ f <= l + 1
  BY <1>1 DEF f
<1>3. f + b - 1 \in Nat /\ f <= (f + b - 1) + 1
  BY <1>2
<1>4. /\ Smaller(l, f + b - 1) \in Nat
      /\ f <= Smaller(l, f + b - 1) + 1
      /\ Smaller(l, f + b - 1) <= l
  BY <1>2, <1>3 DEF Smaller
<1>5. QED
  BY <1>2, <1>4 DEF f

\* A fault is counted.
LEMMA FaultCount ==
  ASSUME faults \in Nat, NEW kind, Fault(kind) \/ UNCHANGED faults
  PROVE  faults' \in Nat
BY DEF Fault

\* The types hold at the beginning.
LEMMA TypedInit == Init => Typed
<1> SUFFICES ASSUME Init PROVE Typed
  OBVIOUS
<1>1. inbox \in Seq([chat : Chats, token : Tokens \cup {Bare, Other}]) /\ Len(inbox) = 0
  BY DEF Init
<1>2. QED
  BY <1>1, PollingAssumption DEF Init, Typed, TypeOK, InBounds, Awaits, Answers, Ids

\* The polling loop keeps the types.
LEMMA LoopTyped ==
  ASSUME Typed, NEW p \in Procs, Loop(p)
  PROVE  Typed'
<1> USE DEF KeepData, KeepPolling, accounts, telegram, locals, history, Awaits, Goto, Typed,
            TypeOK, InBounds
<1>1. CASE Start(p)
  BY <1>1 DEF Start
<1>2. CASE AcquirePollingLease(p)
  BY <1>2 DEF AcquirePollingLease
<1>3. CASE AcquireFails(p)
  BY <1>3, FaultCount DEF AcquireFails
<1>4. CASE DeleteWebhook(p)
  BY <1>4, FaultCount DEF DeleteWebhook
<1>5. ASSUME Acknowledge(p) \/ UNCHANGED confirmed, UNCHANGED inbox
      PROVE  confirmed' \in 0 .. Len(inbox')
  <2>1. confirmed \in 0 .. Len(inbox) /\ offset[p] \in Nat \ {0}
        /\ offset[p] <= Len(inbox) + 1 /\ Len(inbox) \in Nat
    OBVIOUS
  <2> HIDE DEF Typed, TypeOK, InBounds
  <2>2. QED
    BY <1>5, <2>1 DEF Acknowledge, Larger
<1>6. CASE GetUpdates(p)
  <2> DEFINE first == Larger(offset[p], confirmed' + 1)
             final == Smaller(Len(inbox), first + BatchLimit - 1)
  <2>1. confirmed' \in 0 .. Len(inbox)
    BY <1>5, <1>6 DEF GetUpdates
  <2>2. /\ offset[p] \in Nat \ {0} /\ Len(inbox) \in Nat
        /\ offset[p] <= Len(inbox) + 1 /\ BatchLimit \in Nat \ {0}
    BY PollingAssumption
  <2>3. /\ first \in Nat \ {0} /\ final \in Nat
        /\ first <= final + 1 /\ final <= Len(inbox)
    <3>1. confirmed' \in Nat /\ confirmed' <= Len(inbox)
      BY <2>1, <2>2
    <3>2. QED
      BY <2>2, <3>1, BatchBounds
  <2>4. /\ next' = [next EXCEPT ![p] = first]
        /\ last' = [last EXCEPT ![p] = final]
        /\ pc' = [pc EXCEPT ![p] = "renew"]
        /\ UNCHANGED <<chat, hash, issued, wished, inbox, lease, stop, reply, handled, linked,
                       uses, dropped, offset, answer, faults>>
    BY <1>6 DEF GetUpdates
  <2> HIDE DEF first, final
  <2>5. QED
    BY <2>1, <2>3, <2>4
<1>7. CASE GetUpdatesFails(p)
  BY <1>5, <1>7, FaultCount DEF GetUpdatesFails
<1>8. CASE PollAborted(p)
  BY <1>5, <1>8 DEF PollAborted
<1>9. CASE RenewPollingLease(p)
  BY <1>9, FaultCount DEF RenewPollingLease
<1>10. CASE BatchDone(p)
  <2>1. next[p] \in Nat \ {0} /\ next[p] <= Len(inbox) + 1
    <3>1. next[p] \in 1 .. last[p] + 1 /\ last[p] <= Len(inbox) /\ last[p] \in Nat
          /\ Len(inbox) \in Nat
      BY <1>10 DEF BatchDone
    <3> HIDE DEF Typed, TypeOK, InBounds
    <3>2. QED
      BY <3>1
  <2>2. QED
    BY <1>10, <2>1 DEF BatchDone
<1>11. CASE RetryPolling(p)
  BY <1>11, FaultCount DEF RetryPolling
<1>12. CASE Pause(p)
  BY <1>12 DEF Pause
<1>13. CASE ReleasePollingLease(p)
  <2>1. faults' \in Nat
    BY <1>13, FaultCount DEF ReleasePollingLease
  <2>2. lease' \in Procs \cup {Free}
    BY <1>13 DEF ReleasePollingLease
  <2>3. /\ offset' = [offset EXCEPT ![p] = 1] /\ next' = [next EXCEPT ![p] = 0]
        /\ last' = [last EXCEPT ![p] = 0] /\ answer' = [answer EXCEPT ![p] = None]
        /\ pc' = [pc EXCEPT ![p] = "wait"]
        /\ UNCHANGED <<chat, hash, issued, wished, inbox, confirmed, stop, reply, handled,
                       linked, uses, dropped>>
    BY <1>13 DEF ReleasePollingLease
  <2>4. QED
    BY <2>1, <2>2, <2>3
<1>14. CASE Wait(p)
  BY <1>14 DEF Wait
<1>15. QED
  BY <1>1, <1>2, <1>3, <1>4, <1>6, <1>7, <1>8, <1>9, <1>10, <1>11, <1>12, <1>13, <1>14 DEF Loop

\* The types of what a redeemed token changes.
AccountTypes ==
  /\ chat \in [Users -> Chats \cup {None}]
  /\ hash \in [Users -> Tokens \cup {None}]
  /\ issued \subseteq Tokens
  /\ wished \subseteq Users
  /\ dropped \subseteq Chats
  /\ linked \subseteq Ids
  /\ uses \in [Tokens -> Nat]

\* Linking a chat keeps the types of the accounts.
LEMMA LinkTyped ==
  ASSUME Typed, NEW p \in Procs, NEW u \in Users, pc[p] = "handle", next[p] <= last[p],
         Update(p).token \in Tokens, LinkAccount(p, u)
  PROVE  AccountTypes'
<1>1. AccountTypes
  BY DEF Typed, TypeOK, AccountTypes
<1>2. next[p] \in Ids /\ Update(p).chat \in Chats
  BY CurrentUpdate
<1>3. uses[Update(p).token] + 1 \in Nat
  <2>1. uses[Update(p).token] \in Nat
    BY <1>1 DEF AccountTypes
  <2>2. QED
    BY <2>1
<1> DEFINE c == Update(p).chat
           t == Update(p).token
<1>4. /\ chat' = [chat EXCEPT ![u] = c]
      /\ hash' = [hash EXCEPT ![u] = None]
      /\ dropped' = dropped \cup ({chat[u]} \ {None, c})
      /\ linked' = linked \cup {next[p]}
      /\ uses' = [uses EXCEPT ![t] = uses[t] + 1]
      /\ UNCHANGED <<issued, wished>>
  BY DEF LinkAccount
<1>5. c \in Chats /\ t \in Tokens /\ uses[t] + 1 \in Nat
  BY <1>2, <1>3
<1> HIDE DEF c, t
<1>6. QED
  BY <1>1, <1>2, <1>4, <1>5 DEF AccountTypes

\* The handler keeps the types.
LEMMA HandleTyped ==
  ASSUME Typed, NEW p \in Procs, Handle(p)
  PROVE  Typed'
<1> USE DEF KeepHandling, accounts, telegram, locals, history, Awaits, Answers, Goto, Typed,
            TypeOK, InBounds
<1>1. ASSUME next[p] \in Nat, offset' = [offset EXCEPT ![p] = next[p]],
             \/ pc[p] = "handle" /\ next[p] <= last[p]
             \/ pc[p] \in {"exists", "reply", "after"}
      PROVE  offset' \in [Procs -> Nat \ {0}] /\ \A q \in Procs : offset'[q] <= Len(inbox) + 1
  <2>1. next[p] \in 1 .. Len(inbox) /\ Len(inbox) \in Nat
    BY <1>1, CurrentUpdate
  <2>2. next[p] \in Nat \ {0} /\ next[p] <= Len(inbox) + 1
    <3> HIDE DEF Typed, TypeOK, InBounds
    <3>1. QED
      BY <2>1
  <2>3. QED
    BY <1>1, <2>2
<1>2. CASE Ignore(p)
  <2>1. next[p] \in Ids /\ next[p] \in 1 .. last[p]
    BY <1>2, CurrentUpdate DEF Ignore
  <2>2. QED
    BY <1>2, <2>1 DEF Ignore
<1>3. CASE Welcome(p)
  <2>1. next[p] \in 1 .. last[p]
    BY <1>3 DEF Welcome
  <2>2. QED
    BY <1>3, <2>1 DEF Welcome
<1>4. CASE RedeemToken(p)
  <2>1. next[p] \in 1 .. last[p]
    BY <1>4 DEF RedeemToken
  <2>2. AccountTypes'
    <3>1. CASE \E u \in Matches(p) : LinkAccount(p, u)
      BY <1>4, <3>1, LinkTyped DEF RedeemToken, Matches
    <3>2. CASE UNCHANGED <<accounts, linked, uses, dropped>>
      BY <3>2 DEF AccountTypes
    <3>3. QED
      BY <1>4, <3>1, <3>2 DEF RedeemToken
  <2>3. /\ answer' \in [Procs -> Answers \cup {None}]
        /\ pc' = [pc EXCEPT ![p] = "reply"] \/ pc' = [pc EXCEPT ![p] = "exists"]
        /\ UNCHANGED <<inbox, confirmed, lease, stop, offset, last, next, reply, handled, faults>>
    BY <1>4 DEF RedeemToken
  <2>4. QED
    BY <2>1, <2>2, <2>3 DEF AccountTypes
<1>5. CASE RedeemFails(p)
  <2>1. AccountTypes'
    <3>1. CASE \E u \in Matches(p) : LinkAccount(p, u)
      BY <1>5, <3>1, LinkTyped DEF RedeemFails, Matches
    <3>2. CASE UNCHANGED <<accounts, linked, uses, dropped>>
      BY <3>2 DEF AccountTypes
    <3>3. QED
      BY <1>5, <3>1, <3>2 DEF RedeemFails
  <2>2. faults' \in Nat
    BY <1>5, FaultCount DEF RedeemFails
  <2>3. offset' \in [Procs -> Nat \ {0}] /\ \A q \in Procs : offset'[q] <= Len(inbox) + 1
    BY <1>1, <1>5 DEF RedeemFails, HandlerThrows
  <2>4. /\ pc' = [pc EXCEPT ![p] = "retry"]
        /\ UNCHANGED <<inbox, confirmed, lease, stop, next, last, answer, reply, handled>>
    BY <1>5 DEF RedeemFails, HandlerThrows
  <2>5. QED
    BY <2>1, <2>2, <2>3, <2>4 DEF AccountTypes
<1>6. CASE CheckConnected(p)
  BY <1>6 DEF CheckConnected
<1>7. CASE CheckFails(p)
  <2>1. faults' \in Nat
    BY <1>7, FaultCount DEF CheckFails
  <2>2. offset' \in [Procs -> Nat \ {0}] /\ \A q \in Procs : offset'[q] <= Len(inbox) + 1
    BY <1>1, <1>7 DEF CheckFails, HandlerThrows
  <2>3. /\ pc' = [pc EXCEPT ![p] = "retry"]
        /\ UNCHANGED <<chat, hash, issued, wished, inbox, confirmed, lease, stop, next, last,
                       answer, reply, handled, linked, uses, dropped>>
    BY <1>7 DEF CheckFails, HandlerThrows
  <2>4. QED
    BY <2>1, <2>2, <2>3
<1>8. CASE Reply(p)
  <2>1. next[p] \in Ids
    BY <1>8, CurrentUpdate DEF Reply
  <2>2. QED
    BY <1>8, <2>1 DEF Reply
<1>9. CASE ReplyFails(p)
  <2>1. faults' \in Nat
    BY <1>9, FaultCount DEF ReplyFails
  <2>2. offset' \in [Procs -> Nat \ {0}] /\ \A q \in Procs : offset'[q] <= Len(inbox) + 1
    BY <1>1, <1>9 DEF ReplyFails, HandlerThrows
  <2>3. next[p] \in Ids
    BY <1>9, CurrentUpdate DEF ReplyFails
  <2>4. /\ reply' = [reply EXCEPT ![next[p]] = answer[p]] \/ UNCHANGED reply
        /\ answer' = [answer EXCEPT ![p] = None]
        /\ pc' = [pc EXCEPT ![p] = "retry"]
        /\ UNCHANGED <<chat, hash, issued, wished, inbox, confirmed, lease, stop, next, last,
                       handled, linked, uses, dropped>>
    BY <1>9 DEF ReplyFails, HandlerThrows
  <2>5. QED
    BY <2>1, <2>2, <2>3, <2>4
<1>10. CASE Advance(p)
  <2>1. next[p] + 1 \in Nat /\ next[p] + 1 \in 1 .. last[p] + 1
    <3>1. next[p] \in 1 .. last[p] /\ last[p] \in Nat
      BY <1>10 DEF Advance
    <3> HIDE DEF Typed, TypeOK, InBounds
    <3>2. QED
      BY <3>1
  <2>2. QED
    BY <1>10, <2>1 DEF Advance
<1>11. CASE AdvanceFails(p)
  BY <1>11, FaultCount DEF AdvanceFails
<1>12. QED
  BY <1>2, <1>3, <1>4, <1>5, <1>6, <1>7, <1>8, <1>9, <1>10, <1>11 DEF Handle

\* Typing is preserved by every step.
LEMMA TypedStep == Typed /\ [Next]_vars => Typed'
<1> SUFFICES ASSUME Typed, [Next]_vars PROVE Typed'
  OBVIOUS
<1> USE DEF KeepData, KeepBot, accounts, telegram, locals, history, Awaits, Goto
<1>1. ASSUME NEW p \in Procs, Loop(p) \/ Handle(p) PROVE Typed'
  BY <1>1, LoopTyped, HandleTyped
<1>2. ASSUME NEW p \in Procs, Abort(p) PROVE Typed'
  BY <1>2, FaultCount DEF Abort, Typed, TypeOK, InBounds
<1>3. ASSUME NEW p \in Procs, Crash(p) PROVE Typed'
  <2>1. faults' \in Nat
    BY <1>3, FaultCount DEF Crash, Typed, TypeOK
  <2>2. /\ offset' = [offset EXCEPT ![p] = 1] /\ next' = [next EXCEPT ![p] = 0]
        /\ last' = [last EXCEPT ![p] = 0] /\ answer' = [answer EXCEPT ![p] = None]
        /\ pc' = [pc EXCEPT ![p] = "off"] /\ stop' = [stop EXCEPT ![p] = FALSE]
        /\ UNCHANGED <<chat, hash, issued, wished, inbox, confirmed, lease, reply, handled,
                       linked, uses, dropped>>
    BY <1>3 DEF Crash
  <2>3. QED
    BY <2>1, <2>2 DEF Typed, TypeOK, InBounds
<1>4. CASE Expire
  BY <1>4 DEF Expire, Typed, TypeOK, InBounds
<1>5. ASSUME NEW u \in Users, Api(u) PROVE Typed'
  <2>1. CASE \E t \in Tokens : CreateLink(u, t)
    BY <2>1 DEF CreateLink, Typed, TypeOK, InBounds
  <2>2. CASE ExpireLink(u)
    BY <2>2 DEF ExpireLink, Typed, TypeOK, InBounds
  <2>3. CASE Disconnect(u)
    BY <2>3 DEF Disconnect, Typed, TypeOK, InBounds
  <2>4. QED
    BY <1>5, <2>1, <2>2, <2>3 DEF Api
<1>6. CASE Message
  <2> DEFINE S == [chat : Chats, token : Tokens \cup {Bare, Other}]
  <2>1. PICK c \in Chats, t \in Tokens \cup {Bare, Other} : Send(c, t)
    BY <1>6 DEF Message
  <2>2. inbox \in Seq(S) /\ [chat |-> c, token |-> t] \in S
    BY DEF Typed, TypeOK
  <2>3. inbox' = Append(inbox, [chat |-> c, token |-> t]) /\ Len(inbox) < MaxUpdates
    BY <2>1 DEF Send
  <2> HIDE DEF S
  <2>4. /\ inbox' \in Seq(S) /\ Len(inbox') = Len(inbox) + 1 /\ Len(inbox) \in Nat
    BY <2>2, <2>3
  <2>5. Len(inbox') <= MaxUpdates /\ \A n \in Nat : n <= Len(inbox) => n <= Len(inbox')
    BY <2>3, <2>4, PollingAssumption
  <2>6. /\ confirmed \in 0 .. Len(inbox')
        /\ \A p \in Procs : offset[p] <= Len(inbox') + 1 /\ last[p] <= Len(inbox')
    BY <2>4 DEF Typed, TypeOK
  <2>7. UNCHANGED <<chat, hash, issued, wished, confirmed, lease, pc, stop, offset, next, last,
                    answer, reply, handled, linked, uses, dropped, faults>>
    BY <2>1 DEF Send
  <2>8. QED
    BY <2>4, <2>5, <2>6, <2>7 DEF Typed, TypeOK, InBounds, S
<1>7. CASE UNCHANGED vars
  BY <1>7 DEF vars, Typed, TypeOK, InBounds
<1>8. QED
  BY <1>1, <1>2, <1>3, <1>4, <1>5, <1>6, <1>7 DEF Next

\* Every variable of the bot keeps its type, and the bot reads no update that
\* was not sent, under any faults.
THEOREM TypeCorrect == Spec => []TypeOK
<1>1. Typed => TypeOK
  BY DEF Typed
<1>2. QED
  BY <1>1, TypedInit, TypedStep, PTL DEF Spec

-----------------------------------------------------------------------------
\* An open link belongs to one account, was never used and was asked for.
OpenLinks ==
  /\ \A u, v \in Users : hash[u] # None /\ hash[u] = hash[v] => u = v
  /\ \A u \in Users : hash[u] # None =>
       hash[u] \in issued /\ uses[hash[u]] = 0 /\ u \in wished
  /\ \A t \in Tokens \ issued : uses[t] = 0

\* The inductive invariant of the links.
Links == Typed /\ OpenLinks /\ TokenUsedOnce /\ DisconnectSticks

\* No token is open or used at the beginning.
LEMMA LinksInit == Init => Links
BY TypedInit DEF Init, Links, OpenLinks, TokenUsedOnce, DisconnectSticks

\* Redeeming a token uses it for the first time and removes it.
LEMMA LinkKeeps ==
  ASSUME Links, NEW p \in Procs, pc[p] = "handle", next[p] <= last[p],
         Update(p).token \in Tokens, NEW u \in Matches(p), LinkAccount(p, u)
  PROVE  (OpenLinks /\ TokenUsedOnce /\ DisconnectSticks)'
<1> DEFINE c == Update(p).chat
           t == Update(p).token
<1>1. /\ chat \in [Users -> Chats \cup {None}] /\ hash \in [Users -> Tokens \cup {None}]
      /\ uses \in [Tokens -> Nat] /\ None \notin Tokens
  BY PollingAssumption DEF Links, Typed, TypeOK
<1>2. u \in Users /\ hash[u] = t /\ hash[u] # None
  BY DEF Matches
<1>3. /\ chat' = [chat EXCEPT ![u] = c]
      /\ hash' = [hash EXCEPT ![u] = None]
      /\ uses' = [uses EXCEPT ![t] = uses[t] + 1]
      /\ UNCHANGED <<issued, wished>>
  BY DEF LinkAccount
<1>4. uses[t] = 0 /\ t \in issued /\ u \in wished /\ t \in Tokens
  BY <1>2 DEF Links, OpenLinks
<1> HIDE DEF c, t
<1>5. uses' = [uses EXCEPT ![t] = 1]
  BY <1>3, <1>4
<1>6. QED
  BY <1>1, <1>2, <1>3, <1>4, <1>5 DEF Links, OpenLinks, TokenUsedOnce, DisconnectSticks

\* The other steps of the bot leave the accounts alone.
LEMMA BotKeeps ==
  ASSUME Links, NEW p \in Procs, Loop(p) \/ Handle(p)
  PROVE  (OpenLinks /\ TokenUsedOnce /\ DisconnectSticks)'
<1> USE DEF KeepData, KeepPolling, KeepHandling, accounts, telegram, locals, history
<1>1. CASE UNCHANGED <<chat, hash, issued, wished, uses>>
  BY <1>1 DEF Links, OpenLinks, TokenUsedOnce, DisconnectSticks
<1>2. CASE RedeemToken(p)
  BY <1>1, <1>2, LinkKeeps DEF RedeemToken
<1>3. CASE RedeemFails(p)
  BY <1>1, <1>3, LinkKeeps DEF RedeemFails
<1>4. CASE Loop(p)
  BY <1>1, <1>4 DEF Loop, Start, AcquirePollingLease, AcquireFails, DeleteWebhook, GetUpdates,
     GetUpdatesFails, PollAborted, RenewPollingLease, BatchDone, RetryPolling, Pause,
     ReleasePollingLease, Wait
<1>5. CASE Handle(p)
  BY <1>1, <1>2, <1>3, <1>5 DEF Handle, Ignore, Welcome, CheckConnected, CheckFails, Reply,
     ReplyFails, Advance, AdvanceFails
<1>6. QED
  BY <1>4, <1>5

\* The links' invariant is inductive.
LEMMA LinksStep == Links /\ [Next]_vars => Links'
<1> SUFFICES ASSUME Links, [Next]_vars PROVE (OpenLinks /\ TokenUsedOnce /\ DisconnectSticks)'
  BY TypedStep DEF Links
<1> USE DEF KeepData, KeepBot, accounts, telegram, locals, history
<1>1. CASE UNCHANGED <<chat, hash, issued, wished, uses>>
  BY <1>1 DEF Links, OpenLinks, TokenUsedOnce, DisconnectSticks
<1>2. ASSUME NEW p \in Procs, Loop(p) \/ Handle(p) \/ Abort(p) \/ Crash(p)
      PROVE  (OpenLinks /\ TokenUsedOnce /\ DisconnectSticks)'
  BY <1>1, <1>2, BotKeeps DEF Abort, Crash
<1>3. CASE Expire
  BY <1>1, <1>3 DEF Expire
<1>4. ASSUME NEW u \in Users, Api(u)
      PROVE  (OpenLinks /\ TokenUsedOnce /\ DisconnectSticks)'
  <2>1. /\ chat \in [Users -> Chats \cup {None}] /\ hash \in [Users -> Tokens \cup {None}]
        /\ None \notin Tokens
    BY PollingAssumption DEF Links, Typed, TypeOK
  <2>2. CASE \E t \in Tokens : CreateLink(u, t)
    BY <2>1, <2>2 DEF CreateLink, Links, OpenLinks, TokenUsedOnce, DisconnectSticks
  <2>3. CASE ExpireLink(u)
    BY <2>1, <2>3 DEF ExpireLink, Links, OpenLinks, TokenUsedOnce, DisconnectSticks
  <2>4. CASE Disconnect(u)
    BY <2>1, <2>4 DEF Disconnect, Links, OpenLinks, TokenUsedOnce, DisconnectSticks
  <2>5. QED
    BY <1>4, <2>2, <2>3, <2>4 DEF Api
<1>5. CASE Message
  BY <1>1, <1>5 DEF Message, Send
<1>6. CASE UNCHANGED vars
  BY <1>1, <1>6 DEF vars
<1>7. QED
  BY <1>2, <1>3, <1>4, <1>5, <1>6 DEF Next

\* A link token connects at most one chat, although two leaders may handle its
\* message and every message may be delivered again (linkTelegramChat).
THEOREM TokensWorkOnce == Spec => []TokenUsedOnce
<1>1. Links => TokenUsedOnce
  BY DEF Links
<1>2. QED
  BY <1>1, LinksInit, LinksStep, PTL DEF Spec

\* A disconnected account gets no chat until it asks for a link (disconnect,
\* linkTelegramChat).
THEOREM DisconnectIsFinal == Spec => []DisconnectSticks
<1>1. Links => DisconnectSticks
  BY DEF Links
<1>2. QED
  BY <1>1, LinksInit, LinksStep, PTL DEF Spec

-----------------------------------------------------------------------------
(* What the bot answers when it handles an update twice *)

\* No account has the link of update i, and none will: links are issued once, and an
\* update has one that was issued before it was sent.
Dead(i) == \A u \in Users : hash[u] # None => hash[u] # inbox[i].token

Connected(i) == \E u \in Users : chat[u] = inbox[i].chat

\* What may be told that its link is invalid.
Deniable(i) == Dead(i) /\ (i \in linked => inbox[i].chat \in dropped)

Sent == 1 .. Len(inbox)

KnownTokens == \A i \in Sent : inbox[i].token \in issued \cup {Bare, Other}
LinkedOrDropped == linked \subseteq Sent /\ \A i \in linked : Connected(i) \/ inbox[i].chat \in dropped
DenialsPend ==
  \A p \in Procs :
    /\ pc[p] = "exists" => Dead(next[p])
    /\ pc[p] = "reply" /\ answer[p] = "invalid" => Deniable(next[p])
DenialsTold == \A i \in Ids : reply[i] = "invalid" => i \in Sent /\ Deniable(i)

RepliesInv == KnownTokens /\ LinkedOrDropped /\ DenialsPend /\ DenialsTold

\* The part of the invariant that the property asks for.
LEMMA RepliesHold == RepliesInv /\ Typed => RetriesStayConnected
BY DEF RepliesInv, DenialsTold, Deniable, RetriesStayConnected, Typed, TypeOK

\* At first nothing was sent or answered.
LEMMA RepliesInit == Init => RepliesInv
<1> SUFFICES ASSUME Init PROVE RepliesInv
  OBVIOUS
<1>1. Len(inbox) = 0 /\ linked = {} /\ \A i \in Ids : reply[i] = None
  BY DEF Init
<1>2. Sent = {}
  BY <1>1 DEF Sent
<1>3. \A p \in Procs : pc[p] = "off"
  BY DEF Init
<1>4. None # "invalid"
  BY AnswersAssumption DEF Answers
<1>5. QED
  BY <1>1, <1>2, <1>3, <1>4 DEF RepliesInv, KnownTokens, LinkedOrDropped, DenialsPend, DenialsTold

\* The types that the lemmas below need.
LEMMA InboxTypes ==
  ASSUME Typed, NEW i \in Sent
  PROVE  /\ inbox[i].chat \in Chats /\ inbox[i].token \in Tokens \cup {Bare, Other}
         /\ inbox[i].chat # None
<1>1. inbox \in Seq([chat : Chats, token : Tokens \cup {Bare, Other}])
  BY DEF Typed, TypeOK
<1>2. inbox[i] \in [chat : Chats, token : Tokens \cup {Bare, Other}]
  BY <1>1, ElementOfSeq DEF Sent
<1>3. QED
  BY <1>2, PollingAssumption

\* What a step does to accounts and histories of links.
Accounts == <<chat, hash, issued, linked, dropped>>
Redeems(p, u) ==
  /\ pc[p] = "handle" /\ next[p] <= last[p]
  /\ u \in Matches(p) /\ LinkAccount(p, u)

\* Only the API and the redemption of a link change them.
LEMMA AccountSteps ==
  ASSUME [Next]_vars
  PROVE  \/ UNCHANGED Accounts
         \/ UNCHANGED inbox /\ \E u \in Users : Api(u)
         \/ UNCHANGED inbox /\ \E p \in Procs, u \in Users : Redeems(p, u)
<1> USE DEF KeepData, KeepPolling, KeepHandling, KeepBot, accounts, telegram, locals, history, Accounts
<1>1. ASSUME NEW p \in Procs, Loop(p) PROVE UNCHANGED Accounts
  BY <1>1 DEF Loop, Start, AcquirePollingLease, AcquireFails, DeleteWebhook, GetUpdates,
     GetUpdatesFails, PollAborted, RenewPollingLease, BatchDone, RetryPolling, Pause,
     ReleasePollingLease, Wait
<1>2. ASSUME NEW p \in Procs, Handle(p)
      PROVE  UNCHANGED Accounts \/ (UNCHANGED inbox /\ \E u \in Users : Redeems(p, u))
  <2>1. CASE RedeemToken(p) \/ RedeemFails(p)
    BY <2>1 DEF RedeemToken, RedeemFails, Redeems, Matches
  <2>2. QED
    BY <1>2, <2>1 DEF Handle, Ignore, Welcome, CheckConnected, CheckFails, Reply,
       ReplyFails, Advance, AdvanceFails
<1>3. ASSUME NEW p \in Procs, Abort(p) \/ Crash(p) PROVE UNCHANGED Accounts
  BY <1>3 DEF Abort, Crash
<1>4. ASSUME NEW u \in Users, Api(u) PROVE UNCHANGED inbox
  BY <1>4 DEF Api, CreateLink, ExpireLink, Disconnect
<1>5. CASE Expire \/ Message \/ UNCHANGED vars
  BY <1>5 DEF Expire, Message, Send, vars
<1>6. QED
  BY <1>1, <1>2, <1>3, <1>4, <1>5 DEF Next

\* A message is appended to the updates, with a link that was issued or none.
LEMMA MessageEffect ==
  ASSUME Typed, Message
  PROVE  /\ \A i \in Sent : i \in Sent' /\ inbox'[i] = inbox[i]
         /\ \A i \in Sent' \ Sent : inbox'[i].token \in issued \cup {Bare, Other}
         /\ UNCHANGED <<Accounts, pc, next, answer, reply>>
<1> DEFINE S == [chat : Chats, token : Tokens \cup {Bare, Other}]
<1>1. PICK c \in Chats, t \in Tokens \cup {Bare, Other} : Send(c, t)
  BY DEF Message
<1>2. inbox \in Seq(S) /\ [chat |-> c, token |-> t] \in S
  BY DEF Typed, TypeOK
<1>3. inbox' = Append(inbox, [chat |-> c, token |-> t]) /\ t \in issued \cup {Bare, Other}
  BY <1>1 DEF Send
<1>4. UNCHANGED <<Accounts, pc, next, answer, reply>>
  BY <1>1 DEF Send, Accounts, accounts, locals, history
<1> HIDE DEF S
<1>5. Len(inbox) \in Nat /\ Len(inbox') = Len(inbox) + 1
  BY <1>2, <1>3
<1>6. \A i \in 1 .. Len(inbox) : inbox'[i] = inbox[i]
  BY <1>2, <1>3
<1>7. inbox'[Len(inbox) + 1] = [chat |-> c, token |-> t]
  BY <1>2, <1>3
<1>8. Sent \subseteq Sent' /\ \A i \in Sent' \ Sent : i = Len(inbox) + 1
  BY <1>5 DEF Sent
<1>9. QED
  BY <1>3, <1>4, <1>6, <1>7, <1>8 DEF Sent

\* Nothing else touches the updates.
LEMMA InboxSteps == ASSUME [Next]_vars PROVE UNCHANGED inbox \/ Message
<1> USE DEF KeepData, KeepPolling, KeepHandling, KeepBot, accounts, telegram, locals, history
<1>1. ASSUME NEW p \in Procs, Loop(p) \/ Handle(p) \/ Abort(p) \/ Crash(p) PROVE UNCHANGED inbox
  BY <1>1 DEF Loop, Start, AcquirePollingLease, AcquireFails, DeleteWebhook, GetUpdates,
     GetUpdatesFails, PollAborted, RenewPollingLease, BatchDone, RetryPolling, Pause,
     ReleasePollingLease, Wait, Handle, Ignore, Welcome, RedeemToken, RedeemFails,
     CheckConnected, CheckFails, Reply, ReplyFails, Advance, AdvanceFails, Abort, Crash
<1>2. ASSUME NEW u \in Users, Api(u) PROVE UNCHANGED inbox
  BY <1>2 DEF Api, CreateLink, ExpireLink, Disconnect
<1>3. CASE Expire \/ UNCHANGED vars
  BY <1>3 DEF Expire, vars
<1>4. QED
  BY <1>1, <1>2, <1>3 DEF Next

\* Updates that were sent stay as they are.
LEMMA InboxGrows ==
  ASSUME Typed, [Next]_vars
  PROVE  \A i \in Sent : i \in Sent' /\ inbox'[i] = inbox[i]
<1>1. CASE UNCHANGED inbox
  BY <1>1 DEF Sent
<1>2. QED
  BY <1>1, InboxSteps, MessageEffect

\* A redeemed link disappears; the update it came with was alive.
LEMMA RedeemEffect ==
  ASSUME Typed, NEW p \in Procs, NEW u \in Users, Redeems(p, u)
  PROVE  /\ next[p] \in Sent /\ ~Dead(next[p]) /\ linked' = linked \cup {next[p]}
         /\ \A v \in Users : hash'[v] \in {None, hash[v]}
         /\ chat'[u] = inbox[next[p]].chat /\ \A v \in Users \ {u} : chat'[v] = chat[v]
         /\ dropped' = dropped \cup ({chat[u]} \ {None, inbox[next[p]].chat})
         /\ issued' = issued
<1>1. next[p] \in Sent
  BY CurrentUpdate DEF Redeems, Sent
<1>2. chat \in [Users -> Chats \cup {None}] /\ hash \in [Users -> Tokens \cup {None}]
  BY DEF Typed, TypeOK
<1>3. QED
  BY <1>1, <1>2 DEF Redeems, Matches, LinkAccount, Update, Dead

\* What the API does to links and chats.
LEMMA ApiEffect ==
  ASSUME Typed, NEW u \in Users, Api(u)
  PROVE  /\ linked' = linked /\ dropped \subseteq dropped' /\ issued \subseteq issued'
         /\ \A v \in Users : hash'[v] \in {None, hash[v]} \/ hash'[v] \in Tokens \ issued
         /\ \A v \in Users : chat'[v] = chat[v] \/ chat[v] \in dropped' \cup {None}
<1> USE DEF KeepBot, telegram
<1>1. chat \in [Users -> Chats \cup {None}] /\ hash \in [Users -> Tokens \cup {None}]
  BY DEF Typed, TypeOK
<1>2. CASE \E t \in Tokens : CreateLink(u, t)
  BY <1>1, <1>2 DEF CreateLink
<1>3. CASE ExpireLink(u)
  BY <1>1, <1>3 DEF ExpireLink
<1>4. CASE Disconnect(u)
  BY <1>1, <1>4 DEF Disconnect
<1>5. QED
  BY <1>2, <1>3, <1>4 DEF Api

\* The link of an update that is dead stays dead, and what may be denied stays so.
LEMMA DenialsLast ==
  ASSUME Typed, KnownTokens, [Next]_vars, NEW i \in Sent, Dead(i)
  PROVE  Dead(i)' /\ (Deniable(i) => Deniable(i)')
<1>1. inbox'[i] = inbox[i] /\ inbox[i].token \in issued \cup {Bare, Other}
  BY InboxGrows DEF KnownTokens
<1>2. CASE UNCHANGED Accounts
  BY <1>1, <1>2 DEF Accounts, Dead, Deniable
<1>3. ASSUME NEW u \in Users, Api(u) PROVE Dead(i)' /\ (Deniable(i) => Deniable(i)')
  BY <1>1, <1>3, ApiEffect, PollingAssumption DEF Dead, Deniable
<1>4. ASSUME NEW p \in Procs, NEW u \in Users, Redeems(p, u)
      PROVE  Dead(i)' /\ (Deniable(i) => Deniable(i)')
  <2>1. i # next[p]
    BY <1>4, RedeemEffect
  <2>2. QED
    BY <1>1, <1>4, <2>1, RedeemEffect DEF Dead, Deniable
<1>5. QED
  BY <1>2, <1>3, <1>4, AccountSteps

\* Every link that was sent had been issued.
LEMMA KnownTokensStep ==
  ASSUME Typed, KnownTokens, [Next]_vars
  PROVE  KnownTokens'
<1>1. issued \subseteq issued'
  BY AccountSteps, ApiEffect, RedeemEffect DEF Accounts
<1>2. CASE UNCHANGED inbox
  BY <1>1, <1>2 DEF KnownTokens, Sent
<1>3. CASE Message
  BY <1>1, <1>3, MessageEffect DEF KnownTokens
<1>4. QED
  BY <1>2, <1>3, InboxSteps

\* A chat is linked by an update, and loses its account only into dropped.
LEMMA LinkedOrDroppedStep ==
  ASSUME Typed, LinkedOrDropped, [Next]_vars
  PROVE  LinkedOrDropped'
<1>1. \A i \in linked : i \in Sent /\ i \in Sent' /\ inbox'[i] = inbox[i] /\ inbox[i].chat \in Chats
  BY InboxGrows, InboxTypes DEF LinkedOrDropped
<1>2. CASE UNCHANGED Accounts
  BY <1>1, <1>2 DEF Accounts, LinkedOrDropped, Connected
<1>3. ASSUME NEW u \in Users, Api(u) PROVE LinkedOrDropped'
  BY <1>1, <1>3, ApiEffect, PollingAssumption DEF LinkedOrDropped, Connected
<1>4. ASSUME NEW p \in Procs, NEW u \in Users, Redeems(p, u) PROVE LinkedOrDropped'
  <2>1. next[p] \in Sent' /\ inbox'[next[p]] = inbox[next[p]]
    BY <1>4, RedeemEffect, InboxGrows
  <2>2. ASSUME NEW i \in linked PROVE Connected(i)' \/ inbox'[i].chat \in dropped'
    BY <1>1, <1>4, <2>2, RedeemEffect, PollingAssumption DEF LinkedOrDropped, Connected
  <2>3. \E v \in Users : chat'[v] = inbox'[next[p]].chat
    BY <1>4, <2>1, RedeemEffect
  <2>4. linked' = linked \cup {next[p]}
    BY <1>4, RedeemEffect
  <2>5. ASSUME NEW i \in linked' PROVE i \in Sent' /\ (Connected(i)' \/ inbox'[i].chat \in dropped')
    BY <1>1, <2>1, <2>2, <2>3, <2>4 DEF Connected
  <2>6. QED
    BY <2>5 DEF LinkedOrDropped
<1>5. QED
  BY <1>2, <1>3, <1>4, AccountSteps

\* A loop gets to "exists" only if no account has the link of its update, and to
\* an answer "invalid" only from there, if its chat is not connected.
LEMMA Denials ==
  ASSUME Typed, LinkedOrDropped, DenialsPend, [Next]_vars, NEW p \in Procs
  PROVE  /\ pc'[p] = "exists" => next'[p] = next[p] /\ Dead(next[p])
                                 /\ (pc[p] = "exists" \/ (pc[p] = "handle" /\ next[p] <= last[p]))
         /\ pc'[p] = "reply" /\ answer'[p] = "invalid" =>
              next'[p] = next[p] /\ Deniable(next[p]) /\ pc[p] \in {"reply", "exists"}
<1> USE DEF Typed, TypeOK
<1>1. CASE UNCHANGED <<pc, next, answer>>
  BY <1>1 DEF DenialsPend, Deniable
<1> USE DEF KeepData, KeepPolling, KeepHandling, KeepBot, accounts, telegram, locals, history, Goto
<1>2. ASSUME NEW q \in Procs, q # p, Loop(q) \/ Handle(q) \/ Abort(q) \/ Crash(q)
      PROVE  pc'[p] = pc[p] /\ next'[p] = next[p] /\ answer'[p] = answer[p]
  <2>1. CASE Loop(q)
    BY <1>2, <2>1 DEF Loop, Start, AcquirePollingLease, AcquireFails, DeleteWebhook, GetUpdates,
       GetUpdatesFails, PollAborted, RenewPollingLease, BatchDone, RetryPolling, Pause,
       ReleasePollingLease, Wait
  <2>2. CASE Handle(q)
    BY <1>2, <2>2 DEF Handle, Ignore, Welcome, RedeemToken, RedeemFails, HandlerThrows,
       CheckConnected, CheckFails, Reply, ReplyFails, Advance, AdvanceFails
  <2>3. CASE Abort(q) \/ Crash(q)
    BY <1>2, <2>3 DEF Abort, Crash
  <2>4. QED
    BY <1>2, <2>1, <2>2, <2>3
<1>3. ASSUME Loop(p) PROVE pc'[p] \notin {"exists", "reply"}
  BY <1>3 DEF Loop, Start, AcquirePollingLease, AcquireFails, DeleteWebhook, GetUpdates,
     GetUpdatesFails, PollAborted, RenewPollingLease, BatchDone, RetryPolling, Pause,
     ReleasePollingLease, Wait
<1>4. CASE Abort(p)
  BY <1>1, <1>4 DEF Abort
<1>5. ASSUME \/ Ignore(p) \/ RedeemFails(p) \/ CheckFails(p) \/ Reply(p) \/ ReplyFails(p)
             \/ Advance(p) \/ AdvanceFails(p) \/ Crash(p)
      PROVE  pc'[p] \notin {"exists", "reply"}
  BY <1>5 DEF Ignore, RedeemFails, CheckFails, Reply, ReplyFails, Advance, AdvanceFails,
     Crash, HandlerThrows
<1>6. CASE Welcome(p)
  BY <1>6 DEF Welcome
<1>7. CASE RedeemToken(p)
  <2>1. CASE Matches(p) = {}
    BY <1>7, <2>1 DEF RedeemToken, Matches, Dead, Update
  <2>2. CASE Matches(p) # {}
    BY <1>7, <2>2 DEF RedeemToken
  <2>3. QED
    BY <2>1, <2>2
<1>8. CASE CheckConnected(p)
  <2>1. pc[p] = "exists" /\ Dead(next[p]) /\ next' = next /\ pc'[p] = "reply"
    BY <1>8 DEF CheckConnected, DenialsPend
  <2>2. answer'[p] = "invalid" => ~Connected(next[p])
    BY <1>8 DEF CheckConnected, Connected, Update
  <2>3. QED
    BY <2>1, <2>2 DEF LinkedOrDropped, Deniable
<1>9. CASE Expire \/ Message \/ \E u \in Users : Api(u)
  BY <1>1, <1>9 DEF Expire, Message, Send, Api, CreateLink, ExpireLink, Disconnect
<1>10. CASE UNCHANGED vars
  BY <1>1, <1>10 DEF vars
<1>11. CASE \E q \in Procs : Loop(q) \/ Handle(q) \/ Abort(q) \/ Crash(q)
  <2>1. PICK q \in Procs : Loop(q) \/ Handle(q) \/ Abort(q) \/ Crash(q)
    BY <1>11
  <2>2. CASE q # p
    BY <1>2, <2>1, <2>2 DEF DenialsPend, Deniable
  <2>3. CASE q = p
    BY <1>3, <1>4, <1>5, <1>6, <1>7, <1>8, <2>1, <2>3 DEF Handle
  <2>4. QED
    BY <2>2, <2>3
<1>12. QED
  BY <1>9, <1>10, <1>11 DEF Next

\* What a loop is about to deny may be denied, and stays so while it waits.
LEMMA DenialsPendStep ==
  ASSUME Typed, KnownTokens, LinkedOrDropped, DenialsPend, [Next]_vars
  PROVE  DenialsPend'
<1> SUFFICES ASSUME NEW p \in Procs
             PROVE  /\ pc'[p] = "exists" => Dead(next[p])'
                    /\ pc'[p] = "reply" /\ answer'[p] = "invalid" => Deniable(next[p])'
  BY DEF DenialsPend
<1>1. CASE pc'[p] = "exists"
  <2>1. next[p] \in Sent /\ Dead(next[p]) /\ next'[p] = next[p]
    BY <1>1, Denials, CurrentUpdate DEF Sent
  <2>2. Dead(next[p])'
    BY <2>1, DenialsLast DEF Dead
  <2>3. QED
    BY <1>1, <2>2
<1>2. CASE pc'[p] = "reply" /\ answer'[p] = "invalid"
  <2>1. next[p] \in Sent /\ Deniable(next[p]) /\ next'[p] = next[p]
    BY <1>2, Denials, CurrentUpdate DEF Sent
  <2>2. Deniable(next[p])'
    BY <2>1, DenialsLast DEF Dead, Deniable
  <2>3. QED
    BY <1>2, <2>2
<1>3. QED
  BY <1>1, <1>2

\* Only a reply records an answer.
LEMMA ReplySteps ==
  ASSUME Typed, [Next]_vars
  PROVE  \/ UNCHANGED reply
         \/ \E p \in Procs : /\ pc[p] = "reply"
                             /\ reply' = [reply EXCEPT ![next[p]] = answer[p]]
<1> USE DEF KeepData, KeepPolling, KeepHandling, KeepBot, accounts, telegram, locals, history
<1>1. ASSUME NEW p \in Procs, Loop(p) \/ Abort(p) \/ Crash(p) PROVE UNCHANGED reply
  BY <1>1 DEF Loop, Start, AcquirePollingLease, AcquireFails, DeleteWebhook, GetUpdates,
     GetUpdatesFails, PollAborted, RenewPollingLease, BatchDone, RetryPolling, Pause,
     ReleasePollingLease, Wait, Abort, Crash
<1>2. ASSUME NEW p \in Procs, Handle(p)
      PROVE  UNCHANGED reply \/ (pc[p] = "reply" /\ reply' = [reply EXCEPT ![next[p]] = answer[p]])
  BY <1>2 DEF Handle, Ignore, Welcome, RedeemToken, RedeemFails, CheckConnected, CheckFails,
     Reply, ReplyFails, Advance, AdvanceFails
<1>3. ASSUME NEW u \in Users, Api(u) PROVE UNCHANGED reply
  BY <1>3 DEF Api, CreateLink, ExpireLink, Disconnect
<1>4. CASE Expire \/ Message \/ UNCHANGED vars
  BY <1>4 DEF Expire, Message, Send, vars
<1>5. QED
  BY <1>1, <1>2, <1>3, <1>4 DEF Next

\* What was denied could be.
LEMMA DenialsToldStep ==
  ASSUME Typed, KnownTokens, DenialsPend, DenialsTold, [Next]_vars
  PROVE  DenialsTold'
<1> SUFFICES ASSUME NEW i \in Ids, reply'[i] = "invalid"
             PROVE  (i \in Sent /\ Deniable(i))'
  BY DEF DenialsTold
<1>1. reply \in [Ids -> Answers \cup {None}]
  BY DEF Typed, TypeOK
<1>2. i \in Sent /\ Deniable(i)
  <2>1. CASE UNCHANGED reply
    BY <2>1 DEF DenialsTold
  <2>2. ASSUME NEW p \in Procs, pc[p] = "reply", reply' = [reply EXCEPT ![next[p]] = answer[p]]
        PROVE  i \in Sent /\ Deniable(i)
    <3>1. CASE reply[i] = "invalid"
      BY <3>1 DEF DenialsTold
    <3>2. CASE reply[i] # "invalid"
      <4>1. next[p] = i /\ answer[p] = "invalid"
        BY <1>1, <2>2, <3>2
      <4>2. QED
        BY <2>2, <4>1, CurrentUpdate DEF DenialsPend, Sent
    <3>3. QED
      BY <3>1, <3>2
  <2>3. QED
    BY <2>1, <2>2, ReplySteps
<1>3. i \in Sent' /\ inbox'[i] = inbox[i]
  BY <1>2, InboxGrows
<1>4. Deniable(i)'
  BY <1>2, DenialsLast DEF Deniable
<1>5. QED
  BY <1>3, <1>4

\* The four parts together are inductive.
LEMMA RepliesStep == Typed /\ RepliesInv /\ [Next]_vars => RepliesInv'
BY KnownTokensStep, LinkedOrDroppedStep, DenialsPendStep, DenialsToldStep DEF RepliesInv

\* An update that linked its chat is answered "invalid or expired" only if the
\* chat was disconnected since, whatever is retried, by whichever leader, and
\* whatever fails (linkTelegramChat's User.exists).
THEOREM RepliesStayConnected == Spec => []RetriesStayConnected
<1>1. Init => Typed /\ RepliesInv
  BY TypedInit, RepliesInit
<1>2. Typed /\ RepliesInv /\ [Next]_vars => (Typed /\ RepliesInv)'
  BY TypedStep, RepliesStep
<1>3. Typed /\ RepliesInv => RetriesStayConnected
  BY RepliesHold
<1>4. QED
  BY <1>1, <1>2, <1>3, PTL DEF Spec
=============================================================================
