-------------------------- MODULE TelegramPolling --------------------------
(***************************************************************************)
(* Linking Telegram chats to accounts.  The API issues one-time link       *)
(* tokens (telegramController.js); worker processes elect a leader with a  *)
(* Redis lease, and the leader polls Telegram for messages, redeems tokens *)
(* and answers (telegramBot.js).  Telegram delivers an update until a      *)
(* later getUpdates has an offset above it.                                *)
(*                                                                         *)
(* Faults may hold "mongo", "redis" and "telegram" (a call fails, before   *)
(* or after it took effect), "crash" (a process dies), "stop" (a process   *)
(* is shut down) and "lease" (the lease runs out under its holder).        *)
(***************************************************************************)
EXTENDS Naturals, Sequences, FiniteSets

CONSTANTS Procs,       \* worker processes
          Users,       \* accounts
          Chats,       \* private Telegram chats
          Tokens,      \* link tokens, each issued once
          None,        \* no chat, no token, no answer
          Free,        \* nobody has the lease
          Bare,        \* "/start" without a token
          Other,       \* any message the bot ignores
          BatchLimit,  \* limit of getUpdates
          Faults,      \* kinds of fault allowed
          MaxFaults,   \* bound: number of faults
          MaxUpdates   \* bound: messages sent to the bot

ASSUME PollingAssumption ==
  /\ None \notin Users \cup Chats \cup Tokens
  /\ Free \notin Procs
  /\ Bare \notin Tokens /\ Other \notin Tokens /\ Bare # Other
  /\ BatchLimit \in Nat \ {0}
  /\ MaxFaults \in Nat /\ MaxUpdates \in Nat

VARIABLES
  \* MongoDB
  chat,       \* chat[u]: telegramChatId of the account, or None
  hash,       \* hash[u]: its unexpired link token, or None
  issued,     \* tokens that createLink has handed out
  \* Telegram
  inbox,      \* every update, its update_id is its position
  confirmed,  \* updates up to this one are not delivered again
  \* Redis
  lease,      \* holder of pulseguard:telegram-polling-leader, or Free
  \* one polling loop per worker process
  pc,         \* pc[p]: the await the loop is at
  stop,       \* stop[p]: the abort signal is set
  offset,     \* offset[p]: offset of the next getUpdates; 1 when undefined, as
              \*   Telegram then starts with the first update not confirmed
  next,       \* next[p]: the update of the batch being handled
  last,       \* last[p]: the last update of the batch
  answer,     \* answer[p]: the message being sent
  \* history, for the properties
  reply,      \* reply[i]: the last message that answered update i
  handled,    \* updates whose handler returned
  linked,     \* updates that linked their chat
  uses,       \* uses[t]: how often token t linked a chat
  dropped,    \* chats that were linked and then were not
  wished,     \* accounts that asked for a link since they last disconnected
  faults      \* bound counter: faults so far

accounts == <<chat, hash, issued, wished>>
telegram == <<inbox, confirmed>>
locals == <<offset, next, last, answer>>
history == <<reply, handled, linked, uses, dropped>>
vars == <<accounts, telegram, lease, pc, stop, locals, history, faults>>

Ids == 1 .. MaxUpdates
Answers == {"connected", "invalid", "taken", "open"}
ASSUME AnswersAssumption == None \notin Answers
Awaits == {"off", "acquire", "webhook", "poll", "renew", "handle", "exists",
           "reply", "after", "retry", "pause", "release", "wait"}

\* The awaits of a process between taking the lease and giving it up.
Leading(p) == pc[p] \notin {"off", "acquire", "wait"}
Handling(p) == pc[p] \in {"handle", "exists", "reply", "after"}

\* The last conjunct: the bot reads no update that was not sent.
TypeOK ==
  /\ chat \in [Users -> Chats \cup {None}]
  /\ hash \in [Users -> Tokens \cup {None}]
  /\ issued \subseteq Tokens
  /\ inbox \in Seq([chat : Chats, token : Tokens \cup {Bare, Other}])
  /\ confirmed \in 0 .. Len(inbox)
  /\ lease \in Procs \cup {Free}
  /\ pc \in [Procs -> Awaits]
  /\ stop \in [Procs -> BOOLEAN]
  /\ offset \in [Procs -> Nat \ {0}] /\ next \in [Procs -> Nat] /\ last \in [Procs -> Nat]
  /\ answer \in [Procs -> Answers \cup {None}]
  /\ reply \in [Ids -> Answers \cup {None}]
  /\ handled \subseteq Ids /\ linked \subseteq Ids
  /\ uses \in [Tokens -> Nat]
  /\ dropped \subseteq Chats
  /\ wished \subseteq Users
  /\ faults \in Nat
  /\ Len(inbox) <= MaxUpdates
  /\ \A p \in Procs : offset[p] <= Len(inbox) + 1 /\ last[p] <= Len(inbox)

Init ==
  /\ chat = [u \in Users |-> None]
  /\ hash = [u \in Users |-> None]
  /\ issued = {}
  /\ inbox = <<>>
  /\ confirmed = 0
  /\ lease = Free
  /\ pc = [p \in Procs |-> "off"]
  /\ stop = [p \in Procs |-> FALSE]
  /\ offset = [p \in Procs |-> 1]
  /\ next = [p \in Procs |-> 0]
  /\ last = [p \in Procs |-> 0]
  /\ answer = [p \in Procs |-> None]
  /\ reply = [i \in Ids |-> None]
  /\ handled = {}
  /\ linked = {}
  /\ uses = [t \in Tokens |-> 0]
  /\ dropped = {}
  /\ wished = {}
  /\ faults = 0

Fault(kind) ==
  /\ kind \in Faults
  /\ faults < MaxFaults
  /\ faults' = faults + 1

Goto(p, await) == pc' = [pc EXCEPT ![p] = await]

-----------------------------------------------------------------------------
(* telegramController.js.  Each request is one update of one document. *)

KeepBot ==
  UNCHANGED <<telegram, lease, pc, stop, locals, reply, handled, linked, uses, faults>>

\* createLink: a new random token replaces the one before.
CreateLink(u, t) ==
  /\ t \notin issued
  /\ issued' = issued \cup {t}
  /\ hash' = [hash EXCEPT ![u] = t]
  /\ wished' = wished \cup {u}
  /\ UNCHANGED <<chat, dropped>>
  /\ KeepBot

\* LINK_TOKEN_TTL_MS passes; a token that expired matches no query.
ExpireLink(u) ==
  /\ hash[u] # None
  /\ hash' = [hash EXCEPT ![u] = None]
  /\ UNCHANGED <<chat, issued, wished, dropped>>
  /\ KeepBot

\* Mutant: a link that is still open survives the disconnect.
DisconnectChatOnly(u) ==
  /\ chat[u] # None \/ hash[u] # None
  /\ chat' = [chat EXCEPT ![u] = None]
  /\ dropped' = dropped \cup ({chat[u]} \ {None})
  /\ wished' = wished \ {u}
  /\ UNCHANGED <<hash, issued>>
  /\ KeepBot

\* disconnect
Disconnect(u) ==
  /\ chat[u] # None \/ hash[u] # None
  /\ chat' = [chat EXCEPT ![u] = None]
  /\ hash' = [hash EXCEPT ![u] = None]
  /\ dropped' = dropped \cup ({chat[u]} \ {None})
  /\ wished' = wished \ {u}
  /\ UNCHANGED issued
  /\ KeepBot

-----------------------------------------------------------------------------
(* Someone writes to the bot.  A token is known once it was issued. *)

Send(c, t) ==
  /\ Len(inbox) < MaxUpdates
  /\ t \in issued \cup {Bare, Other}
  /\ inbox' = Append(inbox, [chat |-> c, token |-> t])
  /\ UNCHANGED <<accounts, confirmed, lease, pc, stop, locals, history, faults>>

-----------------------------------------------------------------------------
(* runPollingLeaderLoop *)

KeepData == UNCHANGED <<accounts, telegram, history>>

\* startTelegramBot
Start(p) ==
  /\ pc[p] = "off"
  /\ Goto(p, "acquire")
  /\ KeepData
  /\ UNCHANGED <<lease, stop, locals, faults>>

\* Mutant: SET without NX.
AcquireAnyway(p) ==
  /\ pc[p] = "acquire"
  /\ lease' = p
  /\ Goto(p, "webhook")
  /\ KeepData
  /\ UNCHANGED <<stop, locals, faults>>

\* SET key token PX ttl NX, with a token of this round.
AcquirePollingLease(p) ==
  /\ pc[p] = "acquire"
  /\ IF lease = Free
       THEN lease' = p /\ Goto(p, "webhook")
       ELSE UNCHANGED lease /\ Goto(p, "wait")
  /\ KeepData
  /\ UNCHANGED <<stop, locals, faults>>

\* The reply of the SET is lost, and the key may be set.
AcquireFails(p) ==
  /\ pc[p] = "acquire"
  /\ Fault("redis")
  /\ lease' \in {lease, IF lease = Free THEN p ELSE lease}
  /\ Goto(p, "wait")
  /\ KeepData
  /\ UNCHANGED <<stop, locals>>

DeleteWebhook(p) ==
  /\ pc[p] = "webhook"
  /\ \/ Goto(p, "poll") /\ UNCHANGED faults
     \/ Fault("telegram") /\ Goto(p, "release")
  /\ KeepData
  /\ UNCHANGED <<lease, stop, locals>>

\* The key is deleted if it still has this round's token.
ReleasePollingLease(p) ==
  /\ pc[p] = "release"
  /\ \/ lease' = (IF lease = p THEN Free ELSE lease) /\ UNCHANGED faults
     \/ Fault("redis") /\ lease' \in {lease, IF lease = p THEN Free ELSE lease}
  /\ Goto(p, "wait")
  /\ offset' = [offset EXCEPT ![p] = 1]
  /\ next' = [next EXCEPT ![p] = 0]
  /\ last' = [last EXCEPT ![p] = 0]
  /\ answer' = [answer EXCEPT ![p] = None]
  /\ KeepData
  /\ UNCHANGED stop

\* POLLING_RETRY_MS, or less if the signal is set meanwhile; then the loop tests it.
Wait(p) ==
  /\ pc[p] = "wait"
  /\ Goto(p, IF stop[p] THEN "off" ELSE "acquire")
  /\ stop' = [stop EXCEPT ![p] = FALSE]
  /\ KeepData
  /\ UNCHANGED <<lease, locals, faults>>

-----------------------------------------------------------------------------
(* pollUpdates *)

KeepPolling == UNCHANGED <<accounts, inbox, lease, stop, history>>

\* The larger of two numbers.
Larger(a, b) == IF a > b THEN a ELSE b
Smaller(a, b) == IF a < b THEN a ELSE b

\* What getUpdates confirms: everything below the offset.
Acknowledge(p) == confirmed' = Larger(confirmed, offset[p] - 1)

\* getUpdates, with at most BatchLimit updates from the offset on.
GetUpdates(p) ==
  /\ pc[p] = "poll" /\ ~stop[p]
  /\ Acknowledge(p)
  /\ LET first == Larger(offset[p], confirmed' + 1)
     IN  /\ next' = [next EXCEPT ![p] = first]
         /\ last' = [last EXCEPT ![p] = Smaller(Len(inbox), first + BatchLimit - 1)]
  /\ Goto(p, "renew")
  /\ KeepPolling
  /\ UNCHANGED <<offset, answer, faults>>

\* The request fails, perhaps after Telegram has seen it.
GetUpdatesFails(p) ==
  /\ pc[p] = "poll" /\ ~stop[p]
  /\ Fault("telegram")
  /\ Acknowledge(p) \/ UNCHANGED confirmed
  /\ Goto(p, "retry")
  /\ KeepPolling
  /\ UNCHANGED locals

\* The signal ends the loop, or aborts the request after Telegram has seen it.
PollAborted(p) ==
  /\ pc[p] = "poll" /\ stop[p]
  /\ Acknowledge(p) \/ UNCHANGED confirmed
  /\ Goto(p, "release")
  /\ KeepPolling
  /\ UNCHANGED <<locals, faults>>

\* Of the renewals only the answer matters: does the key have this round's token?
RenewPollingLease(p) ==
  /\ pc[p] = "renew"
  /\ \/ Goto(p, IF lease = p THEN "handle" ELSE "release") /\ UNCHANGED faults
     \/ Fault("redis") /\ Goto(p, IF stop[p] THEN "release" ELSE "retry")
  /\ KeepPolling
  /\ UNCHANGED <<confirmed, locals>>

BatchDone(p) ==
  /\ pc[p] = "handle" /\ next[p] > last[p]
  /\ offset' = [offset EXCEPT ![p] = next[p]]
  /\ Goto(p, "poll")
  /\ KeepPolling
  /\ UNCHANGED <<confirmed, next, last, answer, faults>>

\* After an error: renew, pause five seconds, poll again.  If this renewal
\* rejects, it is tried once more from the catch, or the round ends.
RetryPolling(p) ==
  /\ pc[p] = "retry"
  /\ \/ Goto(p, IF lease = p THEN "pause" ELSE "release") /\ UNCHANGED faults
     \/ Fault("redis") /\ (Goto(p, "release") \/ UNCHANGED pc)
  /\ KeepPolling
  /\ UNCHANGED <<confirmed, locals>>

Pause(p) ==
  /\ pc[p] = "pause"
  /\ Goto(p, "poll")
  /\ KeepPolling
  /\ UNCHANGED <<confirmed, locals, faults>>

-----------------------------------------------------------------------------
(* processUpdateBatch, handleUpdate and linkTelegramChat *)

Update(p) == inbox[next[p]]
KeepHandling == UNCHANGED <<telegram, lease, stop, offset, last>>

\* Mutant: the offset moves past an update whose handler threw.
GiveUp(p) ==
  /\ offset' = [offset EXCEPT ![p] = next[p] + 1]
  /\ Goto(p, "retry")

\* The handler threw: the batch ends at its update.
HandlerThrows(p) ==
  /\ offset' = [offset EXCEPT ![p] = next[p]]
  /\ Goto(p, "retry")

\* Not a "/start" in a private chat.
Ignore(p) ==
  /\ pc[p] = "handle" /\ next[p] <= last[p]
  /\ Update(p).token = Other
  /\ handled' = handled \cup {next[p]}
  /\ Goto(p, "after")
  /\ KeepHandling
  /\ UNCHANGED <<accounts, next, answer, reply, linked, uses, dropped, faults>>

\* A "/start" without a token needs no database.
Welcome(p) ==
  /\ pc[p] = "handle" /\ next[p] <= last[p]
  /\ Update(p).token = Bare
  /\ answer' = [answer EXCEPT ![p] = "open"]
  /\ Goto(p, "reply")
  /\ KeepHandling
  /\ UNCHANGED <<accounts, next, history, faults>>

\* The accounts findOneAndUpdate matches; telegramChatId is unique.
Matches(p) == {u \in Users : hash[u] # None /\ hash[u] = Update(p).token}
Taken(p) == \E u \in Users \ Matches(p) : chat[u] = Update(p).chat

\* Mutant: the token stays valid until it expires.
LinkAndKeepToken(p, u) ==
  /\ chat' = [chat EXCEPT ![u] = Update(p).chat]
  /\ dropped' = dropped \cup ({chat[u]} \ {None, Update(p).chat})
  /\ linked' = linked \cup {next[p]}
  /\ uses' = [uses EXCEPT ![Update(p).token] = @ + 1]
  /\ UNCHANGED <<hash, issued, wished>>

\* Store the chat and remove the token.
LinkAccount(p, u) ==
  /\ chat' = [chat EXCEPT ![u] = Update(p).chat]
  /\ hash' = [hash EXCEPT ![u] = None]
  /\ dropped' = dropped \cup ({chat[u]} \ {None, Update(p).chat})
  /\ linked' = linked \cup {next[p]}
  /\ uses' = [uses EXCEPT ![Update(p).token] = @ + 1]
  /\ UNCHANGED <<issued, wished>>

\* findOneAndUpdate: one atomic update, or error 11000, or no match.
RedeemToken(p) ==
  /\ pc[p] = "handle" /\ next[p] <= last[p]
  /\ Update(p).token \in Tokens
  /\ \/ /\ Matches(p) # {} /\ ~Taken(p)
        /\ \E u \in Matches(p) : LinkAccount(p, u)
        /\ answer' = [answer EXCEPT ![p] = "connected"]
        /\ Goto(p, "reply")
     \/ /\ Matches(p) # {} /\ Taken(p)
        /\ answer' = [answer EXCEPT ![p] = "taken"]
        /\ Goto(p, "reply")
        /\ UNCHANGED <<accounts, linked, uses, dropped>>
     \/ /\ Matches(p) = {}
        /\ Goto(p, "exists")
        /\ UNCHANGED <<accounts, answer, linked, uses, dropped>>
  /\ KeepHandling
  /\ UNCHANGED <<next, reply, handled, faults>>

\* The query rejects, and its effect may have taken place.
RedeemFails(p) ==
  /\ pc[p] = "handle" /\ next[p] <= last[p]
  /\ Update(p).token \in Tokens
  /\ Fault("mongo")
  /\ \/ ~Taken(p) /\ \E u \in Matches(p) : LinkAccount(p, u)
     \/ UNCHANGED <<accounts, linked, uses, dropped>>
  /\ HandlerThrows(p)
  /\ UNCHANGED <<telegram, lease, stop, next, last, answer, reply, handled>>

\* Mutant: no match is always an invalid link.
NeverConnected(p) ==
  /\ pc[p] = "exists"
  /\ answer' = [answer EXCEPT ![p] = "invalid"]
  /\ Goto(p, "reply")
  /\ KeepHandling
  /\ UNCHANGED <<accounts, next, history, faults>>

\* User.exists: a retry of an update that linked its chat finds it connected.
CheckConnected(p) ==
  /\ pc[p] = "exists"
  /\ answer' = [answer EXCEPT ![p] =
                  IF \E u \in Users : chat[u] = Update(p).chat THEN "connected" ELSE "invalid"]
  /\ Goto(p, "reply")
  /\ KeepHandling
  /\ UNCHANGED <<accounts, next, history, faults>>

CheckFails(p) ==
  /\ pc[p] = "exists"
  /\ Fault("mongo")
  /\ HandlerThrows(p)
  /\ UNCHANGED <<accounts, telegram, lease, stop, next, last, answer, history>>

\* sendMessage delivers, and the handler returns.
Reply(p) ==
  /\ pc[p] = "reply"
  /\ reply' = [reply EXCEPT ![next[p]] = answer[p]]
  /\ handled' = handled \cup {next[p]}
  /\ answer' = [answer EXCEPT ![p] = None]
  /\ Goto(p, "after")
  /\ KeepHandling
  /\ UNCHANGED <<accounts, next, linked, uses, dropped, faults>>

\* sendMessage rejects, and the message may have been delivered.
ReplyFails(p) ==
  /\ pc[p] = "reply"
  /\ Fault("telegram")
  /\ reply' = [reply EXCEPT ![next[p]] = answer[p]] \/ UNCHANGED reply
  /\ answer' = [answer EXCEPT ![p] = None]
  /\ HandlerThrows(p)
  /\ UNCHANGED <<accounts, telegram, lease, stop, next, last, handled, linked, uses, dropped>>

\* Mutant: the offset is counted twice.
AdvanceTwice(p) ==
  /\ pc[p] = "after"
  /\ lease = p
  /\ next' = [next EXCEPT ![p] = @ + 2]
  /\ Goto(p, "handle")
  /\ KeepHandling
  /\ UNCHANGED <<accounts, answer, history, faults>>

\* afterEach: the lease is renewed after every update.
Advance(p) ==
  /\ pc[p] = "after"
  /\ lease = p
  /\ next' = [next EXCEPT ![p] = @ + 1]
  /\ Goto(p, "handle")
  /\ KeepHandling
  /\ UNCHANGED <<accounts, answer, history, faults>>

\* The lease is lost: the round ends.  If the renewal rejects, the new offset
\* is lost with the batch, and pollUpdates retries with the old one.
AdvanceFails(p) ==
  /\ pc[p] = "after"
  /\ \/ lease # p /\ Goto(p, "release") /\ UNCHANGED faults
     \/ Fault("redis") /\ Goto(p, IF stop[p] THEN "release" ELSE "retry")
  /\ KeepHandling
  /\ UNCHANGED <<accounts, next, answer, history>>

-----------------------------------------------------------------------------
(* Processes and the lease *)

\* closeTelegramBot sets the abort signal.
Abort(p) ==
  /\ pc[p] # "off" /\ ~stop[p]
  /\ Fault("stop")
  /\ stop' = [stop EXCEPT ![p] = TRUE]
  /\ KeepData
  /\ UNCHANGED <<lease, pc, locals>>

Crash(p) ==
  /\ pc[p] # "off"
  /\ Fault("crash")
  /\ Goto(p, "off")
  /\ stop' = [stop EXCEPT ![p] = FALSE]
  /\ offset' = [offset EXCEPT ![p] = 1]
  /\ next' = [next EXCEPT ![p] = 0]
  /\ last' = [last EXCEPT ![p] = 0]
  /\ answer' = [answer EXCEPT ![p] = None]
  /\ KeepData
  /\ UNCHANGED lease

\* Mutant: the key is set without a TTL.
NeverExpires ==
  /\ lease \in Procs /\ "lease" \in Faults
  /\ lease' = Free
  /\ KeepData
  /\ UNCHANGED <<pc, stop, locals, faults>>

\* POLLING_LEASE_TTL_MS passes without a renewal.  A holder that is leading
\* renews in time, unless "lease" is among the faults.
Expire ==
  /\ lease \in Procs
  /\ "lease" \in Faults \/ ~Leading(lease)
  /\ lease' = Free
  /\ KeepData
  /\ UNCHANGED <<pc, stop, locals, faults>>

-----------------------------------------------------------------------------
Loop(p) ==
  \/ Start(p) \/ AcquirePollingLease(p) \/ AcquireFails(p) \/ DeleteWebhook(p)
  \/ GetUpdates(p) \/ GetUpdatesFails(p) \/ PollAborted(p)
  \/ RenewPollingLease(p) \/ BatchDone(p) \/ RetryPolling(p) \/ Pause(p)
  \/ ReleasePollingLease(p) \/ Wait(p)

Handle(p) ==
  \/ Ignore(p) \/ Welcome(p) \/ RedeemToken(p) \/ RedeemFails(p)
  \/ CheckConnected(p) \/ CheckFails(p) \/ Reply(p) \/ ReplyFails(p)
  \/ Advance(p) \/ AdvanceFails(p)

Api(u) == (\E t \in Tokens : CreateLink(u, t)) \/ ExpireLink(u) \/ Disconnect(u)

Message == \E c \in Chats, t \in Tokens \cup {Bare, Other} : Send(c, t)

Next ==
  \/ \E p \in Procs : Loop(p) \/ Handle(p) \/ Abort(p) \/ Crash(p)
  \/ Expire
  \/ \E u \in Users : Api(u)
  \/ Message

Spec == Init /\ [][Next]_vars

\* A process that ended is started again, its awaits end, and keys expire.
Fairness ==
  /\ \A p \in Procs : WF_vars(Loop(p) \/ Handle(p))
  /\ WF_vars(Expire)

FairSpec == Spec /\ Fairness

-----------------------------------------------------------------------------
(* Properties. *)

\* "A Redis lease elects one worker as the Telegram polling leader when
\* multiple workers are running" (README.md:42-43).
OneLeader == \A p, q \in Procs : Leading(p) /\ Leading(q) => p = q

\* Telegram never forgets an update that no handler has finished, whichever
\* processes lead, crash or fail ("Telegram polling only advances past
\* successfully processed updates", test/security.test.js).
NoUpdateLost == 1 .. confirmed \subseteq handled

\* A link works once, although updates are delivered and handled again.
TokenUsedOnce == \A t \in Tokens : uses[t] <= 1

\* After a disconnect the account stays without a chat, whatever links were
\* open and whatever updates are still to come, until a link is asked for.
DisconnectSticks == \A u \in Users : chat[u] # None => u \in wished

\* An update that linked its chat and is handled again, after a crash or by a
\* second leader, is not answered with "invalid or expired" while the chat
\* has stayed linked.
RetriesStayConnected ==
  \A i \in linked : reply[i] = "invalid" => inbox[i].chat \in dropped

\* Every message is handled in the end, whatever processes crash or stop.
EveryUpdateHandled == \A i \in Ids : i <= Len(inbox) ~> i \in handled
=============================================================================
