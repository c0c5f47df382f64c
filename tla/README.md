# PulseGuard: specifications, checks and proofs

PulseGuard watches HTTP endpoints. Owners register monitors through an API and a
dashboard, worker processes check each monitor on its schedule, and a change of
the verdict (UP, DOWN) is sent to the owner's Telegram chat. This directory holds
TLA+ specifications of the parts of the program whose correctness depends on
order: checks that overlap, calls that fail half-way, processes that die or are
told to stop, locks that expire, answers and animation frames that arrive late.
TLC checks them on small instances, TLAPS proves the central invariants for
instances of any size.

All paths below are relative to `src/`. `PROJECT.json` maps each definition to
the lines it models.

## 1. The system

    dashboard page --HTTP--> API process(es) ---> MongoDB <--- worker process(es)
         |  timer refresh         |                                 |   |   |
         |                        +--> BullMQ in Redis ------jobs---+   |   +--> endpoints
    Telegram user --messages--> Telegram <-----long poll, alerts--------+
                                          check locks and polling lease: Redis

| Component | State | Operations | What is hard | What makes it correct |
|---|---|---|---|---|
| Monitor worker (`backend/workers/monitorWorker.js`) | monitor document, check log, Redis lock | `processMonitorCheck`: acquire, load, test, save, log, release, alert | several slots per process and several processes; retries and stalled jobs; a TTL on the lock; edits and deletes during a check | one check of a monitor at a time; the verdict follows from whole checks; alerts neither repeated nor lost without a fault |
| Endpoint tester (`backend/services/apiTester.js`) | none | `testApiEndpoint` | timeouts, redirects, addresses | an answer or a failure, never an exception |
| Status alerts (`telegramBot.js`, `sendTelegramMonitorAlert`) | none | send | sent after the lock is released, not retried | see the worker |
| Monitor API (`backend/controllers/monitorController.js`) | monitor document, scheduler | create, update, delete | two stores written one after the other; compensation that can fail; overlapping requests | a monitor has exactly the scheduler of its interval; the limit holds |
| Queue and synchronisation (`backend/queues/monitorQueue.js`) | job schedulers, jobs | upsert, remove, `synchronizeMonitorSchedules` at worker start | a snapshot read before requests change what it describes | schedulers and documents agree again after any failure |
| Telegram bot (`backend/services/telegramBot.js`) | polling lease, offset, link token, chat | elect, poll, handle an update, link a chat | at-least-once delivery; several processes; lease expiry; two accounts for one chat | no update lost; one leader; a token links once |
| Linking API (`backend/controllers/telegramController.js`) | link token, chat | create link, disconnect | links still on their way when the owner disconnects | disconnected stays disconnected |
| Dashboard API (`backend/controllers/dashboardController.js`) | none of its own | summary, trend, logs with a cursor | logs written, expired and deleted between two pages | pages without gap or repeat |
| Dashboard page (`frontend/app/dashboard/page.tsx`, `CheckHistoryPanel.tsx`) | lists, editor and flags in React state | timer refresh, load older, open, create, edit, set the interval, delete, log out | several calls in flight; answers out of order, after the component is gone, or without a session | what is shown is what is stored, or becomes so again by itself; a draft is not thrown away |
| Telegram settings panel (`TelegramSettings.tsx`) | status, flags | load the status, connect, disconnect | mounts and unmounts with calls in flight; the same | "connected" is true |
| Accounts and sessions (`authController.js`, `utils/session.js`, `middleware/auth.js`, `auth/page.tsx`) | accounts, a signed cookie | register, log in, log out, expiry | two registrations at once; a 401 that arrives after a new login | who stays on the dashboard has a session |
| Process lifecycle (`server.js`, `worker.js`, `config/`) | the process, its connections | start, failed start, shutdown, forced exit | two signals, clients that stay connected, services that are down | no request or job is cut off by an orderly exit; every shutdown ends |
| Readiness probe (`systemController.js`) | none | `readyCheck` | two reads at two times, one of a state the driver keeps and updates late | a wrong answer does not stay wrong |
| Dream world (`frontend/app/dreamworld/`) | WebGL scene, dialog, scroll goal | boot, lose and restore the context, open, close, navigate, exit | timers, frames, hidden tabs and media changes that overlap | what covers the poster can be drawn; timers of one dialog do not touch the next |
| Rate limits, static pages, observatory scene | counters in Redis; none | - | - | not modelled, see 6 |

The components meet in three places: the monitor document (API and worker), the
job schedulers (API and starting workers), and the user document (linking API and
the bot). The dashboard meets the API in its answers and in the cookie. The two
backend processes share nothing but the services. Redis holds only leases and the queue, and MongoDB calls are single
document operations: there are no transactions, so every `await` is a point
where another actor may step in. That is the grain of all modules: one action is
the code from one `await` to the next.

## 2. Modules

| Module | Models |
|---|---|
| `MonitorState` | the pure part of the worker: `calculateMonitorState`, `shouldSendStatusAlert`, the condition for an alert |
| `Incidents` | abstract specification: the health of each monitor as a machine of whole checks |
| `MonitorCheck` | the worker in detail: slots, lock, document, log, queue, endpoint, alerts; and the API's edits and deletes |
| `MonitorCheckProofs` | theorems about `MonitorCheck`: exclusion, verdicts, the refinement of `Incidents`, alerts, edits beside checks |
| `MonitorSchedules` | create, update and delete with their compensation, and the synchronisation at worker start |
| `TelegramPolling` | link tokens, election, polling, redemption, disconnect |
| `TelegramPollingProofs` | theorems about `TelegramPolling`, what is answered to an update that is handled again among them |
| `MonitorSchedulesProofs` | theorems about `MonitorSchedules` |
| `CheckHistory` | logs, retention, `getLogs`, and the dashboard's list of logs |
| `CheckHistoryProofs` | theorems about `CheckHistory` |
| `Dashboard` | one browser: the handlers of the page, the Telegram panel and the sign-in page, with the API as far as they see it |
| `DashboardProofs` | theorems about `Dashboard` |
| `Subsequences` | what `Array.prototype.filter` keeps, used by the two modules of the dashboard |
| `SubsequenceProofs` | lemmas about ranks in a finite set and about subsequences |
| `Lifecycle` | start, stop and readiness of the two backend processes |
| `LifecycleProofs` | theorems about `Lifecycle` |
| `DreamWorld` | the landing page: canvas, dialogs, scrolling, exit |
| `DreamWorldProofs` | theorems about `DreamWorld` |
| `MC...` | small instances of the above for TLC |

Modules meet where the components do, by modelling each shared thing from both
sides: `MonitorCheck` has the API's edits and deletes of a document beside the
worker's saves, `MonitorSchedules` has requests beside starting workers,
`TelegramPolling` the linking API beside the bot, `CheckHistory` and `Dashboard` the
server beside the page. `MonitorCheck` instantiates `Incidents` under a refinement
mapping.

### MonitorState, Incidents, MonitorCheck

`docs[m]` is the document of a monitor, `lock[m]`
the token in its Redis key, `queue[m]` its waiting jobs. A slot `s` has the local
variables of one run of `processMonitorCheck`: `pc[s]` is the `await` it is at,
`seen[s]` the document it loaded, `code[s]` the answer it got, `outcome[s]` what
it does after the `finally` block. One action per await: `AcquireLock`,
`LoadMonitor`, `CheckEndpoint`, `SaveMonitor`, `WriteLog`, `ReleaseLock`,
`SendAlert`, with the other outcomes of each (`LockBusy`, `MonitorGone`,
`SaveGone`) and its failures. A failed write happens before or after its effect.
`Checked` computes the saved document path by path, because mongoose writes only
paths whose value changed; `CheckedWhole`, a mutant, shows what would happen
otherwise. `BullMQ` is external: a job that fails or stalls may be queued again.

`downSince` is only known or unknown; response times, messages and names are left
out. A status code is one of a small set; only equality with the expected one
matters to the code.

`Incidents` is what an owner is promised: each monitor moves by `Succeed`,
`Tolerate`, `Confirm`, `Persist`, and is `Remove`d. `MonitorCheck` is shown to
implement it under the mapping `health`: each save is one whole check of the stored
state, so none is lost, applied twice, or computed from a stale count.

The histories `turns[m]` (how many changes of the verdict were persisted) and
`sent[m]` (the alerts that arrived, each with the number of its change) serve
`NoRepeatedAlert`, `UntoldChangesAreFaults` and `AlertsPairUp`. The last is what
TelegramSettings.tsx:105 promises, one alert when an endpoint is down and another when it
recovers, counted over the messages. Nothing is claimed of their order: they are sent
after the lock is released, may overtake each other, and carry no time, so the last one
to arrive may be out of date.

`Crash(s)` ends one slot. The death of a worker process is such a step for each of its
busy slots, one after the other, and costs a fault for each. As no slot reads another's
variables, nothing is lost by their coming apart. Writing a log changes nothing that a
check reads; the history has its own module.

### MonitorSchedules

`doc[m]` and `scheduler[m]` are the intervals in MongoDB and in BullMQ. A request is
a small program (`pc`, `op`, `target`, `wanted`, `previous`) with one action per
call, the rollback included: `UndoCreate` and `Unschedule` after a create that
could not be scheduled, `RestoreDocument` and `RestoreSchedule` after an update.
A starting worker reads a `snapshot`, upserts it (`SyncUpsert`), lists the
schedulers (`SyncList`) and removes those it does not know (`SyncPrune`).
`StartFails` leaves the process "stuck": the rejected `start()` only sets the exit
code while open connections keep the process running, so no restart follows.
Requests of one account are modelled; validation and ownership (400, 403) end
before any state changes.

### TelegramPolling

Accounts have `chat`, `hash` (the open link token). Telegram keeps `inbox` and
forgets updates up to `confirmed`. Each process runs the leader loop: acquire the
lease, delete the webhook, poll, handle the batch update by update, renew the
lease after each, release it at the end. `RedeemToken` is the single
`findOneAndUpdate` that links a chat, with the unique index on the chat;
`CheckConnected` the query after it found no account. Histories record what was
answered (`reply`), handled, linked, how often a token worked (`uses`).

### CheckHistory

A log is a place in the order of the query (`createdAt`, then `_id`) and its
monitor. Workers' clocks differ, so a place may be taken after a later one. A fetch
`req[r]` is `getUserMonitorIds`, the query for `Limit + 1` rows, `populate`, and the
answer. The page's `list`, `cursor` and `loading` change as in `fetchLogs`: any
answer ends `loading`, an appended page is appended to the list of that moment.
A row whose monitor was gone at `populate` has no name, and `handleDeleteMonitor`
does not filter it out: `named` keeps that. A check in flight may write after the
delete (see `MonitorCheck`). `PagesAreExact` joins what pages promise: newest first,
nothing twice, nothing left out, unless fetches overlapped.

### Dashboard

`call` is the sequence of API calls in flight, in the order they were sent. A call
is "sent" (with the cookie of that moment), handled by the server in one action
(`registerUser` and `createUser` are two, as there are two awaits), "answered", and
received by the part of its handler after the `await`; all three happen in any order
between calls. `ui` and `panel` are the flags the handlers set (`loading`, `saving`,
`updatingIntervalId`, `deletingId`, the editor), `list` the rows. A handler goes on
with what it closed over: `editing` of a delete is the monitor that was open when
the user clicked. `life` says what becomes of an answer: its component is mounted,
unmounted (the setters have no effect, but a redirect has), or the document is gone.
A 401 leads to the sign-in page from wherever it is received. `demo` is the page with
`?demo`: the same handlers, without calls.

The limit of the account (`MonitorLimit`) counts the monitors that exist, as the query
does. `link` is that the user has a link for the bot that is good: the browser has left
for it, no other has been made, no disconnection and no use has taken it back. From then
on `BotLinks` may happen whatever page is shown. A link counts as good also if it was
taken back on its way to the browser, which allows more than the code does.

A document is a version number and a row a monitor with a version, as the page only
ever replaces or removes whole rows. `mixed`, `stray` and `draft` are histories: they
tell the list, the status and the editor apart from those that overlapping calls
have touched, which the properties exempt. Left out: the check history (see above),
trend, search, mobile menu, error texts, the views that show the same rows.

Facts the model shows, next to the properties that hold:

- The answer to a save closes whatever editor is open: cancelling a slow save and
  opening another monitor loses the new draft (`DraftsCloseForAReason` therefore
  speaks of an editor opened while no change is in flight).
- A summary asked for before a change and answered after it takes the change off the
  screen until the next interval (`DashboardSettles` says that it comes back).
- A 401 of a call sent before a login bounces the user, who has a session, to the
  sign-in page.
- The answer to "Connect" navigates to Telegram also after the user left the settings.

### Lifecycle

A behaviour has one process, the API server or the worker, that goes through the
phases of its `start()` (`validateEnvironment`, `connectDB`, `connectRedis` with its
ping, `Listen`; `StartWorker` stands for the synchronisation and the bot). `up` says
which service answers and `Outage` changes it. `shutdown` closes the server, which
calls back when its last connection is closed (`conn`, `work`: a handler goes on when
its client hangs up); then the three goodbyes settle (`cleanup`) and the process
exits; `forceShutdown` is the 10 s timer. `shutdownWorker(g)` is the worker's handler
of signal `g`, a shutdown of its own with each closing call: bot, worker and its jobs,
lock connection, queue, MongoDB. The goodbyes to Redis (`pollingRedis.quit()`,
`lockConnection.quit()`, the queue's) may each be rejected while Redis is away, and
`shutdown` in `worker.js` catches nothing. `readyCheck` and `Pong` are the probe's two
reads, behind the limiter that waits for Redis. What `readyCheck` reads of MongoDB is
`link`, the driver's `readyState`, which `DriverNotices` brings up to date at any later
time: a single answer may be wrong in either direction. `ReadinessSettles` says that it
does not stay wrong.

Facts:

- `process.once` removes its handler, so the same signal sent twice kills a process in
  the middle of its shutdown; two different signals start two shutdowns of the worker,
  of which the second may call `quit()` on a closed connection and crash the process.
- One signal is enough for that if Redis drops the connection during a goodbye. If it is
  the bot's, which comes first, the process crashes with its jobs running
  (`bot = "lost"`); they are BullMQ's stalled jobs then. `OrderlyExit` states exactly
  when the worker may crash and when it may abandon a job.
- "ready" says that MongoDB was there when the driver last looked, not that it answered
  while the probe ran (README.md:76 calls this "verifies").
- A rejected `start()` sets the exit code only: with MongoDB connected, the process
  stays and does nothing ("stuck"), so that nothing restarts it.
- `delay()` adds its listener after an abort may have happened, and then waits its
  whole time (`BotDelays` is possible while stopping).
- The worker's closing calls wait for Redis without a limit; only the API has a timer.
- A handler whose client hung up does not hold the server open, and may be cut off.

### DreamWorld

`gl` is the closure state of `DreamCanvas` and of the controller of `dreamScene.ts`:
`live` there is a controller, `avail` the canvas has its context as far as it knows,
`frame` the render loop runs, `restore` the frame of a restored context is due, `host`
what covers the poster. `boot` is the effect's cleanup and start over. `dialog`,
`timer`, `opening`, `refocus` are `DreamPortfolio`'s state, its `closeTimerRef` and the
animation frames asked for; `goal` is the scene Lenis scrolls to; `looping` the two timers
of the exit; `following` the `setTimeout` of a followed link, which scrolls in a later turn
(`FollowTimer`), with the motion preferred at the click, behind whatever dialog is open
then. Frames come only while the tab is shown. Drawing, layout, copy, the loader's
reason, and the visits and exits noted in `sessionStorage` are left out.

Facts: a context lost again before the frame of its restoration leaves a canvas that
counts as shown without a context until the next event (`gl.relost`); `renderNow`
(a resize) stops the render loop until something asks for a frame (`gl.still`). Both are
the named exceptions of `CanvasHonest`.

## 3. Runs

Deadlock is checked in every run but `dashboard`, where a user who is signed out and
has used up the bounds rightly stops. In `dream` the window can always be resized, and a
process of `lifecycle` that ended stutters. Each run ends within minutes.

| Run | Question | Instance |
|---|---|---|
| `check_faults` | With crashes, failed calls, edits and deletes: one check at a time (`OneCheckAtATime`), coherent verdict (`VerdictCoherent`), no alert repeated (`NoRepeatedAlert`), an alert lost only by a fault (`UntoldChangesAreFaults`), one DOWN and one UP message per outage but for one per fault (`AlertsPairUp`), edits survive (`EditsSurviveChecks`), refinement (`ImplementsIncidents`) | 2 slots, 1 monitor, 2 codes, 2 faults, 2 changes |
| `check_live` | The verdict settles on what the endpoint keeps answering; every lock becomes free | 2 slots, 1 monitor, 1 fault, 2 changes |
| `check_lease` (violated) | README.md:54-55 against a check that outlasts the lock's TTL | 2 slots, lease faults |
| `sched_requests` | Two requests at once, one fault of any kind: without overlap schedulers match (`EveryMonitorScheduled`) and a failed request is undone (`FailedRequestLeavesNoTrace`); with overlap each monitor left unchecked cost a fault (`UncheckedMonitorsAreFaults`) and the limit is passed by at most one (`QuotaOvershootBounded`) | 2 requests, 3 monitors, 2 intervals, limit 1 |
| `sched_recover` | Starting workers repair every mismatch of documents and schedulers | 2 workers, 2 monitors, 1 fault |
| `sched_start` (violated) | README.md:39-40 against a create during a worker's start | 1 worker, 1 request |
| `poll_safety` | Two leaders at once, a crash or a failed call, two accounts for a chat: `NoUpdateLost`, `TokenUsedOnce`, `DisconnectSticks`, `RetriesStayConnected` | 2 processes, 2 accounts, 2 tokens, 2 updates |
| `poll_live` | Two faults of any kind but a lease that runs out under its holder: `OneLeader`, and every update is handled | 2 processes, 2 updates |
| `history` | Two fetches at once, one failing: pages without repeat or gap unless fetches overlapped (`PagesAreExact`), the timer's refresh repairs the list, deleted history leaves it for good | 2 fetches, 2 logs, 1 log per page |
| `dashboard` | `ListFaithful`, `PanelFaithful`: without overlap, list and panel show what the server holds; `DraftsCloseForAReason`; `DashboardSettles`: who stays ends with a session and the server's list, whatever overlapped | 2 calls in flight, 1 monitor, 2 changes, 1 fault or visit |
| `lifecycle` | Any signals in any order: `OrderlyExit`; `ReadinessSettles`: the answer becomes the true one; `ShutdownEnds` | 2 clients, 2 job slots, 2 outages |
| `dream` | `CanvasHonest`, `DialogHoldsItsOwn`, `WorldSettles` | 2 projects, one with a link inside, 4 events |

Each property of a passing run has a mutant, an operator just before the one it
replaces and marked as such, that stands for a plausible error of the code (a
`SET` without `NX`, a cursor off by one, a token kept after use) and breaks it.

### Why the bounds are enough

- Two slots, processes, requests or fetches: the code is symmetric in them, and
  the hazards are between one that is late and one that is current.
- `FailureThreshold` is the code's 3 (`FAILURE_THRESHOLD`), `MaxFailures` one more,
  so that a monitor fails again while DOWN. A monitor at `MaxFailures` is not
  checked again until its endpoint answers as expected: the bound never stops a
  recovery, and VerdictFollowsEndpoint is not affected, as the monitor is DOWN.
- `MaxFaults` of one or two: a fault, and one more in the code that reacts to it.
- `MaxChanges` of two or more: an endpoint goes down and comes back.
- `MaxUpdates` 2 with `BatchLimit` 2 has a batch that fails in its middle; with
  `BatchLimit` 1 it has two batches.
- `Limit` 1 and two logs: two pages, their boundary being the code's `limit + 1`.
- `dashboard`: every conflict the page can have is between two calls. Changes go from
  version 2 to `MaxEdits` 3, so two of them, one that another follows (a sign-in, a
  registration and a link for Telegram count as one each); the account's limit
  is one monitor, so a second create is refused. `MaxMonitors` bounds the identifiers.
- `lifecycle`: one client that stays and one that hangs up, one job that ends and one
  that is taken later; two outages let a service go and come back.
- `dream`: each hazard is a race of at most four events (open, close, open, close; lose,
  restore, lose, hide), and everything that is not an event of the visitor or the
  browser is unbounded.

### Fairness

`MonitorCheck!Fairness`: the awaits of a slot end (MongoDB, Redis and HTTP calls
have timeouts, and a call that fails is an action too); keys expire; the job
scheduler fires at every interval; the queue is first in, first out, hence strong
fairness for taking a monitor's job. `TelegramPolling!Fairness`: the awaits of a
process end, it is started again if it ended (`docker-compose.yml`, `restart:
unless-stopped`), leases expire. That sending a reply succeeds in the end is part
of the assumption that faults are finitely many: a chat to which `sendMessage`
fails for ever (the user has blocked the bot) blocks all later updates, and
`EveryUpdateHandled` does not cover it. `RecoverySpec`: the calls of a starting
worker end. `CheckHistory!FairSpec`: the interval of the page keeps firing and
its fetches end. `Dashboard!FairSpec`: the interval fires again and again, though other
calls may fill the bound each time it does (hence strong fairness: the bound is the
model's, not the browser's), and the oldest call in flight is handled and received.
`Lifecycle!FairSpec`: the timer of the API's shutdown fires; jobs end, and the bot and
the worker's closing calls go on while Redis answers; without Redis nothing is assumed
of the worker, and `ShutdownEnds` asks for it only if Redis stays up in the end. The
container is probed every 30 s (docker-compose.yml:55-59), a probe goes on while Redis
answers, and the driver's heartbeat notices in the end.
`DreamWorld!FairSpec`: timers fire, and frames come while the tab is shown.

Nothing is assumed about the requests of users, about clients, or about faults.

## 4. What the violated runs show

- `check_lease`: the lock has a fixed TTL, is not renewed and its token is not
  compared when the result is saved. README.md:54-55 says that workers scale
  "without running the same monitor concurrently"; a check that outlasts the TTL
  does. Every other statement about checks is made, and proved, under the
  condition that this does not happen.
- `sched_start`: README.md:39-40 says that "each monitor has a BullMQ job scheduler
  that respects its configured interval". A worker that starts removes the scheduler
  of a monitor created since it read its snapshot; the monitor is not checked until
  it is edited or a worker starts again.

The models also show behaviours that are the other side of properties that hold:

- One failed MongoDB call after the save costs an alert for good: the retry finds
  the monitor already DOWN (`UntoldChangesAreFaults` counts these).
- Concurrent creates pass the limit of monitors by up to the requests in progress
  less one (`QuotaOvershootBounded`, proved for any number of requests).
- Two overlapping updates can leave the document at one interval and the scheduler
  at the other (`EveryMonitorScheduled` speaks of requests that did not overlap).
- A single worker whose start meets one Redis failure stays "stuck", so
  `SchedulesRecover` is checked with two workers and one fault.
- With two polling leaders both handle the same updates; `OneLeader` is checked
  without, everything else about Telegram with leases that run out.
- A timer refresh during "Load older checks" can leave a gap or show a page
  twice; `RefreshRepairs` says that the next refresh removes both.

## 5. Proofs

Checked by TLAPS with Z3, Zenon and LS4; no step is left open.

`MonitorCheckProofs`, for any monitors, slots, codes, threshold and bounds:

- `TypeCorrect`: `Spec => []TypeOK`, under any faults. `Typed` adds that a busy
  slot works on a monitor, has loaded a document when it tests or saves, and has
  an alert when it is about to send: without these, `TypeOK` is not inductive.
- `MutualExclusion`, if `"lease"` is not in `Faults`: `HoldsLock`, the key of a
  monitor under check holds the token of the slot that checks it, is inductive and
  implies `OneCheckAtATime`.
- `VerdictAlwaysCoherent`, same condition: `IInv == Typed /\ HoldsLock /\ Fresh /\
  VerdictCoherent`. `VerdictCoherent` alone is not inductive: a slot that saves
  writes what it computed from `seen`, so one needs `Fresh`, that what a slot
  loaded still is what is stored, and that follows from the lock.
- `Refinement`, same condition: `Spec => ImplementsIncidents`. `Fresh` makes each
  save a step of `Incidents`; everything else is a deletion or a stutter.
- `AlertsAreNotRepeated`, same condition: `AlertInv` numbers the changes; a pending
  alert has a number that was not sent and that no other slot holds.
- `EditsAndChecksAreApart`, under any faults: an edit and a save write different
  fields, so it needs types only.
- `DownAndUpPairUp`, same condition: DOWN and UP messages pair up with the stored status.
  A fault-free step that turns the document between DOWN and another status is a save
  that leaves its slot with the one alert for it (`PairUpSave`), sending moves an alert
  from the slot to `sent` (`PairUpSend`), and every other step that loses an alert, or
  turns the document without one, is a fault and loses one at most (`PairUpLoss`). It
  needs `Fresh`: a check that judges by a stale document would tell a change twice.
- `OnlyFaultsLoseAlerts`, same condition: an alert is lost, or a change has none, only in
  a step that is a fault (`AlertLosses`), and a step leaves at most one more change
  untold, so that the faults bound their number.

`TelegramPollingProofs`, for any processes, accounts, chats, tokens and bounds:

- `NoUpdateIsLost`, under any faults, leases that run out included:
  `Acknowledged`, every loop's offset is above handled updates only, and inside a
  batch everything before the current update is handled. The loops need not
  exclude each other, so the lease does not occur in the argument.
- `SingleLeader`, if `"lease"` is not in `Faults`: a leading process holds the
  lease (`HoldsLease`).
- `TypeCorrect`: with the bounds of offsets and batches, no loop reads past the inbox.
- `TokensWorkOnce`, `DisconnectIsFinal`, under any faults.
- `RepliesStayConnected`, under any faults. An update is about to be denied only when no
  account has its link, and it never will again, as a link is issued once (`Dead`); and a
  chat that was linked either is connected or is in `dropped` (`LinkedOrDropped`),
  whichever loop looks.

`MonitorSchedulesProofs`, for any requests, monitors, intervals and limit:

- `TypeCorrect`, for any workers and faults. `Typed` adds `Armed`: a request that is about to
  write an interval has one.
- `OvershootIsBounded`, for any workers and faults: `PlacesBounded`, live monitors and
  requests that have counted and not yet inserted are together at most `Limit` and the
  other requests. The bound on live monitors alone is not inductive, as an insert
  relies on a count taken earlier.
- `OnlyFaultsUnschedule`, if `Workers = {}` (no worker is starting: the violated run
  `sched_start` shows that the condition is needed): `Ids`, that an identifier is used by one
  create and that a document whose scheduler is to go does not come back, makes the count of unscheduled monitors against faults inductive.
- `SerialRequestsSchedule` and `FailureIsUndone`, if also at most one call fails: a
  compensation is itself two calls, and a second failure inside it leaves the mismatch that
  `sched_recover` repairs. `Undisturbed` says, for each await of a request that
  overlaps no other, how documents and schedulers differ from those it began with.

`LifecycleProofs`, for any finite sets of clients and job slots and any outages:

- `TypeCorrect`.
- `ProcessesLeaveOrderly`: `ApiInv`, in "cleanup" every connection is closed and none
  can be opened; `WorkerInv`, a shutdown past the worker's close has no job running
  and the bot off, a connection is quit twice only after both signals, and Redis is
  there unless an outage was counted.

`DreamWorldProofs`, for any number of projects and links:

- `CanvasIsHonest`: `CanvasInv` ties the controller's visibility to tab, context and the
  restoration that is due.
- `DialogsAreSeparate`: with the types it is inductive as it stands, since every
  opening clears the timer and every closing sets it for its own dialog. `TypeCorrect` rests on `CanvasInv` and
  on the directory's bounds.

`SubsequenceProofs`, for any finite set and any sequence:

- `RankSpec`: different values rank the elements of a finite set from 1 to its size, as
  ranking is an injection into a set of that size. `NthSpec` and `SubsequenceSpec`
  follow: the part of a sequence that a filter keeps has each kept element once, in the
  order it had. `SubsequenceMap` states this as a map of positions, which is how the
  proofs below follow a row or a call across a step.

The models use ranks (`Subsequence`, and `Sorted` in `CheckHistory`) where `SelectSeq`
and `SortSeq` would do: those are defined by recursion, and what a recursive definition
computes cannot be proved here. The lemmas above, and `SortedSpec`, say of the
definitions by rank what a filter and a sort promise.

`CheckHistoryProofs`, for any monitors, fetches, page size and number of logs:

- `HistoryTypeCorrect`, with the bound of a page.
- `PagesExact`: `HistoryInv`. `PagesAreExact` speaks of the list alone and says nothing
  of the page that arrives next, so the invariant follows a fetch from await to await.
  `FetchSound`: the monitors that a fetch has looked up include all that still exist,
  and the page that was read is in order, lies between its cursor and the next one, and
  lacks no log that was there when the list was begun and still is. `PlacesTaken`: a
  place belongs to one log also after the log is gone, else a row could be taken for
  another log. While `apart` holds there is one fetch, and it continues where the list
  ends (`Continues`), all of which lies above the cursor (`AboveCursor`): so appending
  keeps the order and leaves no gap. The lookup of the monitors, the query and the
  deletion of a monitor in between only remove what need not be shown.

`DashboardProofs`, for any number of calls, monitors, edits, visits and faults:

- `DashboardTypeCorrect`.
- `ListStaysFaithful`, `PanelStaysFaithful`: `DashboardInv`. That the list is right now
  does not follow from its having been right, but from what the calls in flight will do
  to it. `Alone`: a call is clean only as long as it meets no conflicting one, so that
  what a clean read found is still what the server holds (`SummaryRight`,
  `StatusRight`), although any number of other calls are handled in between.
  `ListRight`: each change that the server has made and the page has not heard of is
  still in flight, mounted, and will find its row (`ChangeFinds`) or bring one that
  nothing in the page names yet (`CreateNew`). `PanelRight`: a panel that says "on" of
  an account that is not connected will still hear the answer to the disconnection.
  `Formed` and `PageFormed` tie each answer to its request, and every identifier to the
  monitors created so far.
- `DraftsAreKept`, an action property: `DraftRight`, that every call that can close the
  editor was made by it or about its monitor, is part of the invariant; the action
  property then has one case for each step.

Almost every step adds a call, takes one out, or marks some as conflicting or as no
longer mounted. `Keeps` says this once for all of them, as a map from the calls after
the step to those before; each part of the invariant has a lemma for steps that only
forget calls, and the proof of a step is about what else it does.

Only model-checked: the liveness properties (`VerdictFollowsEndpoint`, `LocksAreFreed`,
`ReadinessSettles` and their like in the other runs), as liveness under fairness is beyond this prover.
Every type invariant, safety invariant and action property of a passing run, and the
refinement, has a theorem, under the conditions given with it. The named assumptions on
constants are evaluated by TLC in every run.

## 6. Not modelled

- Validation of fields, parsing of URLs, cookies, cursors and intervals, the address
  checks of the tester, hashing of tokens and passwords: pure functions without order.
- Time: a TTL, an interval or a pause is an event that may happen, not a duration.
- Trend and uptime of the dashboard API: aggregations of one query, without state.
- BullMQ, mongoose, Redis, Telegram, express, React, Lenis, three.js: external, by what
  the code relies on. De-duplication of initial jobs by their id is left out: a job
  that is skipped is followed by that of the next interval.
- Rate limiting: options of `express-rate-limit`, whose counting is the library's. That a
  request waits for Redis in it is part of `Lifecycle`.
- Static pages (`PAG/page.tsx`, `app/page.tsx`, `layout.tsx`) and `lib/api.ts`: markup, and
  a `fetch`.
- `frontend/app/portfolio/`: the observatory scene and its chrome are imported by no page
  of the application. Only the parts that `DreamPortfolio` shares are there in `DreamWorld`.
- Geometry, materials, animation curves and copy of the dream world: nothing waits for
  them.
- Browsers other than one: what another browser or a worker changes reaches the page by
  the same summaries, and `ListFaithful` would have to exempt it.

## 7. How it was built, and what could follow

In this order: the worker and its abstract specification; scheduling; Telegram; the
check history; proofs of the first and third; the dashboard; the lifecycle; the dream
world; proofs about schedules, lifecycle, dream world, alerts and repeated answers; proofs
about the check history and the dashboard.

Possible extensions, all smaller than what is there: an abstract specification of the
scheduling (a monitor has its scheduler, or a request or a fault accounts for it) that
`MonitorSchedules` refines; the pure functions over bounded inputs; one module that composes
schedules and checks over the shared document, whose interface is now the edits and deletes
of `MonitorCheck`. The number of runs is kept at a dozen: a new module's run takes the place
of a narrower one.

Where the lines are: the definitions stand for 31 % of the implementation's 9 529 lines.
The backend's worker, queue, Telegram, monitor and lifecycle code is covered almost whole,
`dashboard/page.tsx`, `TelegramSettings.tsx` and the history panel by their handlers, and
`DreamPortfolio.tsx`, `DreamCanvas.tsx` by their state. The rest is mostly the observatory
scene (some 2 300 lines no page uses), scene construction, markup and text.
