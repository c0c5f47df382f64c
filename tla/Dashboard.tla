------------------------------ MODULE Dashboard ------------------------------
(***************************************************************************)
(* The signed-in page of one browser: its list of monitors, the editor, the*)
(* Telegram settings (page.tsx, TelegramSettings.tsx), the sign-in page    *)
(* (auth/page.tsx), and the API calls both make, which the server handles  *)
(* and the browser receives in any order.  React state is what the         *)
(* handlers set; a handler goes on after its await with the values it      *)
(* closed over, even if the page has changed in the meantime.              *)
(*                                                                         *)
(* A document is a version number.  The check history has a module of its  *)
(* own, and changes made elsewhere (workers, other browsers) are left out, *)
(* but for the Telegram bot, which may link the account.                   *)
(***************************************************************************)
EXTENDS Naturals, Sequences, FiniteSets, Subsequences

CONSTANTS MaxCalls,     \* bound: API calls that can be in flight at once
          MonitorLimit, \* monitors that an account may have at once
          MaxMonitors,  \* bound: monitors ever created, and rows of the demo
          MaxEdits,     \* bound: changes and links that the user asks for
          MaxFaults     \* bound: calls that fail, and visits to the pages

ASSUME DashboardAssumption ==
  /\ MaxCalls \in Nat /\ MonitorLimit \in Nat /\ MaxMonitors \in Nat \ {0}
  /\ MaxEdits \in Nat \ {0} /\ MaxFaults \in Nat

Monitors == 1 .. MaxMonitors
None == 0                      \* no monitor, no document
Versions == 0 .. MaxEdits
Row == [id : Monitors, doc : Versions]

Changes == {"create", "save", "interval", "delete"}
PanelCalls == {"status", "connect", "disconnect"}
Reads == {"summary", "status", "connect"}
Public == {"login", "register", "logout"}
Kinds == Changes \cup PanelCalls \cup Public \cup {"summary"}

VARIABLES
  stored,    \* stored[m]: version of the document in MongoDB, or None
  created,   \* monitors created so far
  account,   \* the user is registered
  linked,    \* the account has a Telegram chat
  link,      \* the user has a link for the bot, and it is good
  cookie,    \* the browser holds a session cookie
  call,      \* the API calls in flight, in the order they were sent
  page,      \* "auth", "dashboard", "demo" (the dashboard in demo mode) or "away"
  list,      \* monitors: the rows shown
  ui,        \* the rest of the dashboard's state
  panel,     \* state of TelegramSettings
  submitting, \* the sign-in page waits for an answer
  mixed,     \* history: the list was set by calls that overlapped, or one failed
  stray,     \* history: the same of the Telegram status
  draft,     \* history: the editor was opened with no change in flight
  edits,     \* bound counter: changes and links asked for
  faults     \* bound counter: failed calls and visits

server == <<stored, created, account, linked, link>>
history == <<mixed, stray, draft>>
vars == <<server, cookie, call, page, list, ui, panel, submitting, history, edits, faults>>

CallState == [kind : Kinds, at : {"sent", "found", "answered"}, id : Monitors \cup {None},
              doc : Versions, editing : Monitors \cup {None}, auth : BOOLEAN,
              life : {"mounted", "unmounted", "gone"}, clean : BOOLEAN,
              reply : {"none", "ok", "401", "failed"}, rows : Seq(Row)]

FreshUi == [loading |-> TRUE, open |-> FALSE, editing |-> None,
            saving |-> FALSE, interval |-> None, deleting |-> None]

UiState == [loading : BOOLEAN, open : BOOLEAN,
            editing : Monitors \cup {None}, saving : BOOLEAN,
            interval : Monitors \cup {None}, deleting : Monitors \cup {None}]

NoPanel == [mounted |-> FALSE, asked |-> FALSE, loading |-> FALSE, saving |-> FALSE,
            status |-> "unknown"]
NewPanel == [NoPanel EXCEPT !.mounted = TRUE, !.loading = TRUE]

PanelState == [mounted : BOOLEAN, asked : BOOLEAN, loading : BOOLEAN, saving : BOOLEAN,
               status : {"unknown", "on", "off"}]

TypeOK ==
  /\ stored \in [Monitors -> Versions]
  /\ created \in 0 .. MaxMonitors
  /\ account \in BOOLEAN /\ linked \in BOOLEAN /\ link \in BOOLEAN /\ cookie \in BOOLEAN
  /\ call \in Seq(CallState) /\ Len(call) <= MaxCalls
  /\ page \in {"auth", "dashboard", "demo", "away"}
  /\ list \in Seq(Row)
  /\ ui \in UiState
  /\ panel \in PanelState
  /\ submitting \in BOOLEAN
  /\ mixed \in BOOLEAN /\ stray \in BOOLEAN /\ draft \in BOOLEAN
  /\ edits \in Versions
  /\ faults \in 0 .. MaxFaults

Init ==
  /\ created \in 0 .. MaxMonitors
  /\ stored = [m \in Monitors |-> IF m <= created THEN 1 ELSE None]
  /\ account \in {created > 0, TRUE}
  /\ linked = FALSE /\ link = FALSE
  /\ cookie \in {FALSE, account}
  /\ call = <<>>
  /\ page = IF cookie THEN "dashboard" ELSE "auth"
  /\ list = <<>>
  /\ ui = FreshUi
  /\ panel = NoPanel
  /\ submitting = FALSE
  /\ mixed = TRUE /\ stray = TRUE /\ draft = FALSE
  /\ edits = 1
  /\ faults = 0

-----------------------------------------------------------------------------
(* apiRequest *)

CanSend == Len(call) < MaxCalls
Calls == DOMAIN call
InFlight(kinds) == {c \in Calls : call[c].kind \in kinds}

\* Two calls whose order matters: a read and a change, or two changes of a thing.
Conflict(a, b) ==
  \/ {a.kind, b.kind} \cap Changes # {} /\ "summary" \in {a.kind, b.kind}
  \/ {a.kind, b.kind} \subseteq Changes /\ a.id = b.id
  \/ "disconnect" \in {a.kind, b.kind} /\ {a.kind, b.kind} \subseteq {"status", "disconnect"}

\* The page as it is now sends one more call.
Send(kind, m, v) ==
  LET new == [kind |-> kind, at |-> "sent", id |-> m, doc |-> v,
              editing |-> IF kind = "delete" THEN ui.editing ELSE None,
              auth |-> cookie /\ kind \notin Public, life |-> "mounted",
              clean |-> \A c \in Calls : ~Conflict(call[c], [kind |-> kind, id |-> m]),
              reply |-> "none", rows |-> <<>>]
  IN call' = Append([c \in Calls |-> [call[c] EXCEPT !.clean = @ /\ ~Conflict(call[c], new)]], new)

\* The setters of the call's handler still have an effect.
Mounted(c) == call[c].life = "mounted"

Answered(c, kinds) ==
  call[c].at = "answered" /\ call[c].kind \in kinds /\ call[c].reply # "401"
Done(c) == Subsequence(call, Calls \ {c})

\* Components unmount, and the setters of their calls have no effect from now on;
\* with the document is gone all that a read was for.
Detached(f, kinds, life) ==
  LET after == [c \in DOMAIN f |-> IF f[c].kind \in kinds
                                   THEN [f[c] EXCEPT !.life = life, !.clean = FALSE] ELSE f[c]]
  IN Subsequence(after, {c \in DOMAIN f : ~(after[c].life = "gone" /\ after[c].kind \in Reads)})

-----------------------------------------------------------------------------
(* The server *)

Stay == UNCHANGED <<cookie, page, list, ui, panel, submitting, history, edits>>

Reply(c, reply, rows) ==
  call' = [call EXCEPT ![c].at = "answered", ![c].reply = reply, ![c].rows = rows,
                       ![c].auth = FALSE]

\* The request passes middleware/auth.js, which a handler runs behind.
Handled(c, kinds) ==
  /\ call[c].at = "sent"
  /\ call[c].kind \in kinds
  /\ call[c].auth \/ call[c].kind \in Public
  /\ Stay
  /\ UNCHANGED faults

Unauthorized(c) ==
  /\ call[c].at = "sent"
  /\ ~call[c].auth /\ call[c].kind \notin Public
  /\ Reply(c, "401", <<>>)
  /\ Stay
  /\ UNCHANGED <<server, faults>>

StoredRows == Subsequence([m \in Monitors |-> [id |-> m, doc |-> stored[m]]],
                          {m \in Monitors : stored[m] # None})

getSummary(c) ==
  /\ Handled(c, {"summary"})
  /\ Reply(c, "ok", StoredRows)
  /\ UNCHANGED server

\* Mutant: the limit of the account is not looked at.
createUnlimited(c) ==
  /\ Handled(c, {"create"})
  /\ created' = created + 1
  /\ stored' = IF created' \in Monitors THEN [stored EXCEPT ![created'] = call[c].doc] ELSE stored
  /\ Reply(c, "ok", <<[id |-> created', doc |-> call[c].doc]>>)
  /\ UNCHANGED <<account, linked, link>>

\* 409 once the account has reached its limit.
\* The limit counts the monitors that exist; MaxMonitors only bounds the identifiers.
createMonitor(c) ==
  /\ Handled(c, {"create"})
  /\ IF Cardinality({m \in Monitors : stored[m] # None}) < MonitorLimit /\ created < MaxMonitors
       THEN /\ created' = created + 1
            /\ stored' = [stored EXCEPT ![created'] = call[c].doc]
            /\ Reply(c, "ok", <<[id |-> created', doc |-> call[c].doc]>>)
       ELSE Reply(c, "failed", <<>>) /\ UNCHANGED <<stored, created>>
  /\ UNCHANGED <<account, linked, link>>

\* updateMonitor and deleteMonitor, 404 if there is no such monitor.
changeMonitor(c) ==
  /\ Handled(c, {"save", "interval", "delete"})
  /\ LET m == call[c].id IN
     IF stored[m] # None
       THEN /\ stored' = [stored EXCEPT ![m] = call[c].doc]
            /\ Reply(c, "ok", <<[id |-> m, doc |-> call[c].doc]>>)
       ELSE Reply(c, "failed", <<>>) /\ UNCHANGED stored
  /\ UNCHANGED <<created, account, linked, link>>

\* getTelegramStatus tells whether a chat is linked (by a row), createTelegramLink
\* makes a link for the bot in place of the one before, disconnectTelegram unlinks
\* and takes the link back.
telegram(c) ==
  /\ Handled(c, PanelCalls)
  /\ Reply(c, "ok", IF linked THEN <<[id |-> 1, doc |-> 1]>> ELSE <<>>)
  /\ linked' = (linked /\ call[c].kind # "disconnect")
  /\ link' = (link /\ call[c].kind = "status")
  /\ UNCHANGED <<stored, created, account>>

\* registerUser looks for the account (409 if there is one) ...
registerUser(c) ==
  /\ Handled(c, {"register"})
  /\ IF account THEN Reply(c, "failed", <<>>)
                ELSE call' = [call EXCEPT ![c].at = "found"]
  /\ UNCHANGED server

\* ... and creates it; the unique index rejects a second one.
createUser(c) ==
  /\ call[c].at = "found"
  /\ Reply(c, IF account THEN "failed" ELSE "ok", <<>>)
  /\ account' = TRUE
  /\ UNCHANGED <<stored, created, linked, link, faults>>
  /\ Stay

\* loginUser answers with a cookie, or refuses the credentials.
loginUser(c) ==
  /\ Handled(c, {"login"})
  /\ \E right \in BOOLEAN : Reply(c, IF account /\ right THEN "ok" ELSE "failed", <<>>)
  /\ UNCHANGED server

logoutUser(c) ==
  /\ Handled(c, {"logout"})
  /\ Reply(c, "ok", <<>>)
  /\ UNCHANGED server

\* A call fails on its way: before the server saw it, or with its reply.
CallFails(c) ==
  /\ call[c].reply # "failed"
  /\ faults < MaxFaults
  /\ faults' = faults + 1
  /\ Reply(c, "failed", call[c].rows)
  /\ Stay
  /\ UNCHANGED server

Serve(c) ==
  \/ Unauthorized(c) \/ getSummary(c) \/ createMonitor(c) \/ changeMonitor(c)
  \/ telegram(c) \/ registerUser(c) \/ createUser(c) \/ loginUser(c) \/ logoutUser(c)

\* The bot links the account of a user who sends it the link, whatever page the
\* browser shows by then.
BotLinks ==
  /\ link
  /\ linked' = TRUE
  /\ link' = FALSE
  /\ Stay
  /\ UNCHANGED <<stored, created, account, call, faults>>

\* The cookie's Max-Age has passed.
SessionExpires ==
  /\ cookie
  /\ faults < MaxFaults
  /\ faults' = faults + 1
  /\ cookie' = FALSE
  /\ UNCHANGED <<server, call, page, list, ui, panel, submitting, history, edits>>

-----------------------------------------------------------------------------
(* Pages *)

\* The demo starts with a list of its own.
demoMonitors == <<[id |-> 1, doc |-> None]>>

\* Another page, or another mount of one; f holds the calls, of which those of
\* this page live on detached.
Enter(to, f, life) ==
  /\ page' = to
  /\ call' = Detached(f, Kinds, life)
  /\ list' = IF to = "demo" THEN demoMonitors ELSE <<>>
  /\ ui' = [FreshUi EXCEPT !.loading = to # "demo"]
  /\ panel' = NoPanel
  /\ submitting' = FALSE
  /\ mixed' = (to # "demo") /\ stray' = TRUE /\ draft' = FALSE

\* router.replace('/auth'); the sign-in page keeps its state if it is there already.
redirectToAuth(f) ==
  IF page = "auth"
  THEN call' = f /\ UNCHANGED <<page, list, ui, panel, submitting, history>>
  ELSE Enter("auth", f, "unmounted")

\* The user opens the dashboard, or its demo.
Visit ==
  /\ page \in {"auth", "away"}
  /\ faults < MaxFaults
  /\ faults' = faults + 1
  /\ \E to \in {"dashboard", "demo"} :
       Enter(to, call, IF page = "away" THEN "gone" ELSE "unmounted")
  /\ UNCHANGED <<server, cookie, edits>>

Submit(kind) ==
  /\ page = "auth" /\ CanSend
  /\ ~submitting
  /\ edits < MaxEdits
  /\ edits' = edits + 1
  /\ submitting' = TRUE
  /\ Send(kind, None, None)
  /\ UNCHANGED <<server, cookie, page, list, ui, panel, history, faults>>

handleRegister == Submit("register")
handleLogin == Submit("login")

\* The rest of the two handlers; a dashboard that is there already stays as it is.
SignInAnswered(c) ==
  /\ Answered(c, {"login", "register"})
  /\ LET ok == call[c].reply = "ok" IN
     /\ cookie' = (cookie \/ (ok /\ call[c].kind = "login"))
     /\ IF ok /\ call[c].kind = "login" /\ call[c].life # "gone" /\ page \in {"auth", "away"}
          THEN Enter("dashboard", Done(c), "unmounted")
          ELSE /\ call' = Done(c)
               /\ submitting' = (submitting /\ ~Mounted(c))
               /\ UNCHANGED <<page, list, ui, panel, history>>
  /\ UNCHANGED <<server, edits, faults>>

\* Mutant: a call without a session is a call that failed.
Shown401(c) ==
  /\ call[c].at = "answered" /\ call[c].reply = "401"
  /\ call' = Done(c)
  /\ UNCHANGED <<server, cookie, page, list, ui, panel, submitting, history, edits, faults>>

\* A call without a session sends the browser to the sign-in page, whether or not
\* the component that made it is still there.
Answered401(c) ==
  /\ call[c].at = "answered" /\ call[c].reply = "401"
  /\ IF call[c].life = "gone"
       THEN call' = Done(c) /\ UNCHANGED <<page, list, ui, panel, submitting, history>>
       ELSE redirectToAuth(Done(c))
  /\ UNCHANGED <<server, cookie, edits, faults>>

-----------------------------------------------------------------------------
(* The list of monitors *)

Ready == page \in {"dashboard", "demo"} /\ ~ui.loading

\* TelegramSettings is mounted while the settings are shown, the rows otherwise.
Settings == panel.mounted
LeaveSettings(f) ==
  panel' = NoPanel /\ stray' = TRUE /\ call' = Detached(f, PanelCalls, "unmounted")

KeepData == UNCHANGED <<server, cookie, page, list, submitting, mixed, faults>>

handleNavChange ==
  /\ Ready
  /\ IF Settings THEN LeaveSettings(call)
                 ELSE panel' = NewPanel /\ stray' = TRUE /\ UNCHANGED call
  /\ KeepData
  /\ UNCHANGED <<ui, draft, edits>>

\* The initial timer and the interval: fetchSummary, whatever is in progress.
TimerFires ==
  /\ page = "dashboard" /\ CanSend
  /\ Send("summary", None, None)
  /\ UNCHANGED <<server, cookie, page, list, ui, panel, submitting, history, edits, faults>>

\* A change that the page shows leaves the list mixed if it overlapped.
Apply(c, rows) ==
  IF Mounted(c) THEN list' = rows /\ mixed' = (mixed \/ ~call[c].clean)
                ELSE UNCHANGED <<list, mixed>>

\* fetchSummary replaces the list by what the server held.
fetchSummary(c) ==
  /\ Answered(c, {"summary"})
  /\ IF Mounted(c) /\ call[c].reply = "ok"
       THEN list' = call[c].rows /\ mixed' = ~call[c].clean
       ELSE UNCHANGED <<list, mixed>>
  /\ ui' = IF Mounted(c) THEN [ui EXCEPT !.loading = FALSE]
                         ELSE ui
  /\ call' = Done(c)
  /\ UNCHANGED <<server, cookie, page, panel, submitting, stray, draft, edits, faults>>

\* The user sees a row of m.
InList(m) == ~Settings /\ \E i \in DOMAIN list : list[i].id = m

\* openCreateMonitor and openEditMonitor, on a monitor of the list.
OpenEditor(m) ==
  /\ Ready
  /\ m = None \/ InList(m)
  /\ ui' = [ui EXCEPT !.open = TRUE, !.editing = m]
  /\ LeaveSettings(call)
  /\ draft' = (InFlight(Changes) = {})
  /\ KeepData
  /\ UNCHANGED edits

Closed(u) == [u EXCEPT !.open = FALSE, !.editing = None]

\* "Cancel", also while a save is in progress.
closeMonitorEditor ==
  /\ Ready /\ ui.open
  /\ ui' = Closed(ui)
  /\ KeepData
  /\ UNCHANGED <<call, panel, stray, draft, edits>>

Replaced(rows, m, v) ==
  [i \in DOMAIN rows |-> IF rows[i].id = m THEN [rows[i] EXCEPT !.doc = v] ELSE rows[i]]
Without(rows, m) == Subsequence(rows, {i \in DOMAIN rows : rows[i].id # m})

\* The user asks for a change: the page's flags, and in demo mode the list, or the call.
Ask(kind, m, busy, done, rows) ==
  /\ Ready
  /\ edits < MaxEdits
  /\ edits' = edits + 1
  /\ IF page = "demo"
       THEN /\ ui' = done
            /\ panel' = IF kind \in {"create", "save"} THEN NoPanel ELSE panel
            /\ list' = rows
            /\ UNCHANGED call
       ELSE /\ CanSend
            /\ ui' = busy
            /\ Send(kind, m, IF kind = "delete" THEN None ELSE edits')
            /\ UNCHANGED <<panel, list>>
  /\ UNCHANGED <<server, cookie, page, submitting, history, faults>>

\* The new row of a demo has the next free identifier.
NextDemo == CHOOSE m \in Monitors : \A i \in DOMAIN list : list[i].id # m

\* The form takes a submission; one that does not parse goes no further.
MonitorEditor == ui.open /\ ~ui.saving

handleSaveMonitor ==
  /\ MonitorEditor
  /\ page = "demo" /\ ui.editing = None => Len(list) < MaxMonitors
  /\ Ask(IF ui.editing = None THEN "create" ELSE "save", ui.editing,
         [ui EXCEPT !.saving = TRUE],
         Closed(ui),
         IF ui.editing = None THEN <<[id |-> NextDemo, doc |-> edits + 1]>> \o list
                              ELSE Replaced(list, ui.editing, edits + 1))

\* Mutant: the new row is added whether the page asked for an edit or not.
SaveAlwaysAdds(c) ==
  /\ Answered(c, {"create", "save"})
  /\ IF call[c].reply = "ok"
       THEN /\ Apply(c, call[c].rows \o list)
            /\ ui' = IF Mounted(c) THEN [Closed(ui) EXCEPT !.saving = FALSE] ELSE ui
            /\ IF Mounted(c) THEN LeaveSettings(Done(c))
                             ELSE call' = Done(c) /\ UNCHANGED <<panel, stray>>
       ELSE /\ mixed' = TRUE
            /\ ui' = IF Mounted(c) THEN [ui EXCEPT !.saving = FALSE] ELSE ui
            /\ call' = Done(c)
            /\ UNCHANGED <<list, panel, stray>>
  /\ UNCHANGED <<server, cookie, page, submitting, draft, edits, faults>>

\* The answer closes the editor, be it the one that asked or another.
SaveAnswered(c) ==
  /\ Answered(c, {"create", "save"})
  /\ IF call[c].reply = "ok"
       THEN /\ Apply(c, IF call[c].kind = "save" THEN Replaced(list, call[c].id, call[c].doc)
                                                 ELSE call[c].rows \o list)
            /\ ui' = IF Mounted(c) THEN [Closed(ui) EXCEPT !.saving = FALSE] ELSE ui
            /\ IF Mounted(c) THEN LeaveSettings(Done(c))
                             ELSE call' = Done(c) /\ UNCHANGED <<panel, stray>>
       ELSE /\ mixed' = TRUE
            /\ ui' = IF Mounted(c) THEN [ui EXCEPT !.saving = FALSE] ELSE ui
            /\ call' = Done(c)
            /\ UNCHANGED <<list, panel, stray>>
  /\ UNCHANGED <<server, cookie, page, submitting, draft, edits, faults>>

\* The interval is chosen in a row, unless that row is being saved.
handleUpdateMonitorInterval(m) ==
  /\ InList(m) /\ ui.interval # m
  /\ Ask("interval", m, [ui EXCEPT !.interval = m], ui, Replaced(list, m, edits + 1))

IntervalAnswered(c) ==
  /\ Answered(c, {"interval"})
  /\ IF call[c].reply = "ok"
       THEN Apply(c, Replaced(list, call[c].id, call[c].doc))
       ELSE mixed' = TRUE /\ UNCHANGED list
  /\ ui' = IF Mounted(c) THEN [ui EXCEPT !.interval = None]
                         ELSE ui
  /\ call' = Done(c)
  /\ UNCHANGED <<server, cookie, page, panel, submitting, stray, draft, edits, faults>>

handleDeleteMonitor(m) ==
  /\ InList(m) /\ ui.deleting # m
  /\ Ask("delete", m, [ui EXCEPT !.deleting = m], ui, Without(list, m))

\* Mutant: any delete closes the editor.
ClosesEditorAlways(c) == TRUE

\* The editor is closed if it was open on the monitor when the user clicked "Delete".
ClosesEditor(c) == call[c].editing = call[c].id

DeleteAnswered(c) ==
  /\ Answered(c, {"delete"})
  /\ IF call[c].reply = "ok" THEN Apply(c, Without(list, call[c].id))
                             ELSE mixed' = TRUE /\ UNCHANGED list
  /\ LET u == [ui EXCEPT !.deleting = None] IN
     ui' = IF ~Mounted(c) THEN ui
           ELSE IF call[c].reply = "ok" /\ ClosesEditor(c) THEN Closed(u) ELSE u
  /\ call' = Done(c)
  /\ UNCHANGED <<server, cookie, page, panel, submitting, stray, draft, edits, faults>>

\* handleLogout leaves the dashboard whatever the answer is; the demo just leaves.
handleLogout ==
  /\ Ready /\ Settings
  /\ IF page = "demo" THEN Enter("away", call, "unmounted")
     ELSE /\ CanSend
          /\ Send("logout", None, None)
          /\ UNCHANGED <<page, list, ui, panel, submitting, history>>
  /\ UNCHANGED <<server, cookie, edits, faults>>

LogoutAnswered(c) ==
  /\ Answered(c, {"logout"})
  /\ cookie' = (cookie /\ call[c].reply # "ok")
  /\ IF call[c].life = "gone"
       THEN call' = Done(c) /\ UNCHANGED <<page, list, ui, panel, submitting, history>>
       ELSE redirectToAuth(Done(c))
  /\ UNCHANGED <<server, edits, faults>>

-----------------------------------------------------------------------------
(* TelegramSettings *)

PanelAsks(kind, p) ==
  /\ page = "dashboard" /\ panel.mounted /\ CanSend
  /\ panel' = p
  /\ Send(kind, None, None)
  /\ UNCHANGED <<server, cookie, page, list, ui, submitting, history, faults>>

\* loadStatus, when the panel appears or on "Refresh".
loadStatus ==
  /\ ~panel.asked \/ ~(panel.loading \/ panel.saving)
  /\ PanelAsks("status", [panel EXCEPT !.asked = TRUE, !.loading = TRUE])
  /\ UNCHANGED edits

handleConnect ==
  /\ ~panel.loading /\ ~panel.saving /\ panel.status = "off"
  /\ PanelAsks("connect", [panel EXCEPT !.saving = TRUE])
  /\ edits < MaxEdits /\ edits' = edits + 1

handleDisconnect ==
  /\ ~panel.loading /\ ~panel.saving /\ panel.status = "on"
  /\ PanelAsks("disconnect", [panel EXCEPT !.saving = TRUE])
  /\ UNCHANGED edits

StatusAnswered(c) ==
  /\ Answered(c, {"status"})
  /\ LET ok == call[c].reply = "ok" IN
     IF Mounted(c)
       THEN /\ panel' = [panel EXCEPT !.loading = FALSE,
                                      !.status = IF ~ok THEN @ ELSE IF call[c].rows = <<>>
                                                 THEN "off" ELSE "on"]
            /\ stray' = IF ok THEN ~call[c].clean ELSE stray
       ELSE UNCHANGED <<panel, stray>>
  /\ call' = Done(c)
  /\ UNCHANGED <<server, cookie, page, list, ui, submitting, mixed, draft, edits, faults>>

\* The browser leaves for the link, whatever the page shows by now; the link counts as
\* good even if another call has taken it back on its way.
ConnectAnswered(c) ==
  /\ Answered(c, {"connect"})
  /\ IF call[c].reply = "ok" /\ call[c].life # "gone"
       THEN /\ Enter("away", Done(c), "gone")
            /\ link' = TRUE
       ELSE /\ call' = Done(c)
            /\ panel' = IF Mounted(c) THEN [panel EXCEPT !.saving = FALSE] ELSE panel
            /\ UNCHANGED <<link, page, list, ui, submitting, history>>
  /\ UNCHANGED <<stored, created, account, linked, cookie, edits, faults>>

\* Mutant: the panel waits for the next status to show it.
DisconnectUnseen(c) ==
  /\ Answered(c, {"disconnect"})
  /\ panel' = IF Mounted(c) THEN [panel EXCEPT !.saving = FALSE] ELSE panel
  /\ stray' = (stray \/ call[c].reply # "ok")
  /\ call' = Done(c)
  /\ UNCHANGED <<server, cookie, page, list, ui, submitting, mixed, draft, edits, faults>>

DisconnectAnswered(c) ==
  /\ Answered(c, {"disconnect"})
  /\ LET ok == call[c].reply = "ok" IN
     /\ panel' = IF ~Mounted(c) THEN panel
                 ELSE [panel EXCEPT !.saving = FALSE,
                                    !.status = IF ok /\ @ = "on" THEN "off" ELSE @]
     /\ stray' = (stray \/ ~ok)
  /\ call' = Done(c)
  /\ UNCHANGED <<server, cookie, page, list, ui, submitting, mixed, draft, edits, faults>>

-----------------------------------------------------------------------------
Receive(c) ==
  \/ Answered401(c) \/ SignInAnswered(c) \/ fetchSummary(c) \/ SaveAnswered(c)
  \/ IntervalAnswered(c) \/ DeleteAnswered(c) \/ LogoutAnswered(c)
  \/ StatusAnswered(c) \/ ConnectAnswered(c) \/ DisconnectAnswered(c)

User ==
  \/ Visit \/ handleRegister \/ handleLogin \/ handleNavChange
  \/ \E m \in Monitors \cup {None} : OpenEditor(m)
  \/ closeMonitorEditor \/ handleSaveMonitor
  \/ \E m \in Monitors : handleUpdateMonitorInterval(m) \/ handleDeleteMonitor(m)
  \/ handleLogout \/ loadStatus \/ handleConnect \/ handleDisconnect

Next ==
  \/ User \/ TimerFires \/ BotLinks \/ SessionExpires
  \/ \E c \in Calls : Serve(c) \/ CallFails(c) \/ Receive(c)

Spec == Init /\ [][Next]_vars

\* The interval keeps firing, whatever the other calls do, and the oldest call ends.
OldestMoves == call # <<>> /\ (Serve(1) \/ Receive(1))
FairSpec == Spec /\ SF_vars(TimerFires) /\ WF_vars(OldestMoves)

-----------------------------------------------------------------------------
(* Properties *)

Shown(m) == {list[i] : i \in {i \in DOMAIN list : list[i].id = m}}
StoredRow(m) == IF stored[m] = None THEN {} ELSE {[id |-> m, doc |-> stored[m]]}

\* A change of m that the page has not heard of yet.
Changing(m) == \E c \in InFlight(Changes) :
                 call[c].id = m \/ \E i \in DOMAIN call[c].rows : call[c].rows[i].id = m

ListOf(m) == Shown(m) = StoredRow(m)

\* If no calls overlapped and none failed since the list was last fetched, it has no
\* row twice, and every monitor that is not being changed is shown as it is stored:
\* what each handler of page.tsx makes of the list is what the server made of it.
ListFaithful ==
  (page = "dashboard" /\ ~mixed) =>
    /\ \A i, j \in DOMAIN list : list[i].id = list[j].id => i = j
    /\ \A m \in Monitors : Changing(m) \/ ListOf(m)

\* If the panel says that Telegram is connected, then it is, unless it is being
\* disconnected, or the status overlapped a disconnection or one failed.
PanelFaithful ==
  (panel.status = "on" /\ ~stray) => linked \/ InFlight({"disconnect"}) # {}

\* An editor opened while no change was in flight is closed by the user, by its own
\* save or by the deletion of its monitor, or the page is left: what the user types is
\* not thrown away by the answer to something else.
DraftsCloseForAReason ==
  [][(draft /\ ui.open /\ ~ui'.open /\ page' = page /\ call' # call) =>
       \E c \in InFlight({"create", "save", "delete"}) :
         Len(call') < Len(call) /\ call[c].reply = "ok" /\ call[c].id = ui.editing]_vars

\* If the user stays, there is a session (without one, the next call leaves the
\* dashboard) and the list ends as the server's, whatever overlapped or failed.
DashboardSettles ==
  <>[](page = "dashboard") => <>[](cookie /\ \A m \in Monitors : ListOf(m))
=============================================================================
