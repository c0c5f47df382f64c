---------------------------- MODULE CheckHistory ----------------------------
(***************************************************************************)
(* The check history: workers write logs, retention and deletes remove     *)
(* them, getLogs serves them page by page behind a cursor                  *)
(* (dashboardController.js), and the dashboard shows the pages it has      *)
(* fetched, refreshed by a timer and by the user (page.tsx).               *)
(*                                                                         *)
(* A log is its place in the order of the query (createdAt, then _id) and  *)
(* its monitor.  Workers' clocks differ, so a log may be written after one *)
(* that is newer.                                                          *)
(***************************************************************************)
EXTENDS Naturals, FiniteSets, Sequences, Functions, Subsequences

CONSTANTS Monitors,   \* monitors of one account
          Reqs,       \* fetches that can be in progress at once
          Limit,      \* logs of a page
          MaxLogs,    \* bound: logs ever written
          MaxFaults   \* bound: fetches that fail

ASSUME HistoryAssumption ==
  /\ Limit \in Nat \ {0}
  /\ MaxLogs \in Nat /\ MaxFaults \in Nat

VARIABLES
  \* MongoDB
  alive,    \* monitors that exist
  db,       \* logs
  written,  \* places taken by a log, past or present
  \* deleteMonitor
  purging,  \* purging[m]: "no", "logs" or "monitor", what is deleted next, or "done"
  \* getLogs and its caller
  req,      \* req[r]: a fetch
  \* the dashboard
  list,     \* logs shown
  cursor,   \* place of the last log fetched, or 0 if there is no older one
  loading,  \* logsLoading
  \* history, for the properties
  known,    \* logs that existed when the first page shown was read
  apart,    \* fetches came one at a time so far
  faults    \* bound counter: failed fetches

vars == <<alive, db, written, purging, req, list, cursor, loading, known, apart, faults>>

Place == 1 .. MaxLogs
Log == [place : Place, monitor : Monitors]

\* A log as it is shown; without the name of its monitor if that was gone.
Row == [place : Place, monitor : Monitors, named : BOOLEAN]

\* No cursor: start with the newest log.
Newest == MaxLogs + 1

NoFetch == [at |-> "idle", append |-> FALSE, from |-> Newest, ids |-> {}, page |-> <<>>,
            next |-> 0, base |-> {}]

Fetches ==
  [at : {"idle", "monitors", "logs", "populate", "answer"}, append : BOOLEAN, from : 1 .. Newest,
   ids : SUBSET Monitors, page : Seq(Log), next : 0 .. MaxLogs, base : SUBSET Log]

\* The last conjunct: a page never exceeds the limit.
TypeOK ==
  /\ alive \subseteq Monitors
  /\ db \subseteq Log
  /\ written \subseteq Place
  /\ purging \in [Monitors -> {"no", "logs", "monitor", "done"}]
  /\ req \in [Reqs -> Fetches]
  /\ list \in Seq(Row)
  /\ cursor \in 0 .. MaxLogs
  /\ loading \in BOOLEAN
  /\ known \subseteq Log
  /\ apart \in BOOLEAN
  /\ faults \in Nat
  /\ \A r \in Reqs : Len(req[r].page) <= Limit

Init ==
  /\ alive = Monitors
  /\ db = {}
  /\ written = {}
  /\ purging = [m \in Monitors |-> "no"]
  /\ req = [r \in Reqs |-> NoFetch]
  /\ list = <<>>
  /\ cursor = 0
  /\ loading = FALSE
  /\ known = {}
  /\ apart = TRUE
  /\ faults = 0

database == <<alive, db, written, purging>>
dashboard == <<list, cursor, loading, known, apart>>

-----------------------------------------------------------------------------
(* Workers and retention *)

\* A check that is still in progress writes its log even if its monitor is gone.
WriteLog(m, n) ==
  /\ n \notin written
  /\ written' = written \cup {n}
  /\ db' = db \cup {[place |-> n, monitor |-> m]}
  /\ UNCHANGED <<alive, purging, req, dashboard, faults>>

\* The index with expireAfterSeconds removes the oldest log.
ExpireLog ==
  /\ db # {}
  /\ db' = db \ {CHOOSE l \in db : \A k \in db : l.place <= k.place}
  /\ UNCHANGED <<alive, written, purging, req, dashboard, faults>>

-----------------------------------------------------------------------------
(* handleDeleteMonitor and deleteMonitor *)

AskDelete(m) ==
  /\ purging[m] = "no"
  /\ purging' = [purging EXCEPT ![m] = "logs"]
  /\ UNCHANGED <<alive, db, written, req, dashboard, faults>>

DeleteLogs(m) ==
  /\ purging[m] = "logs"
  /\ db' = {l \in db : l.monitor # m}
  /\ purging' = [purging EXCEPT ![m] = "monitor"]
  /\ UNCHANGED <<alive, written, req, dashboard, faults>>

DeleteMonitor(m) ==
  /\ purging[m] = "monitor"
  /\ m \in alive
  /\ alive' = alive \ {m}
  /\ UNCHANGED <<db, written, purging, req, dashboard, faults>>

\* The answer takes the monitor's logs off the list, but those without a name.
Deleted(m) ==
  /\ purging[m] = "monitor"
  /\ m \notin alive
  /\ purging' = [purging EXCEPT ![m] = "done"]
  /\ list' = Subsequence(list, {i \in DOMAIN list : list[i].monitor # m \/ ~list[i].named})
  /\ UNCHANGED <<alive, db, written, req, cursor, loading, known, apart, faults>>

-----------------------------------------------------------------------------
(* fetchLogs and getLogs *)

Fetch(r, append, from) ==
  /\ req[r].at = "idle"
  /\ req' = [req EXCEPT ![r] = [NoFetch EXCEPT !.at = "monitors", !.append = append, !.from = from]]
  /\ loading' = TRUE
  /\ apart' = (apart /\ \A q \in Reqs : req[q].at = "idle")
  /\ UNCHANGED <<database, list, cursor, known, faults>>

\* The timer fires, whatever is in progress.
TimerRefresh(r) == Fetch(r, FALSE, Newest)

\* "Refresh" is disabled while loading ...
UserRefresh(r) == ~loading /\ Fetch(r, FALSE, Newest)

\* ... and so is "Load older checks", shown when there is a cursor.
LoadOlder(r) == ~loading /\ cursor # 0 /\ Fetch(r, TRUE, cursor)

\* Mutant: the logs of every monitor are served.
FindAllMonitors(r) ==
  /\ req[r].at = "monitors"
  /\ req' = [req EXCEPT ![r].ids = Monitors, ![r].at = "logs"]
  /\ UNCHANGED <<database, dashboard, faults>>

\* getUserMonitorIds
FindMonitors(r) ==
  /\ req[r].at = "monitors"
  /\ req' = [req EXCEPT ![r].ids = alive, ![r].at = IF alive = {} THEN "answer" ELSE "logs"]
  /\ UNCHANGED <<database, dashboard, faults>>

\* The query: logs of the monitors below the cursor.
Matching(ids, from) == {l \in db : l.monitor \in ids /\ l.place < from}

\* Newest first: the k-th log is the one with k logs from its place on.
Sorted(logs) ==
  [k \in 1 .. Cardinality(logs) |->
     CHOOSE l \in logs : Cardinality({j \in logs : j.place >= l.place}) = k]

\* Mutant: all rows that were read are served, the extra one too.
PageWhole(rows) == rows

\* Limit + 1 rows are read to know whether there are more; Limit are served.
Page(rows) == IF Len(rows) > Limit THEN SubSeq(rows, 1, Limit) ELSE rows

\* Mutant: the cursor points at the row that was not served.
NextCursorBeyond(rows) == IF Len(rows) > Limit THEN rows[Limit + 1].place ELSE 0

\* The cursor is the last log served, if there are more.
NextCursor(rows) == IF Len(rows) > Limit THEN rows[Limit].place ELSE 0

FindLogs(r) ==
  /\ req[r].at = "logs"
  /\ LET found == Matching(req[r].ids, req[r].from)
         sorted == Sorted(found)
         rows == SubSeq(sorted, 1, IF Len(sorted) > Limit + 1 THEN Limit + 1 ELSE Len(sorted))
     IN  req' = [req EXCEPT ![r].page = Page(rows), ![r].next = NextCursor(rows),
                            ![r].base = found, ![r].at = "populate"]
  /\ UNCHANGED <<database, dashboard, faults>>

\* populate looks up the monitors of the page.
Populate(r) ==
  /\ req[r].at = "populate"
  /\ req' = [req EXCEPT ![r].ids = alive \cap {l.monitor : l \in Range(req[r].page)},
                         ![r].at = "answer"]
  /\ UNCHANGED <<database, dashboard, faults>>

Rows(r) ==
  [i \in DOMAIN req[r].page |->
     [place |-> req[r].page[i].place, monitor |-> req[r].page[i].monitor,
      named |-> req[r].page[i].monitor \in req[r].ids]]

\* Mutant: every answer is appended.
ReceiveAppending(r) ==
  /\ req[r].at = "answer"
  /\ list' = list \o Rows(r)
  /\ known' = IF req[r].append THEN known ELSE req[r].base
  /\ cursor' = req[r].next
  /\ loading' = FALSE
  /\ req' = [req EXCEPT ![r] = NoFetch]
  /\ UNCHANGED <<database, apart, faults>>

\* The page is appended to what is shown now, or replaces it.
Receive(r) ==
  /\ req[r].at = "answer"
  /\ list' = IF req[r].append THEN list \o Rows(r) ELSE Rows(r)
  /\ known' = IF req[r].append THEN known ELSE req[r].base
  /\ cursor' = req[r].next
  /\ loading' = FALSE
  /\ req' = [req EXCEPT ![r] = NoFetch]
  /\ UNCHANGED <<database, apart, faults>>

\* An error is shown beside the list.
FetchFails(r) ==
  /\ req[r].at # "idle"
  /\ faults < MaxFaults
  /\ faults' = faults + 1
  /\ loading' = FALSE
  /\ req' = [req EXCEPT ![r] = NoFetch]
  /\ UNCHANGED <<database, list, cursor, known, apart>>

-----------------------------------------------------------------------------
Answering(r) == FindMonitors(r) \/ FindLogs(r) \/ Populate(r) \/ Receive(r)
Deleting(m) == DeleteLogs(m) \/ DeleteMonitor(m) \/ Deleted(m)

Next ==
  \/ \E m \in Monitors, n \in Place : WriteLog(m, n)
  \/ ExpireLog
  \/ \E m \in Monitors : AskDelete(m) \/ Deleting(m)
  \/ \E r \in Reqs :
       TimerRefresh(r) \/ UserRefresh(r) \/ LoadOlder(r) \/ Answering(r) \/ FetchFails(r)

Spec == Init /\ [][Next]_vars

\* The interval keeps firing while the page is open, and calls return.
FairSpec ==
  /\ Spec
  /\ WF_vars(\E r \in Reqs : TimerRefresh(r))
  /\ \A r \in Reqs : WF_vars(Answering(r))
  /\ \A m \in Monitors : WF_vars(Deleting(m))

-----------------------------------------------------------------------------
(* Properties. *)

Ordered == \A i, j \in DOMAIN list : i < j => list[i].place > list[j].place

\* The list has every log of the first page's time that still exists, and whose
\* monitor does, down to the cursor.
Complete ==
  \A l \in known \cap db :
    l.monitor \in alive /\ l.place >= cursor => l.place \in {row.place : row \in Range(list)}

\* Rows are keyed by log._id (CheckHistoryPanel.tsx:53); unless two fetches overlapped,
\* pages follow one another without repeat or gap, although logs are written, expired
\* and deleted between them.
PagesAreExact == apart => Ordered /\ Complete

\* Whatever fetches overlapped, the timer's refresh sets the list right again.
RefreshRepairs == []<>(Ordered /\ Complete)

\* The history of a deleted monitor leaves the list for good, although fetches
\* that began before the delete may bring it back and a late check may write more.
DeletedHistoryLeaves ==
  \A m \in Monitors : m \notin alive ~> [](\A l \in Range(list) : l.monitor # m)
=============================================================================
