------------------------- MODULE CheckHistoryProofs -------------------------
(***************************************************************************)
(* Proofs about CheckHistory, for any monitors, fetches, page size and     *)
(* number of logs.                                                         *)
(***************************************************************************)
EXTENDS CheckHistory, SubsequenceProofs, SequenceTheorems

Unique(logs) == \A l, k \in logs : l.place = k.place => l = k

\* There are finitely many logs, as their places differ.
LEMMA LogsFinite == ASSUME NEW logs \in SUBSET Log, Unique(logs) PROVE IsFiniteSet(logs)
<1> DEFINE f == [l \in logs |-> l.place]
<1>1. MaxLogs \in Int /\ 1 \in Int
  BY HistoryAssumption
<1>2. IsFiniteSet(Place)
  BY <1>1, FS_Interval DEF Place
<1>3. f \in Injection(logs, Place)
  <2>1. \A l \in logs : l.place \in Place
    BY DEF Log
  <2>2. QED
    BY <2>1 DEF Unique, Injection, IsInjective
<1> HIDE DEF f
<1>4. QED
  BY <1>2, <1>3, FS_Injection

\* The query returns every log once, newest first.
LEMMA SortedSpec ==
  ASSUME NEW logs \in SUBSET Log, Unique(logs)
  PROVE  /\ Sorted(logs) \in Seq(Log)
         /\ \A i \in DOMAIN Sorted(logs) : Sorted(logs)[i] \in logs
         /\ \A i, j \in DOMAIN Sorted(logs) : i < j => Sorted(logs)[i].place > Sorted(logs)[j].place
         /\ \A l \in logs : \E i \in DOMAIN Sorted(logs) : Sorted(logs)[i] = l
<1> DEFINE f == [l \in logs |-> 0 - l.place]
           n == Cardinality(logs)
           Place1(l) == Cardinality({j \in logs : j.place >= l.place})
<1>1. \A l \in logs : l.place \in Nat
  BY HistoryAssumption DEF Log, Place
<1>2. f \in [logs -> Int] /\ \A l, k \in logs : f[l] = f[k] => l = k
  BY <1>1 DEF Unique
<1>3. \A l \in logs : Rank(logs, f, l) = Place1(l)
  <2>1. ASSUME NEW l \in logs PROVE {j \in logs : f[j] <= f[l]} = {j \in logs : j.place >= l.place}
    BY <1>1
  <2>2. QED
    BY <2>1 DEF Rank
<1>4. \A l, k \in logs : f[l] < f[k] <=> l.place > k.place
  BY <1>1
<1>5. Sorted(logs) = [k \in 1 .. n |-> CHOOSE l \in logs : Place1(l) = k]
  BY DEF Sorted
<1> HIDE DEF f, Place1, n
<1>6. /\ n \in Nat
      /\ \A l \in logs : Place1(l) \in 1 .. n
      /\ \A l, k \in logs : l.place > k.place => Place1(l) < Place1(k)
      /\ \A k \in 1 .. n : \E l \in logs : Place1(l) = k
  <2>1. IsFiniteSet(logs)
    BY LogsFinite
  <2>2. /\ n \in Nat
        /\ \A l \in logs : Rank(logs, f, l) \in 1 .. n
        /\ \A l, k \in logs : f[l] < f[k] => Rank(logs, f, l) < Rank(logs, f, k)
        /\ \A k \in 1 .. n : \E l \in logs : Rank(logs, f, l) = k
    BY <1>2, <2>1, RankSpec DEF n
  <2>3. QED
    BY <1>3, <1>4, <2>2
<1>7. \A k \in 1 .. n : Sorted(logs)[k] \in logs /\ Place1(Sorted(logs)[k]) = k
  BY <1>5, <1>6
<1>8. Sorted(logs) \in Seq(Log) /\ DOMAIN Sorted(logs) = 1 .. n
  BY <1>5, <1>6, <1>7
<1>9. \A l, k \in logs : Place1(l) < Place1(k) => l.place > k.place
  <2> SUFFICES ASSUME NEW l \in logs, NEW k \in logs, Place1(l) < Place1(k) PROVE l.place > k.place
    OBVIOUS
  <2>1. l.place \in Nat /\ k.place \in Nat /\ Place1(l) \in Int /\ Place1(k) \in Int
    BY <1>1, <1>6
  <2>2. l.place # k.place
    BY <2>1 DEF Unique
  <2>3. ~(k.place > l.place)
    BY <1>6, <2>1
  <2>4. QED
    BY <2>1, <2>2, <2>3
<1>10. \A i, j \in 1 .. n : i < j => Sorted(logs)[i].place > Sorted(logs)[j].place
  BY <1>7, <1>9
<1>11. ASSUME NEW l \in logs PROVE \E i \in 1 .. n : Sorted(logs)[i] = l
  <2>1. Place1(l) \in 1 .. n
    BY <1>6
  <2>2. Sorted(logs)[Place1(l)] \in logs /\ Place1(Sorted(logs)[Place1(l)]) = Place1(l)
    BY <1>7, <2>1
  <2>3. \A k \in logs : Place1(k) = Place1(l) => k = l
    <3> SUFFICES ASSUME NEW k \in logs, Place1(k) = Place1(l) PROVE k = l
      OBVIOUS
    <3>1. ~(l.place > k.place) /\ ~(k.place > l.place)
      BY <1>6
    <3>2. QED
      BY <1>1, <3>1 DEF Unique
  <2>4. QED
    BY <2>1, <2>2, <2>3
<1>12. QED
  BY <1>7, <1>8, <1>10, <1>11

\* What getLogs reads.
Read(logs) ==
  LET sorted == Sorted(logs)
  IN SubSeq(sorted, 1, IF Len(sorted) > Limit + 1 THEN Limit + 1 ELSE Len(sorted))

Descending(p) == \A i, j \in DOMAIN p : i < j => p[i].place > p[j].place

\* A page is the newest part of what the query found, and the cursor says where it ends.
LEMMA PageSpec ==
  ASSUME NEW logs \in SUBSET Log, Unique(logs)
  PROVE  LET p == Page(Read(logs))
             next == NextCursor(Read(logs))
         IN  /\ p \in Seq(Log) /\ Len(p) <= Limit
             /\ next \in 0 .. MaxLogs
             /\ Descending(p)
             /\ \A i \in DOMAIN p : p[i] \in logs /\ p[i].place >= next
             /\ \A l \in logs : l.place >= next => \E i \in DOMAIN p : p[i] = l
             /\ next = 0 \/ \E l \in logs : next = l.place
<1> DEFINE s == Sorted(logs)
           n == Len(s)
<1>1. /\ s \in Seq(Log) /\ n \in Nat /\ DOMAIN s = 1 .. n
      /\ \A i \in 1 .. n : s[i] \in logs
      /\ \A i, j \in 1 .. n : i < j => s[i].place > s[j].place
      /\ \A l \in logs : \E i \in 1 .. n : s[i] = l
  BY SortedSpec
<1>2. Limit \in Nat \ {0} /\ MaxLogs \in Nat
  BY HistoryAssumption
<1>3. \A l \in logs : l.place \in 1 .. MaxLogs
  BY DEF Log, Place
<1>4. Read(logs) = SubSeq(s, 1, IF n > Limit + 1 THEN Limit + 1 ELSE n)
  BY DEF Read
<1> HIDE DEF s
<1>5. CASE n <= Limit
  <2>0. ~(n > Limit + 1)
    BY <1>1, <1>2, <1>5
  <2>1. Read(logs) = s
    BY <1>1, <1>4, <2>0, SubSeqFull
  <2>2. ~(Len(s) > Limit)
    BY <1>1, <1>2, <1>5
  <2>3. Page(s) = s /\ NextCursor(s) = 0
    BY <2>2 DEF Page, NextCursor
  <2>4. QED
    BY <1>1, <1>2, <1>3, <1>5, <2>1, <2>3 DEF Descending
<1>6. CASE n > Limit
  <2> DEFINE rows == Read(logs)
  <2>1. rows \in Seq(Log) /\ Len(rows) = Limit + 1 /\ \A i \in 1 .. Limit + 1 : rows[i] = s[i]
    BY <1>1, <1>2, <1>4, <1>6
  <2> HIDE DEF rows
  <2>2. Page(rows) = SubSeq(rows, 1, Limit) /\ NextCursor(rows) = s[Limit].place
    BY <1>2, <2>1 DEF Page, NextCursor
  <2>3. Page(rows) \in Seq(Log) /\ Len(Page(rows)) = Limit /\ \A i \in 1 .. Limit : Page(rows)[i] = s[i]
    BY <1>2, <2>1, <2>2
  <2>4. Limit \in 1 .. n
    BY <1>1, <1>2, <1>6
  <2>5. \A i \in 1 .. Limit : i \in 1 .. n /\ s[i] \in logs /\ s[i].place >= s[Limit].place
    BY <1>1, <1>2, <1>3, <1>6, <2>4
  <2>6. ASSUME NEW l \in logs, l.place >= s[Limit].place PROVE \E i \in 1 .. Limit : s[i] = l
    <3>1. PICK i \in 1 .. n : s[i] = l
      BY <1>1
    <3>2. ~(Limit < i)
      BY <1>1, <1>3, <2>4, <2>6, <3>1
    <3>3. QED
      BY <1>2, <3>1, <3>2
  <2>7. Descending(Page(rows))
    BY <1>1, <2>3, <2>5 DEF Descending
  <2>8. s[Limit].place \in 0 .. MaxLogs
    BY <1>2, <1>3, <2>5
  <2>9. DOMAIN Page(rows) = 1 .. Limit
    BY <2>3
  <2>10. \A i \in DOMAIN Page(rows) : Page(rows)[i] \in logs /\ Page(rows)[i].place >= s[Limit].place
    BY <2>3, <2>5, <2>9
  <2>11. \A l \in logs : l.place >= s[Limit].place => \E i \in DOMAIN Page(rows) : Page(rows)[i] = l
    BY <2>3, <2>6, <2>9
  <2>12. Len(Page(rows)) <= Limit
    BY <1>2, <2>3
  <2>13. QED
    BY <2>2, <2>3, <2>7, <2>4, <2>5, <2>8, <2>10, <2>11, <2>12 DEF rows
<1>7. QED
  BY <1>1, <1>2, <1>5, <1>6
-----------------------------------------------------------------------------
(* The inductive invariant *)

Active(r) == req[r].at # "idle"

\* The log that a row shows.
Origin(row) == [place |-> row.place, monitor |-> row.monitor]

\* The logs that are stored, or have been and are still spoken of.
Seen ==
  db \cup known \cup (UNION {req[r].base \cup Range(req[r].page) : r \in Reqs})
     \cup {Origin(row) : row \in Range(list)}

\* A place is taken once and for all.
PlacesTaken == Unique(Seen) /\ \A l \in Seen : l.place \in written

\* What the fetch is asked to show without a gap.
Due(r) == IF req[r].append THEN known ELSE req[r].base

\* A fetch that has looked up the monitors has all that still exist; the page it has
\* read is in order, below its cursor and above the next one, and without a gap; if it is
\* to be appended, only as long as no other fetch can replace the list.
FetchSound(r) ==
  /\ req[r].at = "logs" => alive \subseteq req[r].ids
  /\ Descending(req[r].page) /\ req[r].next < req[r].from
  /\ \A i \in DOMAIN req[r].page :
       req[r].page[i].place < req[r].from /\ req[r].page[i].place >= req[r].next
  /\ req[r].at \in {"populate", "answer"} /\ (req[r].append => apart) =>
       \A l \in Due(r) \cap db :
         l.monitor \in alive /\ l.place >= req[r].next /\ l.place < req[r].from
           => \E i \in DOMAIN req[r].page : req[r].page[i].place = l.place
  /\ req[r].at = "idle" => req[r] = NoFetch

\* A fetch that is on its own goes on where the list ends.
Continues(r) == Active(r) => req[r].from = IF req[r].append THEN cursor ELSE Newest

OneFetch == \A q, r \in Reqs : Active(q) /\ Active(r) => q = r
AboveCursor == \A i \in DOMAIN list : list[i].place >= cursor

HistoryInv ==
  /\ TypeOK
  /\ PlacesTaken
  /\ \A r \in Reqs : FetchSound(r)
  /\ apart => OneFetch /\ AboveCursor /\ Ordered /\ Complete /\ \A r \in Reqs : Continues(r)

-----------------------------------------------------------------------------
(* Types *)

\* The fetch with the fields it gets next.
LEMMA FetchTypes ==
  ASSUME TypeOK, NEW r \in Reqs
  PROVE  /\ req[r].at \in {"idle", "monitors", "logs", "populate", "answer"}
         /\ req[r].append \in BOOLEAN /\ req[r].from \in 1 .. Newest /\ req[r].ids \subseteq Monitors
         /\ req[r].page \in Seq(Log) /\ req[r].next \in 0 .. MaxLogs /\ req[r].base \subseteq Log
         /\ Len(req[r].page) <= Limit
BY DEF TypeOK, Fetches

\* No fetch is a fetch too.
LEMMA NoFetchType == NoFetch \in Fetches /\ Len(NoFetch.page) <= Limit
BY HistoryAssumption DEF NoFetch, Fetches, Newest

\* A step that changes fetch r only, and within the types.
LEMMA FetchTyped ==
  ASSUME TypeOK, NEW r \in Reqs, NEW f \in Fetches, Len(f.page) <= Limit,
         req' = [req EXCEPT ![r] = f]
  PROVE  req' \in [Reqs -> Fetches] /\ \A q \in Reqs : Len(req'[q].page) <= Limit
BY DEF TypeOK

\* What FindLogs stores.
LEMMA FindLogsEffect ==
  ASSUME TypeOK, PlacesTaken, NEW r \in Reqs, FindLogs(r)
  PROVE  LET found == Matching(req[r].ids, req[r].from)
             f == [req[r] EXCEPT !.page = Page(Read(found)), !.next = NextCursor(Read(found)),
                                 !.base = found, !.at = "populate"]
         IN  /\ found \in SUBSET Log /\ Unique(found)
             /\ req' = [req EXCEPT ![r] = f]
             /\ f \in Fetches /\ Len(f.page) <= Limit
             /\ UNCHANGED <<database, dashboard, faults>>
<1> DEFINE found == Matching(req[r].ids, req[r].from)
           f == [req[r] EXCEPT !.page = Page(Read(found)), !.next = NextCursor(Read(found)),
                               !.base = found, !.at = "populate"]
<1>1. found \in SUBSET Log /\ Unique(found)
  BY DEF Matching, TypeOK, PlacesTaken, Seen, Unique
<1>2. /\ req' = [req EXCEPT ![r].page = Page(Read(found)), ![r].next = NextCursor(Read(found)),
                            ![r].base = found, ![r].at = "populate"]
      /\ UNCHANGED <<database, dashboard, faults>>
  BY DEF FindLogs, Read
<1>3. /\ Page(Read(found)) \in Seq(Log) /\ Len(Page(Read(found))) <= Limit
      /\ NextCursor(Read(found)) \in 0 .. MaxLogs
  BY <1>1, PageSpec
<1> HIDE DEF found
<1>4. req' = [req EXCEPT ![r] = f]
  BY <1>2 DEF TypeOK
<1>5. f \in Fetches /\ Len(f.page) <= Limit
  BY <1>1, <1>3 DEF TypeOK, Fetches
<1>6. QED
  BY <1>1, <1>2, <1>4, <1>5 DEF found

\* The rows that a page shows.
LEMMA RowsSpec ==
  ASSUME TypeOK, NEW r \in Reqs
  PROVE  /\ Rows(r) \in Seq(Row) /\ DOMAIN Rows(r) = DOMAIN req[r].page
         /\ \A i \in DOMAIN Rows(r) : Rows(r)[i].place = req[r].page[i].place
<1>1. req[r].page \in Seq(Log)
  BY FetchTypes
<1>2. \A i \in DOMAIN req[r].page : req[r].page[i] \in Log
  BY <1>1
<1>3. \A i \in DOMAIN Rows(r) : Rows(r)[i] \in Row
  BY <1>2 DEF Rows, Log, Row
<1>4. DOMAIN Rows(r) = 1 .. Len(req[r].page) /\ Len(req[r].page) \in Nat
  BY <1>1 DEF Rows
<1>5. Rows(r) \in Seq(Row)
  <2>1. Rows(r) = [i \in 1 .. Len(req[r].page) |-> Rows(r)[i]]
    BY <1>4 DEF Rows
  <2>2. QED
    BY <1>3, <1>4, <2>1
<1>6. QED
  BY <1>5 DEF Rows

\* The types hold at first ...
LEMMA TypedInit == Init => TypeOK
<1> SUFFICES ASSUME Init PROVE TypeOK
  OBVIOUS
<1>1. req \in [Reqs -> Fetches] /\ \A r \in Reqs : Len(req[r].page) <= Limit
  BY NoFetchType DEF Init
<1>2. cursor \in 0 .. MaxLogs /\ list \in Seq(Row)
  BY HistoryAssumption DEF Init
<1>3. purging \in [Monitors -> {"no", "logs", "monitor", "done"}]
  BY DEF Init
<1>4. QED
  BY <1>1, <1>2, <1>3 DEF Init, TypeOK

\* ... and every step keeps them; a page is limited because the query returns every log once.
LEMMA TypedStep ==
  ASSUME TypeOK, PlacesTaken, [Next]_vars
  PROVE  TypeOK'
<1> USE DEF database, dashboard
<1>1. ASSUME NEW m \in Monitors, NEW n \in Place, WriteLog(m, n) PROVE TypeOK'
  BY <1>1 DEF WriteLog, TypeOK, Log
<1>2. CASE ExpireLog
  BY <1>2 DEF ExpireLog, TypeOK
<1>3. ASSUME NEW m \in Monitors, AskDelete(m) PROVE TypeOK'
  BY <1>3 DEF AskDelete, TypeOK
<1>4. ASSUME NEW m \in Monitors, DeleteLogs(m) PROVE TypeOK'
  BY <1>4 DEF DeleteLogs, TypeOK
<1>5. ASSUME NEW m \in Monitors, DeleteMonitor(m) PROVE TypeOK'
  BY <1>5 DEF DeleteMonitor, TypeOK
<1>6. ASSUME NEW m \in Monitors, Deleted(m) PROVE TypeOK'
  <2>1. list' \in Seq(Row)
    BY <1>6, SubsequenceSpec DEF Deleted, TypeOK
  <2>2. QED
    BY <1>6, <2>1 DEF Deleted, TypeOK
<1>7. ASSUME NEW r \in Reqs, NEW append \in BOOLEAN, NEW from \in 1 .. Newest, Fetch(r, append, from)
      PROVE  TypeOK'
  <2> DEFINE f == [NoFetch EXCEPT !.at = "monitors", !.append = append, !.from = from]
  <2>1. f \in Fetches /\ Len(f.page) <= Limit
    BY NoFetchType DEF NoFetch, Fetches
  <2>2. req' = [req EXCEPT ![r] = f]
    BY <1>7 DEF Fetch
  <2> HIDE DEF f
  <2>3. req' \in [Reqs -> Fetches] /\ \A q \in Reqs : Len(req'[q].page) <= Limit
    BY <2>1, <2>2, FetchTyped
  <2>4. QED
    BY <1>7, <2>3 DEF Fetch, TypeOK
<1>8. ASSUME NEW r \in Reqs, TimerRefresh(r) \/ UserRefresh(r) \/ LoadOlder(r) PROVE TypeOK'
  <2>1. Newest \in 1 .. Newest /\ (cursor # 0 => cursor \in 1 .. Newest)
    BY HistoryAssumption DEF Newest, TypeOK
  <2>2. QED
    BY <1>7, <1>8, <2>1 DEF TimerRefresh, UserRefresh, LoadOlder
<1>9. ASSUME NEW r \in Reqs, FindMonitors(r) PROVE TypeOK'
  <2> DEFINE f == [req[r] EXCEPT !.ids = alive, !.at = IF alive = {} THEN "answer" ELSE "logs"]
  <2>1. f \in Fetches /\ Len(f.page) <= Limit
    BY FetchTypes DEF TypeOK, Fetches
  <2>2. req' = [req EXCEPT ![r] = f]
    BY <1>9 DEF FindMonitors, TypeOK
  <2> HIDE DEF f
  <2>3. req' \in [Reqs -> Fetches] /\ \A q \in Reqs : Len(req'[q].page) <= Limit
    BY <2>1, <2>2, FetchTyped
  <2>4. QED
    BY <1>9, <2>3 DEF FindMonitors, TypeOK
<1>10. ASSUME NEW r \in Reqs, FindLogs(r) PROVE TypeOK'
  <2>1. req' \in [Reqs -> Fetches] /\ \A q \in Reqs : Len(req'[q].page) <= Limit
    BY <1>10, FindLogsEffect, FetchTyped
  <2>2. QED
    BY <1>10, <2>1 DEF FindLogs, TypeOK
<1>11. ASSUME NEW r \in Reqs, Populate(r) PROVE TypeOK'
  <2> DEFINE ids == alive \cap {l.monitor : l \in Range(req[r].page)}
             f == [req[r] EXCEPT !.ids = ids, !.at = "answer"]
  <2>1. ids \subseteq Monitors
    BY DEF TypeOK
  <2>2. req' = [req EXCEPT ![r] = f]
    BY <1>11 DEF Populate, TypeOK
  <2> HIDE DEF ids
  <2>3. f \in Fetches /\ Len(f.page) <= Limit
    BY <2>1, FetchTypes DEF TypeOK, Fetches
  <2> HIDE DEF f
  <2>4. req' \in [Reqs -> Fetches] /\ \A q \in Reqs : Len(req'[q].page) <= Limit
    BY <2>2, <2>3, FetchTyped
  <2>5. QED
    BY <1>11, <2>4 DEF Populate, TypeOK
<1>12. ASSUME NEW r \in Reqs, Receive(r) PROVE TypeOK'
  <2>1. req' \in [Reqs -> Fetches] /\ \A q \in Reqs : Len(req'[q].page) <= Limit
    BY <1>12, NoFetchType, FetchTyped DEF Receive
  <2>2. list' \in Seq(Row)
    BY <1>12, RowsSpec DEF Receive, TypeOK
  <2>3. known' \subseteq Log /\ cursor' \in 0 .. MaxLogs /\ loading' \in BOOLEAN
    BY <1>12, FetchTypes DEF Receive, TypeOK
  <2>4. QED
    BY <1>12, <2>1, <2>2, <2>3 DEF Receive, TypeOK
<1>13. ASSUME NEW r \in Reqs, FetchFails(r) PROVE TypeOK'
  <2>1. req' \in [Reqs -> Fetches] /\ \A q \in Reqs : Len(req'[q].page) <= Limit
    BY <1>13, NoFetchType, FetchTyped DEF FetchFails
  <2>2. faults' \in Nat
    BY <1>13 DEF FetchFails, TypeOK
  <2>3. UNCHANGED <<alive, db, written, purging, list, cursor, known, apart>> /\ loading' = FALSE
    BY <1>13 DEF FetchFails
  <2>4. QED
    BY <2>1, <2>2, <2>3 DEF TypeOK
<1>14. CASE UNCHANGED vars
  BY <1>14 DEF vars, TypeOK
<1>15. QED
  BY <1>1, <1>2, <1>3, <1>4, <1>5, <1>6, <1>8, <1>9, <1>10, <1>11, <1>12, <1>13, <1>14
  DEF Next, Answering, Deleting

-----------------------------------------------------------------------------
(* The steps *)

\* The parts of the invariant that speak of the page shown.
Shown == OneFetch /\ AboveCursor /\ Ordered /\ Complete /\ \A r \in Reqs : Continues(r)

\* The invariant holds at first, when there is nothing to show.
LEMMA HistoryInit == Init => HistoryInv
<1> SUFFICES ASSUME Init PROVE HistoryInv
  OBVIOUS
<1>1. TypeOK
  BY TypedInit
<1>2. /\ db = {} /\ known = {} /\ list = <<>>
      /\ \A r \in Reqs : req[r] = NoFetch
  BY DEF Init
<1>3. /\ DOMAIN list = {} /\ DOMAIN NoFetch.page = {} /\ NoFetch.base = {} /\ NoFetch.at = "idle"
      /\ NoFetch.next < NoFetch.from
  BY <1>2, HistoryAssumption DEF NoFetch, Newest
<1>4. PlacesTaken
  <2>1. Range(list) = {} /\ \A r \in Reqs : Range(req[r].page) = {}
    BY <1>2, <1>3 DEF Range
  <2>2. Seen = {}
    BY <1>2, <1>3, <2>1 DEF Seen
  <2>3. QED
    BY <2>2 DEF PlacesTaken, Unique
<1>5. \A r \in Reqs : FetchSound(r)
  BY <1>2, <1>3 DEF FetchSound, Descending
<1>6. OneFetch /\ AboveCursor /\ Ordered /\ Complete /\ \A r \in Reqs : Continues(r)
  BY <1>2, <1>3 DEF OneFetch, AboveCursor, Ordered, Complete, Continues, Active
<1>7. QED
  BY <1>1, <1>4, <1>5, <1>6 DEF HistoryInv

\* Logs are written, expire and are deleted with their monitors: what is due can only

\* get less, as a new log has a new place.
LEMMA DatabaseStep ==
  ASSUME HistoryInv, UNCHANGED <<req, cursor, known, apart, list>>,
         PlacesTaken', alive' \subseteq alive,
         \A l \in db' : l \in db \/ l.place \notin written
  PROVE  (\A r \in Reqs : FetchSound(r)') /\ (apart => Shown)'
<1>1. \A l \in known : l \in db' => l \in db
  BY DEF HistoryInv, PlacesTaken, Seen
<1>2. \A r \in Reqs : \A l \in req[r].base : l \in db' => l \in db
  BY DEF HistoryInv, PlacesTaken, Seen
<1>3. \A r \in Reqs : FetchSound(r)'
  BY <1>1, <1>2 DEF HistoryInv, FetchSound, Due
<1>4. (apart => Shown)'
  BY <1>1 DEF HistoryInv, Shown, OneFetch, AboveCursor, Ordered, Complete, Continues, Active
<1>5. QED
  BY <1>3, <1>4

\* What is spoken of stays unique when it grows by a log at a new place at most.
LEMMA SeenStep ==
  ASSUME PlacesTaken, NEW new, Seen' \subseteq Seen \cup new, written \subseteq written',
         Unique(new), \A l \in new : l.place \in written' /\ l.place \notin written
  PROVE  PlacesTaken'
BY DEF PlacesTaken, Unique

\* A stored log and a row at its place have one monitor.
LEMMA RowOfLog ==
  ASSUME HistoryInv, NEW l \in db, NEW i \in DOMAIN list, list[i].place = l.place
  PROVE  list[i].monitor = l.monitor
<1>1. Origin(list[i]) \in Seen /\ l \in Seen
  BY DEF Seen, Range
<1>2. Origin(list[i]) = l
  BY <1>1 DEF HistoryInv, PlacesTaken, Unique, Origin
<1>3. QED
  BY <1>2 DEF Origin

\* A delete takes rows off the list: of a monitor that is gone.
LEMMA DeletedStep ==
  ASSUME HistoryInv, NEW m \in Monitors, Deleted(m)
  PROVE  PlacesTaken' /\ (\A r \in Reqs : FetchSound(r)') /\ (apart => Shown)'
<1> DEFINE keep == {i \in DOMAIN list : list[i].monitor # m \/ ~list[i].named}
<1>1. list \in Seq(Row) /\ keep \in SUBSET (DOMAIN list) /\ list' = Subsequence(list, keep)
  BY DEF HistoryInv, TypeOK, Deleted
<1>2. UNCHANGED <<alive, db, written, req, cursor, loading, known, apart>> /\ m \notin alive
  BY DEF Deleted
<1>3. \A i \in DOMAIN list : i \in keep \/ list[i].monitor = m
  OBVIOUS
<1> DEFINE n == Cardinality(keep)
           pos(k) == Nth(keep, k)
<1> HIDE DEF keep
<1>4. \A i \in DOMAIN list : list[i].place \in Nat
  <2>1. \A i \in DOMAIN list : list[i] \in Row
    BY <1>1
  <2>2. QED
    BY <2>1, HistoryAssumption DEF Row, Place
<1>5. /\ DOMAIN list' = 1 .. n /\ n \in Nat /\ \A i \in keep : i \in DOMAIN list
      /\ \A k \in 1 .. n : pos(k) \in keep /\ list'[k] = list[pos(k)]
      /\ \A j, k \in 1 .. n : j < k => pos(j) < pos(k)
      /\ \A i \in keep : \E k \in 1 .. n : pos(k) = i
  <2>1. Len(list') = n /\ list' \in Seq(Row) /\ n \in Nat
    BY <1>1, SubsequenceSpec
  <2>2. QED
    BY <1>1, <2>1, SubsequenceSpec
<1> HIDE DEF n, pos
<1>6. PlacesTaken'
  <2>1. Range(list') \subseteq Range(list)
    BY <1>5 DEF Range
  <2>2. Seen' \subseteq Seen
    BY <1>2, <2>1 DEF Seen
  <2>3. QED
    BY <1>2, <2>2 DEF HistoryInv, PlacesTaken, Unique
<1>7. \A r \in Reqs : FetchSound(r)'
  BY <1>2 DEF HistoryInv, FetchSound, Due
<1>8. ASSUME apart PROVE AboveCursor' /\ Ordered' /\ Complete'
  <2>1. AboveCursor /\ Ordered /\ Complete
    BY <1>8 DEF HistoryInv
  <2>2. AboveCursor'
    BY <1>2, <1>5, <2>1 DEF AboveCursor
  <2>3. Ordered'
    BY <1>5, <2>1 DEF Ordered
  <2>4. ASSUME NEW l \in known \cap db, l.monitor \in alive, l.place >= cursor
        PROVE  \E k \in DOMAIN list' : list'[k].place = l.place
    <3>1. PICK i \in DOMAIN list : list[i].place = l.place
      BY <2>1, <2>4 DEF Complete, Range
    <3>2. list[i].monitor # m
      BY <1>2, <2>4, <3>1, RowOfLog
    <3>3. QED
      BY <1>3, <1>5, <3>1, <3>2
  <2>5. Complete'
    BY <1>2, <2>4 DEF Complete, Range
  <2>6. QED
    BY <2>2, <2>3, <2>5
<1>9. QED
  BY <1>2, <1>6, <1>7, <1>8 DEF HistoryInv, Shown, OneFetch, Continues, Active

\* A fetch moves on: the others, and what is shown, stay as they are.
LEMMA FetchStep ==
  ASSUME HistoryInv, NEW r \in Reqs, NEW f,
         req' = [req EXCEPT ![r] = f], UNCHANGED <<alive, db, written, known>>, apart' => apart
  PROVE  /\ f.base \cup Range(f.page) \cup {Origin(row) : row \in Range(list')} \subseteq Seen
              => PlacesTaken'
         /\ req'[r] = f
         /\ FetchSound(r)' => \A q \in Reqs : FetchSound(q)'
<1>1. req'[r] = f /\ \A q \in Reqs : q # r => req'[q] = req[q]
  BY DEF HistoryInv, TypeOK
<1>2. ASSUME f.base \cup Range(f.page) \cup {Origin(row) : row \in Range(list')} \subseteq Seen
      PROVE  PlacesTaken'
  <2>1. \A q \in Reqs : req'[q].base \cup Range(req'[q].page) \subseteq Seen
    BY <1>1, <1>2 DEF Seen
  <2>2. Seen' \subseteq Seen
    <3>1. db \cup known \subseteq Seen
      BY DEF Seen
    <3>2. QED
      BY <1>2, <2>1, <3>1 DEF Seen
  <2>3. QED
    BY <2>2 DEF HistoryInv, PlacesTaken, Unique
<1>3. ASSUME FetchSound(r)', NEW q \in Reqs PROVE FetchSound(q)'
  BY <1>1, <1>3 DEF HistoryInv, FetchSound, Due
<1>4. QED
  BY <1>1, <1>2, <1>3

\* What is spoken of includes what is shown, and what any fetch has read.
LEMMA SeenParts ==
  /\ {Origin(row) : row \in Range(list)} \subseteq Seen
  /\ \A r \in Reqs : req[r].base \cup Range(req[r].page) \subseteq Seen
BY DEF Seen

\* A fetch begins, or is given up.
LEMMA BlankStep ==
  ASSUME HistoryInv, NEW r \in Reqs, NEW f, f.base = {}, f.page = <<>>, f.next < f.from,
         f.at = "monitors" \/ f = NoFetch,
         req' = [req EXCEPT ![r] = f], UNCHANGED <<alive, db, written, known, list>>,
         apart' => apart
  PROVE  PlacesTaken' /\ \A q \in Reqs : FetchSound(q)'
<1>1. Range(f.page) = {} /\ DOMAIN f.page = {}
  BY DEF Range
<1>2. PlacesTaken' /\ req'[r] = f
  BY <1>1, FetchStep, SeenParts
<1>3. FetchSound(r)'
  <2>1. f.at \in {"monitors", "idle"} /\ (f.at = "idle" => f = NoFetch)
    BY DEF NoFetch
  <2>2. QED
    BY <1>1, <1>2, <2>1 DEF FetchSound, Descending
<1>4. QED
  BY <1>2, <1>3, FetchStep

\* A fetch begins: it goes on where the list ends, or starts with the newest log.
LEMMA BeginStep ==
  ASSUME HistoryInv, NEW r \in Reqs, TimerRefresh(r) \/ UserRefresh(r) \/ LoadOlder(r)
  PROVE  PlacesTaken' /\ (\A q \in Reqs : FetchSound(q)') /\ (apart => Shown)'
<1> USE DEF database
<1>1. PICK append \in BOOLEAN, from \in {cursor, Newest} :
        /\ Fetch(r, append, from) /\ from = IF append THEN cursor ELSE Newest
        /\ append => cursor # 0
  BY DEF TimerRefresh, UserRefresh, LoadOlder
<1> DEFINE f == [NoFetch EXCEPT !.at = "monitors", !.append = append, !.from = from]
<1>2. /\ f.base = {} /\ f.page = <<>> /\ f.at = "monitors" /\ f.append = append
      /\ f.from = from /\ f.next < f.from
  <2>1. 0 < from
    BY <1>1, HistoryAssumption DEF Newest, HistoryInv, TypeOK
  <2>2. QED
    BY <2>1 DEF NoFetch
<1>3. req' = [req EXCEPT ![r] = f] /\ UNCHANGED <<alive, db, written, purging, list, cursor, known, faults>>
  BY <1>1 DEF Fetch
<1>4. apart' => apart /\ \A q \in Reqs : req[q].at = "idle"
  BY <1>1 DEF Fetch
<1> HIDE DEF f
<1>5. req'[r] = f /\ \A q \in Reqs : q # r => req'[q] = req[q]
  BY <1>3 DEF HistoryInv, TypeOK
<1>6. PlacesTaken' /\ \A q \in Reqs : FetchSound(q)'
  BY <1>2, <1>3, <1>4, BlankStep
<1>7. ASSUME apart' PROVE Shown'
  <2>1. OneFetch' /\ \A q \in Reqs : Continues(q)'
    BY <1>1, <1>2, <1>3, <1>4, <1>5, <1>7 DEF OneFetch, Continues, Active, Newest
  <2>2. AboveCursor' /\ Ordered' /\ Complete'
    BY <1>3, <1>4, <1>7 DEF HistoryInv, AboveCursor, Ordered, Complete
  <2>3. QED
    BY <2>1, <2>2 DEF Shown
<1>8. QED
  BY <1>6, <1>7

\* A fetch looks up monitors: nothing that is shown changes.
LEMMA ProgressShown ==
  ASSUME HistoryInv, NEW r \in Reqs, Active(r), NEW f, f.append = req[r].append, f.from = req[r].from,
         req' = [req EXCEPT ![r] = f], UNCHANGED <<alive, db, list, cursor, known, apart>>
  PROVE  (apart => Shown)'
<1>1. req'[r] = f /\ \A q \in Reqs : q # r => req'[q] = req[q]
  BY DEF HistoryInv, TypeOK
<1>2. \A q \in Reqs : Active(q)' => Active(q)
  BY <1>1 DEF Active
<1>3. QED
  BY <1>1, <1>2 DEF HistoryInv, Shown, OneFetch, AboveCursor, Ordered, Complete, Continues, Newest, Active

\* A fetch finds the monitors of the account: all that exist.
LEMMA FindMonitorsStep ==
  ASSUME HistoryInv, NEW r \in Reqs, FindMonitors(r)
  PROVE  PlacesTaken' /\ (\A q \in Reqs : FetchSound(q)') /\ (apart => Shown)'
<1> USE DEF database, dashboard
<1> DEFINE f == [req[r] EXCEPT !.ids = alive, !.at = IF alive = {} THEN "answer" ELSE "logs"]
<1>1. req' = [req EXCEPT ![r] = f] /\ UNCHANGED <<alive, db, written, list, cursor, known, apart>>
  BY DEF FindMonitors, HistoryInv, TypeOK
<1>2. /\ f.base = req[r].base /\ f.page = req[r].page /\ f.append = req[r].append
      /\ f.from = req[r].from /\ f.next = req[r].next /\ f.ids = alive
      /\ f.at = IF alive = {} THEN "answer" ELSE "logs"
  BY FetchTypes DEF HistoryInv, TypeOK, Fetches
<1>3. Active(r)
  BY DEF FindMonitors, Active
<1> HIDE DEF f
<1>4. PlacesTaken' /\ req'[r] = f
  BY <1>1, <1>2, FetchStep, SeenParts
<1>5. FetchSound(r)'
  BY <1>1, <1>2, <1>4 DEF HistoryInv, FetchSound
<1>6. QED
  BY <1>1, <1>2, <1>3, <1>4, <1>5, FetchStep, ProgressShown

\* A fetch looks up the names for its page, which stays as it is.
LEMMA PopulateStep ==
  ASSUME HistoryInv, NEW r \in Reqs, Populate(r)
  PROVE  PlacesTaken' /\ (\A q \in Reqs : FetchSound(q)') /\ (apart => Shown)'
<1> USE DEF database, dashboard
<1> DEFINE ids == alive \cap {l.monitor : l \in Range(req[r].page)}
           f == [req[r] EXCEPT !.ids = ids, !.at = "answer"]
<1>1. req' = [req EXCEPT ![r] = f] /\ UNCHANGED <<alive, db, written, list, cursor, known, apart>>
  BY DEF Populate, HistoryInv, TypeOK
<1> HIDE DEF ids
<1>2. /\ f.base = req[r].base /\ f.page = req[r].page /\ f.append = req[r].append
      /\ f.from = req[r].from /\ f.next = req[r].next /\ f.at = "answer"
  BY FetchTypes DEF HistoryInv, TypeOK, Fetches
<1>3. req[r].at = "populate" /\ Active(r)
  BY DEF Populate, Active
<1> HIDE DEF f
<1>4. PlacesTaken' /\ req'[r] = f
  BY <1>1, <1>2, FetchStep, SeenParts
<1>5. FetchSound(r)'
  BY <1>1, <1>2, <1>3, <1>4 DEF HistoryInv, FetchSound, Due
<1>6. QED
  BY <1>1, <1>2, <1>3, <1>4, <1>5, FetchStep, ProgressShown

\* The page that is read has every log due between its cursors: the monitors that

\* still exist were there when their identifiers were looked up.
LEMMA FindLogsStep ==
  ASSUME HistoryInv, NEW r \in Reqs, FindLogs(r)
  PROVE  PlacesTaken' /\ (\A q \in Reqs : FetchSound(q)') /\ (apart => Shown)'
<1> USE DEF database, dashboard
<1> DEFINE found == Matching(req[r].ids, req[r].from)
           page == Page(Read(found))
           next == NextCursor(Read(found))
           f == [req[r] EXCEPT !.page = page, !.next = next, !.base = found, !.at = "populate"]
<1>1. /\ found \in SUBSET Log /\ Unique(found)
      /\ req' = [req EXCEPT ![r] = f] /\ UNCHANGED <<alive, db, written, list, cursor, known, apart>>
  BY FindLogsEffect DEF HistoryInv
<1>2. /\ Descending(page)
      /\ \A i \in DOMAIN page : page[i] \in found /\ page[i].place >= next
      /\ \A l \in found : l.place >= next => \E i \in DOMAIN page : page[i] = l
      /\ next = 0 \/ \E l \in found : next = l.place
  BY <1>1, PageSpec
<1>3. found = {l \in db : l.monitor \in req[r].ids /\ l.place < req[r].from}
  BY DEF Matching
<1>4. req[r].at = "logs" /\ Active(r) /\ alive \subseteq req[r].ids
  BY DEF FindLogs, Active, HistoryInv, FetchSound
<1> HIDE DEF found, page, next
<1>5. /\ f.base = found /\ f.page = page /\ f.append = req[r].append
      /\ f.from = req[r].from /\ f.next = next /\ f.at = "populate"
  BY FetchTypes DEF HistoryInv, TypeOK, Fetches
<1> HIDE DEF f
<1>6. PlacesTaken' /\ req'[r] = f
  <2>1. found \cup Range(page) \subseteq Seen
    BY <1>2, <1>3 DEF Seen, Range
  <2>2. QED
    BY <1>1, <1>5, <2>1, FetchStep, SeenParts
<1>7. FetchSound(r)'
  <2>1. \A l \in db : l.monitor \in alive /\ l.place >= next /\ l.place < req[r].from
          => \E i \in DOMAIN page : page[i] = l
    BY <1>2, <1>3, <1>4
  <2>2. next < req[r].from
    <3>1. 0 < req[r].from
      BY FetchTypes, HistoryAssumption DEF HistoryInv, Newest
    <3>2. QED
      BY <1>2, <1>3, <3>1
  <2>3. QED
    BY <1>1, <1>2, <1>3, <1>5, <1>6, <2>1, <2>2 DEF FetchSound, Due
<1>8. QED
  BY <1>1, <1>4, <1>5, <1>6, <1>7, FetchStep, ProgressShown

\* An answer is shown. Appended to what it continues it leaves no gap; on its own it is the
\* whole list, and every log it was read from is due.
LEMMA ReceiveStep ==
  ASSUME HistoryInv, NEW r \in Reqs, Receive(r)
  PROVE  PlacesTaken' /\ (\A q \in Reqs : FetchSound(q)') /\ (apart => Shown)'
<1> USE DEF database
<1> DEFINE page == req[r].page
           rows == Rows(r)
<1>1. /\ req' = [req EXCEPT ![r] = NoFetch] /\ UNCHANGED <<alive, db, written, apart>>
      /\ list' = IF req[r].append THEN list \o rows ELSE rows
      /\ known' = IF req[r].append THEN known ELSE req[r].base
      /\ cursor' = req[r].next /\ req[r].at = "answer"
  BY DEF Receive
<1>2. /\ req'[r] = NoFetch /\ \A q \in Reqs : q # r => req'[q] = req[q]
      /\ list \in Seq(Row) /\ cursor \in Nat
  BY <1>1 DEF HistoryInv, TypeOK
<1>3. /\ page \in Seq(Log) /\ rows \in Seq(Row) /\ DOMAIN rows = DOMAIN page
      /\ \A i \in DOMAIN page : page[i] \in Log /\ rows[i].place = page[i].place
      /\ \A i \in DOMAIN page : Origin(rows[i]) = page[i]
  <2>1. page \in Seq(Log) /\ rows \in Seq(Row) /\ DOMAIN rows = DOMAIN page
    BY FetchTypes, RowsSpec DEF HistoryInv
  <2>2. \A i \in DOMAIN page : page[i] \in Log
    BY <2>1
  <2>3. \A i \in DOMAIN page : rows[i].place = page[i].place /\ rows[i].monitor = page[i].monitor
    BY <2>1 DEF Rows
  <2>4. QED
    BY <2>1, <2>2, <2>3 DEF Origin, Log
<1>4. FetchSound(r) /\ Descending(page)
  BY DEF HistoryInv, FetchSound
<1> HIDE DEF page, rows
<1>5. PlacesTaken'
  <2>1. \A row \in Range(rows) : Origin(row) \in Range(page)
    BY <1>3 DEF Range
  <2>2. Range(list') \subseteq Range(list) \cup Range(rows)
    BY <1>1, <1>2, <1>3 DEF Range
  <2>3. {Origin(row) : row \in Range(list')} \subseteq Seen
    BY <2>1, <2>2, SeenParts DEF page
  <2>4. \A q \in Reqs : req'[q].base \cup Range(req'[q].page) \subseteq Seen
    <3>1. Range(NoFetch.page) = {} /\ NoFetch.base = {}
      BY DEF NoFetch, Range
    <3>2. QED
      BY <1>2, <3>1, SeenParts
  <2>5. db \cup known' \subseteq Seen
    BY <1>1 DEF Seen
  <2>6. Seen' \subseteq Seen
    BY <1>1, <2>3, <2>4, <2>5 DEF Seen
  <2>7. QED
    BY <1>1, <2>6 DEF HistoryInv, PlacesTaken, Unique
<1>6. ASSUME NEW q \in Reqs PROVE FetchSound(q)'
  <2>1. CASE q = r
    <3>1. NoFetch.at = "idle" /\ DOMAIN NoFetch.page = {} /\ NoFetch.next < NoFetch.from
      BY HistoryAssumption DEF NoFetch, Newest
    <3>2. QED
      BY <1>2, <2>1, <3>1 DEF FetchSound, Descending
  <2>2. CASE q # r /\ req[q].append /\ apart
    <3>1. req[q].at = "idle"
      BY <1>1, <2>2 DEF HistoryInv, OneFetch, Active
    <3>2. QED
      BY <1>1, <1>2, <2>2, <3>1 DEF HistoryInv, FetchSound
  <2>3. CASE q # r /\ ~(req[q].append /\ apart)
    BY <1>1, <1>2, <2>3 DEF HistoryInv, FetchSound, Due
  <2>4. QED
    BY <2>1, <2>2, <2>3
<1>7. ASSUME apart PROVE Shown'
  <2>1. /\ OneFetch /\ AboveCursor /\ Ordered /\ Complete /\ Continues(r)
        /\ \A q \in Reqs : q # r => ~Active(q)
    BY <1>1, <1>7 DEF HistoryInv, OneFetch, Active
  <2>2. \A q \in Reqs : ~Active(q)'
    BY <1>2, <2>1 DEF Active, NoFetch
  <2>3. OneFetch' /\ \A q \in Reqs : Continues(q)'
    BY <2>2 DEF OneFetch, Continues
  <2>4. /\ \A i \in DOMAIN page : page[i].place < req[r].from /\ page[i].place >= req[r].next
        /\ \A l \in Due(r) \cap db :
             l.monitor \in alive /\ l.place >= req[r].next /\ l.place < req[r].from
               => \E i \in DOMAIN page : page[i].place = l.place
    BY <1>1, <1>4, <1>7 DEF FetchSound, page
  <2>5. \A l \in Log : l.place \in Nat /\ l.place < Newest
    BY HistoryAssumption DEF Log, Place, Newest
  <2> HIDE DEF page, rows
  <2>6. CASE req[r].append
    <3> DEFINE n == Len(list)
    <3>1. /\ n \in Nat /\ DOMAIN list = 1 .. n
          /\ DOMAIN list' = 1 .. n + Len(rows) /\ Len(rows) \in Nat /\ DOMAIN rows = 1 .. Len(rows)
          /\ \A i \in 1 .. n : list'[i] = list[i]
          /\ \A i \in 1 .. Len(rows) : n + i \in DOMAIN list' /\ list'[n + i] = rows[i]
          /\ \A i \in DOMAIN list' : i \in 1 .. n \/ (i > n /\ i - n \in 1 .. Len(rows) /\ list'[i] = rows[i - n])
      BY <1>1, <1>2, <1>3, <2>6
    <3>2. /\ req[r].from = cursor /\ Due(r) = known /\ known' = known /\ cursor' = req[r].next
          /\ req[r].next < req[r].from
      BY <1>1, <1>4, <2>1, <2>6 DEF Continues, Active, Due, FetchSound
    <3>3. /\ \A i \in DOMAIN list : list[i].place \in Nat
          /\ \A i \in DOMAIN page : page[i].place \in Nat
          /\ req[r].next \in Nat
      <4>1. \A i \in DOMAIN list : list[i] \in Row
        BY <1>2
      <4>2. \A i \in DOMAIN list : list[i].place \in Nat
        BY <4>1, HistoryAssumption DEF Row, Place
      <4>3. req[r].next \in Nat
        BY FetchTypes, HistoryAssumption DEF HistoryInv
      <4>4. QED
        BY <1>3, <2>5, <4>2, <4>3
    <3> HIDE DEF n
    <3>4. \A i \in 1 .. Len(rows) : rows[i].place < cursor /\ rows[i].place >= cursor'
      BY <1>3, <2>4, <3>1, <3>2
    <3>5. AboveCursor'
      BY <1>2, <2>1, <3>1, <3>2, <3>3, <3>4 DEF AboveCursor
    <3>6. Ordered'
      <4> SUFFICES ASSUME NEW i \in DOMAIN list', NEW j \in DOMAIN list', i < j
                   PROVE  list'[i].place > list'[j].place
        BY DEF Ordered
      <4>1. CASE j \in 1 .. n
        BY <2>1, <3>1, <4>1 DEF Ordered
      <4>2. CASE i \in 1 .. n /\ j > n
        <5>1. j - n \in 1 .. Len(rows) /\ list'[j] = rows[j - n] /\ list'[i] = list[i]
          BY <3>1, <4>2
        <5>2. list[i].place \in Nat /\ rows[j - n].place \in Nat /\ cursor \in Nat
          BY <1>2, <1>3, <3>1, <3>3, <4>2, <5>1
        <5>3. list[i].place >= cursor /\ rows[j - n].place < cursor
          BY <2>1, <3>1, <3>4, <4>2, <5>1 DEF AboveCursor
        <5>4. QED
          BY <5>1, <5>2, <5>3
      <4>3. CASE i > n /\ j > n
        <5>1. /\ i - n \in DOMAIN page /\ j - n \in DOMAIN page /\ i - n < j - n
              /\ list'[i] = rows[i - n] /\ list'[j] = rows[j - n]
          BY <1>3, <3>1, <4>3
        <5>2. page[i - n].place > page[j - n].place
          BY <1>4, <5>1 DEF Descending
        <5>3. QED
          BY <1>3, <5>1, <5>2
      <4>4. QED
        BY <3>1, <4>1, <4>2, <4>3
    <3>7. ASSUME NEW l \in known' \cap db', l.monitor \in alive', l.place >= cursor'
          PROVE  \E i \in DOMAIN list' : list'[i].place = l.place
      <4>1. l \in known \cap db /\ l.monitor \in alive /\ l.place \in Nat
        BY <1>1, <2>5, <3>2, <3>7 DEF HistoryInv, TypeOK
      <4>2. CASE l.place >= cursor
        <5>1. PICK i \in DOMAIN list : list[i].place = l.place
          BY <2>1, <4>1, <4>2 DEF Complete, Range
        <5>2. QED
          BY <3>1, <5>1
      <4>3. CASE l.place < cursor
        <5>1. PICK i \in DOMAIN page : page[i].place = l.place
          BY <2>4, <3>2, <3>7, <4>1, <4>3
        <5>2. QED
          BY <1>3, <3>1, <5>1
      <4>4. QED
        BY <1>2, <4>1, <4>2, <4>3
    <3>8. Complete'
      BY <3>7 DEF Complete, Range
    <3>9. QED
      BY <2>3, <3>5, <3>6, <3>8 DEF Shown
  <2>7. CASE ~req[r].append
    <3>1. /\ list' = rows /\ known' = req[r].base /\ cursor' = req[r].next
          /\ req[r].from = Newest /\ Due(r) = req[r].base
      BY <1>1, <2>1, <2>7 DEF Continues, Active, Due
    <3>2. AboveCursor' /\ Ordered'
      BY <1>3, <1>4, <2>4, <3>1 DEF AboveCursor, Ordered, Descending
    <3>3. ASSUME NEW l \in known' \cap db', l.monitor \in alive', l.place >= cursor'
          PROVE  \E i \in DOMAIN list' : list'[i].place = l.place
      <4>1. l \in req[r].base \cap db /\ l.monitor \in alive /\ l.place < Newest
        BY <1>1, <2>5, <3>1, <3>3 DEF HistoryInv, TypeOK
      <4>2. QED
        BY <1>3, <2>4, <3>1, <3>3, <4>1
    <3>4. Complete'
      BY <3>3 DEF Complete, Range
    <3>5. QED
      BY <2>3, <3>2, <3>4 DEF Shown
  <2>8. QED
    BY <2>6, <2>7
<1>8. QED
  BY <1>1, <1>5, <1>6, <1>7

\* A fetch that fails is forgotten.
LEMMA FetchFailsStep ==
  ASSUME HistoryInv, NEW r \in Reqs, FetchFails(r)
  PROVE  PlacesTaken' /\ (\A q \in Reqs : FetchSound(q)') /\ (apart => Shown)'
<1> USE DEF database
<1>1. /\ req' = [req EXCEPT ![r] = NoFetch]
      /\ UNCHANGED <<alive, db, written, list, cursor, known, apart>>
  BY DEF FetchFails
<1>2. NoFetch.base = {} /\ NoFetch.page = <<>> /\ NoFetch.next < NoFetch.from
  BY HistoryAssumption DEF NoFetch, Newest
<1>3. PlacesTaken' /\ \A q \in Reqs : FetchSound(q)'
  BY <1>1, <1>2, BlankStep
<1>4. req'[r] = NoFetch /\ \A q \in Reqs : q # r => req'[q] = req[q]
  BY <1>1 DEF HistoryInv, TypeOK
<1>5. \A q \in Reqs : Active(q)' => Active(q) /\ q # r
  BY <1>4 DEF Active, NoFetch
<1>6. (apart => Shown)'
  BY <1>1, <1>4, <1>5
  DEF HistoryInv, Shown, OneFetch, AboveCursor, Ordered, Complete, Continues, Newest
<1>7. QED
  BY <1>3, <1>6

\* A check writes its log at a new place; retention and deletes only take logs away.
LEMMA DatabaseSteps ==
  ASSUME HistoryInv,
         \/ \E m \in Monitors, n \in Place : WriteLog(m, n)
         \/ ExpireLog
         \/ \E m \in Monitors : AskDelete(m) \/ DeleteLogs(m) \/ DeleteMonitor(m)
  PROVE  PlacesTaken' /\ (\A q \in Reqs : FetchSound(q)') /\ (apart => Shown)'
<1> USE DEF database, dashboard
<1>1. ASSUME NEW m \in Monitors, NEW n \in Place, WriteLog(m, n)
      PROVE  PlacesTaken' /\ (\A q \in Reqs : FetchSound(q)') /\ (apart => Shown)'
  <2> DEFINE l == [place |-> n, monitor |-> m]
  <2>1. /\ n \notin written /\ written' = written \cup {n} /\ db' = db \cup {l}
        /\ UNCHANGED <<alive, req, list, cursor, known, apart>>
    BY <1>1 DEF WriteLog
  <2>2. l.place = n
    OBVIOUS
  <2> HIDE DEF l
  <2>3. Seen' \subseteq Seen \cup {l} /\ Unique({l})
    BY <2>1 DEF Seen, Unique
  <2>4. PlacesTaken'
    <3>1. \A k \in {l} : k.place \in written' /\ k.place \notin written
      BY <2>1, <2>2
    <3>2. written \subseteq written' /\ PlacesTaken
      BY <2>1 DEF HistoryInv
    <3>3. QED
      BY <2>3, <3>1, <3>2, SeenStep
  <2>5. QED
    BY <2>1, <2>2, <2>4, DatabaseStep
<1>2. ASSUME ExpireLog \/ \E m \in Monitors : AskDelete(m) \/ DeleteLogs(m) \/ DeleteMonitor(m)
      PROVE  PlacesTaken' /\ (\A q \in Reqs : FetchSound(q)') /\ (apart => Shown)'
  <2>1. /\ db' \subseteq db /\ alive' \subseteq alive
        /\ UNCHANGED <<written, req, list, cursor, known, apart>>
    BY <1>2 DEF ExpireLog, AskDelete, DeleteLogs, DeleteMonitor
  <2>2. Seen' \subseteq Seen
    BY <2>1 DEF Seen
  <2>3. PlacesTaken'
    BY <2>1, <2>2 DEF HistoryInv, PlacesTaken, Unique
  <2>4. QED
    BY <2>1, <2>3, DatabaseStep
<1>3. QED
  BY <1>1, <1>2

\* Every step keeps the invariant.
LEMMA HistoryStep == HistoryInv /\ [Next]_vars => HistoryInv'
<1> SUFFICES ASSUME HistoryInv, [Next]_vars PROVE HistoryInv'
  OBVIOUS
<1>1. TypeOK'
  BY TypedStep DEF HistoryInv
<1>2. CASE UNCHANGED vars
  BY <1>1, <1>2
  DEF HistoryInv, vars, PlacesTaken, Seen, Unique, FetchSound, Due, OneFetch, AboveCursor, Ordered,
      Complete, Continues, Active
<1>3. CASE Next
  <2>1. PlacesTaken' /\ (\A q \in Reqs : FetchSound(q)') /\ (apart => Shown)'
    BY <1>3, DatabaseSteps, DeletedStep, BeginStep, FindMonitorsStep, FindLogsStep, PopulateStep,
       ReceiveStep, FetchFailsStep
    DEF Next, Answering, Deleting
  <2>2. QED
    BY <1>1, <2>1 DEF HistoryInv, Shown
<1>4. QED
  BY <1>2, <1>3

\* The invariant holds of every state of a run.
LEMMA HistoryAlways == Spec => []HistoryInv
BY HistoryInit, HistoryStep, PTL DEF Spec

-----------------------------------------------------------------------------
(* The theorems *)

\* Every variable keeps its type, and no page is longer than the limit (getLogs).
THEOREM HistoryTypeCorrect == Spec => []TypeOK
<1>1. HistoryInv => TypeOK
  BY DEF HistoryInv
<1>2. QED
  BY <1>1, HistoryAlways, PTL

\* Unless two fetches overlapped, the pages shown follow one another without repeat or
\* gap, although logs are written, expired and deleted between them (fetchLogs, getLogs).
THEOREM PagesExact == Spec => []PagesAreExact
<1>1. HistoryInv => PagesAreExact
  BY DEF HistoryInv, PagesAreExact
<1>2. QED
  BY <1>1, HistoryAlways, PTL
=============================================================================
