--------------------------- MODULE DashboardProofs ---------------------------
(***************************************************************************)
(* Proofs about Dashboard, for any number of calls, monitors, edits and    *)
(* faults.                                                                 *)
(***************************************************************************)
EXTENDS Dashboard, SubsequenceProofs

(* What becomes of the calls in flight *)

\* The call goes on as it is, but may have met another, or lost its component.
Kept(a, b) ==
  /\ a.kind = b.kind /\ a.at = b.at /\ a.id = b.id /\ a.doc = b.doc /\ a.editing = b.editing
  /\ a.reply = b.reply /\ a.rows = b.rows
  /\ a.clean => b.clean
  /\ a.life = "mounted" => b.life = "mounted"

\* new has the calls of old in their order but those lost, and reads that no one waits
\* for; the components that made calls of these kinds may be gone.
Keeps(new, old, lost, kinds, pos) ==
  /\ pos \in [DOMAIN new -> DOMAIN old]
  /\ \A i, j \in DOMAIN new : pos[i] = pos[j] => i = j
  /\ \A i \in DOMAIN new :
       /\ Kept(new[i], old[pos[i]])
       /\ pos[i] \notin lost
       /\ old[pos[i]].kind \notin kinds => new[i].life = old[pos[i]].life
  /\ \A c \in DOMAIN old : c \notin lost /\ old[c].kind \notin Reads => \E i \in DOMAIN new : pos[i] = c

Forgets(new, old, lost, kinds) == \E pos : Keeps(new, old, lost, kinds, pos)

\* No call is lost when nothing happens.
LEMMA ForgetsNothing ==
  ASSUME NEW f \in Seq(CallState), NEW lost, lost \cap DOMAIN f = {}, NEW kinds
  PROVE  Forgets(f, f, lost, kinds)
<1> DEFINE pos == [i \in DOMAIN f |-> i]
<1>1. Keeps(f, f, lost, kinds, pos)
  BY DEF Keeps, Kept
<1>2. QED
  BY <1>1 DEF Forgets

\* First these are lost, then those.
LEMMA ForgetsBoth ==
  ASSUME NEW f, NEW g, NEW h, NEW lost, NEW kinds,
         Forgets(g, f, lost, {}), Forgets(h, g, {}, kinds)
  PROVE  Forgets(h, f, lost, kinds)
<1>1. PICK p : Keeps(g, f, lost, {}, p)
  BY DEF Forgets
<1>2. PICK q : Keeps(h, g, {}, kinds, q)
  BY DEF Forgets
<1> DEFINE pos == [i \in DOMAIN h |-> p[q[i]]]
<1>3. \A i \in DOMAIN h : q[i] \in DOMAIN g /\ pos[i] \in DOMAIN f /\ pos[i] = p[q[i]]
  BY <1>1, <1>2 DEF Keeps
<1>4. pos \in [DOMAIN h -> DOMAIN f]
  BY <1>3
<1> HIDE DEF pos
<1>5. \A i, j \in DOMAIN h : pos[i] = pos[j] => i = j
  BY <1>1, <1>2, <1>3 DEF Keeps
<1>6. ASSUME NEW i \in DOMAIN h
      PROVE  /\ Kept(h[i], f[pos[i]]) /\ pos[i] \notin lost
             /\ f[pos[i]].kind \notin kinds => h[i].life = f[pos[i]].life
  <2>1. Kept(h[i], g[q[i]]) /\ Kept(g[q[i]], f[pos[i]]) /\ pos[i] \notin lost
    BY <1>1, <1>2, <1>3 DEF Keeps
  <2>2. /\ g[q[i]].kind \notin kinds => h[i].life = g[q[i]].life
        /\ g[q[i]].life = f[pos[i]].life
    BY <1>1, <1>2, <1>3 DEF Keeps
  <2>3. QED
    BY <2>1, <2>2 DEF Kept
<1>7. ASSUME NEW c \in DOMAIN f, c \notin lost, f[c].kind \notin Reads
      PROVE  \E i \in DOMAIN h : pos[i] = c
  <2>1. PICK j \in DOMAIN g : p[j] = c
    BY <1>1, <1>7 DEF Keeps
  <2>2. g[j].kind = f[c].kind
    BY <1>1, <2>1 DEF Keeps, Kept
  <2>3. QED
    BY <1>2, <1>3, <1>7, <2>1, <2>2 DEF Keeps
<1>8. QED
  BY <1>4, <1>5, <1>6, <1>7 DEF Forgets, Keeps

\* The answer of a call is handled: it is the one that is lost.
LEMMA DoneSpec ==
  ASSUME call \in Seq(CallState), NEW c \in Calls
  PROVE  /\ Done(c) \in Seq(CallState) /\ Len(Done(c)) < Len(call)
         /\ Forgets(Done(c), call, {c}, {})
<1> DEFINE keep == Calls \ {c}
           q == Done(c)
<1>1. q = Subsequence(call, keep) /\ keep \in SUBSET (DOMAIN call)
  BY DEF Done, Calls
<1>2. q \in Seq(CallState) /\ Len(q) = Cardinality(keep)
  BY <1>1, SubsequenceSpec
<1>3. Len(q) < Len(call)
  <2>1. IsFiniteSet(1 .. Len(call)) /\ Cardinality(1 .. Len(call)) = Len(call)
    <3>1. 1 \in Int /\ Len(call) \in Nat
      OBVIOUS
    <3>2. QED
      BY <3>1, FS_Interval
  <2>2. Calls = 1 .. Len(call)
    BY DEF Calls
  <2>3. Cardinality(keep) = Cardinality(Calls) - 1
    BY <2>1, <2>2, FS_RemoveElement
  <2>4. QED
    BY <1>2, <2>1, <2>2, <2>3
<1> HIDE DEF q, keep
<1>4. PICK pos \in [DOMAIN q -> keep] :
           /\ \A k \in DOMAIN q : q[k] = call[pos[k]]
           /\ \A j, k \in DOMAIN q : j < k => pos[j] < pos[k]
           /\ \A i \in keep : \E k \in DOMAIN q : pos[k] = i
  BY <1>1, SubsequenceMap
<1>5. \A i, j \in DOMAIN q : pos[i] = pos[j] => i = j
  <2>1. \A i \in DOMAIN q : i \in Int /\ pos[i] \in Int
    BY <1>1, <1>2
  <2>2. QED
    BY <1>4, <2>1
<1>6. Keeps(q, call, {c}, {}, pos)
  BY <1>4, <1>5 DEF Keeps, Kept, Calls, keep
<1>7. QED
  BY <1>2, <1>3, <1>6 DEF Forgets, q

\* Components unmount: no call is lost but reads.
LEMMA DetachedSpec ==
  ASSUME NEW f \in Seq(CallState), NEW kinds, NEW life \in {"unmounted", "gone"}
  PROVE  /\ Detached(f, kinds, life) \in Seq(CallState) /\ Len(Detached(f, kinds, life)) <= Len(f)
         /\ Forgets(Detached(f, kinds, life), f, {}, kinds)
         /\ \A i \in DOMAIN Detached(f, kinds, life) :
              Detached(f, kinds, life)[i].kind \in kinds => Detached(f, kinds, life)[i].life = life
<1> DEFINE after == [c \in DOMAIN f |-> IF f[c].kind \in kinds
                                        THEN [f[c] EXCEPT !.life = life, !.clean = FALSE] ELSE f[c]]
           keep == {c \in DOMAIN f : ~(after[c].life = "gone" /\ after[c].kind \in Reads)}
           q == Detached(f, kinds, life)
<1>1. q = Subsequence(after, keep)
  BY DEF Detached
<1>2. \A c \in DOMAIN f : f[c] \in CallState
  OBVIOUS
<1>3. \A c \in DOMAIN f : /\ after[c] \in CallState /\ Kept(after[c], f[c])
                          /\ f[c].kind \notin kinds => after[c].life = f[c].life
                          /\ f[c].kind \in kinds => after[c].life = life
  BY <1>2 DEF CallState, Kept
<1>4. after \in Seq(CallState) /\ DOMAIN after = DOMAIN f /\ Len(after) = Len(f)
  <2>1. DOMAIN f = 1 .. Len(f) /\ Len(f) \in Nat
    OBVIOUS
  <2>2. after = [c \in 1 .. Len(f) |-> after[c]]
    BY <2>1
  <2> HIDE DEF after
  <2>3. QED
    BY <1>3, <2>1, <2>2
<1> HIDE DEF after
<1>5. keep \in SUBSET (DOMAIN after)
  BY <1>4
<1>6. \A c \in DOMAIN f : f[c].kind \notin Reads => c \in keep
  BY <1>3 DEF Kept
<1> HIDE DEF keep, q
<1>7. q \in Seq(CallState) /\ Len(q) <= Len(f)
  BY <1>1, <1>4, <1>5, SubsequenceSpec
<1>8. PICK pos \in [DOMAIN q -> keep] :
           /\ \A k \in DOMAIN q : q[k] = after[pos[k]]
           /\ \A j, k \in DOMAIN q : j < k => pos[j] < pos[k]
           /\ \A i \in keep : \E k \in DOMAIN q : pos[k] = i
  BY <1>1, <1>4, <1>5, SubsequenceMap
<1>9. \A i, j \in DOMAIN q : pos[i] = pos[j] => i = j
  <2>1. \A i \in DOMAIN q : i \in Int /\ pos[i] \in Int
    BY <1>4, <1>5, <1>7
  <2>2. QED
    BY <1>8, <2>1
<1>10. Keeps(q, f, {}, kinds, pos)
  BY <1>3, <1>4, <1>5, <1>6, <1>8, <1>9 DEF Keeps
<1>11. \A i \in DOMAIN q : q[i].kind \in kinds => q[i].life = life
  BY <1>3, <1>4, <1>5, <1>8 DEF Kept
<1>12. QED
  BY <1>7, <1>10, <1>11 DEF Forgets, q

\* A call is sent: the others may have met it.
LEMMA SendEffect ==
  ASSUME TypeOK, CanSend, NEW kind \in Kinds, NEW m \in Monitors \cup {None}, NEW v \in Versions,
         Send(kind, m, v)
  PROVE  LET n == Len(call) + 1 IN
         /\ call' \in Seq(CallState) /\ Len(call') <= MaxCalls
         /\ Calls' = Calls \cup {n} /\ n \notin Calls
         /\ \A c \in Calls : /\ Kept(call'[c], call[c]) /\ call'[c].life = call[c].life
                             /\ call'[c].clean => ~Conflict(call[c], call'[n])
         /\ call'[n].kind = kind /\ call'[n].id = m /\ call'[n].doc = v
         /\ call'[n].at = "sent" /\ call'[n].reply = "none" /\ call'[n].rows = <<>>
         /\ call'[n].life = "mounted"
         /\ kind = "delete" => call'[n].editing = ui.editing
         /\ call'[n].clean => \A c \in Calls : ~Conflict(call[c], call'[n])
<1> DEFINE n == Len(call) + 1
           new == [kind |-> kind, at |-> "sent", id |-> m, doc |-> v,
                   editing |-> IF kind = "delete" THEN ui.editing ELSE None,
                   auth |-> cookie /\ kind \notin Public, life |-> "mounted",
                   clean |-> \A c \in Calls : ~Conflict(call[c], [kind |-> kind, id |-> m]),
                   reply |-> "none", rows |-> <<>>]
           before == [c \in Calls |-> [call[c] EXCEPT !.clean = @ /\ ~Conflict(call[c], new)]]
<1>1. call' = Append(before, new)
  BY DEF Send
<1>2. call \in Seq(CallState) /\ DOMAIN call = 1 .. Len(call) /\ Len(call) \in Nat /\ Calls = 1 .. Len(call)
  BY DEF TypeOK, Calls
<1>3. new \in CallState
  <2>1. ui.editing \in Monitors \cup {None} /\ None \in Monitors \cup {None}
    BY DEF TypeOK, UiState
  <2>2. <<>> \in Seq(Row) /\ cookie \in BOOLEAN
    BY DEF TypeOK
  <2>3. QED
    BY <2>1, <2>2 DEF CallState
<1>4. /\ new.kind = kind /\ new.id = m /\ new.doc = v /\ new.at = "sent" /\ new.reply = "none"
      /\ new.rows = <<>> /\ new.life = "mounted" /\ (kind = "delete" => new.editing = ui.editing)
  OBVIOUS
<1>5. \A c \in Calls : Conflict(call[c], [kind |-> kind, id |-> m]) <=> Conflict(call[c], new)
  BY DEF Conflict
<1>6. new.clean => \A c \in Calls : ~Conflict(call[c], new)
  BY <1>5
<1> HIDE DEF new
<1>7. \A c \in Calls : /\ before[c] \in CallState /\ Kept(before[c], call[c])
                       /\ before[c].life = call[c].life
                       /\ before[c].clean => ~Conflict(call[c], new)
  <2> SUFFICES ASSUME NEW c \in Calls
               PROVE  /\ before[c] \in CallState /\ Kept(before[c], call[c])
                      /\ before[c].life = call[c].life
                      /\ before[c].clean => ~Conflict(call[c], new)
    OBVIOUS
  <2>1. call[c] \in CallState
    BY <1>2
  <2> DEFINE b == call[c].clean /\ ~Conflict(call[c], new)
  <2>2. before[c] = [call[c] EXCEPT !.clean = b] /\ b \in BOOLEAN
    BY <2>1 DEF CallState
  <2>3. b => call[c].clean /\ ~Conflict(call[c], new)
    OBVIOUS
  <2> HIDE DEF b, before
  <2>4. before[c] \in CallState /\ before[c].clean = b
    BY <2>1, <2>2 DEF CallState
  <2>5. /\ before[c].kind = call[c].kind /\ before[c].at = call[c].at /\ before[c].id = call[c].id
        /\ before[c].doc = call[c].doc /\ before[c].editing = call[c].editing
        /\ before[c].reply = call[c].reply /\ before[c].rows = call[c].rows
        /\ before[c].life = call[c].life
    BY <2>1, <2>2 DEF CallState
  <2>6. QED
    BY <2>3, <2>4, <2>5 DEF Kept
<1>8. before \in Seq(CallState) /\ Len(before) = Len(call)
  <2>1. before = [c \in 1 .. Len(call) |-> before[c]]
    BY <1>2
  <2> HIDE DEF before
  <2>2. QED
    BY <1>2, <1>7, <2>1
<1> HIDE DEF before
<1>9. /\ call' \in Seq(CallState) /\ Len(call') = n /\ call'[n] = new
      /\ \A c \in Calls : call'[c] = before[c]
  BY <1>1, <1>2, <1>3, <1>8
<1>10. Len(call') <= MaxCalls
  BY <1>2, <1>9, DashboardAssumption DEF CanSend
<1>11. Calls' = Calls \cup {n} /\ n \notin Calls
  BY <1>2, <1>9 DEF Calls
<1> HIDE DEF n
<1>12. QED
  BY <1>4, <1>6, <1>7, <1>9, <1>10, <1>11 DEF n

\* The server answers a call, or goes on with it.
Progress(a, b) ==
  /\ a.kind = b.kind /\ a.id = b.id /\ a.doc = b.doc /\ a.editing = b.editing
  /\ a.clean = b.clean /\ a.life = b.life

Serves(c) ==
  /\ call' \in Seq(CallState) /\ Len(call') = Len(call) /\ Calls' = Calls
  /\ \A d \in Calls : d # c => call'[d] = call[d]
  /\ Progress(call'[c], call[c])

\* An answer reaches its call and no other.
LEMMA ReplyEffect ==
  ASSUME TypeOK, NEW c \in Calls, NEW reply \in {"ok", "401", "failed"}, NEW rows \in Seq(Row),
         Reply(c, reply, rows)
  PROVE  /\ Serves(c)
         /\ call'[c].at = "answered" /\ call'[c].reply = reply /\ call'[c].rows = rows
<1>1. call \in Seq(CallState) /\ call[c] \in CallState /\ c \in DOMAIN call
  BY DEF TypeOK, Calls
<1> DEFINE f == [call[c] EXCEPT !.at = "answered", !.reply = reply, !.rows = rows, !.auth = FALSE]
<1>2. call' = [call EXCEPT ![c] = f]
  BY <1>1 DEF Reply
<1>3. f \in CallState
  BY <1>1 DEF CallState
<1>4. Progress(f, call[c]) /\ f.at = "answered" /\ f.reply = reply /\ f.rows = rows
  BY <1>1 DEF CallState, Progress
<1> HIDE DEF f
<1>5. QED
  BY <1>1, <1>2, <1>3, <1>4 DEF Serves, Calls

-----------------------------------------------------------------------------
(* The inductive invariant *)

\* What a call asks for and what it is answered: a change of a monitor is answered with
\* that monitor, a creation with the new one.
Formed(k) ==
  /\ k.at = "sent" => k.rows = <<>> /\ k.reply = "none"
  /\ k.at = "found" => k.kind = "register"
  /\ k.kind \in Changes => (k.doc = None <=> k.kind = "delete")
  /\ k.kind \in {"save", "interval", "delete"} =>
       k.id \in Monitors /\ \A i \in DOMAIN k.rows : k.rows[i].id = k.id
  /\ k.kind = "create" =>
       /\ k.id = None /\ Len(k.rows) <= 1
       /\ k.reply = "ok" => Len(k.rows) = 1
       /\ \A i \in DOMAIN k.rows : k.rows[i].doc = k.doc
  /\ k.id <= created
  /\ k.kind \in Changes \cup {"summary"} => \A i \in DOMAIN k.rows : k.rows[i].id <= created

AllFormed == \A c \in Calls : Formed(call[c])

\* The server and the page speak of monitors that have been created.
PageFormed ==
  /\ edits # 0
  /\ \A m \in Monitors : stored[m] # None => m <= created
  /\ page \notin {"dashboard", "demo"} => ~ui.open /\ panel = NoPanel
  /\ \A c \in Calls : Mounted(c) /\ call[c].kind \in PanelCalls => page = "dashboard"
  /\ page = "dashboard" => ui.editing <= created /\ \A i \in DOMAIN list : list[i].id <= created

\* A call is clean as long as it meets no other.
Alone == \A c, d \in Calls : call[c].clean /\ c # d => ~Conflict(call[c], call[d])

\* What a clean read has found is still so.
SummaryRight ==
  \A c \in InFlight({"summary"}) :
    call[c].clean /\ call[c].reply = "ok" => call[c].rows = StoredRows

StatusRight ==
  \A c \in InFlight({"status"}) :
    call[c].clean /\ call[c].reply = "ok" /\ call[c].rows # <<>> => linked

CallsInv == AllFormed /\ Alone /\ SummaryRight /\ StatusRight

\* A panel that says "on" will hear of a disconnection.
PanelRight ==
  panel.status = "on" /\ ~stray =>
    /\ linked \/ InFlight({"disconnect"}) # {}
    /\ \A d \in InFlight({"disconnect"}) : Mounted(d)

\* The calls that can close the editor were made by it, or while it was open.
DraftRight ==
  draft /\ ui.open =>
    \A c \in Calls : Mounted(c) =>
      /\ call[c].kind \in {"create", "save"} => call[c].id = ui.editing
      /\ call[c].kind = "delete" => call[c].editing = ui.editing

Listed(m) == \E i \in DOMAIN list : list[i].id = m

\* The answer of a clean change finds its row, ...
ChangeFinds(c) ==
  call[c].clean =>
    /\ call[c].at = "sent" /\ stored[call[c].id] # None => Listed(call[c].id)
    /\ call[c].reply = "ok" => Listed(call[c].id) /\ stored[call[c].id] = call[c].doc

\* ... and that of a creation brings a row that no one knows yet.
CreateNew(c) ==
  call[c].rows # <<>> =>
    LET k == call[c].rows[1].id IN
    /\ ~Listed(k) /\ ui.editing # k /\ stored[k] = call[c].doc
    /\ \A d \in InFlight(Changes) : d # c =>
         call[d].id # k /\ \A i \in DOMAIN call[d].rows : call[d].rows[i].id # k

\* The list is the server's but for the changes in flight, which will set it right.
ListRight ==
  page = "dashboard" /\ ~mixed =>
    /\ \A i, j \in DOMAIN list : list[i].id = list[j].id => i = j
    /\ \A m \in Monitors : Changing(m) \/ ListOf(m)
    /\ \A c \in InFlight(Changes) : Mounted(c)
    /\ \A c \in InFlight({"save", "interval", "delete"}) : ChangeFinds(c)
    /\ \A c \in InFlight({"create"}) : CreateNew(c)

DashboardInv == TypeOK /\ CallsInv /\ PageFormed /\ PanelRight /\ DraftRight /\ ListRight

-----------------------------------------------------------------------------
(* Types *)

CallTyped == call \in Seq(CallState) /\ Len(call) <= MaxCalls
ServerTyped == /\ stored \in [Monitors -> Versions] /\ created \in 0 .. MaxMonitors
               /\ account \in BOOLEAN /\ linked \in BOOLEAN /\ link \in BOOLEAN
PageTyped == /\ page \in {"auth", "dashboard", "demo", "away"} /\ list \in Seq(Row)
             /\ ui \in UiState /\ panel \in PanelState /\ submitting \in BOOLEAN
             /\ mixed \in BOOLEAN /\ stray \in BOOLEAN /\ draft \in BOOLEAN
RestTyped == cookie \in BOOLEAN /\ edits \in Versions /\ faults \in 0 .. MaxFaults

\* The fields of a call in flight.
LEMMA CallFields ==
  ASSUME call \in Seq(CallState), NEW c \in Calls
  PROVE  /\ call[c] \in CallState /\ call[c].kind \in Kinds /\ call[c].rows \in Seq(Row)
         /\ call[c].id \in Monitors \cup {None} /\ call[c].doc \in Versions
         /\ call[c].editing \in Monitors \cup {None}
         /\ call[c].at \in {"sent", "found", "answered"}
         /\ call[c].reply \in {"none", "ok", "401", "failed"}
         /\ call[c].life \in {"mounted", "unmounted", "gone"}
         /\ \A i \in DOMAIN call[c].rows :
              call[c].rows[i] \in Row /\ call[c].rows[i].id \in Monitors /\ call[c].rows[i].doc \in Versions
         /\ call[c].rows # <<>> => 1 \in DOMAIN call[c].rows
<1>1. call[c] \in CallState
  BY DEF Calls
<1>2. call[c].rows \in Seq(Row)
  BY <1>1 DEF CallState
<1>3. \A i \in DOMAIN call[c].rows : call[c].rows[i] \in Row
  BY <1>2
<1>4. call[c].rows # <<>> => 1 \in DOMAIN call[c].rows
  BY <1>2
<1>5. QED
  BY <1>1, <1>2, <1>3, <1>4 DEF CallState, Row

\* The state of a page that has just been mounted.
LEMMA FreshTyped ==
  /\ FreshUi \in UiState /\ NoPanel \in PanelState /\ NewPanel \in PanelState
  /\ <<>> \in Seq(Row) /\ demoMonitors \in Seq(Row)
  /\ \A b \in BOOLEAN : [FreshUi EXCEPT !.loading = b] \in UiState
  /\ \A b \in BOOLEAN : ~[FreshUi EXCEPT !.loading = b].open /\ [FreshUi EXCEPT !.loading = b].editing = None
  /\ NoPanel.status = "unknown" /\ NewPanel.status = "unknown"
<1>1. 1 \in Monitors /\ None \in Versions /\ None \in Monitors \cup {None}
  BY DashboardAssumption DEF Monitors, Versions, None
<1>2. demoMonitors \in Seq(Row)
  BY <1>1 DEF demoMonitors, Row
<1>3. FreshUi \in UiState /\ \A b \in BOOLEAN : [FreshUi EXCEPT !.loading = b] \in UiState
  BY <1>1 DEF FreshUi, UiState
<1>4. \A b \in BOOLEAN : ~[FreshUi EXCEPT !.loading = b].open /\ [FreshUi EXCEPT !.loading = b].editing = None
  BY DEF FreshUi
<1>5. /\ NoPanel \in PanelState /\ NewPanel \in PanelState
      /\ NoPanel.status = "unknown" /\ NewPanel.status = "unknown"
  BY DEF NoPanel, NewPanel, PanelState
<1>6. QED
  BY <1>2, <1>3, <1>4, <1>5

\* Another page, with the calls of f that are not lost.
LEMMA EnterEffect ==
  ASSUME NEW f \in Seq(CallState), Len(f) <= MaxCalls,
         NEW to \in {"auth", "dashboard", "demo", "away"}, NEW life \in {"unmounted", "gone"},
         Enter(to, f, life)
  PROVE  /\ CallTyped' /\ PageTyped' /\ Forgets(call', f, {}, Kinds)
         /\ page' = to /\ ~ui'.open /\ ui'.editing = None /\ panel' = NoPanel
         /\ to = "dashboard" => mixed' /\ list' = <<>>
         /\ \A i \in Calls' : ~Mounted(i)'
<1>0. /\ call' \in Seq(CallState) /\ Len(call') <= Len(f) /\ Forgets(call', f, {}, Kinds)
      /\ \A i \in DOMAIN call' : call'[i].kind \in Kinds => call'[i].life = life
  BY DetachedSpec DEF Enter
<1>1. /\ call' \in Seq(CallState) /\ Len(call') <= Len(f) /\ Forgets(call', f, {}, Kinds)
      /\ \A i \in Calls' : ~Mounted(i)'
  <2>1. \A i \in DOMAIN call' : call'[i] \in CallState
    BY <1>0
  <2>2. \A i \in DOMAIN call' : call'[i].kind \in Kinds
    BY <2>1 DEF CallState
  <2>3. QED
    BY <1>0, <2>2 DEF Calls, Mounted
<1>2. CallTyped'
  <2>1. Len(call') \in Nat /\ Len(f) \in Nat /\ MaxCalls \in Nat
    BY <1>1, DashboardAssumption
  <2>2. QED
    BY <1>1, <2>1 DEF CallTyped
<1>3. list' \in Seq(Row) /\ panel' \in PanelState
  BY FreshTyped DEF Enter
<1>4. ui' \in UiState /\ ~ui'.open /\ ui'.editing = None
  <2>1. (to # "demo") \in BOOLEAN /\ ui' = [FreshUi EXCEPT !.loading = to # "demo"]
    BY DEF Enter
  <2>2. QED
    BY <2>1, FreshTyped
<1>5. PageTyped'
  BY <1>3, <1>4 DEF Enter, PageTyped
<1>6. QED
  BY <1>1, <1>2, <1>4, <1>5 DEF Enter

-----------------------------------------------------------------------------
(* The invariant while calls are forgotten *)

\* A call in flight is one that was, and a change in flight still is.
LEMMA ForgetFacts ==
  ASSUME NEW lost, NEW kinds, Forgets(call', call, lost, kinds)
  PROVE  /\ \A i \in Calls' : \E c \in Calls \ lost :
              Kept(call'[i], call[c]) /\ (call[c].kind \notin kinds => call'[i].life = call[c].life)
         /\ \A c \in Calls \ lost : call[c].kind \notin Reads => \E i \in Calls' : Kept(call'[i], call[c])
<1>1. PICK pos : Keeps(call', call, lost, kinds, pos)
  BY DEF Forgets
<1>2. QED
  BY <1>1 DEF Keeps, Calls

\* What the calls are good for does not depend on those that are gone.
LEMMA CallsForget ==
  ASSUME TypeOK, CallsInv, NEW lost, NEW kinds, Forgets(call', call, lost, kinds),
         UNCHANGED <<stored, created>>, linked => linked'
  PROVE  CallsInv'
<1>1. PICK pos : Keeps(call', call, lost, kinds, pos)
  BY DEF Forgets
<1>2. \A i \in Calls' : pos[i] \in Calls /\ Kept(call'[i], call[pos[i]])
  BY <1>1 DEF Keeps, Calls
<1>3. \A i, j \in Calls' : i # j => pos[i] # pos[j]
  BY <1>1 DEF Keeps, Calls
<1>4. AllFormed'
  BY <1>2 DEF CallsInv, AllFormed, Formed, Kept
<1>5. Alone'
  BY <1>2, <1>3 DEF CallsInv, Alone, Conflict, Kept
<1>6. StoredRows' = StoredRows
  BY DEF StoredRows
<1>7. SummaryRight'
  BY <1>2, <1>6 DEF CallsInv, SummaryRight, InFlight, Kept
<1>8. StatusRight'
  BY <1>2 DEF CallsInv, StatusRight, InFlight, Kept
<1>9. QED
  BY <1>4, <1>5, <1>7, <1>8 DEF CallsInv

\* The panel may forget what is not a disconnection that it waits for.
LEMMA PanelForget ==
  ASSUME TypeOK, PanelRight, NEW lost, NEW kinds, Forgets(call', call, lost, kinds),
         \A c \in lost \cap Calls : call[c].kind # "disconnect" \/ ~Mounted(c),
         "disconnect" \notin kinds,
         panel'.status = "on" /\ ~stray' => panel.status = "on" /\ ~stray, linked => linked'
  PROVE  PanelRight'
<1> SUFFICES ASSUME panel.status = "on", ~stray PROVE PanelRight'
  BY DEF PanelRight
<1>1. \A d \in InFlight({"disconnect"}) : Mounted(d) /\ d \notin lost
  BY DEF PanelRight, InFlight
<1>2. \A d \in InFlight({"disconnect"})' : Mounted(d)'
  BY <1>1, ForgetFacts DEF InFlight, Mounted, Kept
<1>3. InFlight({"disconnect"}) # {} => InFlight({"disconnect"})' # {}
  BY <1>1, ForgetFacts DEF InFlight, Kept, Reads
<1>4. QED
  BY <1>2, <1>3 DEF PanelRight

\* Forgetting calls throws away no draft.
LEMMA DraftForget ==
  ASSUME TypeOK, DraftRight, NEW lost, NEW kinds, Forgets(call', call, lost, kinds),
         draft' /\ ui'.open => draft /\ ui.open /\ ui'.editing = ui.editing
  PROVE  DraftRight'
BY ForgetFacts DEF DraftRight, Mounted, Kept

\* The list may forget what is not a change that it waits for.
LEMMA ListForget ==
  ASSUME TypeOK, AllFormed, ListRight, NEW lost, NEW kinds, Forgets(call', call, lost, kinds),
         \A c \in lost \cap Calls : call[c].kind \notin Changes \/ ~Mounted(c),
         kinds \cap Changes = {}, UNCHANGED <<stored, list>>,
         page' = "dashboard" /\ ~mixed' => page = "dashboard" /\ ~mixed,
         ui'.editing \in {ui.editing, None} \/ Listed(ui'.editing)
  PROVE  ListRight'
<1> SUFFICES ASSUME page = "dashboard", ~mixed PROVE ListRight'
  BY DEF ListRight
<1>1. PICK pos : Keeps(call', call, lost, kinds, pos)
  BY DEF Forgets
<1>2. /\ \A i \in Calls' : pos[i] \in Calls /\ Kept(call'[i], call[pos[i]])
      /\ \A i \in Calls' : call[pos[i]].kind \in Changes => call'[i].life = call[pos[i]].life
      /\ \A i, j \in Calls' : i # j => pos[i] # pos[j]
  BY <1>1 DEF Keeps, Calls
<1>3. \A c \in InFlight(Changes) : \E i \in InFlight(Changes)' : pos[i] = c
  <2>1. \A c \in InFlight(Changes) : Mounted(c) /\ c \in Calls /\ call[c].kind \in Changes
    BY DEF ListRight, InFlight
  <2>2. \A c \in InFlight(Changes) : c \notin lost /\ call[c].kind \notin Reads
    BY <2>1 DEF Changes, Reads
  <2>3. \A c \in InFlight(Changes) : \E i \in Calls' : pos[i] = c
    BY <1>1, <2>1, <2>2 DEF Keeps, Calls
  <2>4. QED
    BY <1>2, <2>1, <2>3 DEF InFlight, Kept
<1>4. \A m \in Monitors : Changing(m) => Changing(m)'
  <2> SUFFICES ASSUME NEW m \in Monitors, Changing(m) PROVE Changing(m)'
    OBVIOUS
  <2>1. PICK c \in InFlight(Changes) :
          call[c].id = m \/ \E i \in DOMAIN call[c].rows : call[c].rows[i].id = m
    BY DEF Changing
  <2>2. PICK i \in InFlight(Changes)' : pos[i] = c
    BY <1>3
  <2>3. Kept(call'[i], call[c])
    BY <1>2, <2>2 DEF InFlight
  <2>4. QED
    BY <2>1, <2>2, <2>3 DEF Changing, Kept
<1>5. \A m \in Monitors : ListOf(m) => ListOf(m)'
  BY DEF ListOf, Shown, StoredRow
<1>6. \A m : Listed(m)' <=> Listed(m)
  BY DEF Listed
<1>7. \A c \in InFlight({"save", "interval", "delete"})' : ChangeFinds(c)'
  BY <1>2, <1>6 DEF ListRight, InFlight, ChangeFinds, Kept
<1>8. ASSUME NEW c \in InFlight({"create"})' PROVE CreateNew(c)'
  <2> SUFFICES ASSUME call'[c].rows # <<>> PROVE CreateNew(c)'
    BY DEF CreateNew
  <2> DEFINE k == call[pos[c]].rows[1].id
  <2>1. c \in Calls' /\ pos[c] \in InFlight({"create"}) /\ Kept(call'[c], call[pos[c]])
    BY <1>2 DEF InFlight, Kept
  <2>2. CreateNew(pos[c]) /\ call[pos[c]].rows # <<>> /\ k = call'[c].rows[1].id
    BY <2>1 DEF ListRight, Kept
  <2>3. k \in Monitors
    <3>1. pos[c] \in Calls /\ call \in Seq(CallState)
      BY <2>1 DEF TypeOK, InFlight
    <3>2. QED
      BY <2>2, <3>1, CallFields
  <2> HIDE DEF k
  <2>4. ~Listed(k) /\ ui.editing # k /\ stored[k] = call[pos[c]].doc
    BY <2>2 DEF CreateNew, k
  <2>5. ui'.editing # k
    BY <2>3, <2>4 DEF Monitors, None
  <2>6. ASSUME NEW d \in InFlight(Changes)', d # c
        PROVE  call'[d].id # k /\ \A i \in DOMAIN call'[d].rows : call'[d].rows[i].id # k
    <3>1. pos[d] \in InFlight(Changes) /\ pos[d] # pos[c] /\ Kept(call'[d], call[pos[d]])
      BY <1>2, <2>1, <2>6 DEF InFlight, Kept
    <3>2. call[pos[d]].id # k /\ \A i \in DOMAIN call[pos[d]].rows : call[pos[d]].rows[i].id # k
      BY <2>2, <3>1 DEF CreateNew, k
    <3>3. QED
      BY <3>1, <3>2 DEF Kept
  <2>7. QED
    BY <1>6, <2>1, <2>2, <2>4, <2>5, <2>6 DEF CreateNew, Kept
<1>9. \A c \in InFlight(Changes)' : Mounted(c)'
  BY <1>2 DEF ListRight, InFlight, Mounted, Kept
<1>10. \A i, j \in DOMAIN list' : list'[i].id = list'[j].id => i = j
  BY DEF ListRight
<1>11. QED
  BY <1>4, <1>5, <1>7, <1>8, <1>9, <1>10 DEF ListRight

-----------------------------------------------------------------------------
(* The invariant while a call is sent *)

\* A new call meets those in flight, and no other.
LEMMA CallsSend ==
  ASSUME TypeOK, CallsInv, CanSend, NEW kind \in Kinds, NEW m \in Monitors \cup {None},
         NEW v \in Versions, Send(kind, m, v), UNCHANGED server, m <= created,
         kind \in Changes => (v = None <=> kind = "delete"),
         kind \in {"save", "interval", "delete"} => m \in Monitors,
         kind = "create" => m = None
  PROVE  CallsInv'
<1>0. PICK n : n = Len(call) + 1
  OBVIOUS
<1>1. /\ Calls' = Calls \cup {n} /\ n \notin Calls
      /\ \A c \in Calls : /\ Kept(call'[c], call[c])
                          /\ call'[c].clean => ~Conflict(call[c], call'[n])
      /\ call'[n].kind = kind /\ call'[n].id = m /\ call'[n].doc = v
      /\ call'[n].at = "sent" /\ call'[n].reply = "none" /\ call'[n].rows = <<>>
      /\ call'[n].clean => \A c \in Calls : ~Conflict(call[c], call'[n])
  BY <1>0, SendEffect
<1>2. UNCHANGED <<stored, created, linked>>
  BY DEF server
<1>3. AllFormed'
  <2>1. \A c \in Calls : Formed(call[c])'
    BY <1>1, <1>2 DEF CallsInv, AllFormed, Formed, Kept
  <2>2. DOMAIN call'[n].rows = {} /\ Len(call'[n].rows) = 0
    BY <1>1
  <2>3. Formed(call[n])'
    BY <1>1, <1>2, <2>2 DEF Formed
  <2>4. QED
    BY <1>1, <2>1, <2>3 DEF AllFormed
<1>4. Alone'
  <2>1. \A c, d \in Calls : Conflict(call'[c], call'[d]) <=> Conflict(call[c], call[d])
    BY <1>1 DEF Kept, Conflict
  <2>2. \A c \in Calls : /\ Conflict(call'[c], call'[n]) <=> Conflict(call[c], call'[n])
                         /\ Conflict(call'[n], call'[c]) <=> Conflict(call[c], call'[n])
    BY <1>1 DEF Kept, Conflict
  <2>3. \A c \in Calls : call'[c].clean => call[c].clean
    BY <1>1 DEF Kept
  <2>4. QED
    BY <1>1, <2>1, <2>2, <2>3 DEF CallsInv, Alone
<1>5. StoredRows' = StoredRows
  BY <1>2 DEF StoredRows
<1>6. SummaryRight'
  BY <1>1, <1>5 DEF CallsInv, SummaryRight, InFlight, Kept
<1>7. StatusRight'
  BY <1>1, <1>2 DEF CallsInv, StatusRight, InFlight, Kept
<1>8. QED
  BY <1>3, <1>4, <1>6, <1>7 DEF CallsInv

\* A new call leaves the panel right.
LEMMA PanelSend ==
  ASSUME TypeOK, PanelRight, CanSend, NEW kind \in Kinds, NEW m \in Monitors \cup {None},
         NEW v \in Versions, Send(kind, m, v), UNCHANGED <<linked, stray>>,
         panel'.status = panel.status
  PROVE  PanelRight'
<1>0. PICK n : n = Len(call) + 1
  OBVIOUS
<1>1. /\ Calls' = Calls \cup {n}
      /\ \A c \in Calls : Kept(call'[c], call[c]) /\ call'[c].life = call[c].life
      /\ call'[n].life = "mounted"
  BY <1>0, SendEffect
<1>2. QED
  BY <1>1 DEF PanelRight, InFlight, Mounted, Kept

\* A new save or deletion is of the draft, or remembers it.
LEMMA DraftSend ==
  ASSUME TypeOK, DraftRight, CanSend, NEW kind \in Kinds, NEW m \in Monitors \cup {None},
         NEW v \in Versions, Send(kind, m, v), UNCHANGED draft,
         ui'.open = ui.open, ui'.editing = ui.editing,
         kind \in {"create", "save"} => m = ui.editing
  PROVE  DraftRight'
<1>0. PICK n : n = Len(call) + 1
  OBVIOUS
<1>1. /\ Calls' = Calls \cup {n}
      /\ \A c \in Calls : Kept(call'[c], call[c])
      /\ call'[n].kind = kind /\ call'[n].id = m
      /\ kind = "delete" => call'[n].editing = ui.editing
  BY <1>0, SendEffect
<1>2. QED
  BY <1>1 DEF DraftRight, Mounted, Kept

\* A change is asked of a row that is shown; a save may come after the row is gone.
LEMMA ListSend ==
  ASSUME TypeOK, CallsInv, ListRight, CanSend, NEW kind \in Kinds, NEW m \in Monitors \cup {None},
         NEW v \in Versions, Send(kind, m, v), UNCHANGED <<stored, page, list, mixed>>,
         ui'.editing = ui.editing,
         kind = "create" => m = None, kind = "save" => m = ui.editing /\ m # None,
         kind \in {"interval", "delete"} => Listed(m)
  PROVE  ListRight'
<1> SUFFICES ASSUME page = "dashboard", ~mixed PROVE ListRight'
  BY DEF ListRight
<1>0. PICK n : n = Len(call) + 1
  OBVIOUS
<1>1. /\ Calls' = Calls \cup {n} /\ n \notin Calls
      /\ \A c \in Calls : Kept(call'[c], call[c]) /\ call'[c].life = call[c].life
      /\ call'[n].kind = kind /\ call'[n].id = m
      /\ call'[n].reply = "none" /\ call'[n].rows = <<>> /\ call'[n].life = "mounted"
      /\ call'[n].clean => \A c \in Calls : ~Conflict(call[c], call'[n])
  BY <1>0, SendEffect
<1>2. \A i, j \in DOMAIN list' : list'[i].id = list'[j].id => i = j
  BY DEF ListRight
<1>3. \A k : Listed(k)' <=> Listed(k)
  BY DEF Listed
<1>4. \A k \in Monitors : Changing(k)' \/ ListOf(k)'
  <2>1. \A k \in Monitors : Changing(k) => Changing(k)'
    BY <1>1 DEF Changing, InFlight, Kept
  <2>2. \A k \in Monitors : ListOf(k) => ListOf(k)'
    BY DEF ListOf, Shown, StoredRow
  <2>3. QED
    BY <2>1, <2>2 DEF ListRight
<1>5. \A c \in InFlight(Changes)' : Mounted(c)'
  BY <1>1 DEF ListRight, InFlight, Mounted, Kept
<1>6. ASSUME kind = "save", call'[n].clean, stored[m] # None PROVE Listed(m)
  <2>1. m \in Monitors /\ m = ui.editing
    BY <1>6
  <2>2. ~Changing(m)
    <3> SUFFICES ASSUME NEW c \in InFlight(Changes),
                        call[c].id = m \/ \E i \in DOMAIN call[c].rows : call[c].rows[i].id = m
                 PROVE  FALSE
      BY DEF Changing
    <3>1. c \in Calls /\ call[c].kind \in Changes /\ Formed(call[c]) /\ call \in Seq(CallState)
      BY DEF InFlight, CallsInv, AllFormed, TypeOK
    <3>2. call[c].id # m
      BY <1>1, <1>6, <3>1 DEF Conflict, Changes
    <3>3. PICK i \in DOMAIN call[c].rows : call[c].rows[i].id = m
      BY <3>2
    <3>4. call[c].kind = "create"
      BY <3>1, <3>2, <3>3 DEF Formed, Changes
    <3>5. i = 1 /\ call[c].rows # <<>>
      <4>1. call[c].rows \in Seq(Row) /\ Len(call[c].rows) <= 1
        BY <3>1, <3>4, CallFields DEF Formed
      <4>2. QED
        BY <3>3, <4>1
    <3>6. QED
      BY <2>1, <3>1, <3>3, <3>4, <3>5 DEF ListRight, InFlight, CreateNew
  <2>3. ListOf(m)
    BY <2>1, <2>2 DEF ListRight
  <2>4. QED
    BY <1>6, <2>3 DEF ListOf, Shown, StoredRow, Listed
<1>7. \A c \in InFlight({"save", "interval", "delete"})' : ChangeFinds(c)'
  <2>1. ASSUME NEW c \in Calls, c \in InFlight({"save", "interval", "delete"})' PROVE ChangeFinds(c)'
    BY <1>1, <1>3, <2>1 DEF ListRight, InFlight, ChangeFinds, Kept
  <2>2. ASSUME n \in InFlight({"save", "interval", "delete"})' PROVE ChangeFinds(n)'
    BY <1>1, <1>3, <1>6, <2>2 DEF InFlight, ChangeFinds
  <2>3. QED
    BY <1>1, <2>1, <2>2 DEF InFlight
<1>8. ASSUME NEW c \in InFlight({"create"})' PROVE CreateNew(c)'
  <2> SUFFICES ASSUME call'[c].rows # <<>> PROVE CreateNew(c)'
    BY DEF CreateNew
  <2> DEFINE k == call[c].rows[1].id
  <2>1. c \in Calls /\ c \in InFlight({"create"}) /\ Kept(call'[c], call[c])
    BY <1>1 DEF InFlight, Kept
  <2>2. CreateNew(c) /\ call[c].rows # <<>> /\ k = call'[c].rows[1].id
    BY <2>1 DEF ListRight, Kept
  <2>3. k \in Monitors
    BY <2>1, <2>2, CallFields DEF TypeOK
  <2> HIDE DEF k
  <2>4. ~Listed(k) /\ ui.editing # k /\ stored[k] = call[c].doc
    BY <2>2 DEF CreateNew, k
  <2>5. kind \in Changes => m # k
    BY <2>3, <2>4 DEF Changes, Monitors, None
  <2>6. ASSUME NEW d \in InFlight(Changes)', d # c
        PROVE  call'[d].id # k /\ \A i \in DOMAIN call'[d].rows : call'[d].rows[i].id # k
    <3>1. CASE d = n
      BY <1>1, <2>5, <2>6, <3>1 DEF InFlight
    <3>2. CASE d \in Calls
      <4>1. d \in InFlight(Changes) /\ Kept(call'[d], call[d])
        BY <1>1, <2>6, <3>2 DEF InFlight, Kept
      <4>2. call[d].id # k /\ \A i \in DOMAIN call[d].rows : call[d].rows[i].id # k
        BY <2>2, <2>6, <4>1 DEF CreateNew, k
      <4>3. QED
        BY <4>1, <4>2 DEF Kept
    <3>3. QED
      BY <1>1, <3>1, <3>2 DEF InFlight
  <2>7. QED
    BY <1>3, <2>1, <2>2, <2>4, <2>6 DEF CreateNew, Kept
<1>9. QED
  BY <1>2, <1>4, <1>5, <1>7, <1>8 DEF ListRight

-----------------------------------------------------------------------------
(* The invariant while the server answers a call *)

\* What the server does to one call agrees with the clean ones.
LEMMA CallsServe ==
  ASSUME TypeOK, CallsInv, NEW c \in Calls, Serves(c), created <= created', created' \in Nat,
         Formed(call[c])',
         StoredRows' = StoredRows \/ call[c].kind \in Changes,
         linked' = linked \/ call[c].kind = "disconnect",
         call[c].kind = "summary" /\ call'[c].reply = "ok" => call'[c].rows = StoredRows',
         call[c].kind = "status" /\ call'[c].reply = "ok" /\ call'[c].rows # <<>> => linked'
  PROVE  CallsInv'
<1>1. /\ Calls' = Calls /\ \A d \in Calls : d # c => call'[d] = call[d]
      /\ \A d \in Calls : Progress(call'[d], call[d])
  BY DEF Serves, Progress
<1>2. AllFormed'
  <2>1. ASSUME NEW d \in Calls, d # c PROVE Formed(call[d])'
    <3>1. call'[d] = call[d] /\ Formed(call[d])
      BY <1>1, <2>1 DEF CallsInv, AllFormed
    <3>2. created \in Nat /\ call[d].id \in Nat /\ \A i \in DOMAIN call[d].rows : call[d].rows[i].id \in Nat
      BY CallFields DEF TypeOK, Monitors, None
    <3>3. QED
      BY <3>1, <3>2 DEF Formed
  <2>2. QED
    BY <1>1, <2>1 DEF AllFormed
<1>3. Alone'
  BY <1>1 DEF CallsInv, Alone, Progress, Conflict
<1>4. SummaryRight'
  <2> SUFFICES ASSUME NEW d \in Calls, call'[d].kind = "summary", call'[d].clean, call'[d].reply = "ok"
               PROVE  call'[d].rows = StoredRows'
    BY <1>1 DEF SummaryRight, InFlight
  <2>1. call[d].kind = "summary" /\ call[d].clean
    BY <1>1 DEF Progress
  <2>2. CASE d = c
    BY <2>1, <2>2
  <2>3. CASE d # c
    <3>1. ~Conflict(call[d], call[c])
      BY <2>1, <2>3 DEF CallsInv, Alone
    <3>2. StoredRows' = StoredRows
      BY <2>1, <3>1 DEF Conflict
    <3>3. QED
      BY <1>1, <2>1, <2>3, <3>2 DEF CallsInv, SummaryRight, InFlight
  <2>4. QED
    BY <2>2, <2>3
<1>5. StatusRight'
  <2> SUFFICES ASSUME NEW d \in Calls, call'[d].kind = "status", call'[d].clean, call'[d].reply = "ok",
                      call'[d].rows # <<>>
               PROVE  linked'
    BY <1>1 DEF StatusRight, InFlight
  <2>1. call[d].kind = "status" /\ call[d].clean
    BY <1>1 DEF Progress
  <2>2. CASE d = c
    BY <2>1, <2>2
  <2>3. CASE d # c
    <3>1. ~Conflict(call[d], call[c])
      BY <2>1, <2>3 DEF CallsInv, Alone
    <3>2. linked' = linked
      BY <2>1, <3>1 DEF Conflict
    <3>3. QED
      BY <1>1, <2>1, <2>3, <3>2 DEF CallsInv, StatusRight, InFlight
  <2>4. QED
    BY <2>2, <2>3
<1>6. QED
  BY <1>2, <1>3, <1>4, <1>5 DEF CallsInv

\* Telegram is unlinked by a disconnection only, which the panel waits for.
LEMMA PanelServe ==
  ASSUME TypeOK, PanelRight, NEW c \in Calls, Serves(c), UNCHANGED <<panel, stray>>,
         linked' = linked \/ call[c].kind = "disconnect"
  PROVE  PanelRight'
<1>1. InFlight({"disconnect"})' = InFlight({"disconnect"}) /\ \A d \in Calls : Mounted(d)' <=> Mounted(d)
  BY DEF Serves, Progress, InFlight, Mounted
<1>2. linked' = linked \/ InFlight({"disconnect"}) # {}
  BY DEF InFlight
<1>3. QED
  BY <1>1, <1>2 DEF PanelRight, InFlight

\* The server does not touch the draft.
LEMMA DraftServe ==
  ASSUME TypeOK, DraftRight, NEW c \in Calls, Serves(c), UNCHANGED <<draft, ui>>
  PROVE  DraftRight'
BY DEF DraftRight, Serves, Progress, Mounted

\* An answer that is not good for the list.
LEMMA ListServe ==
  ASSUME TypeOK, ListRight, NEW c \in Calls, Serves(c), UNCHANGED <<stored, page, list, mixed, ui>>,
         call[c].kind \in Changes =>
           call'[c].rows = call[c].rows /\ call'[c].at = "answered" /\ call'[c].reply # "ok"
  PROVE  ListRight'
<1> SUFFICES ASSUME page = "dashboard", ~mixed PROVE ListRight'
  BY DEF ListRight
<1>1. /\ Calls' = Calls /\ \A d \in Calls : d # c => call'[d] = call[d]
      /\ \A d \in Calls : Progress(call'[d], call[d])
      /\ \A d \in Calls : call[d].kind \in Changes => call'[d].rows = call[d].rows
  BY DEF Serves, Progress
<1>2. \A kinds : InFlight(kinds)' = InFlight(kinds)
  BY <1>1 DEF InFlight, Progress
<1>3. \A m \in Monitors : Changing(m)' <=> Changing(m)
  BY <1>1 DEF Changing, InFlight, Progress
<1>4. \A m \in Monitors : (ListOf(m)' <=> ListOf(m)) /\ (Listed(m)' <=> Listed(m))
  BY DEF ListOf, Shown, StoredRow, Listed
<1>5. \A d \in InFlight(Changes)' : Mounted(d)'
  BY <1>1 DEF ListRight, InFlight, Mounted, Progress
<1>6. ASSUME NEW d \in InFlight({"save", "interval", "delete"})' PROVE ChangeFinds(d)'
  <2>1. d \in Calls /\ call[d].kind \in {"save", "interval", "delete"} /\ ChangeFinds(d)
    BY <1>1, <1>6 DEF ListRight, InFlight, Progress
  <2>2. CASE d = c
    BY <2>1, <2>2 DEF ChangeFinds, Changes
  <2>3. CASE d # c
    BY <1>1, <2>1, <2>3 DEF ChangeFinds, Listed
  <2>4. QED
    BY <2>2, <2>3
<1>7. ASSUME NEW d \in InFlight({"create"})' PROVE CreateNew(d)'
  <2>1. d \in Calls /\ call[d].kind = "create" /\ CreateNew(d)
    BY <1>1, <1>7 DEF ListRight, InFlight, Progress
  <2>2. call'[d].rows = call[d].rows /\ call'[d].doc = call[d].doc
    BY <1>1, <2>1 DEF Changes, Progress
  <2>3. \A e \in InFlight(Changes)' :
          /\ e \in InFlight(Changes) /\ call'[e].id = call[e].id /\ call'[e].rows = call[e].rows
    BY <1>1 DEF InFlight, Progress
  <2>4. QED
    BY <2>1, <2>2, <2>3 DEF CreateNew, Listed
<1>8. QED
  BY <1>3, <1>4, <1>5, <1>6, <1>7 DEF ListRight

\* A new monitor: no row and no call knows it.
LEMMA ListCreate ==
  ASSUME TypeOK, AllFormed, PageFormed, ListRight, NEW c \in Calls, Serves(c),
         call[c].kind = "create", call[c].at = "sent", created < MaxMonitors,
         created' = created + 1, stored' = [stored EXCEPT ![created'] = call[c].doc],
         call'[c].rows = <<[id |-> created', doc |-> call[c].doc]>>,
         UNCHANGED <<page, list, mixed, ui>>
  PROVE  ListRight'
<1> SUFFICES ASSUME page = "dashboard", ~mixed PROVE ListRight'
  BY DEF ListRight
<1>0. PICK k : k = created + 1
  OBVIOUS
<1>1. /\ Calls' = Calls /\ \A d \in Calls : d # c => call'[d] = call[d]
      /\ \A d \in Calls : Progress(call'[d], call[d])
  BY DEF Serves, Progress
<1>2. \A kinds : InFlight(kinds)' = InFlight(kinds)
  BY <1>1 DEF InFlight, Progress
<1>3. /\ k \in Monitors /\ created \in Nat /\ \A m \in Monitors : m <= created => m # k
      /\ None # k /\ \A m \in Monitors : m # k => stored'[m] = stored[m]
      /\ stored'[k] = call[c].doc
  BY <1>0, DashboardAssumption DEF TypeOK, Monitors, None
<1>4. /\ call[c].rows = <<>> /\ call[c].id = None
      /\ call'[c].rows = <<[id |-> k, doc |-> call[c].doc]>>
      /\ 1 \in DOMAIN call'[c].rows /\ call'[c].rows[1].id = k
  BY <1>0 DEF AllFormed, Formed
<1>5. \A d \in InFlight(Changes) : d # c =>
        call[d].id # k /\ \A i \in DOMAIN call[d].rows : call[d].rows[i].id # k
  <2> SUFFICES ASSUME NEW d \in Calls, call[d].kind \in Changes
               PROVE  call[d].id # k /\ \A i \in DOMAIN call[d].rows : call[d].rows[i].id # k
    BY DEF InFlight
  <2>1. /\ call[d].id <= created /\ call[d].id \in Monitors \cup {None}
        /\ \A i \in DOMAIN call[d].rows : call[d].rows[i].id <= created /\ call[d].rows[i].id \in Monitors
    BY CallFields DEF AllFormed, Formed, TypeOK
  <2>2. QED
    BY <1>3, <2>1
<1>6. \A m \in Monitors : Changing(m)' \/ ListOf(m)'
  <2>1. \A m \in Monitors : Changing(m) => Changing(m)'
    <3>1. \A m \in Monitors : call[c].id # m
      BY <1>4 DEF Monitors, None
    <3>2. QED
      BY <1>1, <1>2, <1>4, <3>1 DEF Changing, InFlight, Progress
  <2>2. \A m \in Monitors : m # k => (ListOf(m) => ListOf(m)')
    BY <1>3 DEF ListOf, Shown, StoredRow
  <2>3. Changing(k)'
    <3>1. c \in InFlight(Changes)'
      BY <1>2 DEF InFlight, Changes
    <3>2. QED
      BY <1>4, <3>1 DEF Changing
  <2>4. QED
    BY <2>1, <2>2, <2>3 DEF ListRight
<1>7. \A d \in InFlight(Changes)' : Mounted(d)'
  BY <1>1 DEF ListRight, InFlight, Mounted, Progress
<1>8. \A m : Listed(m)' <=> Listed(m)
  BY DEF Listed
<1>9. ASSUME NEW d \in InFlight({"save", "interval", "delete"})' PROVE ChangeFinds(d)'
  <2>1. d \in Calls /\ d # c /\ call[d].kind \in {"save", "interval", "delete"} /\ ChangeFinds(d)
    BY <1>1, <1>9 DEF ListRight, InFlight, Progress
  <2>2. call[d].id \in Monitors /\ call[d].id # k
    BY <1>5, <2>1 DEF InFlight, Changes, AllFormed, Formed
  <2>3. stored'[call[d].id] = stored[call[d].id] /\ call'[d] = call[d]
    BY <1>1, <1>3, <2>1, <2>2
  <2>4. QED
    BY <1>8, <2>1, <2>3 DEF ChangeFinds
<1>10. ~Listed(k) /\ ui.editing # k
  <2>1. \A i \in DOMAIN list : list[i].id \in Monitors /\ list[i].id <= created
    <3>1. \A i \in DOMAIN list : list[i] \in Row
      BY DEF TypeOK
    <3>2. QED
      BY <3>1 DEF PageFormed, Row
  <2>2. ui.editing \in Monitors \cup {None} /\ ui.editing <= created
    BY DEF PageFormed, TypeOK, UiState
  <2>3. QED
    BY <1>3, <2>1, <2>2 DEF Listed
<1>11. CreateNew(c)'
  <2>1. \A d \in InFlight(Changes)' : d # c =>
          call'[d].id # k /\ \A i \in DOMAIN call'[d].rows : call'[d].rows[i].id # k
    BY <1>1, <1>2, <1>5 DEF InFlight
  <2>2. call'[c].doc = call[c].doc
    BY <1>1 DEF Progress
  <2>3. QED
    BY <1>3, <1>4, <1>8, <1>10, <2>1, <2>2 DEF CreateNew
<1>12. ASSUME NEW d \in InFlight({"create"})', d # c, call'[d].rows # <<>> PROVE CreateNew(d)'
  <2>1. d \in Calls /\ call[d].kind = "create" /\ CreateNew(d) /\ call'[d] = call[d]
    BY <1>1, <1>12 DEF ListRight, InFlight, Progress
  <2>0. PICK j : j = call[d].rows[1].id
    OBVIOUS
  <2>2. j \in Monitors /\ j # k
    <3>1. 1 \in DOMAIN call[d].rows /\ call[d].rows[1].id \in Monitors
      BY <1>12, <2>1, CallFields DEF TypeOK
    <3>2. d \in InFlight(Changes)
      BY <2>1 DEF InFlight, Changes
    <3>3. QED
      BY <1>5, <1>12, <2>0, <3>1, <3>2
  <2>3. /\ ~Listed(j) /\ ui.editing # j /\ stored[j] = call[d].doc
        /\ \A e \in InFlight(Changes) : e # d =>
             call[e].id # j /\ \A i \in DOMAIN call[e].rows : call[e].rows[i].id # j
    BY <1>12, <2>0, <2>1 DEF CreateNew
  <2>4. stored'[j] = call[d].doc
    BY <1>3, <2>2, <2>3
  <2>5. \A e \in InFlight(Changes)' : e # d =>
          call'[e].id # j /\ \A i \in DOMAIN call'[e].rows : call'[e].rows[i].id # j
    <3>1. ASSUME NEW e \in InFlight(Changes)', e # d, e # c
          PROVE  call'[e].id # j /\ \A i \in DOMAIN call'[e].rows : call'[e].rows[i].id # j
      BY <1>1, <1>2, <2>3, <3>1 DEF InFlight
    <3>2. call'[c].id # j /\ \A i \in DOMAIN call'[c].rows : call'[c].rows[i].id # j
      BY <1>1, <1>4, <2>2 DEF Progress, Monitors, None
    <3>3. QED
      BY <3>1, <3>2
  <2>6. QED
    BY <1>8, <2>0, <2>1, <2>3, <2>4, <2>5 DEF CreateNew
<1>13. \A d \in InFlight({"create"})' : CreateNew(d)'
  BY <1>11, <1>12 DEF CreateNew
<1>14. QED
  BY <1>6, <1>7, <1>9, <1>13 DEF ListRight

\* A change of the document of a row that is shown.
LEMMA ListChange ==
  ASSUME TypeOK, CallsInv, ListRight, NEW c \in Calls, Serves(c),
         call[c].kind \in {"save", "interval", "delete"}, call[c].at = "sent",
         stored[call[c].id] # None, stored' = [stored EXCEPT ![call[c].id] = call[c].doc],
         call'[c].rows = <<[id |-> call[c].id, doc |-> call[c].doc]>>, call'[c].at = "answered",
         UNCHANGED <<page, list, mixed, ui>>
  PROVE  ListRight'
<1> SUFFICES ASSUME page = "dashboard", ~mixed PROVE ListRight'
  BY DEF ListRight
<1>0. PICK m : m = call[c].id
  OBVIOUS
<1>1. /\ Calls' = Calls /\ \A d \in Calls : d # c => call'[d] = call[d]
      /\ \A d \in Calls : Progress(call'[d], call[d])
  BY DEF Serves, Progress
<1>2. \A kinds : InFlight(kinds)' = InFlight(kinds)
  BY <1>1 DEF InFlight, Progress
<1>3. /\ m \in Monitors /\ \A k \in Monitors : k # m => stored'[k] = stored[k]
      /\ stored'[m] = call[c].doc
  BY <1>0 DEF CallsInv, AllFormed, Formed, TypeOK
<1>4. /\ call[c].rows = <<>> /\ call'[c].id = m /\ call'[c].doc = call[c].doc
      /\ \A i \in DOMAIN call'[c].rows : call'[c].rows[i].id = m
  BY <1>0, <1>1 DEF CallsInv, AllFormed, Formed, Progress
<1>5. c \in InFlight(Changes) /\ c \in InFlight({"save", "interval", "delete"})
  BY DEF InFlight, Changes
<1>6. \A k \in Monitors : Changing(k)' \/ ListOf(k)'
  <2>1. \A k \in Monitors : Changing(k) => Changing(k)'
    BY <1>0, <1>1, <1>2, <1>4 DEF Changing, InFlight, Progress
  <2>2. \A k \in Monitors : k # m => (ListOf(k) => ListOf(k)')
    BY <1>3 DEF ListOf, Shown, StoredRow
  <2>3. Changing(m)'
    BY <1>2, <1>4, <1>5 DEF Changing
  <2>4. QED
    BY <2>1, <2>2, <2>3 DEF ListRight
<1>7. \A d \in InFlight(Changes)' : Mounted(d)'
  BY <1>1 DEF ListRight, InFlight, Mounted, Progress
<1>8. \A k : Listed(k)' <=> Listed(k)
  BY DEF Listed
<1>9. ASSUME NEW d \in InFlight({"save", "interval", "delete"})' PROVE ChangeFinds(d)'
  <2>1. d \in Calls /\ call[d].kind \in {"save", "interval", "delete"} /\ ChangeFinds(d)
    BY <1>1, <1>9 DEF ListRight, InFlight, Progress
  <2>2. CASE d = c
    BY <1>0, <1>1, <1>3, <1>4, <1>8, <2>1, <2>2 DEF ChangeFinds, Progress
  <2>3. CASE d # c /\ call[d].clean
    <3>1. ~Conflict(call[d], call[c])
      BY <2>3, <2>1 DEF CallsInv, Alone
    <3>2. call[d].id # m
      BY <1>0, <2>1, <3>1 DEF Conflict, Changes
    <3>3. call[d].id \in Monitors
      BY <2>1 DEF CallsInv, AllFormed, Formed
    <3>4. stored'[call[d].id] = stored[call[d].id] /\ call'[d] = call[d]
      BY <1>1, <1>3, <2>1, <2>3, <3>2, <3>3
    <3>5. QED
      BY <1>8, <2>1, <3>4 DEF ChangeFinds
  <2>4. CASE d # c /\ ~call[d].clean
    BY <1>1, <2>1, <2>4 DEF ChangeFinds
  <2>5. QED
    BY <2>2, <2>3, <2>4
<1>10. ASSUME NEW d \in InFlight({"create"})', call'[d].rows # <<>> PROVE CreateNew(d)'
  <2>1. d \in Calls /\ d # c /\ call[d].kind = "create" /\ CreateNew(d) /\ call'[d] = call[d]
    BY <1>1, <1>10 DEF ListRight, InFlight, Progress
  <2>0. PICK j : j = call[d].rows[1].id
    OBVIOUS
  <2>2. /\ ~Listed(j) /\ ui.editing # j /\ stored[j] = call[d].doc
        /\ \A e \in InFlight(Changes) : e # d =>
             call[e].id # j /\ \A i \in DOMAIN call[e].rows : call[e].rows[i].id # j
    BY <1>10, <2>0, <2>1 DEF CreateNew
  <2>3. j \in Monitors /\ j # m
    <3>1. call[d].rows[1].id \in Monitors
      BY <1>10, <2>1, CallFields DEF TypeOK
    <3>2. QED
      BY <1>0, <1>5, <2>0, <2>1, <2>2, <3>1
  <2>4. stored'[j] = call[d].doc
    BY <1>3, <2>2, <2>3
  <2>5. \A e \in InFlight(Changes)' : e # d =>
          call'[e].id # j /\ \A i \in DOMAIN call'[e].rows : call'[e].rows[i].id # j
    <3>1. ASSUME NEW e \in InFlight(Changes)', e # d, e # c
          PROVE  call'[e].id # j /\ \A i \in DOMAIN call'[e].rows : call'[e].rows[i].id # j
      BY <1>1, <1>2, <2>2, <3>1 DEF InFlight
    <3>2. call'[c].id # j /\ \A i \in DOMAIN call'[c].rows : call'[c].rows[i].id # j
      BY <1>4, <2>3
    <3>3. QED
      BY <3>1, <3>2
  <2>6. QED
    BY <1>8, <2>0, <2>1, <2>2, <2>4, <2>5 DEF CreateNew
<1>11. \A d \in InFlight({"create"})' : CreateNew(d)'
  BY <1>10 DEF CreateNew
<1>12. QED
  BY <1>6, <1>7, <1>9, <1>11 DEF ListRight

-----------------------------------------------------------------------------
(* The invariant while the page handles an answer *)

\* No other change is about m.
Free(c, m) ==
  \A d \in InFlight(Changes) : d # c =>
    call[d].id # m /\ \A i \in DOMAIN call[d].rows : call[d].rows[i].id # m

\* A clean change is the only one of its monitor.
LEMMA ChangeFree ==
  ASSUME TypeOK, CallsInv, ListRight, page = "dashboard", ~mixed,
         NEW c \in InFlight({"save", "interval", "delete"}), call[c].clean
  PROVE  Free(c, call[c].id)
<1> SUFFICES ASSUME NEW d \in InFlight(Changes), d # c
             PROVE  /\ call[d].id # call[c].id
                    /\ \A i \in DOMAIN call[d].rows : call[d].rows[i].id # call[c].id
  BY DEF Free
<1>1. c \in Calls /\ d \in Calls /\ {call[c].kind, call[d].kind} \subseteq Changes /\ call \in Seq(CallState)
  BY DEF InFlight, TypeOK, Changes
<1>2. call[d].id # call[c].id
  <2>1. ~Conflict(call[c], call[d])
    BY <1>1 DEF CallsInv, Alone
  <2>2. QED
    BY <1>1, <2>1 DEF Conflict
<1>3. CASE call[d].kind # "create"
  BY <1>1, <1>2, <1>3 DEF CallsInv, AllFormed, Formed, Changes
<1>4. CASE call[d].kind = "create"
  <2>1. call[d].rows \in Seq(Row) /\ Len(call[d].rows) <= 1
    BY <1>1, <1>4, CallFields DEF CallsInv, AllFormed, Formed
  <2>2. \A i \in DOMAIN call[d].rows : i = 1 /\ call[d].rows # <<>>
    BY <2>1
  <2>3. CreateNew(d) /\ c \in InFlight(Changes)
    BY <1>1, <1>4 DEF ListRight, InFlight
  <2>4. QED
    BY <1>2, <2>2, <2>3 DEF CreateNew
<1>5. QED
  BY <1>2, <1>3, <1>4

\* The page has done to the list what the server did to the monitor m.
LEMMA ListAnswer ==
  ASSUME TypeOK, CallsInv, ListRight, page = "dashboard", ~mixed,
         NEW c \in InFlight(Changes), NEW kinds, Forgets(call', call, {c}, kinds),
         kinds \cap Changes = {}, UNCHANGED stored,
         ui'.editing \in {ui.editing, None},
         NEW m, Free(c, m),
         \A k \in Monitors :
           call[c].id = k \/ (\E i \in DOMAIN call[c].rows : call[c].rows[i].id = k) => k = m,
         \A i, j \in DOMAIN list' : list'[i].id = list'[j].id => i = j,
         \A k : k # m => Shown(k)' = Shown(k),
         ListOf(m)'
  PROVE  ListRight'
<1>1. PICK pos : Keeps(call', call, {c}, kinds, pos)
  BY DEF Forgets
<1>2. /\ \A i \in Calls' : pos[i] \in Calls /\ pos[i] # c /\ Kept(call'[i], call[pos[i]])
      /\ \A i \in Calls' : call[pos[i]].kind \in Changes => call'[i].life = call[pos[i]].life
      /\ \A i, j \in Calls' : i # j => pos[i] # pos[j]
  BY <1>1 DEF Keeps, Calls
<1>3. \A d \in InFlight(Changes) : d # c => \E i \in InFlight(Changes)' : pos[i] = d
  <2>1. ASSUME NEW d \in InFlight(Changes), d # c PROVE \E i \in InFlight(Changes)' : pos[i] = d
    <3>1. d \in Calls /\ call[d].kind \in Changes /\ call[d].kind \notin Reads
      BY <2>1 DEF InFlight, Changes, Reads
    <3>2. PICK i \in Calls' : pos[i] = d
      BY <1>1, <2>1, <3>1 DEF Keeps, Calls
    <3>3. QED
      BY <1>2, <3>1, <3>2 DEF InFlight, Kept
  <2>2. QED
    BY <2>1
<1>4. \A k : k # m => (Listed(k)' <=> Listed(k))
  <2>1. \A k : (Listed(k) <=> Shown(k) # {}) /\ (Listed(k)' <=> Shown(k)' # {})
    BY DEF Listed, Shown
  <2>2. QED
    BY <2>1
<1>5. ASSUME NEW k \in Monitors PROVE Changing(k)' \/ ListOf(k)'
  <2>1. CASE k = m
    BY <2>1
  <2>2. CASE k # m /\ ListOf(k)
    BY <2>2 DEF ListOf, StoredRow
  <2>3. CASE k # m /\ Changing(k)
    <3>1. PICK d \in InFlight(Changes) :
            call[d].id = k \/ \E i \in DOMAIN call[d].rows : call[d].rows[i].id = k
      BY <2>3 DEF Changing
    <3>2. d # c
      BY <2>3, <3>1
    <3>3. PICK i \in InFlight(Changes)' : pos[i] = d
      BY <1>3, <3>2
    <3>4. Kept(call'[i], call[d])
      BY <1>2, <3>3 DEF InFlight
    <3>5. QED
      BY <3>1, <3>3, <3>4 DEF Changing, Kept
  <2>4. QED
    BY <2>1, <2>2, <2>3 DEF ListRight
<1>6. \A i \in InFlight(Changes)' : Mounted(i)'
  BY <1>2 DEF ListRight, InFlight, Mounted, Kept
<1>7. ASSUME NEW i \in InFlight({"save", "interval", "delete"})' PROVE ChangeFinds(i)'
  <2>1. /\ i \in Calls' /\ pos[i] \in InFlight({"save", "interval", "delete"})
        /\ pos[i] \in InFlight(Changes) /\ pos[i] # c /\ Kept(call'[i], call[pos[i]])
    BY <1>2, <1>7 DEF InFlight, Kept, Changes
  <2>2. call[pos[i]].id # m /\ ChangeFinds(pos[i])
    BY <2>1 DEF Free, ListRight
  <2>3. QED
    BY <1>4, <2>1, <2>2 DEF ChangeFinds, Kept
<1>8. ASSUME NEW d \in InFlight({"create"})', call'[d].rows # <<>> PROVE CreateNew(d)'
  <2>0. PICK k : k = call'[d].rows[1].id
    OBVIOUS
  <2>1. /\ d \in Calls' /\ pos[d] \in InFlight({"create"}) /\ pos[d] \in Calls
        /\ pos[d] \in InFlight(Changes) /\ pos[d] # c /\ Kept(call'[d], call[pos[d]])
    BY <1>2, <1>8 DEF InFlight, Kept, Changes
  <2>2. /\ CreateNew(pos[d]) /\ call[pos[d]].rows # <<>> /\ k = call[pos[d]].rows[1].id
    BY <1>8, <2>0, <2>1 DEF ListRight, Kept
  <2>3. k \in Monitors /\ k # m
    <3>1. 1 \in DOMAIN call[pos[d]].rows /\ call[pos[d]].rows[1].id \in Monitors
      BY <2>1, <2>2, CallFields DEF TypeOK
    <3>2. QED
      BY <2>1, <2>2, <3>1 DEF Free
  <2>4. /\ ~Listed(k) /\ ui.editing # k /\ stored[k] = call[pos[d]].doc
        /\ \A e \in InFlight(Changes) : e # pos[d] =>
             call[e].id # k /\ \A i \in DOMAIN call[e].rows : call[e].rows[i].id # k
    BY <2>2 DEF CreateNew
  <2>5. ui'.editing # k
    BY <2>3, <2>4 DEF Monitors, None
  <2>6. ASSUME NEW e \in InFlight(Changes)', e # d
        PROVE  call'[e].id # k /\ \A i \in DOMAIN call'[e].rows : call'[e].rows[i].id # k
    <3>1. pos[e] \in InFlight(Changes) /\ pos[e] # pos[d] /\ Kept(call'[e], call[pos[e]])
      BY <1>2, <2>1, <2>6 DEF InFlight, Kept
    <3>2. QED
      BY <2>4, <3>1 DEF Kept
  <2>7. QED
    BY <1>4, <2>0, <2>1, <2>3, <2>4, <2>5, <2>6 DEF CreateNew, Kept
<1>9. \A d \in InFlight({"create"})' : CreateNew(d)'
  BY <1>8 DEF CreateNew
<1>10. QED
  BY <1>5, <1>6, <1>7, <1>9 DEF ListRight

\* A list after another.
LEMMA ConcatSpec ==
  ASSUME NEW T, NEW r \in Seq(T), NEW s \in Seq(T)
  PROVE  /\ r \o s \in Seq(T) /\ Len(r \o s) = Len(r) + Len(s)
         /\ \A i \in 1 .. Len(r) : (r \o s)[i] = r[i]
         /\ \A i \in 1 .. Len(s) : (r \o s)[Len(r) + i] = s[i]
OBVIOUS

\* A row is replaced where it is.
LEMMA ReplacedSpec ==
  ASSUME NEW rows \in Seq(Row), NEW m, NEW v \in Versions
  PROVE  LET new == Replaced(rows, m, v) IN
         /\ new \in Seq(Row) /\ DOMAIN new = DOMAIN rows
         /\ \A i \in DOMAIN rows : new[i].id = rows[i].id
         /\ \A i \in DOMAIN rows : rows[i].id # m => new[i] = rows[i]
         /\ \A i \in DOMAIN rows : rows[i].id = m => new[i] = [id |-> m, doc |-> v]
<1> DEFINE new == Replaced(rows, m, v)
<1>1. DOMAIN rows = 1 .. Len(rows) /\ Len(rows) \in Nat /\ \A i \in DOMAIN rows : rows[i] \in Row
  OBVIOUS
<1>2. new = [i \in 1 .. Len(rows) |-> IF rows[i].id = m THEN [rows[i] EXCEPT !.doc = v] ELSE rows[i]]
  BY <1>1 DEF Replaced
<1> HIDE DEF new
<1>3. /\ DOMAIN new = DOMAIN rows
      /\ \A i \in DOMAIN rows : rows[i].id # m => new[i] = rows[i]
  BY <1>1, <1>2
<1>4. \A i \in DOMAIN rows : rows[i].id = m => new[i] = [id |-> m, doc |-> v]
  BY <1>1, <1>2 DEF Row
<1>5. \A i \in DOMAIN rows : new[i].id = rows[i].id /\ new[i] \in Row
  BY <1>1, <1>3, <1>4 DEF Row
<1>6. new \in Seq(Row)
  <2>1. new = [i \in 1 .. Len(rows) |-> new[i]]
    BY <1>2
  <2>2. QED
    BY <1>1, <1>5, <2>1
<1>7. QED
  BY <1>3, <1>4, <1>5, <1>6 DEF new

\* A list in which a row is replaced is a list of the same monitors.
LEMMA ReplacedRows ==
  ASSUME list \in Seq(Row), NEW m, NEW v \in Versions, list' = Replaced(list, m, v)
  PROVE  /\ list' \in Seq(Row) /\ DOMAIN list' = DOMAIN list
         /\ \A i \in DOMAIN list : list'[i].id = list[i].id
<1>1. PICK new : new = Replaced(list, m, v)
  OBVIOUS
<1>2. new \in Seq(Row) /\ DOMAIN new = DOMAIN list /\ \A i \in DOMAIN list : new[i].id = list[i].id
  <2>1. LET n == Replaced(list, m, v) IN
        /\ n \in Seq(Row) /\ DOMAIN n = DOMAIN list
        /\ \A i \in DOMAIN list : n[i].id = list[i].id
        /\ \A i \in DOMAIN list : list[i].id # m => n[i] = list[i]
        /\ \A i \in DOMAIN list : list[i].id = m => n[i] = [id |-> m, doc |-> v]
    BY ReplacedSpec
  <2>2. QED
    BY <1>1, <2>1
<1>3. QED
  BY <1>1, <1>2

\* The rows of a monitor leave the list.
LEMMA WithoutSpec ==
  ASSUME NEW rows \in Seq(Row), NEW m
  PROVE  LET new == Without(rows, m) IN
         /\ new \in Seq(Row)
         /\ \A j \in DOMAIN new : \E i \in DOMAIN rows : new[j] = rows[i] /\ rows[i].id # m
         /\ \A i \in DOMAIN rows : rows[i].id # m => \E j \in DOMAIN new : new[j] = rows[i]
         /\ (\A i, j \in DOMAIN rows : rows[i].id = rows[j].id => i = j) =>
              \A i, j \in DOMAIN new : new[i].id = new[j].id => i = j
<1> DEFINE keep == {i \in DOMAIN rows : rows[i].id # m}
           new == Without(rows, m)
<1>1. new = Subsequence(rows, keep) /\ keep \in SUBSET (DOMAIN rows)
  BY DEF Without
<1>2. \A i : i \in keep <=> i \in DOMAIN rows /\ rows[i].id # m
  OBVIOUS
<1> HIDE DEF keep, new
<1>3. new \in Seq(Row)
  BY <1>1, SubsequenceSpec
<1>4. PICK pos \in [DOMAIN new -> keep] :
        /\ \A k \in DOMAIN new : new[k] = rows[pos[k]]
        /\ \A j, k \in DOMAIN new : j < k => pos[j] < pos[k]
        /\ \A i \in keep : \E k \in DOMAIN new : pos[k] = i
  BY <1>1, SubsequenceMap
<1>5. \A j \in DOMAIN new : pos[j] \in keep /\ pos[j] \in DOMAIN rows
  BY <1>1, <1>4
<1>6. \A i, j \in DOMAIN new : pos[i] = pos[j] => i = j
  <2>1. \A i \in DOMAIN new : i \in Int /\ pos[i] \in Int
    BY <1>3, <1>5
  <2>2. QED
    BY <1>4, <2>1
<1>7. \A j \in DOMAIN new : \E i \in DOMAIN rows : new[j] = rows[i] /\ rows[i].id # m
  BY <1>2, <1>4, <1>5
<1>8. \A i \in DOMAIN rows : rows[i].id # m => \E j \in DOMAIN new : new[j] = rows[i]
  BY <1>2, <1>4
<1>9. ASSUME \A i, j \in DOMAIN rows : rows[i].id = rows[j].id => i = j
      PROVE  \A i, j \in DOMAIN new : new[i].id = new[j].id => i = j
  BY <1>4, <1>5, <1>6, <1>9
<1>10. QED
  BY <1>3, <1>7, <1>8, <1>9 DEF new

\* getSummary finds every monitor once.
LEMMA StoredRowsSpec ==
  ASSUME stored \in [Monitors -> Versions]
  PROVE  /\ StoredRows \in Seq(Row)
         /\ \A i, j \in DOMAIN StoredRows : StoredRows[i].id = StoredRows[j].id => i = j
         /\ \A i \in DOMAIN StoredRows :
              LET m == StoredRows[i].id IN
              m \in Monitors /\ stored[m] # None /\ StoredRows[i] = [id |-> m, doc |-> stored[m]]
         /\ \A m \in Monitors : stored[m] # None =>
              \E i \in DOMAIN StoredRows : StoredRows[i] = [id |-> m, doc |-> stored[m]]
<1> DEFINE all == [m \in Monitors |-> [id |-> m, doc |-> stored[m]]]
           keep == {m \in Monitors : stored[m] # None}
           new == StoredRows
<1>1. new = Subsequence(all, keep)
  BY DEF StoredRows
<1>2. MaxMonitors \in Nat /\ Monitors = 1 .. MaxMonitors
  BY DashboardAssumption DEF Monitors
<1>3. \A m \in Monitors : all[m] \in Row /\ all[m].id = m /\ all[m] = [id |-> m, doc |-> stored[m]]
  BY DEF Row
<1>4. all \in Seq(Row) /\ DOMAIN all = Monitors
  <2>1. all = [m \in 1 .. MaxMonitors |-> all[m]] /\ DOMAIN all = Monitors
    BY <1>2
  <2> HIDE DEF all
  <2>2. QED
    BY <1>2, <1>3, <2>1
<1> HIDE DEF all
<1>5. keep \in SUBSET (DOMAIN all) /\ \A m : m \in keep <=> m \in Monitors /\ stored[m] # None
  BY <1>4
<1> HIDE DEF keep, new
<1>6. new \in Seq(Row)
  BY <1>1, <1>4, <1>5, SubsequenceSpec
<1>7. PICK pos \in [DOMAIN new -> keep] :
        /\ \A k \in DOMAIN new : new[k] = all[pos[k]]
        /\ \A j, k \in DOMAIN new : j < k => pos[j] < pos[k]
        /\ \A i \in keep : \E k \in DOMAIN new : pos[k] = i
  BY <1>1, <1>4, <1>5, SubsequenceMap
<1>8. \A j \in DOMAIN new : /\ pos[j] \in Monitors /\ stored[pos[j]] # None /\ new[j].id = pos[j]
                            /\ new[j] = [id |-> pos[j], doc |-> stored[pos[j]]]
  BY <1>3, <1>5, <1>7
<1>9. \A i, j \in DOMAIN new : pos[i] = pos[j] => i = j
  <2>1. \A i \in DOMAIN new : i \in Int /\ pos[i] \in Int
    BY <1>2, <1>6, <1>8
  <2>2. QED
    BY <1>7, <2>1
<1>10. \A m \in Monitors : stored[m] # None => \E i \in DOMAIN new : new[i] = [id |-> m, doc |-> stored[m]]
  BY <1>5, <1>7, <1>8
<1>11. QED
  BY <1>6, <1>8, <1>9, <1>10 DEF new

\* The answer of a save, or of a new interval, is shown.
LEMMA ListReplaced ==
  ASSUME TypeOK, CallsInv, ListRight, page = "dashboard", ~mixed,
         NEW c \in InFlight({"save", "interval"}), call[c].clean, call[c].reply = "ok",
         NEW kinds, Forgets(call', call, {c}, kinds), kinds \cap Changes = {}, UNCHANGED stored,
         ui'.editing \in {ui.editing, None}, list' = Replaced(list, call[c].id, call[c].doc)
  PROVE  ListRight'
<1>0. PICK m, v : m = call[c].id /\ v = call[c].doc
  OBVIOUS
<1>1. /\ c \in Calls /\ call \in Seq(CallState) /\ c \in InFlight(Changes)
      /\ c \in InFlight({"save", "interval", "delete"}) /\ Formed(call[c]) /\ ChangeFinds(c)
  BY DEF InFlight, Changes, TypeOK, CallsInv, AllFormed, ListRight
<1>2. m \in Monitors /\ v \in Versions /\ v # None /\ stored[m] = v /\ Listed(m)
  BY <1>0, <1>1, CallFields DEF Formed, ChangeFinds, InFlight, Changes
<1>3. Free(c, m)
  BY <1>0, <1>1, ChangeFree
<1>4. \A k \in Monitors :
        call[c].id = k \/ (\E i \in DOMAIN call[c].rows : call[c].rows[i].id = k) => k = m
  BY <1>0, <1>1 DEF Formed, InFlight
<1>5. /\ DOMAIN list' = DOMAIN list
      /\ \A i \in DOMAIN list : list'[i].id = list[i].id
      /\ \A i \in DOMAIN list : list[i].id # m => list'[i] = list[i]
      /\ \A i \in DOMAIN list : list[i].id = m => list'[i] = [id |-> m, doc |-> v]
  <2>1. list \in Seq(Row) /\ list' = Replaced(list, m, v)
    BY <1>0 DEF TypeOK
  <2>2. QED
    BY <1>2, <2>1, ReplacedSpec
<1>6. \A i, j \in DOMAIN list' : list'[i].id = list'[j].id => i = j
  BY <1>5 DEF ListRight
<1>7. \A k : k # m => Shown(k)' = Shown(k)
  BY <1>5 DEF Shown
<1>8. ListOf(m)'
  <2>1. Shown(m)' = {[id |-> m, doc |-> v]}
    BY <1>2, <1>5 DEF Shown, Listed
  <2>2. QED
    BY <1>2, <2>1 DEF ListOf, StoredRow
<1>9. QED
  BY <1>1, <1>3, <1>4, <1>6, <1>7, <1>8, ListAnswer

\* The answer of a deletion is shown.
LEMMA ListWithout ==
  ASSUME TypeOK, CallsInv, ListRight, page = "dashboard", ~mixed,
         NEW c \in InFlight({"delete"}), call[c].clean, call[c].reply = "ok",
         NEW kinds, Forgets(call', call, {c}, kinds), kinds \cap Changes = {}, UNCHANGED stored,
         ui'.editing \in {ui.editing, None}, list' = Without(list, call[c].id)
  PROVE  ListRight'
<1>0. PICK m : m = call[c].id
  OBVIOUS
<1>1. /\ c \in Calls /\ call \in Seq(CallState) /\ c \in InFlight(Changes)
      /\ c \in InFlight({"save", "interval", "delete"}) /\ Formed(call[c]) /\ ChangeFinds(c)
  BY DEF InFlight, Changes, TypeOK, CallsInv, AllFormed, ListRight
<1>2. m \in Monitors /\ stored[m] = None
  BY <1>0, <1>1 DEF Formed, ChangeFinds, InFlight, Changes
<1>3. Free(c, m)
  BY <1>0, <1>1, ChangeFree
<1>4. \A k \in Monitors :
        call[c].id = k \/ (\E i \in DOMAIN call[c].rows : call[c].rows[i].id = k) => k = m
  BY <1>0, <1>1 DEF Formed, InFlight
<1>5. /\ \A j \in DOMAIN list' : \E i \in DOMAIN list : list'[j] = list[i] /\ list[i].id # m
      /\ \A i \in DOMAIN list : list[i].id # m => \E j \in DOMAIN list' : list'[j] = list[i]
      /\ \A i, j \in DOMAIN list' : list'[i].id = list'[j].id => i = j
  <2>1. list \in Seq(Row) /\ list' = Without(list, m)
    BY <1>0 DEF TypeOK
  <2>2. \A i, j \in DOMAIN list : list[i].id = list[j].id => i = j
    BY DEF ListRight
  <2>3. QED
    BY <2>1, <2>2, WithoutSpec
<1>6. \A k : k # m => Shown(k)' = Shown(k)
  BY <1>5 DEF Shown
<1>7. ListOf(m)'
  <2>1. Shown(m)' = {}
    BY <1>5 DEF Shown
  <2>2. QED
    BY <1>2, <2>1 DEF ListOf, StoredRow
<1>8. QED
  BY <1>1, <1>3, <1>4, <1>5, <1>6, <1>7, ListAnswer

\* The answer of a creation is shown.
LEMMA ListAdded ==
  ASSUME TypeOK, CallsInv, ListRight, page = "dashboard", ~mixed,
         NEW c \in InFlight({"create"}), call[c].reply = "ok",
         NEW kinds, Forgets(call', call, {c}, kinds), kinds \cap Changes = {}, UNCHANGED stored,
         ui'.editing \in {ui.editing, None}, list' = call[c].rows \o list
  PROVE  ListRight'
<1>0. PICK m, v : m = call[c].rows[1].id /\ v = call[c].doc
  OBVIOUS
<1>1. /\ c \in Calls /\ call \in Seq(CallState) /\ c \in InFlight(Changes)
      /\ call[c].kind = "create" /\ Formed(call[c]) /\ CreateNew(c)
  BY DEF InFlight, Changes, TypeOK, CallsInv, AllFormed, ListRight
<1>2. /\ call[c].rows \in Seq(Row) /\ Len(call[c].rows) = 1 /\ call[c].rows # <<>>
      /\ call[c].rows[1] = [id |-> m, doc |-> v] /\ m \in Monitors /\ v # None /\ call[c].id = None
      /\ 1 \in DOMAIN call[c].rows /\ \A i \in DOMAIN call[c].rows : i = 1
  <2>1. call[c].rows \in Seq(Row) /\ Len(call[c].rows) = 1 /\ call[c].id = None /\ v # None
    BY <1>0, <1>1, CallFields DEF Formed, Changes
  <2>2. /\ 1 \in DOMAIN call[c].rows /\ \A i \in DOMAIN call[c].rows : i = 1
        /\ call[c].rows # <<>>
    BY <2>1
  <2>3. call[c].rows[1] \in Row /\ call[c].rows[1].doc = v /\ call[c].rows[1].id \in Monitors
    BY <1>0, <1>1, <2>2, CallFields DEF Formed
  <2>4. call[c].rows[1] = [id |-> m, doc |-> v]
    BY <1>0, <2>3 DEF Row
  <2>5. QED
    BY <1>0, <2>1, <2>2, <2>3, <2>4
<1>3. /\ ~Listed(m) /\ stored[m] = v /\ Free(c, m)
  BY <1>0, <1>1, <1>2 DEF CreateNew, Free
<1>4. \A k \in Monitors :
        call[c].id = k \/ (\E i \in DOMAIN call[c].rows : call[c].rows[i].id = k) => k = m
  BY <1>0, <1>2 DEF Monitors, None
<1>5. /\ DOMAIN list = 1 .. Len(list) /\ Len(list) \in Nat /\ DOMAIN list' = 1 .. Len(list) + 1
      /\ list'[1] = [id |-> m, doc |-> v]
      /\ \A i \in DOMAIN list : i + 1 \in DOMAIN list' /\ list'[i + 1] = list[i]
      /\ \A i \in DOMAIN list' : i = 1 \/ (i - 1 \in DOMAIN list /\ list'[i] = list[i - 1])
  <2>1. list \in Seq(Row)
    BY DEF TypeOK
  <2>0. PICK r : r = call[c].rows
    OBVIOUS
  <2>2. r \in Seq(Row) /\ Len(r) = 1 /\ r[1] = [id |-> m, doc |-> v] /\ list' = r \o list
    BY <1>2, <2>0
  <2>3. /\ DOMAIN list = 1 .. Len(list) /\ Len(list) \in Nat /\ DOMAIN list' = 1 .. Len(list) + 1
        /\ list'[1] = r[1]
        /\ \A i \in 1 .. Len(list) : list'[i + 1] = list[i]
    <3>1. DOMAIN list = 1 .. Len(list) /\ Len(list) \in Nat
      BY <2>1
    <3>0. r \in Seq(Row)
      BY <2>2
    <3>2. Len(r \o list) = Len(r) + Len(list) /\ r \o list \in Seq(Row)
      BY <2>1, <3>0, ConcatSpec
    <3>3. \A i \in 1 .. Len(r) : (r \o list)[i] = r[i]
      BY <2>1, <3>0, ConcatSpec
    <3>4. \A i \in 1 .. Len(list) : (r \o list)[Len(r) + i] = list[i]
      BY <2>1, <3>0, ConcatSpec
    <3>5. \A i \in 1 .. Len(list) : 1 + i = i + 1
      BY <3>1
    <3>6. QED
      BY <2>2, <3>1, <3>2, <3>3, <3>4, <3>5
  <2>4. \A i \in 2 .. Len(list) + 1 : i - 1 \in 1 .. Len(list) /\ i = (i - 1) + 1
    BY <2>3
  <2>5. QED
    BY <2>2, <2>3, <2>4
<1>6. \A i, j \in DOMAIN list' : list'[i].id = list'[j].id => i = j
  <2>1. 1 \in DOMAIN list' /\ \A i \in DOMAIN list' : i = 1 <=> list'[i].id = m
    <3>1. 1 \in DOMAIN list' /\ list'[1].id = m
      BY <1>5
    <3>2. ASSUME NEW i \in DOMAIN list', i # 1 PROVE list'[i].id # m
      BY <1>3, <1>5, <3>2 DEF Listed
    <3>3. QED
      BY <3>1, <3>2
  <2>2. ASSUME NEW i \in DOMAIN list', NEW j \in DOMAIN list', i # 1, j # 1, list'[i].id = list'[j].id
        PROVE  i = j
    <3>1. i - 1 \in DOMAIN list /\ j - 1 \in DOMAIN list /\ list[i - 1].id = list[j - 1].id
      BY <1>5, <2>2
    <3>2. i - 1 = j - 1
      BY <3>1 DEF ListRight
    <3>3. QED
      BY <1>5, <3>2
  <2>3. ASSUME NEW i \in DOMAIN list', NEW j \in DOMAIN list', list'[i].id = list'[j].id
        PROVE  i = j
    <3>1. CASE i = 1
      <4>1. list'[j].id = m
        BY <2>1, <2>3, <3>1
      <4>2. QED
        BY <2>1, <3>1, <4>1
    <3>2. CASE i # 1
      <4>1. j # 1
        BY <2>1, <2>3, <3>2
      <4>2. QED
        BY <2>2, <2>3, <3>2, <4>1
    <3>3. QED
      BY <3>1, <3>2
  <2>4. QED
    BY <2>3
<1>7. ASSUME NEW k, k # m PROVE Shown(k)' = Shown(k)
  <2>1. \A i \in DOMAIN list' : list'[i].id = k => \E j \in DOMAIN list : list[j] = list'[i]
    BY <1>5, <1>7
  <2>2. \A j \in DOMAIN list : \E i \in DOMAIN list' : list'[i] = list[j]
    BY <1>5
  <2>3. /\ \A row : row \in Shown(k) <=> \E i \in DOMAIN list : list[i].id = k /\ row = list[i]
        /\ \A row : row \in Shown(k)' <=> \E i \in DOMAIN list' : list'[i].id = k /\ row = list'[i]
    BY DEF Shown
  <2>4. ASSUME NEW row \in Shown(k)' PROVE row \in Shown(k)
    <3>1. PICK i \in DOMAIN list' : list'[i].id = k /\ row = list'[i]
      BY <2>3
    <3>2. PICK j \in DOMAIN list : list[j] = list'[i]
      BY <2>1, <3>1
    <3>3. QED
      BY <2>3, <3>1, <3>2
  <2>5. ASSUME NEW row \in Shown(k) PROVE row \in Shown(k)'
    <3>1. PICK i \in DOMAIN list : list[i].id = k /\ row = list[i]
      BY <2>3
    <3>2. PICK j \in DOMAIN list' : list'[j] = list[i]
      BY <2>2, <3>1
    <3>3. QED
      BY <2>3, <3>1, <3>2
  <2>6. QED
    BY <2>4, <2>5
<1>8. ListOf(m)'
  <2>1. Shown(m)' = {[id |-> m, doc |-> v]}
    <3>1. 1 \in DOMAIN list' /\ \A i \in DOMAIN list' : list'[i].id = m => i = 1
      BY <1>3, <1>5 DEF Listed
    <3>2. QED
      BY <1>5, <3>1 DEF Shown
  <2>2. QED
    BY <1>2, <1>3, <2>1 DEF ListOf, StoredRow
<1>9. QED
  BY <1>1, <1>3, <1>4, <1>6, <1>7, <1>8, ListAnswer

\* The summary is shown: no change is in flight, and so the list is what is stored.
LEMMA ListFetched ==
  ASSUME TypeOK, CallsInv, NEW c \in InFlight({"summary"}), call[c].clean, call[c].reply = "ok",
         NEW kinds, Forgets(call', call, {c}, kinds), UNCHANGED stored, list' = call[c].rows
  PROVE  ListRight'
<1>1. c \in Calls /\ call[c].kind = "summary" /\ list' = StoredRows
  BY DEF InFlight, CallsInv, SummaryRight
<1>2. InFlight(Changes) = {}
  <2> SUFFICES ASSUME NEW d \in Calls, call[d].kind \in Changes PROVE FALSE
    BY DEF InFlight
  <2>1. d # c
    BY <1>1 DEF Changes
  <2>2. QED
    BY <1>1, <2>1 DEF CallsInv, Alone, Conflict
<1>3. InFlight(Changes)' = {}
  BY <1>2, ForgetFacts DEF InFlight, Kept
<1>4. InFlight({"create"})' = {} /\ InFlight({"save", "interval", "delete"})' = {}
  BY <1>3 DEF InFlight, Changes
<1>5. /\ \A i, j \in DOMAIN list' : list'[i].id = list'[j].id => i = j
      /\ \A i \in DOMAIN list' :
           LET m == list'[i].id IN
           m \in Monitors /\ stored[m] # None /\ list'[i] = [id |-> m, doc |-> stored[m]]
      /\ \A m \in Monitors : stored[m] # None =>
           \E i \in DOMAIN list' : list'[i] = [id |-> m, doc |-> stored[m]]
  BY <1>1, StoredRowsSpec DEF TypeOK
<1>6. ASSUME NEW m \in Monitors PROVE ListOf(m)'
  <2>0. \A i \in DOMAIN list' : list'[i].id = m =>
          stored[m] # None /\ list'[i] = [id |-> m, doc |-> stored[m]]
    BY <1>5
  <2>1. CASE stored[m] = None
    <3>1. Shown(m)' = {}
      BY <2>0, <2>1 DEF Shown
    <3>2. QED
      BY <2>1, <3>1 DEF ListOf, StoredRow
  <2>2. CASE stored[m] # None
    <3>0. PICK i \in DOMAIN list' : list'[i] = [id |-> m, doc |-> stored[m]]
      BY <1>5, <2>2
    <3>1. Shown(m)' = {[id |-> m, doc |-> stored[m]]}
      BY <2>0, <3>0 DEF Shown
    <3>2. QED
      BY <2>2, <3>1 DEF ListOf, StoredRow
  <2>3. QED
    BY <2>1, <2>2
<1>7. QED
  BY <1>3, <1>4, <1>5, <1>6 DEF ListRight

-----------------------------------------------------------------------------
(* The steps: pages and sessions *)

\* The answer of a call is handled.
LEMMA AnswerForgotten ==
  ASSUME CallTyped, NEW c \in Calls, call' = Done(c), NEW kinds
  PROVE  CallTyped' /\ Forgets(call', call, {c}, kinds)
<1>1. call' \in Seq(CallState) /\ Len(call') < Len(call) /\ Forgets(call', call, {c}, {})
  BY DoneSpec DEF CallTyped
<1>2. Forgets(call', call, {c}, kinds)
  <2>1. Forgets(call', call', {}, kinds)
    BY <1>1, ForgetsNothing
  <2>2. QED
    BY <1>1, <2>1, ForgetsBoth
<1>3. CallTyped'
  <2>1. Len(call') \in Nat /\ Len(call) \in Nat /\ MaxCalls \in Nat
    BY <1>1, DashboardAssumption DEF CallTyped
  <2>2. QED
    BY <1>1, <2>1 DEF CallTyped
<1>4. QED
  BY <1>2, <1>3

\* The answer of a call is handled, and components unmount.
LEMMA AnswerDetached ==
  ASSUME CallTyped, NEW c \in Calls, NEW kinds, NEW life \in {"unmounted", "gone"},
         call' = Detached(Done(c), kinds, life)
  PROVE  CallTyped' /\ Forgets(call', call, {c}, kinds)
<1>1. /\ Done(c) \in Seq(CallState) /\ Len(Done(c)) < Len(call)
      /\ Forgets(Done(c), call, {c}, {})
  BY DoneSpec DEF CallTyped
<1>2. /\ call' \in Seq(CallState) /\ Len(call') <= Len(Done(c))
      /\ Forgets(call', Done(c), {}, kinds)
  BY <1>1, DetachedSpec
<1>3. Forgets(call', call, {c}, kinds)
  BY <1>1, <1>2, ForgetsBoth
<1>4. CallTyped'
  <2>1. Len(call') \in Nat /\ Len(Done(c)) \in Nat /\ Len(call) \in Nat /\ MaxCalls \in Nat
    BY <1>1, <1>2, DashboardAssumption DEF CallTyped
  <2>2. QED
    BY <1>1, <1>2, <2>1 DEF CallTyped
<1>5. QED
  BY <1>3, <1>4

\* What another page needs to know.
Elsewhere(lost) ==
  /\ CallTyped' /\ PageTyped' /\ RestTyped'
  /\ Forgets(call', call, lost, Kinds)
  /\ panel' = NoPanel /\ ~ui'.open
  /\ page' = "dashboard" => mixed' /\ list' = <<>> /\ ui'.editing = None
  /\ \A i \in Calls' : Mounted(i)' => call'[i].kind \notin PanelCalls

\* The server's state stays, but for the link that the user may get.
ServerKept == UNCHANGED <<stored, created, account, linked, edits>> /\ link' \in BOOLEAN

\* Another page starts anew.
LEMMA ElsewhereInv ==
  ASSUME DashboardInv, NEW lost, Elsewhere(lost), ServerKept \/ UNCHANGED <<server, edits>>
  PROVE  DashboardInv'
<1>1. UNCHANGED <<stored, created, account, linked, edits>> /\ link' \in BOOLEAN
  BY DEF ServerKept, server, DashboardInv, TypeOK
<1>2. TypeOK'
  BY <1>1 DEF Elsewhere, DashboardInv, TypeOK, CallTyped, PageTyped, RestTyped
<1>3. CallsInv'
  BY <1>1, CallsForget DEF Elsewhere, DashboardInv
<1>4. PageFormed'
  <2>1. created \in Nat /\ DOMAIN <<>> = {} /\ None <= created
    BY DashboardAssumption DEF DashboardInv, TypeOK, None
  <2>2. page' = "dashboard" => ui'.editing <= created /\ \A i \in DOMAIN list' : list'[i].id <= created
    BY <2>1 DEF Elsewhere
  <2>3. edits' # 0 /\ \A m \in Monitors : stored'[m] # None => m <= created'
    BY <1>1 DEF DashboardInv, PageFormed
  <2>4. QED
    BY <1>1, <2>2, <2>3 DEF Elsewhere, PageFormed
<1>5. PanelRight' /\ DraftRight' /\ ListRight'
  BY FreshTyped DEF Elsewhere, PanelRight, DraftRight, ListRight
<1>6. QED
  BY <1>2, <1>3, <1>4, <1>5 DEF DashboardInv

\* To enter a page is to be elsewhere, be it with a call that has been answered.
LEMMA EnterElsewhere ==
  ASSUME DashboardInv, NEW to \in {"auth", "dashboard", "demo", "away"},
         NEW life \in {"unmounted", "gone"}, RestTyped',
         NEW lost,
         \/ Enter(to, call, life) /\ lost = {}
         \/ \E c \in Calls : Enter(to, Done(c), life) /\ lost = {c}
  PROVE  Elsewhere(lost)
<1>1. CallTyped /\ MaxCalls \in Nat /\ Len(call) \in Nat
  BY DashboardAssumption DEF DashboardInv, TypeOK, CallTyped
<1>2. CASE Enter(to, call, life) /\ lost = {}
  BY <1>1, <1>2, EnterEffect DEF Elsewhere, CallTyped
<1>3. ASSUME NEW c \in Calls, Enter(to, Done(c), life), lost = {c}
      PROVE  Elsewhere(lost)
  <2>1. /\ Done(c) \in Seq(CallState) /\ Len(Done(c)) <= MaxCalls
        /\ Forgets(Done(c), call, {c}, {})
    <3>1. Done(c) \in Seq(CallState) /\ Len(Done(c)) < Len(call) /\ Forgets(Done(c), call, {c}, {})
      BY <1>1, DoneSpec DEF CallTyped
    <3>2. Len(Done(c)) \in Nat
      BY <3>1
    <3>3. QED
      BY <1>1, <3>1, <3>2 DEF CallTyped
  <2>2. /\ CallTyped' /\ PageTyped' /\ Forgets(call', Done(c), {}, Kinds)
        /\ page' = to /\ ~ui'.open /\ ui'.editing = None /\ panel' = NoPanel
        /\ to = "dashboard" => mixed' /\ list' = <<>>
        /\ \A i \in Calls' : ~Mounted(i)'
    BY <1>3, <2>1, EnterEffect
  <2>3. Forgets(call', call, {c}, Kinds)
    BY <2>1, <2>2, ForgetsBoth
  <2>4. QED
    BY <1>3, <2>2, <2>3 DEF Elsewhere
<1>4. QED
  BY <1>2, <1>3

\* A call without a session, and a logout, end on the sign-in page.
LEMMA RedirectElsewhere ==
  ASSUME DashboardInv, NEW c \in Calls, redirectToAuth(Done(c)), RestTyped'
  PROVE  Elsewhere({c})
<1>1. CASE page = "auth"
  <2>1. call' = Done(c) /\ UNCHANGED <<page, list, ui, panel, submitting, mixed, stray, draft>>
    BY <1>1 DEF redirectToAuth, history
  <2>2. CallTyped /\ PageTyped
    BY DEF DashboardInv, TypeOK, CallTyped, PageTyped
  <2>3. CallTyped' /\ Forgets(call', call, {c}, Kinds)
    BY <2>1, <2>2, AnswerForgotten
  <2>4. PageTyped'
    BY <2>1, <2>2 DEF PageTyped
  <2>5. panel' = NoPanel /\ ~ui'.open /\ page' # "dashboard"
    BY <1>1, <2>1 DEF DashboardInv, PageFormed
  <2>6. \A i \in Calls' : Mounted(i)' => call'[i].kind \notin PanelCalls
    BY <1>1, <2>3, ForgetFacts DEF DashboardInv, PageFormed, Mounted, Kept
  <2>7. QED
    BY <2>3, <2>4, <2>5, <2>6 DEF Elsewhere
<1>2. CASE page # "auth"
  BY <1>2, EnterElsewhere DEF redirectToAuth
<1>3. QED
  BY <1>1, <1>2

\* A step that sends nothing, on a page that stays: for each part of the invariant, the
\* step does not touch it or is known to keep it.
LEMMA QuietInv ==
  ASSUME DashboardInv, NEW lost, NEW kinds, Forgets(call', call, lost, kinds), kinds \cap Changes = {},
         CallTyped', ServerTyped', PageTyped', RestTyped',
         UNCHANGED <<stored, created, page>>, linked => linked', edits' # 0,
         \/ draft' = draft /\ (ui'.open => ui.open /\ ui'.editing = ui.editing)
         \/ DraftRight',
         ui'.editing \in {ui.editing, None} \/ Listed(ui'.editing),
         page \notin {"dashboard", "demo"} => panel' = NoPanel /\ (ui'.open => ui.open),
         \/ stray' \/ panel'.status # "on"
         \/ /\ panel' = panel /\ stray' = stray /\ "disconnect" \notin kinds
            /\ \A c \in lost \cap Calls : call[c].kind # "disconnect" \/ ~Mounted(c)
         \/ PanelRight',
         \/ page # "dashboard" \/ mixed'
         \/ /\ mixed' = mixed /\ list' = list
            /\ \A c \in lost \cap Calls : call[c].kind \notin Changes \/ ~Mounted(c)
         \/ ListRight',
         page = "dashboard" => \A i \in DOMAIN list' : list'[i].id <= created
  PROVE  DashboardInv'
<1>0. TypeOK /\ CallsInv /\ PageFormed /\ PanelRight /\ DraftRight /\ ListRight
  BY DEF DashboardInv
<1>1. TypeOK'
  BY DEF TypeOK, CallTyped, ServerTyped, PageTyped, RestTyped
<1>2. CallsInv'
  BY <1>0, CallsForget
<1>3. PageFormed'
  <2>1. page = "dashboard" => ui'.editing <= created
    <3>1. None <= created
      BY <1>0, DashboardAssumption DEF TypeOK, None
    <3>2. page = "dashboard" => ui.editing <= created /\ \A m : Listed(m) => m <= created
      BY <1>0 DEF PageFormed, Listed
    <3>3. QED
      BY <3>1, <3>2
  <2>2. page \notin {"dashboard", "demo"} => ~ui'.open
    BY <1>0 DEF PageFormed
  <2>3. \A m \in Monitors : stored'[m] # None => m <= created'
    BY <1>0 DEF PageFormed
  <2>4. \A i \in Calls' : Mounted(i)' /\ call'[i].kind \in PanelCalls => page = "dashboard"
    BY <1>0, ForgetFacts DEF PageFormed, Mounted, Kept
  <2>5. QED
    BY <2>1, <2>2, <2>3, <2>4 DEF PageFormed
<1>4. DraftRight'
  <2>1. CASE draft' = draft /\ (ui'.open => ui.open /\ ui'.editing = ui.editing)
    BY <1>0, <2>1, DraftForget
  <2>2. QED
    BY <2>1
<1>5. PanelRight'
  <2>1. CASE stray' \/ panel'.status # "on"
    BY <2>1 DEF PanelRight
  <2>2. CASE /\ panel' = panel /\ stray' = stray /\ "disconnect" \notin kinds
             /\ \A c \in lost \cap Calls : call[c].kind # "disconnect" \/ ~Mounted(c)
    BY <1>0, <2>2, PanelForget
  <2>3. QED
    BY <2>1, <2>2
<1>6. ListRight'
  <2>1. CASE page # "dashboard" \/ mixed'
    BY <2>1 DEF ListRight
  <2>2. CASE /\ mixed' = mixed /\ list' = list
             /\ \A c \in lost \cap Calls : call[c].kind \notin Changes \/ ~Mounted(c)
    BY <1>0, <2>2, ListForget DEF CallsInv
  <2>3. QED
    BY <2>1, <2>2
<1>7. QED
  BY <1>1, <1>2, <1>3, <1>4, <1>5, <1>6 DEF DashboardInv

\* A step that sends a call.
LEMMA SendInv ==
  ASSUME DashboardInv, CanSend, NEW kind \in Kinds, NEW m \in Monitors \cup {None}, NEW v \in Versions,
         Send(kind, m, v), PageTyped', RestTyped',
         UNCHANGED <<server, page, list, mixed, stray, draft>>, edits' # 0,
         ui'.open = ui.open, ui'.editing = ui.editing, panel'.status = panel.status,
         page \notin {"dashboard", "demo"} => panel' = panel,
         kind \in Changes => page = "dashboard" /\ (v = None <=> kind = "delete"),
         kind \in {"interval", "delete"} => m \in Monitors /\ Listed(m),
         kind = "save" => m = ui.editing /\ m # None,
         kind = "create" => m = ui.editing /\ m = None,
         kind \notin Changes => m = None, kind \in PanelCalls => page = "dashboard"
  PROVE  DashboardInv'
<1>0. TypeOK /\ CallsInv /\ PageFormed /\ PanelRight /\ DraftRight /\ ListRight
  BY DEF DashboardInv
<1>1. UNCHANGED <<stored, created, account, linked, link>>
  BY DEF server
<1>2. CallTyped' /\ ServerTyped'
  BY <1>0, <1>1, SendEffect DEF CallTyped, ServerTyped, TypeOK
<1>3. TypeOK'
  BY <1>2 DEF TypeOK, CallTyped, ServerTyped, PageTyped, RestTyped
<1>4. m <= created
  <2>1. None <= created
    BY <1>0, DashboardAssumption DEF TypeOK, None
  <2>2. page = "dashboard" => ui.editing <= created /\ (Listed(m) => m <= created)
    BY <1>0 DEF PageFormed, Listed
  <2>3. kind \notin Changes \/ kind \in {"interval", "delete"} \/ kind \in {"save", "create"}
    BY DEF Changes
  <2>4. QED
    BY <2>1, <2>2, <2>3 DEF Changes
<1>5. CallsInv'
  BY <1>0, <1>4, CallsSend
<1>6. PageFormed'
  <2>0. PICK n : n = Len(call) + 1
    OBVIOUS
  <2>1. /\ Calls' = Calls \cup {n} /\ call'[n].kind = kind
        /\ \A c \in Calls : Kept(call'[c], call[c])
    BY <1>0, <2>0, SendEffect
  <2>2. \A i \in Calls' : Mounted(i)' /\ call'[i].kind \in PanelCalls => page = "dashboard"
    BY <1>0, <2>1 DEF PageFormed, Mounted, Kept
  <2>3. QED
    BY <1>0, <1>1, <2>2 DEF PageFormed
<1>7. PanelRight'
  BY <1>0, <1>1, PanelSend
<1>8. DraftRight'
  BY <1>0, DraftSend
<1>9. ListRight'
  BY <1>0, <1>1, ListSend
<1>10. QED
  BY <1>3, <1>5, <1>6, <1>7, <1>8, <1>9 DEF DashboardInv

\* The parts of the types.
LEMMA TypedDef ==
  TypeOK => CallTyped /\ ServerTyped /\ PageTyped /\ RestTyped /\ call \in Seq(CallState)
BY DEF TypeOK, CallTyped, ServerTyped, PageTyped, RestTyped

\* The server's part of the types and the page's part stay with what they speak of.
LEMMA TypedSame ==
  /\ CallTyped /\ UNCHANGED call => CallTyped'
  /\ ServerTyped /\ UNCHANGED <<stored, created, account, linked, link>> => ServerTyped'
  /\ PageTyped /\ UNCHANGED <<page, list, ui, panel, submitting, mixed, stray, draft>> => PageTyped'
  /\ RestTyped /\ UNCHANGED <<cookie, edits, faults>> => RestTyped'
BY DEF CallTyped, ServerTyped, PageTyped, RestTyped

\* The rows of the dashboard are of monitors that have been created.
LEMMA ListKnown ==
  ASSUME DashboardInv, page = "dashboard"
  PROVE  \A i \in DOMAIN list : list[i].id <= created
BY DEF DashboardInv, PageFormed

\* Nothing happens.
LEMMA StutterStep == DashboardInv /\ UNCHANGED vars => DashboardInv'
<1> SUFFICES ASSUME DashboardInv, UNCHANGED vars PROVE DashboardInv'
  OBVIOUS
<1>1. UNCHANGED <<stored, created, account, linked, link, cookie, call, page, list, ui, panel, submitting,
                  mixed, stray, draft, edits, faults>>
  BY DEF vars, server, history
<1>2. Forgets(call', call, {}, {})
  BY <1>1, ForgetsNothing, TypedDef DEF DashboardInv
<1>3. CallTyped' /\ ServerTyped' /\ PageTyped' /\ RestTyped'
  BY <1>1, TypedDef, TypedSame DEF DashboardInv
<1>4. edits' # 0 /\ (page \notin {"dashboard", "demo"} => panel' = NoPanel)
  BY <1>1 DEF DashboardInv, PageFormed
<1>5. QED
  BY <1>1, <1>2, <1>3, <1>4, QuietInv, ListKnown

\* The bot links the account.
LEMMA BotLinksStep == DashboardInv /\ BotLinks => DashboardInv'
<1> SUFFICES ASSUME DashboardInv, BotLinks PROVE DashboardInv'
  OBVIOUS
<1>1. /\ UNCHANGED <<stored, created, account, cookie, call, page, list, ui, panel, submitting,
                     mixed, stray, draft, edits, faults>>
      /\ linked' = TRUE /\ link' = FALSE
  BY DEF BotLinks, Stay, history
<1>2. Forgets(call', call, {}, {})
  BY <1>1, ForgetsNothing, TypedDef DEF DashboardInv
<1>3. CallTyped' /\ ServerTyped' /\ PageTyped' /\ RestTyped'
  <2>1. ServerTyped'
    BY <1>1, TypedDef DEF DashboardInv, ServerTyped
  <2>2. QED
    BY <1>1, <2>1, TypedDef, TypedSame DEF DashboardInv
<1>4. edits' # 0 /\ (page \notin {"dashboard", "demo"} => panel' = NoPanel)
  BY <1>1 DEF DashboardInv, PageFormed
<1>5. QED
  BY <1>1, <1>2, <1>3, <1>4, QuietInv, ListKnown

\* The session expires.
LEMMA SessionExpiresStep == DashboardInv /\ SessionExpires => DashboardInv'
<1> SUFFICES ASSUME DashboardInv, SessionExpires PROVE DashboardInv'
  OBVIOUS
<1>1. /\ UNCHANGED <<stored, created, account, linked, link, call, page, list, ui, panel, submitting,
                     mixed, stray, draft, edits>>
      /\ cookie' = FALSE /\ faults < MaxFaults /\ faults' = faults + 1
  BY DEF SessionExpires, server, history
<1>2. Forgets(call', call, {}, {})
  BY <1>1, ForgetsNothing, TypedDef DEF DashboardInv
<1>3. CallTyped' /\ ServerTyped' /\ PageTyped' /\ RestTyped'
  <2>0. RestTyped
    BY TypedDef DEF DashboardInv
  <2>1. cookie' \in BOOLEAN /\ edits' \in Versions
    BY <1>1, <2>0 DEF RestTyped
  <2>3. faults' \in 0 .. MaxFaults
    BY <1>1, <2>0, DashboardAssumption DEF RestTyped
  <2>4. RestTyped'
    BY <2>1, <2>3 DEF RestTyped
  <2>5. QED
    BY <1>1, <2>4, TypedDef, TypedSame DEF DashboardInv
<1>4. edits' # 0 /\ (page \notin {"dashboard", "demo"} => panel' = NoPanel)
  BY <1>1 DEF DashboardInv, PageFormed
<1>5. QED
  BY <1>1, <1>2, <1>3, <1>4, QuietInv, ListKnown

\* The user opens the dashboard or its demo.
LEMMA VisitStep == DashboardInv /\ Visit => DashboardInv'
<1> SUFFICES ASSUME DashboardInv, Visit PROVE DashboardInv'
  OBVIOUS
<1>1. RestTyped'
  BY TypedDef, DashboardAssumption DEF DashboardInv, RestTyped, Visit
<1>2. PICK to \in {"dashboard", "demo"} :
        Enter(to, call, IF page = "away" THEN "gone" ELSE "unmounted")
  BY DEF Visit
<1>3. UNCHANGED <<server, edits>>
  BY DEF Visit
<1>4. Elsewhere({})
  BY <1>1, <1>2, EnterElsewhere
<1>5. QED
  BY <1>3, <1>4, ElsewhereInv

\* The user signs in or registers.
LEMMA SubmitStep ==
  ASSUME DashboardInv, handleRegister \/ handleLogin
  PROVE  DashboardInv'
<1>1. PICK kind \in {"register", "login"} : Submit(kind)
  BY DEF handleRegister, handleLogin
<1>2. /\ page = "auth" /\ CanSend /\ edits < MaxEdits /\ edits' = edits + 1 /\ submitting' = TRUE
      /\ Send(kind, None, None)
      /\ UNCHANGED <<server, cookie, page, list, ui, panel, history, faults>>
  BY <1>1 DEF Submit
<1>3. UNCHANGED <<mixed, stray, draft>>
  BY <1>2 DEF history
<1>4. PageTyped' /\ RestTyped' /\ edits' # 0
  BY <1>2, <1>3, TypedDef, DashboardAssumption DEF DashboardInv, PageTyped, RestTyped, Versions
<1>5. kind \in Kinds /\ kind \notin Changes /\ kind \notin PanelCalls /\ None \in Versions
  BY DashboardAssumption DEF Kinds, Public, Changes, PanelCalls, Versions, None
<1>6. QED
  BY <1>2, <1>3, <1>4, <1>5, SendInv DEF Changes

\* The sign-in is answered.
LEMMA SignInStep ==
  ASSUME DashboardInv, NEW c \in Calls, SignInAnswered(c)
  PROVE  DashboardInv'
<1>1. /\ UNCHANGED <<server, edits, faults>> /\ cookie' \in BOOLEAN
      /\ call[c].kind \in {"login", "register"}
  <2>1. cookie' \in BOOLEAN
    BY DEF SignInAnswered, DashboardInv, TypeOK
  <2>2. QED
    BY <2>1 DEF SignInAnswered, Answered
<1>2. RestTyped'
  BY <1>1, TypedDef DEF DashboardInv, RestTyped
<1>3. CASE Enter("dashboard", Done(c), "unmounted")
  BY <1>1, <1>2, <1>3, EnterElsewhere, ElsewhereInv
<1>4. CASE /\ call' = Done(c)
           /\ submitting' = (submitting /\ ~Mounted(c))
           /\ UNCHANGED <<page, list, ui, panel, history>>
  <2>1. UNCHANGED <<stored, created, account, linked, link, mixed, stray, draft>>
    BY <1>1, <1>4 DEF server, history
  <2>2. CallTyped' /\ Forgets(call', call, {c}, {})
    BY <1>4, TypedDef, AnswerForgotten DEF DashboardInv
  <2>3. ServerTyped' /\ PageTyped'
    <3>1. submitting' \in BOOLEAN
      BY <1>4 DEF DashboardInv, TypeOK
    <3>2. QED
      BY <1>4, <2>1, <3>1, TypedDef DEF DashboardInv, PageTyped, ServerTyped
  <2>4. edits' # 0 /\ (page \notin {"dashboard", "demo"} => panel' = NoPanel)
    BY <1>1, <1>4 DEF DashboardInv, PageFormed
  <2>5. \A d \in {c} \cap Calls : call[d].kind \notin Changes /\ call[d].kind # "disconnect"
    BY <1>1 DEF Changes
  <2>6. QED
    BY <1>1, <1>2, <1>4, <2>1, <2>2, <2>3, <2>4, <2>5, QuietInv, ListKnown
<1>5. QED
  BY <1>3, <1>4 DEF SignInAnswered

\* A call without a session is answered.
LEMMA Answered401Step ==
  ASSUME DashboardInv, NEW c \in Calls, Answered401(c)
  PROVE  DashboardInv'
<1>1. UNCHANGED <<server, cookie, edits, faults>>
  BY DEF Answered401
<1>2. RestTyped'
  BY <1>1, TypedDef, TypedSame DEF DashboardInv
<1>3. CASE redirectToAuth(Done(c))
  BY <1>1, <1>2, <1>3, RedirectElsewhere, ElsewhereInv
<1>4. CASE /\ call[c].life = "gone" /\ call' = Done(c)
           /\ UNCHANGED <<page, list, ui, panel, submitting, history>>
  <2>1. UNCHANGED <<stored, created, account, linked, link, mixed, stray, draft>>
    BY <1>1, <1>4 DEF server, history
  <2>2. CallTyped' /\ Forgets(call', call, {c}, {})
    BY <1>4, TypedDef, AnswerForgotten DEF DashboardInv
  <2>3. ServerTyped' /\ PageTyped'
    BY <1>4, <2>1, TypedDef, TypedSame DEF DashboardInv
  <2>4. edits' # 0 /\ (page \notin {"dashboard", "demo"} => panel' = NoPanel)
    BY <1>1, <1>4 DEF DashboardInv, PageFormed
  <2>5. \A d \in {c} \cap Calls : ~Mounted(d)
    BY <1>4 DEF Mounted
  <2>6. QED
    BY <1>1, <1>2, <1>4, <2>1, <2>2, <2>3, <2>4, <2>5, QuietInv, ListKnown
<1>5. QED
  BY <1>3, <1>4 DEF Answered401

\* The logout is answered.
LEMMA LogoutAnsweredStep ==
  ASSUME DashboardInv, NEW c \in Calls, LogoutAnswered(c)
  PROVE  DashboardInv'
<1>1. /\ UNCHANGED <<server, edits, faults>> /\ cookie' \in BOOLEAN /\ call[c].kind = "logout"
  <2>1. cookie' \in BOOLEAN
    BY DEF LogoutAnswered, DashboardInv, TypeOK
  <2>2. QED
    BY <2>1 DEF LogoutAnswered, Answered
<1>2. RestTyped'
  BY <1>1, TypedDef DEF DashboardInv, RestTyped
<1>3. CASE redirectToAuth(Done(c))
  BY <1>1, <1>2, <1>3, RedirectElsewhere, ElsewhereInv
<1>4. CASE call' = Done(c) /\ UNCHANGED <<page, list, ui, panel, submitting, history>>
  <2>1. UNCHANGED <<stored, created, account, linked, link, mixed, stray, draft>>
    BY <1>1, <1>4 DEF server, history
  <2>2. CallTyped' /\ Forgets(call', call, {c}, {})
    BY <1>4, TypedDef, AnswerForgotten DEF DashboardInv
  <2>3. ServerTyped' /\ PageTyped'
    BY <1>4, <2>1, TypedDef, TypedSame DEF DashboardInv
  <2>4. edits' # 0 /\ (page \notin {"dashboard", "demo"} => panel' = NoPanel)
    BY <1>1, <1>4 DEF DashboardInv, PageFormed
  <2>5. \A d \in {c} \cap Calls : call[d].kind \notin Changes /\ call[d].kind # "disconnect"
    BY <1>1 DEF Changes
  <2>6. QED
    BY <1>1, <1>2, <1>4, <2>1, <2>2, <2>3, <2>4, <2>5, QuietInv, ListKnown
<1>5. QED
  BY <1>3, <1>4 DEF LogoutAnswered

\* The user logs out, or leaves the demo.
LEMMA LogoutStep == DashboardInv /\ handleLogout => DashboardInv'
<1> SUFFICES ASSUME DashboardInv, handleLogout PROVE DashboardInv'
  OBVIOUS
<1>1. UNCHANGED <<server, cookie, edits, faults>>
  BY DEF handleLogout
<1>2. RestTyped'
  BY <1>1, TypedDef, TypedSame DEF DashboardInv
<1>3. CASE page = "demo"
  <2>1. Enter("away", call, "unmounted")
    BY <1>3 DEF handleLogout
  <2>2. Elsewhere({})
    BY <1>2, <2>1, EnterElsewhere
  <2>3. QED
    BY <1>1, <2>2, ElsewhereInv
<1>4. CASE page # "demo"
  <2>1. CanSend /\ Send("logout", None, None) /\ UNCHANGED <<page, list, ui, panel, submitting, history>>
    BY <1>4 DEF handleLogout
  <2>2. UNCHANGED <<mixed, stray, draft>>
    BY <2>1 DEF history
  <2>3. PageTyped' /\ edits' # 0
    BY <1>1, <2>1, <2>2, TypedDef, TypedSame DEF DashboardInv, PageFormed
  <2>4. /\ "logout" \in Kinds /\ "logout" \notin Changes /\ "logout" \notin PanelCalls
        /\ None \in Versions
    BY DashboardAssumption DEF Kinds, Public, Changes, PanelCalls, Versions, None
  <2>5. QED
    BY <1>1, <1>2, <2>1, <2>2, <2>3, <2>4, SendInv
<1>5. QED
  BY <1>3, <1>4

\* A timer asks for the summary.
LEMMA TimerStep == DashboardInv /\ TimerFires => DashboardInv'
<1> SUFFICES ASSUME DashboardInv, TimerFires PROVE DashboardInv'
  OBVIOUS
<1>1. /\ CanSend /\ Send("summary", None, None)
      /\ UNCHANGED <<server, cookie, page, list, ui, panel, submitting, mixed, stray, draft, edits, faults>>
  BY DEF TimerFires, history
<1>2. PageTyped' /\ RestTyped' /\ edits' # 0
  BY <1>1, TypedDef, TypedSame DEF DashboardInv, PageFormed
<1>3. /\ "summary" \in Kinds /\ "summary" \notin Changes /\ "summary" \notin PanelCalls
      /\ None \in Versions
  BY DashboardAssumption DEF Kinds, Changes, PanelCalls, Versions, None
<1>4. QED
  BY <1>1, <1>2, <1>3, SendInv

-----------------------------------------------------------------------------
(* The steps: the list of monitors *)

\* The settings are left: the panel is gone, and its calls are detached.
LEMMA LeaveSettingsEffect ==
  ASSUME CallTyped, NEW lost, \/ LeaveSettings(call) /\ lost = {}
                              \/ \E c \in Calls : LeaveSettings(Done(c)) /\ lost = {c}
  PROVE  /\ CallTyped' /\ Forgets(call', call, lost, PanelCalls)
         /\ panel' = NoPanel /\ stray' = TRUE
<1>1. CASE LeaveSettings(call) /\ lost = {}
  <2>1. /\ call \in Seq(CallState) /\ Len(call) <= MaxCalls /\ Len(call) \in Nat /\ MaxCalls \in Nat
        /\ call' = Detached(call, PanelCalls, "unmounted")
    BY <1>1, DashboardAssumption DEF CallTyped, LeaveSettings
  <2>2. /\ call' \in Seq(CallState) /\ Len(call') <= Len(call) /\ Forgets(call', call, {}, PanelCalls)
    BY <2>1, DetachedSpec
  <2>3. Len(call') \in Nat
    BY <2>2
  <2>4. QED
    BY <1>1, <2>1, <2>2, <2>3 DEF CallTyped, LeaveSettings
<1>2. ASSUME NEW c \in Calls, LeaveSettings(Done(c)), lost = {c}
      PROVE  /\ CallTyped' /\ Forgets(call', call, lost, PanelCalls)
             /\ panel' = NoPanel /\ stray' = TRUE
  BY <1>2, AnswerDetached DEF LeaveSettings
<1>3. QED
  BY <1>1, <1>2

\* The settings are shown or left.
LEMMA NavStep == DashboardInv /\ handleNavChange => DashboardInv'
<1> SUFFICES ASSUME DashboardInv, handleNavChange PROVE DashboardInv'
  OBVIOUS
<1>1. /\ UNCHANGED <<stored, created, account, linked, link, cookie, page, list, submitting, mixed, faults,
                     ui, draft, edits>>
      /\ page \in {"dashboard", "demo"}
  BY DEF handleNavChange, KeepData, Ready, server
<1>2. /\ CallTyped' /\ Forgets(call', call, {}, PanelCalls) /\ stray' = TRUE
      /\ panel' \in PanelState
  <2>1. CASE LeaveSettings(call)
    BY <2>1, LeaveSettingsEffect, FreshTyped, TypedDef DEF DashboardInv
  <2>2. CASE panel' = NewPanel /\ stray' = TRUE /\ UNCHANGED call
    <3>1. Forgets(call', call, {}, PanelCalls)
      BY <2>2, TypedDef, ForgetsNothing DEF DashboardInv
    <3>2. QED
      BY <2>2, <3>1, FreshTyped, TypedDef, TypedSame DEF DashboardInv
  <2>3. QED
    BY <2>1, <2>2 DEF handleNavChange
<1>3. ServerTyped' /\ PageTyped' /\ RestTyped'
  BY <1>1, <1>2, TypedDef, TypedSame DEF DashboardInv, PageTyped
<1>4. edits' # 0 /\ PanelCalls \cap Changes = {}
  BY <1>1 DEF DashboardInv, PageFormed, PanelCalls, Changes
<1>5. QED
  BY <1>1, <1>2, <1>3, <1>4, QuietInv, ListKnown

\* The editor is opened: with no change in flight it is a draft.
LEMMA OpenEditorStep ==
  ASSUME DashboardInv, NEW m \in Monitors \cup {None}, OpenEditor(m)
  PROVE  DashboardInv'
<1>1. /\ UNCHANGED <<stored, created, account, linked, link, cookie, page, list, submitting, mixed, faults, edits>>
      /\ page \in {"dashboard", "demo"} /\ ui' = [ui EXCEPT !.open = TRUE, !.editing = m]
      /\ draft' = (InFlight(Changes) = {}) /\ LeaveSettings(call)
      /\ m = None \/ Listed(m)
  BY DEF OpenEditor, KeepData, Ready, server, InList, Listed
<1>2. /\ CallTyped' /\ Forgets(call', call, {}, PanelCalls) /\ stray' = TRUE /\ panel' = NoPanel
  BY <1>1, LeaveSettingsEffect, TypedDef DEF DashboardInv
<1>3. ui' \in UiState /\ ui'.editing = m
  BY <1>1 DEF DashboardInv, TypeOK, UiState
<1>4. ServerTyped' /\ PageTyped' /\ RestTyped'
  BY <1>1, <1>2, <1>3, TypedDef, TypedSame, FreshTyped DEF DashboardInv, PageTyped
<1>5. edits' # 0 /\ PanelCalls \cap Changes = {}
  BY <1>1 DEF DashboardInv, PageFormed, PanelCalls, Changes
<1>6. DraftRight'
  <2>1. ASSUME InFlight(Changes) = {}, NEW i \in Calls' PROVE call'[i].kind \notin Changes
    BY <1>2, <2>1, ForgetFacts DEF InFlight, Kept
  <2>2. QED
    BY <1>1, <2>1 DEF DraftRight, Changes
<1>7. QED
  BY <1>1, <1>2, <1>3, <1>4, <1>5, <1>6, QuietInv, ListKnown

\* The user closes the editor.
LEMMA CloseEditorStep == DashboardInv /\ closeMonitorEditor => DashboardInv'
<1> SUFFICES ASSUME DashboardInv, closeMonitorEditor PROVE DashboardInv'
  OBVIOUS
<1>1. /\ UNCHANGED <<stored, created, account, linked, link, cookie, call, page, list, panel, submitting,
                     mixed, stray, draft, faults, edits>>
      /\ ui' = Closed(ui)
  BY DEF closeMonitorEditor, KeepData, server
<1>2. ui' \in UiState /\ ~ui'.open /\ ui'.editing = None
  BY <1>1 DEF DashboardInv, TypeOK, UiState, Closed
<1>3. CallTyped' /\ ServerTyped' /\ PageTyped' /\ RestTyped'
  BY <1>1, <1>2, TypedDef, TypedSame DEF DashboardInv, PageTyped
<1>4. edits' # 0 /\ (page \notin {"dashboard", "demo"} => panel' = NoPanel)
  BY <1>1 DEF DashboardInv, PageFormed
<1>5. Forgets(call', call, {}, {})
  BY <1>1, ForgetsNothing, TypedDef DEF DashboardInv
<1>6. QED
  BY <1>1, <1>2, <1>3, <1>4, <1>5, QuietInv, ListKnown

\* A demo that has room for a row has an identifier for it.
LEMMA NextDemoFree ==
  ASSUME list \in Seq(Row), Len(list) < MaxMonitors
  PROVE  NextDemo \in Monitors
<1>1. /\ MaxMonitors \in Nat \ {0} /\ Monitors = 1 .. MaxMonitors
      /\ Len(list) \in Nat /\ DOMAIN list = 1 .. Len(list)
  BY DashboardAssumption DEF Monitors
<1>2. /\ IsFiniteSet(Monitors) /\ Cardinality(Monitors) = MaxMonitors
      /\ IsFiniteSet(DOMAIN list) /\ Cardinality(DOMAIN list) = Len(list)
  <2>1. 1 \in Int /\ MaxMonitors \in Int /\ Len(list) \in Int
    BY <1>1
  <2>2. /\ IsFiniteSet(1 .. MaxMonitors) /\ IsFiniteSet(1 .. Len(list))
        /\ Cardinality(1 .. MaxMonitors) = IF 1 > MaxMonitors THEN 0 ELSE MaxMonitors - 1 + 1
        /\ Cardinality(1 .. Len(list)) = IF 1 > Len(list) THEN 0 ELSE Len(list) - 1 + 1
    BY <2>1, FS_Interval
  <2>3. QED
    BY <1>1, <2>2
<1>3. ASSUME \A m \in Monitors : \E i \in DOMAIN list : list[i].id = m
      PROVE  FALSE
  <2> DEFINE f == [m \in Monitors |-> CHOOSE i \in DOMAIN list : list[i].id = m]
  <2>1. \A m \in Monitors : f[m] \in DOMAIN list /\ list[f[m]].id = m
    BY <1>3
  <2>2. f \in [Monitors -> DOMAIN list]
    BY <2>1
  <2> HIDE DEF f
  <2>3. \E x, y \in Monitors : x # y /\ f[x] = f[y]
    BY <1>2, <2>2, FS_PigeonHole
  <2>4. QED
    BY <2>1, <2>3
<1>4. \E m \in Monitors : \A i \in DOMAIN list : list[i].id # m
  BY <1>3
<1>5. QED
  BY <1>4 DEF NextDemo

\* The demo does what it is asked without a server.
LEMMA DemoInv ==
  ASSUME DashboardInv, page = "demo",
         UNCHANGED <<server, cookie, call, page, submitting, history, faults>>,
         edits' = edits + 1, edits < MaxEdits,
         ui' \in UiState, ui'.editing \in {ui.editing, None},
         ui'.open => ui.open /\ ui'.editing = ui.editing,
         panel' = NoPanel \/ panel' = panel, list' \in Seq(Row)
  PROVE  DashboardInv'
<1>1. UNCHANGED <<stored, created, account, linked, link, mixed, stray, draft>>
  BY DEF server, history
<1>2. Forgets(call', call, {}, {})
  BY ForgetsNothing, TypedDef DEF DashboardInv
<1>3. CallTyped' /\ ServerTyped'
  BY <1>1, TypedDef, TypedSame DEF DashboardInv
<1>4. PageTyped'
  BY <1>1, TypedDef, FreshTyped DEF DashboardInv, PageTyped
<1>5. RestTyped' /\ edits' # 0
  BY TypedDef, DashboardAssumption DEF DashboardInv, RestTyped, Versions
<1>6. QED
  BY <1>1, <1>2, <1>3, <1>4, <1>5, QuietInv, FreshTyped

\* The user asks for a change of a row that is shown, for a new monitor, or saves the
\* one that the editor is open on.
LEMMA AskInv ==
  ASSUME DashboardInv, NEW kind \in Changes, NEW m \in Monitors \cup {None},
         NEW busy \in UiState, NEW done \in UiState, NEW rows,
         Ask(kind, m, busy, done, rows), page = "demo" => rows \in Seq(Row),
         busy.open = ui.open, busy.editing = ui.editing, done.editing \in {ui.editing, None},
         done.open => ui.open /\ done.editing = ui.editing,
         kind \in {"interval", "delete"} => m \in Monitors /\ Listed(m),
         kind = "save" => m = ui.editing /\ m # None,
         kind = "create" => m = ui.editing /\ m = None
  PROVE  DashboardInv'
<1>1. /\ page \in {"dashboard", "demo"} /\ edits < MaxEdits /\ edits' = edits + 1
      /\ UNCHANGED <<server, cookie, page, submitting, history, faults>>
  BY DEF Ask, Ready
<1>2. CASE page = "demo"
  <2>1. /\ ui' = done /\ list' = rows /\ UNCHANGED call
        /\ panel' = IF kind \in {"create", "save"} THEN NoPanel ELSE panel
    BY <1>2 DEF Ask
  <2>2. QED
    BY <1>1, <1>2, <2>1, DemoInv
<1>3. CASE page = "dashboard"
  <2>1. PICK v : v = IF kind = "delete" THEN None ELSE edits + 1
    OBVIOUS
  <2>2. CanSend /\ ui' = busy /\ Send(kind, m, v) /\ UNCHANGED <<panel, list>>
    BY <1>1, <1>3, <2>1 DEF Ask
  <2>3. UNCHANGED <<mixed, stray, draft>>
    BY <1>1 DEF history
  <2>4. RestTyped' /\ edits' # 0 /\ edits + 1 \in Versions /\ None \in Versions /\ edits + 1 # None
    BY <1>1, TypedDef, DashboardAssumption DEF DashboardInv, RestTyped, Versions, None
  <2>5. PageTyped'
    BY <1>1, <2>2, <2>3, TypedDef DEF DashboardInv, PageTyped
  <2>6. kind \in Kinds /\ v \in Versions /\ (v = None <=> kind = "delete")
    BY <2>1, <2>4 DEF Kinds
  <2>7. kind \in {"create", "save", "interval", "delete"} /\ kind \notin PanelCalls
    BY DEF Changes, PanelCalls
  <2>8. QED
    BY <1>1, <1>3, <2>2, <2>3, <2>4, <2>5, <2>6, <2>7, SendInv
<1>4. QED
  BY <1>1, <1>2, <1>3

\* The form is submitted.
LEMMA SaveStep == DashboardInv /\ handleSaveMonitor => DashboardInv'
<1> SUFFICES ASSUME DashboardInv, handleSaveMonitor PROVE DashboardInv'
  OBVIOUS
<1>1. PICK kind, busy, done, rows :
        /\ kind = IF ui.editing = None THEN "create" ELSE "save"
        /\ busy = [ui EXCEPT !.saving = TRUE] /\ done = Closed(ui)
        /\ rows = IF ui.editing = None THEN <<[id |-> NextDemo, doc |-> edits + 1]>> \o list
                                       ELSE Replaced(list, ui.editing, edits + 1)
  OBVIOUS
<1>0. PICK m : m = ui.editing
  OBVIOUS
<1>2. Ask(kind, m, busy, done, rows) /\ (page = "demo" /\ m = None => Len(list) < MaxMonitors)
  BY <1>0, <1>1 DEF handleSaveMonitor
<1>3. ui \in UiState /\ m \in Monitors \cup {None} /\ kind \in Changes
  BY <1>0, <1>1 DEF DashboardInv, TypeOK, UiState, Changes
<1>4. /\ busy \in UiState /\ busy.open = ui.open /\ busy.editing = ui.editing
      /\ done \in UiState /\ done.editing = None /\ ~done.open
  BY <1>1, <1>3 DEF UiState, Closed
<1>5. ASSUME page = "demo" PROVE rows \in Seq(Row)
  <2>1. edits + 1 \in Versions /\ list \in Seq(Row)
    BY <1>2, DashboardAssumption DEF Ask, DashboardInv, TypeOK, Versions
  <2>2. CASE m = None
    <3>0. PICK row : row = [id |-> NextDemo, doc |-> edits + 1]
      OBVIOUS
    <3>1. row \in Row
      BY <1>2, <1>5, <2>1, <2>2, <3>0, NextDemoFree DEF Row
    <3>2. <<row>> \in Seq(Row) /\ rows = <<row>> \o list
      BY <1>0, <1>1, <2>2, <3>0, <3>1
    <3>3. QED
      BY <2>1, <3>2, ConcatSpec
  <2>3. CASE m # None
    BY <1>0, <1>1, <2>1, <2>3, ReplacedSpec
  <2>4. QED
    BY <2>2, <2>3
<1>6. QED
  BY <1>0, <1>1, <1>2, <1>3, <1>4, <1>5, AskInv

\* Another interval is chosen in a row.
LEMMA IntervalStep ==
  ASSUME DashboardInv, NEW m \in Monitors, handleUpdateMonitorInterval(m)
  PROVE  DashboardInv'
<1>1. PICK busy, rows : busy = [ui EXCEPT !.interval = m] /\ rows = Replaced(list, m, edits + 1)
  OBVIOUS
<1>0. PICK done : done = ui
  OBVIOUS
<1>2. Ask("interval", m, busy, done, rows) /\ Listed(m)
  BY <1>0, <1>1 DEF handleUpdateMonitorInterval, InList, Listed
<1>3. done \in UiState /\ "interval" \in Changes /\ done = ui
  BY <1>0 DEF DashboardInv, TypeOK, Changes
<1>4. busy \in UiState /\ busy.open = ui.open /\ busy.editing = ui.editing
  BY <1>1, <1>3 DEF UiState
<1>5. rows \in Seq(Row)
  <2>1. edits + 1 \in Versions /\ list \in Seq(Row)
    BY <1>2, DashboardAssumption DEF Ask, DashboardInv, TypeOK, Versions
  <2>2. QED
    BY <1>1, <2>1, ReplacedSpec
<1>6. QED
  BY <1>2, <1>3, <1>4, <1>5, AskInv

\* A row is deleted.
LEMMA DeleteStep ==
  ASSUME DashboardInv, NEW m \in Monitors, handleDeleteMonitor(m)
  PROVE  DashboardInv'
<1>1. PICK busy, rows : busy = [ui EXCEPT !.deleting = m] /\ rows = Without(list, m)
  OBVIOUS
<1>0. PICK done : done = ui
  OBVIOUS
<1>2. Ask("delete", m, busy, done, rows) /\ Listed(m)
  BY <1>0, <1>1 DEF handleDeleteMonitor, InList, Listed
<1>3. done \in UiState /\ "delete" \in Changes /\ done = ui
  BY <1>0 DEF DashboardInv, TypeOK, Changes
<1>4. busy \in UiState /\ busy.open = ui.open /\ busy.editing = ui.editing
  BY <1>1, <1>3 DEF UiState
<1>5. rows \in Seq(Row)
  BY <1>1, WithoutSpec DEF DashboardInv, TypeOK
<1>6. QED
  BY <1>2, <1>3, <1>4, <1>5, AskInv

-----------------------------------------------------------------------------
(* The steps: what the page makes of the answers *)

\* The summary replaces the list.
LEMMA SummaryStep ==
  ASSUME DashboardInv, NEW c \in Calls, fetchSummary(c)
  PROVE  DashboardInv'
<1>1. /\ UNCHANGED <<stored, created, account, linked, link, cookie, page, panel, submitting, stray, draft,
                     edits, faults>>
      /\ call' = Done(c) /\ call[c].kind = "summary"
      /\ ui' = IF Mounted(c) THEN [ui EXCEPT !.loading = FALSE] ELSE ui
  BY DEF fetchSummary, server, Answered
<1>2. ui' \in UiState /\ ui'.open = ui.open /\ ui'.editing = ui.editing
  BY <1>1 DEF DashboardInv, TypeOK, UiState
<1>3. CallTyped' /\ Forgets(call', call, {c}, {})
  BY <1>1, TypedDef, AnswerForgotten DEF DashboardInv
<1>4. ServerTyped' /\ RestTyped' /\ edits' # 0 /\ (page \notin {"dashboard", "demo"} => panel' = NoPanel)
  BY <1>1, TypedDef, TypedSame DEF DashboardInv, PageFormed
<1>5. \A d \in {c} \cap Calls : call[d].kind \notin Changes /\ call[d].kind # "disconnect"
  BY <1>1 DEF Changes
<1>6. CASE list' = call[c].rows /\ mixed' = ~call[c].clean /\ call[c].reply = "ok"
  <2>1. list' \in Seq(Row) /\ mixed' \in BOOLEAN /\ Formed(call[c])
    BY <1>6, CallFields DEF DashboardInv, TypeOK, CallsInv, AllFormed
  <2>2. PageTyped'
    BY <1>1, <1>2, <2>1, TypedDef DEF DashboardInv, PageTyped
  <2>3. mixed' \/ ListRight'
    <3>1. c \in InFlight({"summary"})
      BY <1>1 DEF InFlight
    <3>2. QED
      BY <1>1, <1>3, <1>6, <3>1, ListFetched DEF DashboardInv
  <2>4. \A i \in DOMAIN list' : list'[i].id <= created
    BY <1>1, <1>6, <2>1 DEF Formed
  <2>5. QED
    BY <1>1, <1>2, <1>3, <1>4, <1>5, <2>2, <2>3, <2>4, QuietInv
<1>7. CASE UNCHANGED <<list, mixed>>
  <2>1. PageTyped'
    BY <1>1, <1>2, <1>7, TypedDef DEF DashboardInv, PageTyped
  <2>2. QED
    BY <1>1, <1>2, <1>3, <1>4, <1>5, <1>7, <2>1, QuietInv, ListKnown
<1>8. QED
  BY <1>6, <1>7 DEF fetchSummary

\* A change is applied to the list, or it overlapped and the list is mixed.
LEMMA AppliedList ==
  ASSUME DashboardInv, NEW c \in InFlight(Changes), call[c].reply = "ok",
         NEW kinds, Forgets(call', call, {c}, kinds), kinds \cap Changes = {},
         UNCHANGED <<stored, created>>, ui'.editing \in {ui.editing, None},
         mixed' = (mixed \/ ~call[c].clean),
         \/ call[c].kind \in {"save", "interval"} /\ list' = Replaced(list, call[c].id, call[c].doc)
         \/ call[c].kind = "create" /\ list' = call[c].rows \o list
         \/ call[c].kind = "delete" /\ list' = Without(list, call[c].id)
  PROVE  /\ list' \in Seq(Row) /\ mixed' \in BOOLEAN
         /\ page = "dashboard" => mixed' \/ ListRight'
         /\ page = "dashboard" => \A i \in DOMAIN list' : list'[i].id <= created
<1>1. /\ TypeOK /\ CallsInv /\ ListRight /\ c \in Calls /\ call \in Seq(CallState) /\ list \in Seq(Row)
      /\ Formed(call[c])
  BY DEF DashboardInv, TypeOK, CallsInv, AllFormed, InFlight
<1>2. call[c].rows \in Seq(Row) /\ call[c].doc \in Versions
  BY <1>1, CallFields
<1>3. mixed' \in BOOLEAN
  OBVIOUS
<1>4. list' \in Seq(Row) /\ (page = "dashboard" => \A i \in DOMAIN list' : list'[i].id <= created)
  <2>1. CASE call[c].kind \in {"save", "interval"}
    <3>0. PICK m, v : m = call[c].id /\ v = call[c].doc
      OBVIOUS
    <3>1. list' = Replaced(list, m, v) /\ v \in Versions /\ list \in Seq(Row)
      BY <1>1, <1>2, <2>1, <3>0
    <3>2. /\ list' \in Seq(Row) /\ DOMAIN list' = DOMAIN list
          /\ \A i \in DOMAIN list : list'[i].id = list[i].id
      BY <3>1, ReplacedRows
    <3>3. ASSUME page = "dashboard", NEW i \in DOMAIN list' PROVE list'[i].id <= created
      <4>1. i \in DOMAIN list /\ list'[i].id = list[i].id
        BY <3>2, <3>3
      <4>2. list[i].id <= created
        BY <3>3, <4>1, ListKnown
      <4>3. QED
        BY <4>1, <4>2
    <3>4. QED
      BY <3>2, <3>3
  <2>2. CASE call[c].kind = "create"
    <3>0. PICK r : r = call[c].rows
      OBVIOUS
    <3>1. list' = r \o list /\ r \in Seq(Row)
      BY <1>2, <2>2, <3>0
    <3>2. /\ list' \in Seq(Row) /\ Len(list') = Len(r) + Len(list)
          /\ \A i \in 1 .. Len(r) : list'[i] = r[i]
          /\ \A i \in 1 .. Len(list) : list'[Len(r) + i] = list[i]
      BY <1>1, <3>1, ConcatSpec
    <3>3. \A i \in DOMAIN list' : \/ i \in DOMAIN r /\ list'[i] = r[i]
                                  \/ \E j \in DOMAIN list : list'[i] = list[j]
      <4> SUFFICES ASSUME NEW i \in 1 .. Len(list'), i \notin 1 .. Len(r)
                   PROVE  \E j \in DOMAIN list : list'[i] = list[j]
        BY <3>1, <3>2
      <4>1. Len(r) \in Nat /\ Len(list) \in Nat /\ i \in Int
        BY <1>1, <3>1, <3>2
      <4>0. PICK j : j = i - Len(r)
        OBVIOUS
      <4>2. j \in 1 .. Len(list) /\ i = Len(r) + j
        BY <3>2, <4>0, <4>1
      <4>3. list'[i] = list[j]
        BY <3>2, <4>2
      <4>4. QED
        BY <1>1, <4>2, <4>3
    <3>4. \A i \in DOMAIN r : r[i].id <= created
      BY <1>1, <2>2, <3>0 DEF Formed, Changes
    <3>5. QED
      BY <3>2, <3>3, <3>4, ListKnown
  <2>3. CASE call[c].kind = "delete"
    <3>1. list' = Without(list, call[c].id)
      BY <2>3
    <3>2. /\ list' \in Seq(Row)
          /\ \A j \in DOMAIN list' : \E i \in DOMAIN list : list'[j] = list[i]
      BY <1>1, <3>1, WithoutSpec
    <3>3. QED
      BY <3>2, ListKnown
  <2>4. QED
    BY <2>1, <2>2, <2>3
<1>5. ASSUME page = "dashboard", ~mixed' PROVE ListRight'
  <2>0. ~mixed /\ call[c].clean
    BY <1>5
  <2>1. CASE call[c].kind \in {"save", "interval"}
    <3>1. c \in InFlight({"save", "interval"}) /\ list' = Replaced(list, call[c].id, call[c].doc)
      BY <1>1, <2>1 DEF InFlight
    <3>2. QED
      BY <1>1, <1>5, <2>0, <3>1, ListReplaced
  <2>2. CASE call[c].kind = "create"
    <3>1. c \in InFlight({"create"}) /\ list' = call[c].rows \o list
      BY <1>1, <2>2 DEF InFlight
    <3>2. QED
      BY <1>1, <1>5, <2>0, <3>1, ListAdded
  <2>3. CASE call[c].kind = "delete"
    <3>1. c \in InFlight({"delete"}) /\ list' = Without(list, call[c].id)
      BY <1>1, <2>3 DEF InFlight
    <3>2. QED
      BY <1>1, <1>5, <2>0, <3>1, ListWithout
  <2>4. QED
    BY <2>1, <2>2, <2>3
<1>6. QED
  BY <1>3, <1>4, <1>5

\* A change that the page does not show, or that failed: the list stays, and is mixed
\* if the call failed.
LEMMA UnappliedInv ==
  ASSUME DashboardInv, NEW c \in Calls, call[c].kind \in Changes, call' = Done(c),
         UNCHANGED <<stored, created, account, linked, link, cookie, page, list, panel, submitting, stray,
                     draft, edits, faults>>,
         ui' \in UiState, ui'.editing \in {ui.editing, None},
         ui'.open => ui.open /\ ui'.editing = ui.editing,
         mixed' \in BOOLEAN, mixed' \/ (mixed' = mixed /\ ~Mounted(c))
  PROVE  DashboardInv'
<1>1. CallTyped' /\ Forgets(call', call, {c}, {})
  BY TypedDef, AnswerForgotten DEF DashboardInv
<1>2. ServerTyped' /\ RestTyped' /\ edits' # 0 /\ (page \notin {"dashboard", "demo"} => panel' = NoPanel)
  BY TypedDef, TypedSame DEF DashboardInv, PageFormed
<1>3. PageTyped'
  BY TypedDef DEF DashboardInv, PageTyped
<1>4. \A d \in {c} \cap Calls : call[d].kind # "disconnect" /\ (mixed' \/ ~Mounted(d))
  BY DEF Changes
<1>5. QED
  BY <1>1, <1>2, <1>3, <1>4, QuietInv, ListKnown

\* A change that the page shows: the settings may be left with it.
LEMMA AppliedInv ==
  ASSUME DashboardInv, NEW c \in InFlight(Changes), call[c].reply = "ok",
         NEW kinds, CallTyped', Forgets(call', call, {c}, kinds), kinds \cap Changes = {},
         UNCHANGED <<stored, created, account, linked, link, cookie, page, submitting, draft, edits, faults>>,
         ui' \in UiState, ui'.editing \in {ui.editing, None},
         ui'.open => ui.open /\ ui'.editing = ui.editing,
         mixed' = (mixed \/ ~call[c].clean),
         \/ call[c].kind \in {"save", "interval"} /\ list' = Replaced(list, call[c].id, call[c].doc)
         \/ call[c].kind = "create" /\ list' = call[c].rows \o list
         \/ call[c].kind = "delete" /\ list' = Without(list, call[c].id),
         \/ panel' = NoPanel /\ stray' = TRUE
         \/ panel' = panel /\ stray' = stray /\ kinds = {}
  PROVE  DashboardInv'
<1>1. /\ list' \in Seq(Row) /\ mixed' \in BOOLEAN
      /\ page = "dashboard" => mixed' \/ ListRight'
      /\ page = "dashboard" => \A i \in DOMAIN list' : list'[i].id <= created
  BY AppliedList
<1>2. ServerTyped' /\ RestTyped' /\ edits' # 0
  BY TypedDef, TypedSame DEF DashboardInv, PageFormed
<1>3. panel' \in PanelState /\ stray' \in BOOLEAN /\ (page \notin {"dashboard", "demo"} => panel' = NoPanel)
  BY FreshTyped DEF DashboardInv, TypeOK, PageFormed
<1>4. PageTyped'
  BY <1>1, <1>3, TypedDef DEF DashboardInv, PageTyped
<1>5. \A d \in {c} \cap Calls : call[d].kind # "disconnect"
  BY DEF InFlight, Changes
<1>6. QED
  BY <1>1, <1>2, <1>3, <1>4, <1>5, QuietInv

\* A save closes the editor and leaves the settings.
LEMMA SavedStep ==
  ASSUME DashboardInv, NEW c \in Calls, SaveAnswered(c)
  PROVE  DashboardInv'
<1>1. /\ UNCHANGED <<stored, created, account, linked, link, cookie, page, submitting, draft, edits, faults>>
      /\ call[c].kind \in {"create", "save"} /\ c \in InFlight(Changes) /\ call[c].kind \in Changes
  BY DEF SaveAnswered, server, Answered, InFlight, Changes
<1>2. /\ ui \in UiState
      /\ [Closed(ui) EXCEPT !.saving = FALSE] \in UiState /\ [ui EXCEPT !.saving = FALSE] \in UiState
      /\ ~[Closed(ui) EXCEPT !.saving = FALSE].open /\ [Closed(ui) EXCEPT !.saving = FALSE].editing = None
      /\ [ui EXCEPT !.saving = FALSE].open = ui.open /\ [ui EXCEPT !.saving = FALSE].editing = ui.editing
  BY DEF DashboardInv, TypeOK, UiState, Closed, None
<1>3. CASE call[c].reply = "ok" /\ Mounted(c)
  <2>1. /\ ui' = [Closed(ui) EXCEPT !.saving = FALSE] /\ LeaveSettings(Done(c))
        /\ mixed' = (mixed \/ ~call[c].clean)
        /\ \/ call[c].kind = "save" /\ list' = Replaced(list, call[c].id, call[c].doc)
           \/ call[c].kind = "create" /\ list' = call[c].rows \o list
    BY <1>1, <1>3 DEF SaveAnswered, Apply
  <2>2. CallTyped' /\ Forgets(call', call, {c}, PanelCalls) /\ panel' = NoPanel /\ stray' = TRUE
    BY <2>1, LeaveSettingsEffect, TypedDef DEF DashboardInv
  <2>3. PanelCalls \cap Changes = {}
    BY DEF PanelCalls, Changes
  <2>4. ui' \in UiState /\ ~ui'.open /\ ui'.editing = None
    BY <1>2, <2>1
  <2>5. QED
    BY <1>1, <1>3, <2>1, <2>2, <2>3, <2>4, AppliedInv
<1>4. CASE call[c].reply = "ok" /\ ~Mounted(c)
  <2>1. call' = Done(c) /\ UNCHANGED <<ui, list, mixed, panel, stray>> /\ mixed \in BOOLEAN
    BY <1>4 DEF SaveAnswered, Apply, DashboardInv, TypeOK
  <2>2. QED
    BY <1>1, <1>2, <1>4, <2>1, UnappliedInv
<1>5. CASE call[c].reply # "ok"
  <2>1. /\ call' = Done(c) /\ mixed' = TRUE /\ UNCHANGED <<list, panel, stray>>
        /\ ui' = IF Mounted(c) THEN [ui EXCEPT !.saving = FALSE] ELSE ui
    BY <1>5 DEF SaveAnswered
  <2>2. ui' \in UiState /\ ui'.open = ui.open /\ ui'.editing = ui.editing
    BY <1>2, <2>1
  <2>3. QED
    BY <1>1, <2>1, <2>2, UnappliedInv
<1>6. QED
  BY <1>3, <1>4, <1>5

\* A new interval is shown.
LEMMA IntervalShownStep ==
  ASSUME DashboardInv, NEW c \in Calls, IntervalAnswered(c)
  PROVE  DashboardInv'
<1>1. /\ UNCHANGED <<stored, created, account, linked, link, cookie, page, submitting, draft, edits, faults,
                     panel, stray>>
      /\ call[c].kind = "interval" /\ c \in InFlight(Changes) /\ call[c].kind \in Changes
      /\ call' = Done(c) /\ ui' = IF Mounted(c) THEN [ui EXCEPT !.interval = None] ELSE ui
  BY DEF IntervalAnswered, server, Answered, InFlight, Changes
<1>2. ui' \in UiState /\ ui'.open = ui.open /\ ui'.editing = ui.editing
  BY <1>1 DEF DashboardInv, TypeOK, UiState
<1>3. CASE call[c].reply = "ok" /\ Mounted(c)
  <2>1. mixed' = (mixed \/ ~call[c].clean) /\ list' = Replaced(list, call[c].id, call[c].doc)
    BY <1>3 DEF IntervalAnswered, Apply
  <2>2. CallTyped' /\ Forgets(call', call, {c}, {})
    BY <1>1, AnswerForgotten, TypedDef DEF DashboardInv
  <2>3. {} \cap Changes = {}
    OBVIOUS
  <2>4. QED
    BY <1>1, <1>2, <1>3, <2>1, <2>2, <2>3, AppliedInv
<1>4. CASE ~(call[c].reply = "ok" /\ Mounted(c))
  <2>1. UNCHANGED list /\ mixed' \in BOOLEAN /\ (mixed' \/ (mixed' = mixed /\ ~Mounted(c)))
    BY <1>4 DEF IntervalAnswered, Apply, DashboardInv, TypeOK
  <2>2. QED
    BY <1>1, <1>2, <2>1, UnappliedInv
<1>5. QED
  BY <1>3, <1>4

\* A deleted row is gone; the editor is closed if it was open on it.
LEMMA DeletedStep ==
  ASSUME DashboardInv, NEW c \in Calls, DeleteAnswered(c)
  PROVE  DashboardInv'
<1>1. /\ UNCHANGED <<stored, created, account, linked, link, cookie, page, submitting, draft, edits, faults,
                     panel, stray>>
      /\ call[c].kind = "delete" /\ c \in InFlight(Changes) /\ call[c].kind \in Changes
      /\ call' = Done(c)
  BY DEF DeleteAnswered, server, Answered, InFlight, Changes
<1>2. /\ ui' \in UiState /\ ui'.editing \in {ui.editing, None}
      /\ ui'.open => ui.open /\ ui'.editing = ui.editing
  <2>0. PICK u : u = [ui EXCEPT !.deleting = None]
    OBVIOUS
  <2>1. u \in UiState /\ u.open = ui.open /\ u.editing = ui.editing /\ ui \in UiState
    BY <2>0 DEF DashboardInv, TypeOK, UiState
  <2>2. Closed(u) \in UiState /\ ~Closed(u).open /\ Closed(u).editing = None
    BY <2>1 DEF UiState, Closed
  <2>3. ui' \in {ui, u, Closed(u)}
    BY <2>0 DEF DeleteAnswered
  <2>4. QED
    BY <2>1, <2>2, <2>3
<1>3. CASE call[c].reply = "ok" /\ Mounted(c)
  <2>1. mixed' = (mixed \/ ~call[c].clean) /\ list' = Without(list, call[c].id)
    BY <1>3 DEF DeleteAnswered, Apply
  <2>2. CallTyped' /\ Forgets(call', call, {c}, {})
    BY <1>1, AnswerForgotten, TypedDef DEF DashboardInv
  <2>3. {} \cap Changes = {}
    OBVIOUS
  <2>4. QED
    BY <1>1, <1>2, <1>3, <2>1, <2>2, <2>3, AppliedInv
<1>4. CASE ~(call[c].reply = "ok" /\ Mounted(c))
  <2>1. UNCHANGED list /\ mixed' \in BOOLEAN /\ (mixed' \/ (mixed' = mixed /\ ~Mounted(c)))
    BY <1>4 DEF DeleteAnswered, Apply, DashboardInv, TypeOK
  <2>2. QED
    BY <1>1, <1>2, <2>1, UnappliedInv
<1>5. QED
  BY <1>3, <1>4

-----------------------------------------------------------------------------
(* The steps: TelegramSettings *)

\* The panel asks; what it says of Telegram stays.
LEMMA PanelAsksInv ==
  ASSUME DashboardInv, NEW kind \in PanelCalls, NEW p \in PanelState, p.status = panel.status,
         PanelAsks(kind, p), edits' = edits \/ (edits < MaxEdits /\ edits' = edits + 1)
  PROVE  DashboardInv'
<1>1. /\ CanSend /\ Send(kind, None, None) /\ panel' = p /\ page = "dashboard"
      /\ UNCHANGED <<server, cookie, page, list, ui, submitting, mixed, stray, draft, faults>>
  BY DEF PanelAsks, history
<1>2. PageTyped' /\ RestTyped' /\ edits' # 0
  <2>1. edits \in Versions /\ edits # 0
    BY DEF DashboardInv, TypeOK, PageFormed
  <2>2. edits' \in Versions /\ edits' # 0
    BY <2>1, DashboardAssumption DEF Versions
  <2>3. QED
    BY <1>1, <2>2, TypedDef DEF DashboardInv, PageTyped, RestTyped
<1>3. kind \in Kinds /\ kind \notin Changes /\ None \in Versions
  BY DashboardAssumption DEF Kinds, Changes, PanelCalls, Versions, None
<1>4. QED
  BY <1>1, <1>2, <1>3, SendInv DEF Changes

\* loadStatus, handleConnect and handleDisconnect.
LEMMA PanelAsksStep ==
  ASSUME DashboardInv, loadStatus \/ handleConnect \/ handleDisconnect
  PROVE  DashboardInv'
<1>1. panel \in PanelState
  BY DEF DashboardInv, TypeOK
<1>2. /\ [panel EXCEPT !.asked = TRUE, !.loading = TRUE] \in PanelState
      /\ [panel EXCEPT !.asked = TRUE, !.loading = TRUE].status = panel.status
      /\ [panel EXCEPT !.saving = TRUE] \in PanelState
      /\ [panel EXCEPT !.saving = TRUE].status = panel.status
  BY <1>1 DEF PanelState
<1>3. PICK kind \in PanelCalls, p \in PanelState :
        /\ p.status = panel.status /\ PanelAsks(kind, p)
        /\ edits' = edits \/ (edits < MaxEdits /\ edits' = edits + 1)
  BY <1>2 DEF loadStatus, handleConnect, handleDisconnect, PanelCalls
<1>4. QED
  BY <1>3, PanelAsksInv

\* An answer changes the panel only.
LEMMA PanelAnswered ==
  ASSUME DashboardInv, NEW c \in Calls, call[c].kind \in PanelCalls, call' = Done(c),
         UNCHANGED <<stored, created, account, linked, link, cookie, page, list, ui, submitting, mixed, draft,
                     edits, faults>>,
         panel' \in PanelState, stray' \in BOOLEAN, PanelRight',
         panel' = panel \/ Mounted(c)
  PROVE  DashboardInv'
<1>1. CallTyped' /\ Forgets(call', call, {c}, {})
  BY TypedDef, AnswerForgotten DEF DashboardInv
<1>2. ServerTyped' /\ RestTyped' /\ edits' # 0
  BY TypedDef, TypedSame DEF DashboardInv, PageFormed
<1>3. PageTyped'
  BY TypedDef DEF DashboardInv, PageTyped
<1>4. page \notin {"dashboard", "demo"} => panel' = NoPanel
  BY DEF DashboardInv, PageFormed
<1>5. \A d \in {c} \cap Calls : call[d].kind \notin Changes
  BY DEF Changes, PanelCalls
<1>6. QED
  BY <1>1, <1>2, <1>3, <1>4, <1>5, QuietInv, ListKnown

\* The status is shown: with no disconnection in flight, it is still so.
LEMMA StatusStep ==
  ASSUME DashboardInv, NEW c \in Calls, StatusAnswered(c)
  PROVE  DashboardInv'
<1>1. /\ UNCHANGED <<stored, created, account, linked, link, cookie, page, list, ui, submitting, mixed, draft,
                     edits, faults>>
      /\ call[c].kind = "status" /\ call[c].kind \in PanelCalls /\ call' = Done(c)
      /\ panel \in PanelState /\ stray \in BOOLEAN /\ CallsInv
  BY DEF StatusAnswered, Answered, PanelCalls, server, DashboardInv, TypeOK
<1>2. Forgets(call', call, {c}, {})
  BY <1>1, TypedDef, AnswerForgotten DEF DashboardInv
<1>3. CASE Mounted(c) /\ call[c].reply = "ok"
  <2>0. PICK s : s = IF call[c].rows = <<>> THEN "off" ELSE "on"
    OBVIOUS
  <2>1. panel' = [panel EXCEPT !.loading = FALSE, !.status = s] /\ stray' = ~call[c].clean
    BY <1>3, <2>0 DEF StatusAnswered
  <2>2. panel' \in PanelState /\ panel'.status = s
    BY <1>1, <2>0, <2>1 DEF PanelState
  <2>3. ASSUME s = "on", call[c].clean PROVE linked /\ \A d \in Calls : call[d].kind # "disconnect"
    <3>1. linked
      BY <1>1, <1>3, <2>0, <2>3 DEF CallsInv, StatusRight, InFlight
    <3>2. ASSUME NEW d \in Calls, call[d].kind = "disconnect" PROVE FALSE
      BY <1>1, <2>3, <3>2 DEF CallsInv, Alone, Conflict
    <3>3. QED
      BY <3>1, <3>2
  <2>4. PanelRight'
    <3> SUFFICES ASSUME panel'.status = "on", ~stray' PROVE PanelRight'
      BY DEF PanelRight
    <3>1. linked' /\ InFlight({"disconnect"})' = {}
      <4>1. linked /\ \A d \in Calls : call[d].kind # "disconnect"
        BY <1>1, <2>1, <2>2, <2>3
      <4>2. \A i \in Calls' : call'[i].kind # "disconnect"
        BY <1>2, <4>1, ForgetFacts DEF Kept
      <4>3. QED
        BY <1>1, <4>1, <4>2 DEF InFlight
    <3>2. QED
      BY <3>1 DEF PanelRight
  <2>5. QED
    BY <1>1, <1>3, <2>1, <2>2, <2>4, PanelAnswered
<1>4. CASE ~(Mounted(c) /\ call[c].reply = "ok")
  <2>1. /\ stray' = stray /\ panel' \in PanelState /\ panel'.status = panel.status
        /\ panel' = panel \/ Mounted(c)
    BY <1>1, <1>4 DEF StatusAnswered, PanelState
  <2>2. PanelRight'
    BY <1>1, <1>2, <2>1, PanelForget DEF DashboardInv
  <2>3. QED
    BY <1>1, <2>1, <2>2, PanelAnswered
<1>5. QED
  BY <1>3, <1>4

\* The answer of a disconnection is shown, or the panel no longer answers for it.
LEMMA DisconnectStep ==
  ASSUME DashboardInv, NEW c \in Calls, DisconnectAnswered(c)
  PROVE  DashboardInv'
<1>1. /\ UNCHANGED <<stored, created, account, linked, link, cookie, page, list, ui, submitting, mixed, draft,
                     edits, faults>>
      /\ call[c].kind = "disconnect" /\ call[c].kind \in PanelCalls /\ call' = Done(c)
      /\ panel \in PanelState /\ stray \in BOOLEAN /\ PanelRight
      /\ stray' = (stray \/ call[c].reply # "ok")
  BY DEF DisconnectAnswered, Answered, PanelCalls, server, DashboardInv, TypeOK
<1>2. Forgets(call', call, {c}, {})
  BY <1>1, TypedDef, AnswerForgotten DEF DashboardInv
<1>3. /\ panel' \in PanelState /\ (panel' = panel \/ Mounted(c))
      /\ panel'.status = "on" => panel.status = "on" /\ ~(Mounted(c) /\ call[c].reply = "ok")
  BY <1>1 DEF DisconnectAnswered, PanelState
<1>4. PanelRight'
  <2> SUFFICES ASSUME panel'.status = "on", ~stray' PROVE FALSE
    BY DEF PanelRight
  <2>1. panel.status = "on" /\ ~stray /\ ~Mounted(c)
    BY <1>1, <1>3
  <2>2. QED
    BY <1>1, <2>1 DEF PanelRight, InFlight
<1>5. QED
  BY <1>1, <1>3, <1>4, PanelAnswered

\* The browser leaves for the link, or the panel is free again.
LEMMA ConnectStep ==
  ASSUME DashboardInv, NEW c \in Calls, ConnectAnswered(c)
  PROVE  DashboardInv'
<1>1. /\ UNCHANGED <<stored, created, account, linked, cookie, edits, faults>>
      /\ call[c].kind = "connect" /\ call[c].kind \in PanelCalls
      /\ panel \in PanelState /\ stray \in BOOLEAN
  BY DEF ConnectAnswered, Answered, PanelCalls, DashboardInv, TypeOK
<1>2. CASE Enter("away", Done(c), "gone") /\ link' = TRUE
  <2>1. RestTyped' /\ ServerKept
    BY <1>1, <1>2, TypedDef, TypedSame DEF DashboardInv, ServerKept
  <2>2. Elsewhere({c})
    BY <1>2, <2>1, EnterElsewhere
  <2>3. QED
    BY <2>1, <2>2, ElsewhereInv
<1>3. CASE /\ call' = Done(c) /\ UNCHANGED <<link, page, list, ui, submitting, history>>
           /\ panel' = IF Mounted(c) THEN [panel EXCEPT !.saving = FALSE] ELSE panel
  <2>1. UNCHANGED <<stored, created, account, linked, link, mixed, stray, draft>>
    BY <1>1, <1>3 DEF server, history
  <2>2. panel' \in PanelState /\ panel'.status = panel.status /\ (panel' = panel \/ Mounted(c))
    BY <1>1, <1>3 DEF PanelState
  <2>3. Forgets(call', call, {c}, {})
    BY <1>3, TypedDef, AnswerForgotten DEF DashboardInv
  <2>4. PanelRight'
    BY <1>1, <2>1, <2>2, <2>3, PanelForget DEF DashboardInv
  <2>5. QED
    BY <1>1, <1>3, <2>1, <2>2, <2>4, PanelAnswered
<1>4. QED
  BY <1>2, <1>3 DEF ConnectAnswered

-----------------------------------------------------------------------------
(* The steps: the server *)

\* The server goes on with a call, and the page stays as it is.
LEMMA ServeInv ==
  ASSUME DashboardInv, NEW c \in Calls, Serves(c), Formed(call[c])',
         UNCHANGED <<cookie, page, list, ui, panel, submitting, mixed, stray, draft, edits>>,
         faults' \in 0 .. MaxFaults, ServerTyped', created <= created',
         \A m \in Monitors : stored'[m] # None => m <= created',
         StoredRows' = StoredRows \/ call[c].kind \in Changes,
         linked' = linked \/ call[c].kind = "disconnect",
         call[c].kind = "summary" /\ call'[c].reply = "ok" => call'[c].rows = StoredRows',
         call[c].kind = "status" /\ call'[c].reply = "ok" /\ call'[c].rows # <<>> => linked',
         ListRight'
  PROVE  DashboardInv'
<1>1. TypeOK /\ CallsInv /\ PageFormed /\ PanelRight /\ DraftRight
  BY DEF DashboardInv
<1>2. created \in Nat /\ created' \in Nat
  BY <1>1, DashboardAssumption DEF TypeOK, ServerTyped
<1>3. TypeOK'
  <2>1. CallTyped' /\ PageTyped'
    BY <1>1, TypedDef, TypedSame DEF Serves, CallTyped
  <2>2. RestTyped'
    BY <1>1, TypedDef DEF RestTyped
  <2>3. QED
    BY <2>1, <2>2 DEF TypeOK, CallTyped, ServerTyped, PageTyped, RestTyped
<1>4. CallsInv'
  BY <1>1, <1>2, CallsServe
<1>5. PageFormed'
  <2>1. \A d \in Calls' : d \in Calls /\ (Mounted(d)' <=> Mounted(d)) /\ call'[d].kind = call[d].kind
    BY DEF Serves, Progress, Mounted
  <2>2. \A d \in Calls' : Mounted(d)' /\ call'[d].kind \in PanelCalls => page' = "dashboard"
    BY <1>1, <2>1 DEF PageFormed
  <2>3. page' = "dashboard" => ui'.editing <= created' /\ \A i \in DOMAIN list' : list'[i].id <= created'
    <3>1. ui.editing \in Nat /\ \A i \in DOMAIN list : list[i].id \in Nat
      <4>1. ui.editing \in Monitors \cup {None} /\ \A i \in DOMAIN list : list[i] \in Row
        BY <1>1 DEF TypeOK, UiState
      <4>2. QED
        BY <4>1 DEF Row, Monitors, None
    <3>2. page = "dashboard" => ui.editing <= created /\ \A i \in DOMAIN list : list[i].id <= created
      BY <1>1 DEF PageFormed
    <3>3. QED
      BY <1>2, <3>1, <3>2
  <2>4. edits' # 0 /\ (page' \notin {"dashboard", "demo"} => ~ui'.open /\ panel' = NoPanel)
    BY <1>1 DEF PageFormed
  <2>5. QED
    BY <2>2, <2>3, <2>4 DEF PageFormed
<1>6. PanelRight' /\ DraftRight'
  BY <1>1, PanelServe, DraftServe
<1>7. QED
  BY <1>3, <1>4, <1>5, <1>6 DEF DashboardInv

\* The answer of the call is of the form that its kind asks for.
LEMMA FormedReply ==
  ASSUME DashboardInv, NEW c \in Calls, Serves(c), call'[c].at # "sent",
         call'[c].at = "found" => call[c].kind = "register", created <= created', created' \in Nat,
         call[c].kind \in {"save", "interval", "delete"} =>
           \A i \in DOMAIN call'[c].rows : call'[c].rows[i].id = call[c].id,
         call[c].kind = "create" =>
           /\ Len(call'[c].rows) <= 1 /\ (call'[c].reply = "ok" => Len(call'[c].rows) = 1)
           /\ \A i \in DOMAIN call'[c].rows : call'[c].rows[i].doc = call[c].doc,
         call[c].kind \in Changes \cup {"summary"} =>
           \A i \in DOMAIN call'[c].rows : call'[c].rows[i].id <= created'
  PROVE  Formed(call[c])'
<1>1. Formed(call[c]) /\ Progress(call'[c], call[c])
  BY DEF DashboardInv, CallsInv, AllFormed, Serves
<1>2. call[c].id <= created'
  <2>1. created \in Nat /\ call[c].id \in Nat /\ call[c].id <= created
    BY <1>1, CallFields DEF DashboardInv, TypeOK, Monitors, None, Formed
  <2>2. QED
    BY <2>1
<1>3. QED
  BY <1>1, <1>2 DEF Formed, Progress

\* An answer that tells of no change, or of one that was not made.
LEMMA AnswerInv ==
  ASSUME DashboardInv, NEW c \in Calls, Serves(c), call'[c].at # "sent", Stay,
         call'[c].at = "found" => call[c].kind = "register",
         faults' \in 0 .. MaxFaults, UNCHANGED <<stored, created>>,
         account' \in BOOLEAN, linked' \in BOOLEAN /\ link' \in BOOLEAN,
         linked' = linked \/ call[c].kind = "disconnect",
         call[c].kind \in Changes =>
           call'[c].rows = call[c].rows /\ call'[c].at = "answered" /\ call'[c].reply # "ok",
         call[c].kind = "summary" =>
           /\ call'[c].reply = "ok" => call'[c].rows = StoredRows
           /\ \A i \in DOMAIN call'[c].rows : call'[c].rows[i].id <= created,
         call[c].kind = "status" /\ call'[c].reply = "ok" /\ call'[c].rows # <<>> => linked'
  PROVE  DashboardInv'
<1>1. UNCHANGED <<cookie, page, list, ui, panel, submitting, mixed, stray, draft, edits>>
  BY DEF Stay, history
<1>2. /\ TypeOK /\ ListRight /\ created <= created' /\ created' \in Nat /\ Formed(call[c])
      /\ \A m \in Monitors : stored'[m] # None => m <= created'
  BY DashboardAssumption DEF DashboardInv, TypeOK, PageFormed, CallsInv, AllFormed
<1>3. ServerTyped'
  BY <1>2 DEF TypeOK, ServerTyped
<1>4. Formed(call[c])'
  <2>1. call[c].kind \in {"save", "interval", "delete"} =>
          \A i \in DOMAIN call'[c].rows : call'[c].rows[i].id = call[c].id
    BY <1>2 DEF Formed, Changes
  <2>2. call[c].kind = "create" =>
          /\ Len(call'[c].rows) <= 1 /\ (call'[c].reply = "ok" => Len(call'[c].rows) = 1)
          /\ \A i \in DOMAIN call'[c].rows : call'[c].rows[i].doc = call[c].doc
    BY <1>2 DEF Formed, Changes
  <2>3. call[c].kind \in Changes \cup {"summary"} =>
          \A i \in DOMAIN call'[c].rows : call'[c].rows[i].id <= created'
    BY <1>2 DEF Formed
  <2>4. QED
    BY <1>2, <2>1, <2>2, <2>3, FormedReply
<1>5. StoredRows' = StoredRows
  BY DEF StoredRows
<1>6. ListRight'
  BY <1>1, <1>2, ListServe
<1>7. QED
  BY <1>1, <1>2, <1>3, <1>4, <1>5, <1>6, ServeInv

\* A call that has not reached the server yet has no rows.
LEMMA SentRows ==
  ASSUME DashboardInv, NEW c \in Calls, call[c].at = "sent"
  PROVE  call[c].rows = <<>>
BY DEF DashboardInv, CallsInv, AllFormed, Formed

\* No rows, no identifiers.
LEMMA NoRows == \A k : \A i \in DOMAIN <<>> : <<>>[i].id <= k
OBVIOUS

\* A request without a session is refused.
LEMMA UnauthorizedStep ==
  ASSUME DashboardInv, NEW c \in Calls, Unauthorized(c)
  PROVE  DashboardInv'
<1>1. /\ Reply(c, "401", <<>>) /\ Stay /\ UNCHANGED <<stored, created, account, linked, link, faults>>
      /\ call[c].at = "sent" /\ TypeOK /\ <<>> \in Seq(Row)
  BY DEF Unauthorized, server, DashboardInv
<1>2. Serves(c) /\ call'[c].at = "answered" /\ call'[c].reply = "401" /\ call'[c].rows = <<>>
  BY <1>1, ReplyEffect
<1>3. faults' \in 0 .. MaxFaults /\ account' \in BOOLEAN /\ linked' \in BOOLEAN /\ link' \in BOOLEAN
  BY <1>1 DEF TypeOK
<1>4. \A i \in DOMAIN call'[c].rows : call'[c].rows[i].id <= created
  BY <1>2, NoRows
<1>5. QED
  BY <1>1, <1>2, <1>3, <1>4, SentRows, AnswerInv

\* The documents are read.
LEMMA GetSummaryStep ==
  ASSUME DashboardInv, NEW c \in Calls, getSummary(c)
  PROVE  DashboardInv'
<1>1. /\ Reply(c, "ok", StoredRows) /\ Stay /\ UNCHANGED <<stored, created, account, linked, link, faults>>
      /\ call[c].kind = "summary" /\ TypeOK
  BY DEF getSummary, Handled, server, DashboardInv
<1>2. StoredRows \in Seq(Row) /\ \A i \in DOMAIN StoredRows : StoredRows[i].id <= created
  BY <1>1, StoredRowsSpec DEF TypeOK, DashboardInv, PageFormed
<1>3. Serves(c) /\ call'[c].at = "answered" /\ call'[c].reply = "ok" /\ call'[c].rows = StoredRows
  BY <1>1, <1>2, ReplyEffect
<1>4. faults' \in 0 .. MaxFaults /\ account' \in BOOLEAN /\ linked' \in BOOLEAN /\ link' \in BOOLEAN
  BY <1>1 DEF TypeOK
<1>5. \A i \in DOMAIN call'[c].rows : call'[c].rows[i].id <= created
  BY <1>2, <1>3
<1>6. "summary" \notin Changes
  BY DEF Changes
<1>7. QED
  BY <1>1, <1>3, <1>4, <1>5, <1>6, AnswerInv

\* The status, a link, or the end of one.
LEMMA TelegramStep ==
  ASSUME DashboardInv, NEW c \in Calls, telegram(c)
  PROVE  DashboardInv'
<1>0. PICK rows : rows = IF linked THEN <<[id |-> 1, doc |-> 1]>> ELSE <<>>
  OBVIOUS
<1>1. /\ Reply(c, "ok", rows) /\ Stay /\ UNCHANGED <<stored, created, account, faults>>
      /\ call[c].kind \in PanelCalls /\ TypeOK
      /\ linked' = (linked /\ call[c].kind # "disconnect")
      /\ link' = (link /\ call[c].kind = "status")
  BY <1>0 DEF telegram, Handled, DashboardInv
<1>2. rows \in Seq(Row) /\ (rows # <<>> => linked)
  <2>1. [id |-> 1, doc |-> 1] \in Row
    BY DashboardAssumption DEF Row, Monitors, Versions
  <2>2. <<[id |-> 1, doc |-> 1]>> \in Seq(Row) /\ <<>> \in Seq(Row)
    BY <2>1
  <2>3. QED
    BY <1>0, <2>2
<1>3. Serves(c) /\ call'[c].at = "answered" /\ call'[c].reply = "ok" /\ call'[c].rows = rows
  BY <1>1, <1>2, ReplyEffect
<1>4. faults' \in 0 .. MaxFaults /\ account' \in BOOLEAN /\ linked' \in BOOLEAN /\ link' \in BOOLEAN
  BY <1>1 DEF TypeOK
<1>5. /\ linked' = linked \/ call[c].kind = "disconnect"
      /\ call[c].kind = "status" => linked' = linked
  BY <1>1 DEF TypeOK
<1>6. call[c].kind \notin Changes /\ call[c].kind # "summary"
  BY <1>1 DEF Changes, PanelCalls
<1>7. QED
  BY <1>1, <1>2, <1>3, <1>4, <1>5, <1>6, AnswerInv

\* A sign-in, a registration or a logout is answered.
LEMMA PublicReply ==
  ASSUME DashboardInv, NEW c \in Calls, call[c].kind \in Public,
         NEW reply \in {"ok", "failed"}, Reply(c, reply, <<>>), Stay,
         UNCHANGED <<stored, created, linked, link, faults>>, account' \in BOOLEAN
  PROVE  DashboardInv'
<1>1. <<>> \in Seq(Row) /\ TypeOK
  BY DEF DashboardInv
<1>2. Serves(c) /\ call'[c].at = "answered"
  BY <1>1, ReplyEffect
<1>3. faults' \in 0 .. MaxFaults /\ linked' \in BOOLEAN /\ link' \in BOOLEAN
  BY <1>1 DEF TypeOK
<1>4. call[c].kind \notin Changes /\ call[c].kind \notin {"summary", "status", "disconnect"}
  BY DEF Changes, Public
<1>5. QED
  BY <1>2, <1>3, <1>4, AnswerInv

\* registerUser finds no account, and goes on.
LEMMA FoundStep ==
  ASSUME DashboardInv, NEW c \in Calls, call[c].kind = "register",
         call' = [call EXCEPT ![c].at = "found"], Stay,
         UNCHANGED <<stored, created, account, linked, link, faults>>
  PROVE  DashboardInv'
<1>1. TypeOK /\ call \in Seq(CallState) /\ call[c] \in CallState /\ c \in DOMAIN call
  BY DEF TypeOK, Calls, DashboardInv
<1> DEFINE f == [call[c] EXCEPT !.at = "found"]
<1>2. call' = [call EXCEPT ![c] = f]
  BY <1>1
<1>3. f \in CallState /\ Progress(f, call[c]) /\ f.at = "found"
  BY <1>1 DEF CallState, Progress
<1> HIDE DEF f
<1>4. Serves(c) /\ call'[c].at = "found"
  BY <1>1, <1>2, <1>3 DEF Serves, Calls
<1>5. faults' \in 0 .. MaxFaults /\ linked' \in BOOLEAN /\ link' \in BOOLEAN /\ account' \in BOOLEAN
  BY <1>1 DEF TypeOK
<1>6. call[c].kind \notin Changes /\ call[c].kind \notin {"summary", "status", "disconnect"}
  BY DEF Changes, Public
<1>7. QED
  BY <1>4, <1>5, <1>6, AnswerInv

\* registerUser, createUser, loginUser and logoutUser.
LEMMA PublicStep ==
  ASSUME DashboardInv, NEW c \in Calls,
         registerUser(c) \/ createUser(c) \/ loginUser(c) \/ logoutUser(c)
  PROVE  DashboardInv'
<1>1. account \in BOOLEAN
  BY DEF DashboardInv, TypeOK
<1>2. CASE registerUser(c)
  <2>1. /\ Stay /\ UNCHANGED <<stored, created, account, linked, link, faults>>
        /\ call[c].kind \in Public /\ call[c].kind = "register"
        /\ Reply(c, "failed", <<>>) \/ call' = [call EXCEPT ![c].at = "found"]
    BY <1>2 DEF registerUser, Handled, Public, server
  <2>2. QED
    BY <1>1, <2>1, PublicReply, FoundStep
<1>3. CASE createUser(c)
  <2>1. PICK reply \in {"ok", "failed"} : Reply(c, reply, <<>>)
    BY <1>3 DEF createUser
  <2>2. /\ Stay /\ UNCHANGED <<stored, created, linked, link, faults>> /\ account' \in BOOLEAN
        /\ call[c].kind \in Public
    BY <1>3 DEF createUser, DashboardInv, CallsInv, AllFormed, Formed, Public
  <2>3. QED
    BY <2>1, <2>2, PublicReply
<1>4. CASE loginUser(c)
  <2>1. PICK reply \in {"ok", "failed"} : Reply(c, reply, <<>>)
    BY <1>4 DEF loginUser
  <2>2. /\ Stay /\ UNCHANGED <<stored, created, account, linked, link, faults>> /\ call[c].kind \in Public
    BY <1>4 DEF loginUser, Handled, Public, server
  <2>3. QED
    BY <1>1, <2>1, <2>2, PublicReply
<1>5. CASE logoutUser(c)
  <2>1. /\ Stay /\ UNCHANGED <<stored, created, account, linked, link, faults>> /\ call[c].kind \in Public
        /\ Reply(c, "ok", <<>>)
    BY <1>5 DEF logoutUser, Handled, Public, server
  <2>2. QED
    BY <1>1, <2>1, PublicReply
<1>6. QED
  BY <1>2, <1>3, <1>4, <1>5

\* A call fails; what the server has done is done.
LEMMA CallFailsStep ==
  ASSUME DashboardInv, NEW c \in Calls, CallFails(c)
  PROVE  DashboardInv'
<1>0. PICK rows : rows = call[c].rows
  OBVIOUS
<1>1. /\ Reply(c, "failed", rows) /\ Stay /\ UNCHANGED <<stored, created, account, linked, link>>
      /\ faults < MaxFaults /\ faults' = faults + 1 /\ TypeOK /\ Formed(call[c])
  BY <1>0 DEF CallFails, server, DashboardInv, CallsInv, AllFormed
<1>2. rows \in Seq(Row)
  BY <1>0, <1>1, CallFields DEF TypeOK
<1>3. Serves(c) /\ call'[c].at = "answered" /\ call'[c].reply = "failed" /\ call'[c].rows = rows
  BY <1>1, <1>2, ReplyEffect
<1>4. faults' \in 0 .. MaxFaults
  BY <1>1, DashboardAssumption DEF TypeOK
<1>5. account' \in BOOLEAN /\ linked' \in BOOLEAN /\ link' \in BOOLEAN
  BY <1>1 DEF TypeOK
<1>6. call[c].kind = "summary" => \A i \in DOMAIN call'[c].rows : call'[c].rows[i].id <= created
  BY <1>0, <1>1, <1>3 DEF Formed
<1>7. QED
  BY <1>0, <1>1, <1>3, <1>4, <1>5, <1>6, AnswerInv

\* A monitor is created, unless the account has reached its limit.
LEMMA CreateMonitorStep ==
  ASSUME DashboardInv, NEW c \in Calls, createMonitor(c)
  PROVE  DashboardInv'
<1>1. /\ Stay /\ UNCHANGED <<account, linked, link, faults>> /\ call[c].kind = "create" /\ call[c].at = "sent"
      /\ UNCHANGED <<cookie, page, list, ui, panel, submitting, mixed, stray, draft, edits>>
  BY DEF createMonitor, Handled, Stay, history
<1>2. /\ TypeOK /\ CallsInv /\ PageFormed /\ ListRight /\ Formed(call[c]) /\ call[c].rows = <<>>
      /\ faults' \in 0 .. MaxFaults /\ account' \in BOOLEAN /\ linked' \in BOOLEAN /\ link' \in BOOLEAN
  BY <1>1, SentRows DEF DashboardInv, TypeOK, CallsInv, AllFormed
<1> DEFINE Room ==
      Cardinality({m \in Monitors : stored[m] # None}) < MonitorLimit /\ created < MaxMonitors
<1>3. CASE Room
  <2>0. PICK k, v, row, rows :
          k = created + 1 /\ v = call[c].doc /\ row = [id |-> k, doc |-> v] /\ rows = <<row>>
    OBVIOUS
  <2>1. created' = k /\ stored' = [stored EXCEPT ![k] = v] /\ Reply(c, "ok", rows)
    BY <1>3, <2>0 DEF createMonitor
  <2>2. /\ k \in Monitors /\ v \in Versions /\ created \in Nat /\ created' \in Nat
        /\ created <= created' /\ created' \in 0 .. MaxMonitors
    <3>1. v \in Versions
      BY <1>2, <2>0, CallFields DEF TypeOK
    <3>2. QED
      BY <1>2, <1>3, <2>0, <2>1, <3>1, DashboardAssumption DEF TypeOK, Monitors
  <2>3. rows \in Seq(Row) /\ Len(rows) = 1 /\ \A i \in DOMAIN rows : rows[i].id = k /\ rows[i].doc = v
    BY <2>0, <2>2 DEF Row
  <2>4. Serves(c) /\ call'[c].at = "answered" /\ call'[c].reply = "ok" /\ call'[c].rows = rows
    BY <1>2, <2>1, <2>3, ReplyEffect
  <2>5. ServerTyped' /\ \A m \in Monitors : stored'[m] # None => m <= created'
    <3>1. stored' \in [Monitors -> Versions]
      BY <1>2, <2>1, <2>2 DEF TypeOK
    <3>2. ASSUME NEW m \in Monitors, stored'[m] # None PROVE m <= created'
      <4>1. m \in Nat
        BY DEF Monitors
      <4>2. CASE m = k
        BY <2>1, <4>1, <4>2
      <4>3. CASE m # k
        <5>1. stored[m] # None
          BY <1>2, <2>1, <3>2, <4>3 DEF TypeOK
        <5>2. m <= created
          BY <1>2, <5>1 DEF PageFormed
        <5>3. QED
          BY <2>2, <4>1, <5>2
      <4>4. QED
        BY <4>2, <4>3
    <3>3. QED
      BY <1>2, <2>2, <3>1, <3>2 DEF ServerTyped
  <2>6. Formed(call[c])'
    <3>1. \A i \in DOMAIN call'[c].rows :
            call'[c].rows[i].id <= created' /\ call'[c].rows[i].doc = call[c].doc
      BY <2>0, <2>1, <2>2, <2>3, <2>4
    <3>2. Len(call'[c].rows) <= 1 /\ Len(call'[c].rows) = 1
      <4>1. Len(call'[c].rows) = Len(rows)
        BY <2>4
      <4>2. QED
        BY <2>3, <4>1
    <3>3. QED
      BY <1>1, <2>2, <2>4, <3>1, <3>2, FormedReply
  <2>7. ListRight'
    <3>1. /\ created' = created + 1 /\ stored' = [stored EXCEPT ![created'] = call[c].doc]
          /\ call'[c].rows = <<[id |-> created', doc |-> call[c].doc]>>
      BY <2>0, <2>1, <2>4
    <3>2. QED
      BY <1>1, <1>2, <1>3, <2>4, <3>1, ListCreate DEF CallsInv
  <2>8. "create" \in Changes
    BY DEF Changes
  <2>9. QED
    BY <1>1, <1>2, <2>2, <2>4, <2>5, <2>6, <2>7, <2>8, ServeInv
<1>4. CASE ~Room
  <2>1. Reply(c, "failed", <<>>) /\ UNCHANGED <<stored, created>> /\ <<>> \in Seq(Row)
    BY <1>4 DEF createMonitor
  <2>2. Serves(c) /\ call'[c].at = "answered" /\ call'[c].reply = "failed" /\ call'[c].rows = <<>>
    BY <1>2, <2>1, ReplyEffect
  <2>3. QED
    BY <1>1, <1>2, <2>1, <2>2, AnswerInv
<1>5. QED
  BY <1>3, <1>4

\* A document is written, unless the monitor is gone.
LEMMA ChangeMonitorStep ==
  ASSUME DashboardInv, NEW c \in Calls, changeMonitor(c)
  PROVE  DashboardInv'
<1>1. /\ Stay /\ UNCHANGED <<created, account, linked, link, faults>>
      /\ call[c].kind \in {"save", "interval", "delete"} /\ call[c].at = "sent"
      /\ UNCHANGED <<cookie, page, list, ui, panel, submitting, mixed, stray, draft, edits>>
  BY DEF changeMonitor, Handled, Stay, history
<1>2. /\ TypeOK /\ CallsInv /\ PageFormed /\ ListRight /\ Formed(call[c]) /\ call[c].rows = <<>>
      /\ faults' \in 0 .. MaxFaults /\ account' \in BOOLEAN /\ linked' \in BOOLEAN /\ link' \in BOOLEAN
  BY <1>1, SentRows DEF DashboardInv, TypeOK, CallsInv, AllFormed
<1>3. CASE stored[call[c].id] # None
  <2>0. PICK k, v, row, rows :
          k = call[c].id /\ v = call[c].doc /\ row = [id |-> k, doc |-> v] /\ rows = <<row>>
    OBVIOUS
  <2>1. stored' = [stored EXCEPT ![k] = v] /\ Reply(c, "ok", rows)
    BY <1>3, <2>0 DEF changeMonitor
  <2>2. k \in Monitors /\ v \in Versions /\ k <= created /\ created \in Nat
    <3>1. v \in Versions
      BY <1>2, <2>0, CallFields DEF TypeOK
    <3>2. k \in Monitors /\ k <= created
      BY <1>1, <1>2, <2>0 DEF Formed
    <3>3. created \in Nat
      BY <1>2, DashboardAssumption DEF TypeOK
    <3>4. QED
      BY <3>1, <3>2, <3>3
  <2>3. rows \in Seq(Row) /\ Len(rows) = 1 /\ \A i \in DOMAIN rows : rows[i].id = k /\ rows[i].doc = v
    BY <2>0, <2>2 DEF Row
  <2>4. Serves(c) /\ call'[c].at = "answered" /\ call'[c].reply = "ok" /\ call'[c].rows = rows
    BY <1>2, <2>1, <2>3, ReplyEffect
  <2>5. ServerTyped' /\ \A m \in Monitors : stored'[m] # None => m <= created'
    <3>1. stored' \in [Monitors -> Versions]
      BY <1>2, <2>1, <2>2 DEF TypeOK
    <3>2. ASSUME NEW m \in Monitors, stored'[m] # None PROVE m <= created'
      <4>1. CASE m = k
        BY <1>1, <2>2, <4>1
      <4>2. CASE m # k
        BY <1>1, <1>2, <2>1, <3>2, <4>2 DEF TypeOK, PageFormed
      <4>3. QED
        BY <4>1, <4>2
    <3>3. QED
      BY <1>1, <1>2, <3>1, <3>2 DEF ServerTyped, TypeOK
  <2>6. Formed(call[c])'
    <3>1. \A i \in DOMAIN call'[c].rows : call'[c].rows[i].id = call[c].id /\ call'[c].rows[i].id <= created'
      BY <1>1, <2>0, <2>2, <2>3, <2>4
    <3>2. created <= created' /\ created' \in Nat
      BY <1>1, <2>2
    <3>3. QED
      BY <1>1, <2>4, <3>1, <3>2, FormedReply
  <2>7. ListRight'
    <3>1. /\ stored' = [stored EXCEPT ![call[c].id] = call[c].doc]
          /\ call'[c].rows = <<[id |-> call[c].id, doc |-> call[c].doc]>>
      BY <2>0, <2>1, <2>4
    <3>2. QED
      BY <1>1, <1>2, <1>3, <2>4, <3>1, ListChange
  <2>8. call[c].kind \in Changes /\ created <= created'
    BY <1>1, <2>2 DEF Changes
  <2>9. QED
    BY <1>1, <1>2, <2>4, <2>5, <2>6, <2>7, <2>8, ServeInv
<1>4. CASE ~(stored[call[c].id] # None)
  <2>1. Reply(c, "failed", <<>>) /\ UNCHANGED <<stored, created>> /\ <<>> \in Seq(Row)
    BY <1>4 DEF changeMonitor
  <2>2. Serves(c) /\ call'[c].at = "answered" /\ call'[c].reply = "failed" /\ call'[c].rows = <<>>
    BY <1>2, <2>1, ReplyEffect
  <2>3. QED
    BY <1>1, <1>2, <2>1, <2>2, AnswerInv
<1>5. QED
  BY <1>3, <1>4

-----------------------------------------------------------------------------
(* The theorems *)

\* The invariant holds when the browser opens a page.
LEMMA DashboardInit == Init => DashboardInv
<1> SUFFICES ASSUME Init PROVE DashboardInv
  OBVIOUS
<1>1. /\ created \in 0 .. MaxMonitors /\ created \in Nat
      /\ stored = [m \in Monitors |-> IF m <= created THEN 1 ELSE None]
      /\ account \in BOOLEAN /\ linked = FALSE /\ link = FALSE /\ cookie \in BOOLEAN /\ call = <<>>
      /\ page \in {"auth", "dashboard"} /\ list = <<>> /\ ui = FreshUi /\ panel = NoPanel
      /\ submitting = FALSE /\ mixed = TRUE /\ stray = TRUE /\ draft = FALSE /\ edits = 1 /\ faults = 0
  <2>1. created \in Nat /\ account \in BOOLEAN
    <3>1. created \in Nat
      BY DashboardAssumption DEF Init
    <3>2. (created > 0) \in BOOLEAN
      BY <3>1
    <3>3. account = (created > 0) \/ account = TRUE
      BY Zenon DEF Init
    <3>4. account \in BOOLEAN
      BY <3>2, <3>3, Zenon
    <3>5. QED
      BY <3>1, <3>4
  <2>2. cookie \in BOOLEAN
    BY <2>1 DEF Init
  <2>3. QED
    BY <2>1, <2>2 DEF Init
<1>2. Calls = {} /\ call \in Seq(CallState) /\ Len(call) = 0
  BY <1>1 DEF Calls
<1>3. TypeOK
  <2>1. 1 \in Versions /\ None \in Versions /\ 0 \in 0 .. MaxFaults /\ 0 <= MaxCalls
    BY DashboardAssumption DEF Versions, None
  <2>2. stored \in [Monitors -> Versions]
    BY <1>1, <2>1
  <2>3. QED
    BY <1>1, <1>2, <2>1, <2>2, FreshTyped DEF TypeOK
<1>4. CallsInv
  BY <1>2 DEF CallsInv, AllFormed, Alone, SummaryRight, StatusRight, InFlight
<1>5. PageFormed
  <2>1. \A m \in Monitors : stored[m] # None => m <= created
    BY <1>1
  <2>2. ~ui.open /\ ui.editing = None /\ None <= created
    BY <1>1 DEF FreshUi, None
  <2>3. edits # 0 /\ DOMAIN list = {}
    BY <1>1
  <2>4. QED
    BY <1>1, <1>2, <2>1, <2>2, <2>3 DEF PageFormed
<1>6. PanelRight /\ DraftRight /\ ListRight
  BY <1>1 DEF PanelRight, DraftRight, ListRight
<1>7. QED
  BY <1>3, <1>4, <1>5, <1>6 DEF DashboardInv

\* Every step preserves the invariant.
LEMMA DashboardStep == DashboardInv /\ [Next]_vars => DashboardInv'
<1> SUFFICES ASSUME DashboardInv, [Next]_vars PROVE DashboardInv'
  OBVIOUS
<1>1. CASE UNCHANGED vars
  BY <1>1, StutterStep
<1>2. CASE User
  <2>1. CASE handleRegister \/ handleLogin
    BY <2>1, SubmitStep
  <2>2. CASE \E m \in Monitors \cup {None} : OpenEditor(m)
    BY <2>2, OpenEditorStep
  <2>3. CASE \E m \in Monitors : handleUpdateMonitorInterval(m) \/ handleDeleteMonitor(m)
    BY <2>3, IntervalStep, DeleteStep
  <2>4. CASE loadStatus \/ handleConnect \/ handleDisconnect
    BY <2>4, PanelAsksStep
  <2>5. QED
    BY <1>2, <2>1, <2>2, <2>3, <2>4, VisitStep, NavStep, CloseEditorStep, SaveStep, LogoutStep
       DEF User
<1>3. CASE TimerFires \/ BotLinks \/ SessionExpires
  BY <1>3, TimerStep, BotLinksStep, SessionExpiresStep
<1>4. ASSUME NEW c \in Calls, Serve(c) PROVE DashboardInv'
  BY <1>4, UnauthorizedStep, GetSummaryStep, CreateMonitorStep, ChangeMonitorStep, TelegramStep,
     PublicStep DEF Serve
<1>5. ASSUME NEW c \in Calls, CallFails(c) PROVE DashboardInv'
  BY <1>5, CallFailsStep
<1>6. ASSUME NEW c \in Calls, Receive(c) PROVE DashboardInv'
  BY <1>6, Answered401Step, SignInStep, SummaryStep, SavedStep, IntervalShownStep, DeletedStep,
     LogoutAnsweredStep, StatusStep, ConnectStep, DisconnectStep DEF Receive
<1>7. QED
  BY <1>1, <1>2, <1>3, <1>4, <1>5, <1>6 DEF Next

\* The invariant always holds.
LEMMA DashboardAlways == Spec => []DashboardInv
<1>1. QED
  BY DashboardInit, DashboardStep, PTL DEF Spec

\* Every variable has its type, whatever the calls do: in particular no row and no
\* call names a monitor that cannot exist.
THEOREM DashboardTypeCorrect == Spec => []TypeOK
<1>1. DashboardInv => TypeOK
  BY DEF DashboardInv
<1>2. QED
  BY <1>1, DashboardAlways, PTL

\* With no overlap and no failure since the last summary, the list shows every monitor
\* that is not being changed, once, as it is stored.
THEOREM ListStaysFaithful == Spec => []ListFaithful
<1>1. DashboardInv => ListFaithful
  BY DEF DashboardInv, ListRight, ListFaithful
<1>2. QED
  BY <1>1, DashboardAlways, PTL

\* The panel does not say that Telegram is connected when it is not, unless it is being
\* disconnected or the status overlapped a disconnection.
THEOREM PanelStaysFaithful == Spec => []PanelFaithful
<1>1. DashboardInv => PanelFaithful
  BY DEF DashboardInv, PanelRight, PanelFaithful
<1>2. QED
  BY <1>1, DashboardAlways, PTL

\* A save or a deletion that closes the editor is of the monitor that it is open on.
LEMMA ClosedByItsOwn ==
  ASSUME DashboardInv, draft, ui.open, ~ui'.open, NEW c \in Calls, SaveAnswered(c) \/ DeleteAnswered(c)
  PROVE  /\ c \in InFlight({"create", "save", "delete"}) /\ Len(call') < Len(call)
         /\ call[c].reply = "ok" /\ call[c].id = ui.editing
<1>1. /\ CallTyped /\ DraftRight /\ ui \in UiState
      /\ Done(c) \in Seq(CallState) /\ Len(Done(c)) < Len(call)
  BY TypedDef, DoneSpec DEF DashboardInv, CallTyped, TypeOK
<1>2. CASE SaveAnswered(c)
  <2>1. call[c].reply = "ok" /\ Mounted(c)
    BY <1>1, <1>2 DEF SaveAnswered, UiState
  <2>2. call' = Detached(Done(c), PanelCalls, "unmounted") /\ call[c].kind \in {"create", "save"}
    BY <1>2, <2>1 DEF SaveAnswered, Answered, LeaveSettings
  <2>3. Len(call') < Len(call)
    <3>1. call' \in Seq(CallState) /\ Len(call') <= Len(Done(c))
      BY <1>1, <2>2, DetachedSpec
    <3>2. Len(call') \in Nat /\ Len(Done(c)) \in Nat /\ Len(call) \in Nat
      BY <1>1, <3>1 DEF CallTyped
    <3>3. QED
      BY <1>1, <3>1, <3>2
  <2>4. call[c].id = ui.editing
    BY <1>1, <2>1, <2>2 DEF DraftRight
  <2>5. QED
    BY <2>1, <2>2, <2>3, <2>4 DEF InFlight
<1>3. CASE DeleteAnswered(c)
  <2>1. call[c].kind = "delete" /\ call' = Done(c)
    BY <1>3 DEF DeleteAnswered, Answered
  <2>2. Mounted(c) /\ call[c].reply = "ok" /\ call[c].editing = call[c].id
    BY <1>1, <1>3 DEF DeleteAnswered, ClosesEditor, UiState
  <2>3. call[c].id = ui.editing
    BY <1>1, <2>1, <2>2 DEF DraftRight
  <2>4. QED
    BY <1>1, <2>1, <2>2, <2>3 DEF InFlight
<1>4. QED
  BY <1>2, <1>3

\* A page that is entered is another one, or had no editor open.
LEMMA EnteredAnew ==
  ASSUME DashboardInv, NEW to, to \notin {"dashboard", "demo"} \/ page \in {"auth", "away"},
         NEW f, NEW life, Enter(to, f, life)
  PROVE  ~ui.open \/ page' # page
BY DEF DashboardInv, PageFormed, Enter

\* Nothing but these two closes an editor on a page that stays and whose calls change.
LEMMA ClosedByAnAnswer ==
  ASSUME DashboardInv, [Next]_vars, ui.open, ~ui'.open, page' = page, call' # call
  PROVE  \E c \in Calls : SaveAnswered(c) \/ DeleteAnswered(c)
<1>0. ui \in UiState /\ ui' # ui
  BY DEF DashboardInv, TypeOK
<1>1. CASE UNCHANGED vars
  BY <1>0, <1>1 DEF vars
<1>2. CASE User
  <2>1. ~Visit
    BY EnteredAnew DEF Visit
  <2>2. ~handleRegister /\ ~handleLogin /\ ~handleNavChange /\ ~closeMonitorEditor
    BY <1>0 DEF handleRegister, handleLogin, Submit, handleNavChange, closeMonitorEditor
  <2>3. ASSUME NEW m \in Monitors \cup {None} PROVE ~OpenEditor(m)
    BY <1>0 DEF OpenEditor, UiState
  <2>4. /\ ~handleSaveMonitor
        /\ \A m \in Monitors : ~handleUpdateMonitorInterval(m) /\ ~handleDeleteMonitor(m)
    BY <1>0 DEF handleSaveMonitor, handleUpdateMonitorInterval, handleDeleteMonitor, Ask, UiState
  <2>5. ~handleLogout
    BY <1>0, EnteredAnew DEF handleLogout
  <2>6. ~loadStatus /\ ~handleConnect /\ ~handleDisconnect
    BY <1>0 DEF loadStatus, handleConnect, handleDisconnect, PanelAsks
  <2>7. QED
    BY <1>2, <2>1, <2>2, <2>3, <2>4, <2>5, <2>6 DEF User
<1>3. CASE TimerFires \/ BotLinks \/ SessionExpires
  BY <1>0, <1>3 DEF TimerFires, BotLinks, SessionExpires, Stay
<1>4. ASSUME NEW c \in Calls, Serve(c) \/ CallFails(c) PROVE FALSE
  BY <1>0, <1>4 DEF Serve, CallFails, Unauthorized, getSummary, createMonitor, changeMonitor, telegram,
     registerUser, createUser, loginUser, logoutUser, Handled, Stay
<1>5. ASSUME NEW c \in Calls, Receive(c) PROVE SaveAnswered(c) \/ DeleteAnswered(c)
  <2>1. ~fetchSummary(c) /\ ~IntervalAnswered(c)
    BY <1>0 DEF fetchSummary, IntervalAnswered, UiState
  <2>2. ~StatusAnswered(c) /\ ~DisconnectAnswered(c)
    BY <1>0 DEF StatusAnswered, DisconnectAnswered
  <2>3. ~SignInAnswered(c) /\ ~ConnectAnswered(c)
    BY <1>0, EnteredAnew DEF SignInAnswered, ConnectAnswered
  <2>4. ~Answered401(c) /\ ~LogoutAnswered(c)
    BY <1>0, EnteredAnew DEF Answered401, LogoutAnswered, redirectToAuth
  <2>5. QED
    BY <1>5, <2>1, <2>2, <2>3, <2>4 DEF Receive
<1>6. QED
  BY <1>1, <1>2, <1>3, <1>4, <1>5 DEF Next

\* What the user types is not thrown away by the answer to something else.
THEOREM DraftsAreKept == Spec => DraftsCloseForAReason
<1>1. DashboardInv /\ [Next]_vars =>
        [(draft /\ ui.open /\ ~ui'.open /\ page' = page /\ call' # call) =>
           \E c \in InFlight({"create", "save", "delete"}) :
             Len(call') < Len(call) /\ call[c].reply = "ok" /\ call[c].id = ui.editing]_vars
  <2> SUFFICES ASSUME DashboardInv, [Next]_vars, draft, ui.open, ~ui'.open, page' = page, call' # call
               PROVE  \E c \in InFlight({"create", "save", "delete"}) :
                        Len(call') < Len(call) /\ call[c].reply = "ok" /\ call[c].id = ui.editing
    OBVIOUS
  <2>1. PICK c \in Calls : SaveAnswered(c) \/ DeleteAnswered(c)
    BY ClosedByAnAnswer
  <2>2. QED
    BY <2>1, ClosedByItsOwn
<1>2. QED
  BY <1>1, DashboardAlways, PTL DEF Spec, DraftsCloseForAReason
=============================================================================
