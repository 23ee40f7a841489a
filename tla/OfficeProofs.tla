------------------------------ MODULE OfficeProofs ------------------------------
(***************************************************************************)
(* What holds of the parts of Office for every value of the constants: the *)
(* window of the mailings tells one story, whatever the server, other      *)
(* clients and the wizard do between two refreshes; with one list window   *)
(* and a table that refuses a title it has, the map of the saved queries   *)
(* is the table as long as no other client changes it.                     *)
(***************************************************************************)
EXTENDS Office, TLAPS

(* A behaviour is of one part, and its steps are steps of that part.       *)
LEMMA PartKept == [Next]_vars => part' = part
  BY DEF Next, vars

LEMMA WindowMoves ==
  ASSUME part = "mailings", [Next]_vars
  PROVE  [Window!Next]_windowVars
  BY DEF Next, vars

LEMMA QueriesMove ==
  ASSUME part = "queries", [Next]_vars
  PROVE  [Queries!Next]_queryVars
  BY DEF Next, vars

-----------------------------------------------------------------------------
IsTable(f) == DOMAIN f \subseteq Mailings /\ f \in [DOMAIN f -> Window!Run]

(* The rows are mailings that m_mailings knows, which keeps those that are *)
(* gone; the current item is a row, and the button is about it, unless its *)
(* status was reset by a view.                                             *)
Told(m) == rows[m].sent = known[m].sent /\ (m \notin viewed => rows[m] = known[m])

OneStory ==
  /\ DOMAIN rows \subseteq DOMAIN known /\ \A m \in DOMAIN rows : Told(m)
  /\ chosen \in DOMAIN rows \cup {Window!Nobody}
  /\ chosen \notin viewed \cup {Window!Nobody} => button = Window!Label(known[chosen].status)

WindowInv ==
  /\ IsTable(runs) /\ IsTable(known) /\ IsTable(rows) /\ OneStory
  /\ jobs \subseteq Mailings /\ purged \subseteq Mailings /\ viewed \subseteq Mailings
  /\ button \in {"Start", "Stop", "disabled"}

-----------------------------------------------------------------------------
LEMMA LabelIsButton == \A s : Window!Label(s) \in {"Start", "Stop", "disabled"}
  BY DEF Window!Label

(* Every table with the columns of a run has rows that are runs.           *)
LEMMA RowsOfTable ==
  ASSUME NEW f, IsTable(f)
  PROVE  Window!Range(f) \subseteq Window!Run
  BY DEF IsTable, Window!Range

(* The tables after an insert, an update and a delete.                     *)
LEMMA InsertKeepsTable ==
  ASSUME NEW f, IsTable(f), NEW m \in Mailings, NEW r \in Window!Run
  PROVE  IsTable(Window!With(f, m, r))
  BY DEF IsTable, Window!With

LEMMA UpdateKeepsTable ==
  ASSUME IsTable(runs), NEW m, NEW s \in Window!Statuses
  PROVE  IsTable(Window!UpdatedRuns(m, s))
<1>1. ASSUME NEW k \in DOMAIN runs
      PROVE  Window!UpdatedRuns(m, s)[k] \in Window!Run
  BY <1>1 DEF IsTable, Window!UpdatedRuns, Window!Run
<1> QED  BY <1>1 DEF IsTable, Window!UpdatedRuns

LEMMA DeleteKeepsTable ==
  ASSUME NEW f, IsTable(f), NEW S \in SUBSET DOMAIN f
  PROVE  IsTable(Window!Restrict(f, S))
  BY DEF IsTable, Window!Restrict

LEMMA ChangeKeepsTable ==
  ASSUME NEW f, IsTable(f), NEW m \in DOMAIN f, NEW s \in Window!Statuses
  PROVE  LET g == [f EXCEPT ![m].status = s]
         IN  IsTable(g) /\ DOMAIN g = DOMAIN f /\ g[m].status = s /\ g[m].sent = f[m].sent
             /\ \A k \in DOMAIN f \ {m} : g[k] = f[k]
<1> DEFINE g == [f EXCEPT ![m].status = s]
<1>1. /\ [f[m] EXCEPT !.status = s] \in Window!Run /\ [f[m] EXCEPT !.status = s].status = s
      /\ [f[m] EXCEPT !.status = s].sent = f[m].sent
  BY DEF IsTable, Window!Run
<1>2. g = [f EXCEPT ![m] = [f[m] EXCEPT !.status = s]]
  BY DEF IsTable
<1> HIDE DEF g
<1>3. DOMAIN g = DOMAIN f /\ g[m] = [f[m] EXCEPT !.status = s] /\ \A k \in DOMAIN f \ {m} : g[k] = f[k]
  BY <1>2 DEF IsTable
<1>4. IsTable(g) /\ g[m].status = s /\ g[m].sent = f[m].sent
  BY <1>1, <1>2, <1>3 DEF IsTable
<1> QED  BY <1>3, <1>4 DEF g

-----------------------------------------------------------------------------
LEMMA WindowInit ==
  ASSUME Window!Init, MaxSent \in Nat
  PROVE  WindowInv
<1>1. PICK M \in SUBSET Mailings :
        runs \in [M -> {[status |-> s, sent |-> 0] : s \in {"not_started", "running"}}]
  BY DEF Window!Init
<1>2. \A s \in {"not_started", "running"} : [status |-> s, sent |-> 0] \in Window!Run
  BY DEF Window!Run, Window!Statuses
<1>3. IsTable(runs)
  BY <1>1, <1>2 DEF IsTable
<1> QED  BY <1>3 DEF Window!Init, WindowInv, OneStory, Told, IsTable

(* What changes the tables only changes nothing that the window tells.     *)
LEMMA OutsideKeeps ==
  ASSUME WindowInv, IsTable(runs'), jobs' \subseteq Mailings,
         UNCHANGED <<known, rows, chosen, button, purged, viewed>>
  PROVE  WindowInv'
  BY DEF WindowInv, OneStory, Told, IsTable, Window!Label

(* The user chooses an item: the button is that of what m_mailings knows.  *)
LEMMA ChoiceKeeps ==
  ASSUME WindowInv, Window!item_changed
  PROVE  WindowInv'
<1>1. PICK m \in DOMAIN rows \ {chosen} : 
        chosen' = m /\ button' = IF m \in DOMAIN known THEN Window!Label(known[m].status) ELSE button
  BY DEF Window!item_changed
<1>2. m \in DOMAIN known /\ button' = Window!Label(known[m].status)
      /\ UNCHANGED <<runs, jobs, known, rows, purged, viewed>>
  BY <1>1 DEF WindowInv, OneStory, Window!item_changed
<1>3. OneStory'
  BY <1>1, <1>2 DEF WindowInv, OneStory, Told, Window!Label
<1> QED  BY <1>2, <1>3, LabelIsButton DEF WindowInv, IsTable

(* A start or a stop: the entry, its row and the button change together.   *)
LEMMA StartStopKeeps ==
  ASSUME WindowInv, Window!Nobody \notin Mailings, Window!start_stop
  PROVE  WindowInv'
<1>1. chosen \in DOMAIN known /\ chosen \in DOMAIN rows /\ chosen \in Mailings
  BY DEF Window!start_stop, WindowInv, OneStory, IsTable
<1> DEFINE Now == IF known[chosen].status \in {"not_started", "stopped"} THEN "running" ELSE "stopped"
           Kept == known' = known \/ known' = [known EXCEPT ![chosen].status = Now]
<1>2. /\ Kept /\ button' = Window!Label(known'[chosen].status)
      /\ rows' = [rows EXCEPT ![chosen] = known'[chosen]]
      /\ viewed' = viewed \ {chosen} /\ UNCHANGED <<chosen, purged>>
  BY DEF Window!start_stop
<1>3. IsTable(runs') /\ jobs' \subseteq Mailings
  <2>1. CASE UNCHANGED <<runs, jobs>>
    BY <2>1 DEF WindowInv, IsTable
  <2>2. CASE Window!instantiate_job(chosen)
    BY <2>2, <1>1, UpdateKeepsTable DEF WindowInv, Window!instantiate_job, Window!Statuses
  <2>3. CASE Window!stop(chosen)
    BY <2>3, UpdateKeepsTable DEF WindowInv, Window!stop, Window!Statuses
  <2> QED  BY <2>1, <2>2, <2>3 DEF Window!start_stop
<1>4. IsTable(known') /\ DOMAIN known' = DOMAIN known
      /\ \A k \in DOMAIN known \ {chosen} : known'[k] = known[k]
  <2>1. Now \in Window!Statuses
    BY DEF Window!Statuses
  <2> HIDE DEF Now
  <2> QED  BY <1>1, <1>2, <2>1, ChangeKeepsTable DEF WindowInv, IsTable
<1>5. /\ DOMAIN rows' = DOMAIN rows /\ rows'[chosen] = known'[chosen]
      /\ \A k \in DOMAIN rows \ {chosen} : rows'[k] = rows[k]
      /\ IsTable(rows')
  BY <1>1, <1>2, <1>4 DEF WindowInv, IsTable
<1>6. OneStory'
  BY <1>1, <1>2, <1>4, <1>5 DEF WindowInv, OneStory, Told, Window!Label
<1> QED  BY <1>2, <1>3, <1>4, <1>5, <1>6, LabelIsButton DEF WindowInv

(* A refresh: what m_mailings learns is what the rows then display, and an *)
(* entry whose mailing is gone keeps its row and its button.               *)
LEMMA RefreshKeeps ==
  ASSUME WindowInv, Window!Nobody \notin Mailings, Window!refresh
  PROVE  WindowInv'
<1>1. /\ known' = [m \in DOMAIN known \cup Window!New |-> IF m \in Window!New \cup Window!Changed THEN runs[m] ELSE known[m]]
      /\ rows' = [m \in DOMAIN rows \cup Window!New |-> IF m \in Window!New \cup Window!Changed THEN runs[m] ELSE rows[m]]
      /\ viewed' = viewed \ Window!Changed /\ UNCHANGED <<runs, jobs, chosen, purged>>
  BY DEF Window!refresh, Window!RowsRefreshed
<1>2. Window!New \subseteq DOMAIN runs /\ Window!Changed \subseteq DOMAIN runs \cap DOMAIN known
  BY DEF Window!New, Window!Changed
<1>3. IsTable(known') /\ IsTable(rows')
  BY <1>1, <1>2 DEF WindowInv, OneStory, IsTable
<1>4. DOMAIN rows' \subseteq DOMAIN known' /\ \A k \in DOMAIN rows' : Told(k)'
  BY <1>1, <1>2 DEF WindowInv, OneStory, Told
<1>5. chosen' \in DOMAIN rows' \cup {Window!Nobody}
  BY <1>1 DEF WindowInv, OneStory
<1>6. button' \in {"Start", "Stop", "disabled"}
  BY LabelIsButton DEF Window!refresh, WindowInv
<1>7. ASSUME chosen' \notin viewed' \cup {Window!Nobody} PROVE button' = Window!Label(known'[chosen'].status)
  <2>1. chosen \in DOMAIN known /\ chosen' = chosen
    BY <1>1, <1>7 DEF WindowInv, OneStory
  <2>2. CASE chosen \in DOMAIN runs
    BY <2>1, <2>2 DEF Window!refresh
  <2>3. CASE chosen \notin DOMAIN runs
    <3>1. button' = button /\ known'[chosen] = known[chosen] /\ chosen \notin Window!Changed
      BY <1>1, <1>2, <2>1, <2>3 DEF Window!refresh, Window!New
    <3> QED  BY <3>1, <1>1, <1>7 DEF WindowInv, OneStory
  <2> QED  BY <2>2, <2>3
<1>8. OneStory'
  BY <1>4, <1>5, <1>7 DEF OneStory, Window!Label
<1> QED  BY <1>1, <1>3, <1>6, <1>8 DEF WindowInv, IsTable

(* A view resets the status of the current item's entry.                   *)
LEMMA ViewKeeps ==
  ASSUME WindowInv, Window!Nobody \notin Mailings, Window!view_mailing
  PROVE  WindowInv'
<1>1. /\ chosen \in DOMAIN known /\ chosen \in Mailings /\ viewed' = viewed \cup {chosen}
      /\ known' = [known EXCEPT ![chosen].status = "not_started"]
      /\ UNCHANGED <<runs, jobs, rows, chosen, button, purged>>
  BY DEF Window!view_mailing, WindowInv, IsTable
<1>2. IsTable(known') /\ DOMAIN known' = DOMAIN known /\ known'[chosen].sent = known[chosen].sent
      /\ \A k \in DOMAIN known \ {chosen} : known'[k] = known[k]
  BY <1>1, ChangeKeepsTable DEF WindowInv, Window!Statuses
<1>3. OneStory'
  BY <1>1, <1>2 DEF WindowInv, OneStory, Told
<1> QED  BY <1>1, <1>2, <1>3 DEF WindowInv, IsTable

(* A deletion: the row goes and another one becomes current, the entry     *)
(* stays in m_mailings.                                                    *)
LEMMA DeletionKeeps ==
  ASSUME WindowInv, Window!Nobody \notin Mailings, Window!delete_mailing
  PROVE  WindowInv'
<1>1. chosen \in DOMAIN rows /\ chosen \in DOMAIN known /\ chosen \in Mailings
      /\ UNCHANGED <<jobs, viewed>>
  BY DEF Window!delete_mailing, WindowInv, OneStory, IsTable
<1>2. CASE UNCHANGED <<runs, known, rows, chosen, button, purged>>
  BY <1>1, <1>2, OutsideKeeps DEF WindowInv, IsTable
<1>3. CASE Window!purge(chosen) /\ rows' = Window!Restrict(rows, DOMAIN rows \ {chosen})
           /\ known' = [known EXCEPT ![chosen].status = "stopped"]
           /\ chosen' \in (IF DOMAIN rows' = {} THEN {Window!Nobody} ELSE DOMAIN rows')
           /\ button' = (IF chosen' = Window!Nobody THEN button ELSE Window!Label(known'[chosen'].status))
           /\ purged' = purged \cup {chosen}
  <2>1. IsTable(runs')
    BY <1>3, DeleteKeepsTable DEF Window!purge, WindowInv
  <2>2. IsTable(known') /\ DOMAIN known' = DOMAIN known
        /\ \A k \in DOMAIN known \ {chosen} : known'[k] = known[k]
    BY <1>1, <1>3, ChangeKeepsTable DEF WindowInv, Window!Statuses
  <2>3. DOMAIN rows' = DOMAIN rows \ {chosen} /\ (\A k \in DOMAIN rows' : rows'[k] = rows[k])
        /\ IsTable(rows')
    BY <1>3, DeleteKeepsTable DEF WindowInv, Window!Restrict
  <2>4. chosen' \in DOMAIN rows' \cup {Window!Nobody}
        /\ (chosen' # Window!Nobody => button' = Window!Label(known'[chosen'].status))
    BY <1>3
  <2>5. OneStory'
    BY <1>1, <2>2, <2>3, <2>4 DEF WindowInv, OneStory, Told, Window!Label
  <2> QED  BY <1>1, <1>3, <2>1, <2>2, <2>3, <2>5, LabelIsButton DEF WindowInv
<1> QED  BY <1>2, <1>3 DEF Window!delete_mailing

LEMMA NewMailingKeeps ==
  ASSUME WindowInv, MaxSent \in Nat, Window!NewMailing
  PROVE  WindowInv'
<1>1. PICK m \in Mailings \ (DOMAIN runs \cup purged), now \in BOOLEAN :
        /\ runs' = Window!With(runs, m, [status |-> IF now THEN "running" ELSE "not_started", sent |-> 0])
        /\ jobs' = IF now THEN jobs \cup {m} ELSE jobs
  BY DEF Window!NewMailing
<1>2. [status |-> IF now THEN "running" ELSE "not_started", sent |-> 0] \in Window!Run
  BY DEF Window!Run, Window!Statuses
<1>3. IsTable(runs') /\ jobs' \subseteq Mailings
  BY <1>1, <1>2, InsertKeepsTable DEF WindowInv
<1> QED  BY <1>3, OutsideKeeps DEF Window!NewMailing

LEMMA OtherClientKeeps ==
  ASSUME WindowInv, Window!OtherClient
  PROVE  WindowInv'
<1>1. PICK m \in DOMAIN runs :
        Window!instantiate_job(m) \/ Window!stop(m) \/ (Window!purge(m) /\ UNCHANGED jobs)
  BY DEF Window!OtherClient
<1>2. m \in Mailings
  BY DEF WindowInv, IsTable
<1>3. IsTable(runs') /\ jobs' \subseteq Mailings
  <2>1. CASE Window!instantiate_job(m)
    BY <1>2, <2>1, UpdateKeepsTable DEF WindowInv, Window!instantiate_job, Window!Statuses
  <2>2. CASE Window!stop(m)
    BY <2>2, UpdateKeepsTable DEF WindowInv, Window!stop, Window!Statuses
  <2>3. CASE Window!purge(m) /\ UNCHANGED jobs
    BY <2>3, DeleteKeepsTable DEF WindowInv, Window!purge
  <2> QED  BY <1>1, <2>1, <2>2, <2>3
<1> QED  BY <1>3, OutsideKeeps DEF Window!OtherClient

LEMMA RunJobKeeps ==
  ASSUME WindowInv, MaxSent \in Nat, Window!RunJob
  PROVE  WindowInv'
<1>1. PICK m \in jobs \cap DOMAIN runs :
       \/ /\ runs[m].status = "running" /\ runs[m].sent < MaxSent
          /\ runs' = [runs EXCEPT ![m].sent = @ + 1] /\ UNCHANGED jobs
       \/ /\ runs' = [runs EXCEPT ![m].status = "finished"] /\ jobs' = jobs \ {m}
       \/ jobs' = jobs \ {m} /\ UNCHANGED runs
  BY DEF Window!RunJob
<1>2. jobs' \subseteq Mailings
  BY <1>1 DEF WindowInv
<1>3. IsTable(runs')
  <2>1. CASE runs[m].sent < MaxSent /\ runs' = [runs EXCEPT ![m].sent = @ + 1]
    <3>1. runs[m] \in Window!Run /\ runs[m].sent \in 0..MaxSent
      BY DEF WindowInv, IsTable, Window!Run
    <3>2. runs[m].sent + 1 \in 0..MaxSent
      BY <2>1, <3>1
    <3>3. [runs[m] EXCEPT !.sent = @ + 1] \in Window!Run
      BY <3>1, <3>2 DEF Window!Run
    <3> QED  BY <2>1, <3>3 DEF WindowInv, IsTable
  <2>2. CASE runs' = [runs EXCEPT ![m].status = "finished"]
    BY <2>2, ChangeKeepsTable DEF WindowInv, Window!Statuses
  <2>3. CASE UNCHANGED runs
    BY <2>3 DEF WindowInv, IsTable
  <2> QED  BY <1>1, <2>1, <2>2, <2>3
<1> QED  BY <1>2, <1>3, OutsideKeeps DEF Window!RunJob

LEMMA WindowStep ==
  ASSUME WindowInv, Window!Nobody \notin Mailings, MaxSent \in Nat, [Window!Next]_windowVars
  PROVE  WindowInv'
<1>1. CASE UNCHANGED windowVars
  BY <1>1, OutsideKeeps DEF windowVars, WindowInv, IsTable
<1> QED  BY <1>1, ChoiceKeeps, StartStopKeeps, RefreshKeeps, ViewKeeps, DeletionKeeps, NewMailingKeeps,
            OtherClientKeeps, RunJobKeeps DEF Window!Next

-----------------------------------------------------------------------------
(* mailing_window.cpp:255: each row displays the entry that start_stop     *)
(* will look at, and the button says what it will do to the current one,   *)
(* for any mailings, deleted or not, whatever the server and other clients *)
(* do to them between the refreshes, but for the status of one viewed      *)
(* since its row was displayed (mailing.cpp:135); and all state keeps its  *)
(* type.                                                                   *)
(* `Nobody` is the model's name for no item at all.                        *)
THEOREM OneStoryTold ==
  ASSUME Window!Nobody \notin Mailings, MaxSent \in Nat
  PROVE  Spec => [](WindowAgrees /\ (part = "mailings" => Window!TypeOK))
<1> DEFINE Inv == part = "mailings" => WindowInv
<1>1. Init => Inv
  BY WindowInit DEF Init
<1>2. Inv /\ [Next]_vars => Inv'
  BY PartKept, WindowMoves, WindowStep
<1>3. ASSUME WindowInv PROVE Window!WindowAgrees /\ Window!TypeOK
  <2>1. Window!WindowAgrees
    BY <1>3 DEF WindowInv, OneStory, Told, Window!WindowAgrees
  <2>2. \A f \in {runs, known, rows} : DOMAIN f \subseteq Mailings /\ Window!Range(f) \subseteq Window!Run
    BY <1>3, RowsOfTable DEF WindowInv, IsTable
  <2> QED  BY <1>3, <2>1, <2>2 DEF WindowInv, OneStory, Window!TypeOK
<1>4. Inv => WindowAgrees /\ (part = "mailings" => Window!TypeOK)
  BY <1>3 DEF WindowAgrees
<1> QED  BY <1>1, <1>2, <1>4, PTL DEF Spec

-----------------------------------------------------------------------------
(* The rows of a map.                                                      *)
RowsOf(f) == {[title |-> t, sql |-> f[t]] : t \in DOMAIN f}

IsMap(f) == DOMAIN f \subseteq Titles /\ f \in [DOMAIN f -> Sqls]

(* The map is the table or has not been read, the panel shows the map, and *)
(* a box that edits a query was opened on one that exists.                 *)
Mirror ==
  /\ Queries!TitlesAreUnique /\ IsMap(cache)
  /\ IF fetched THEN stored = RowsOf(cache) ELSE cache = Queries!Empty
  /\ entries = [p \in Panels |-> cache]
  /\ box.open /\ box.initial # Queries!NoTitle => fetched /\ box.initial \in DOMAIN cache

QueriesInv ==
  /\ stored \subseteq Queries!Row /\ fetched \in BOOLEAN /\ others \in Nat
  /\ box.open => box.panel \in Panels
  /\ others = 0 => Mirror

-----------------------------------------------------------------------------
(* What fetch makes of tuples with distinct titles has these rows.           *)
LEMMA ReadIsTable ==
  ASSUME NEW tuples, tuples \subseteq Queries!Row, \A r, s \in tuples : r.title = s.title => r = s,
         NEW f \in Queries!Read(tuples)
  PROVE  IsMap(f) /\ tuples = RowsOf(f)
<1>1. DOMAIN f = {r.title : r \in tuples} /\ IsMap(f)
  BY DEF Queries!Read, Queries!Row, IsMap
<1>2. RowsOf(f) \subseteq tuples
  BY <1>1 DEF Queries!Read, RowsOf
<1>3. ASSUME NEW r \in tuples PROVE r \in RowsOf(f)
  <2>1. r.title \in DOMAIN f /\ [title |-> r.title, sql |-> f[r.title]] \in tuples
    BY <1>1 DEF Queries!Read
  <2>2. r = [title |-> r.title, sql |-> f[r.title]]
    BY <2>1
  <2> QED  BY <2>1, <2>2 DEF RowsOf
<1> QED  BY <1>1, <1>2, <1>3

(* The rows of a map have distinct titles.                                 *)
LEMMA RowsAreDistinct ==
  ASSUME NEW f, NEW r \in RowsOf(f), NEW s \in RowsOf(f), r.title = s.title
  PROVE  r = s
  BY DEF RowsOf

LEMMA EmptyIsMap == IsMap(Queries!Empty) /\ RowsOf(Queries!Empty) = {}
  BY DEF Queries!Empty, IsMap, RowsOf

-----------------------------------------------------------------------------
(* Writing, replacing, renaming and removing an entry of the map is what   *)
(* the statement does to the rows.                                         *)
LEMMA InsertAgrees ==
  ASSUME NEW f, IsMap(f), NEW t \in Titles, NEW q \in Sqls, t \notin DOMAIN f
  PROVE  IsMap(Queries!Put(f, t, q))
         /\ RowsOf(Queries!Put(f, t, q)) = RowsOf(f) \cup {[title |-> t, sql |-> q]}
<1>1. IsMap(Queries!Put(f, t, q)) /\ DOMAIN Queries!Put(f, t, q) = DOMAIN f \cup {t}
  BY DEF Queries!Put, IsMap
<1>2. Queries!Put(f, t, q)[t] = q /\ \A k \in DOMAIN f : Queries!Put(f, t, q)[k] = f[k]
  BY DEF Queries!Put
<1> QED  BY <1>1, <1>2 DEF RowsOf

LEMMA ReplaceAgrees ==
  ASSUME NEW f, IsMap(f), NEW t \in DOMAIN f, NEW q \in Sqls
  PROVE  /\ IsMap(Queries!Put(f, t, q))
         /\ RowsOf(Queries!Put(f, t, q)) = {[title |-> r.title, sql |-> IF r.title = t THEN q ELSE r.sql] : r \in RowsOf(f)}
<1>1. IsMap(Queries!Put(f, t, q)) /\ DOMAIN Queries!Put(f, t, q) = DOMAIN f
  BY DEF Queries!Put, IsMap
<1>2. \A k \in DOMAIN f : Queries!Put(f, t, q)[k] = IF k = t THEN q ELSE f[k]
  BY DEF Queries!Put
<1> DEFINE g == Queries!Put(f, t, q)
           put(r) == [title |-> r.title, sql |-> IF r.title = t THEN q ELSE r.sql]
<1> HIDE DEF g
<1>3. \A k \in DOMAIN f : put([title |-> k, sql |-> f[k]]) = [title |-> k, sql |-> g[k]]
  BY <1>2 DEF g
<1>4. DOMAIN g = DOMAIN f
  BY <1>1 DEF g
<1> HIDE DEF put
<1>5. ASSUME NEW x \in RowsOf(g) PROVE \E r \in RowsOf(f) : x = put(r)
  <2>1. PICK k \in DOMAIN f : x = [title |-> k, sql |-> g[k]]
    BY <1>4 DEF RowsOf
  <2>2. [title |-> k, sql |-> f[k]] \in RowsOf(f)
    BY DEF RowsOf
  <2> QED  BY <1>3, <2>1, <2>2
<1>6. ASSUME NEW r \in RowsOf(f) PROVE put(r) \in RowsOf(g)
  <2>1. PICK k \in DOMAIN f : r = [title |-> k, sql |-> f[k]]
    BY DEF RowsOf
  <2> QED  BY <1>3, <1>4, <2>1 DEF RowsOf
<1>7. RowsOf(g) = {put(r) : r \in RowsOf(f)}
  BY <1>5, <1>6
<1> QED  BY <1>1, <1>7 DEF g, put

LEMMA RenameAgrees ==
  ASSUME NEW f, IsMap(f), NEW u \in DOMAIN f, NEW t \in Titles, NEW q \in Sqls, t \notin DOMAIN f
  PROVE  /\ IsMap(Queries!Put(Queries!Erase(f, u), t, q))
         /\ RowsOf(Queries!Put(Queries!Erase(f, u), t, q)) =
              {[title |-> IF r.title = u THEN t ELSE r.title,
                sql |-> IF r.title = u THEN q ELSE r.sql] : r \in RowsOf(f)}
<1> DEFINE g == Queries!Put(Queries!Erase(f, u), t, q)
<1>1. IsMap(g) /\ DOMAIN g = (DOMAIN f \ {u}) \cup {t}
  BY DEF Queries!Put, Queries!Erase, IsMap
<1>2. g[t] = q /\ \A k \in DOMAIN f \ {u} : g[k] = f[k]
  BY DEF Queries!Put, Queries!Erase
<1> DEFINE put(r) == [title |-> IF r.title = u THEN t ELSE r.title,
                      sql |-> IF r.title = u THEN q ELSE r.sql]
<1> HIDE DEF g
<1>3. \A k \in DOMAIN f : put([title |-> k, sql |-> f[k]]) =
                            IF k = u THEN [title |-> t, sql |-> g[t]] ELSE [title |-> k, sql |-> g[k]]
  BY <1>2
<1> HIDE DEF put
<1>4. ASSUME NEW x \in RowsOf(g) PROVE \E r \in RowsOf(f) : x = put(r)
  <2>1. PICK k \in (DOMAIN f \ {u}) \cup {t} : x = [title |-> k, sql |-> g[k]]
    BY <1>1 DEF RowsOf
  <2>2. CASE k = t
    <3>1. [title |-> u, sql |-> f[u]] \in RowsOf(f)
      BY DEF RowsOf
    <3> QED  BY <1>3, <2>1, <2>2, <3>1
  <2>3. CASE k # t
    <3>1. k \in DOMAIN f /\ k # u /\ [title |-> k, sql |-> f[k]] \in RowsOf(f)
      BY <2>1, <2>3 DEF RowsOf
    <3> QED  BY <1>3, <2>1, <3>1
  <2> QED  BY <2>2, <2>3
<1>5. ASSUME NEW r \in RowsOf(f) PROVE put(r) \in RowsOf(g)
  <2>1. PICK k \in DOMAIN f : r = [title |-> k, sql |-> f[k]]
    BY DEF RowsOf
  <2> QED  BY <1>1, <1>3, <2>1 DEF RowsOf
<1>6. RowsOf(g) = {put(r) : r \in RowsOf(f)}
  BY <1>4, <1>5
<1> QED  BY <1>1, <1>6 DEF g, put

LEMMA EraseAgrees ==
  ASSUME NEW f, IsMap(f), NEW t
  PROVE  IsMap(Queries!Erase(f, t)) /\ RowsOf(Queries!Erase(f, t)) = RowsOf(f) \ Queries!Named(RowsOf(f), t)
<1>1. IsMap(Queries!Erase(f, t)) /\ DOMAIN Queries!Erase(f, t) = DOMAIN f \ {t}
  BY DEF Queries!Erase, IsMap
<1>2. \A k \in DOMAIN f \ {t} : Queries!Erase(f, t)[k] = f[k]
  BY DEF Queries!Erase
<1> QED  BY <1>1, <1>2 DEF RowsOf, Queries!Named

-----------------------------------------------------------------------------
(* A panel that is reloaded shows the map, which is the table's or empty.  *)
LEMMA ReloadAgrees ==
  ASSUME NEW w, Panels = {w}, entries = [p \in Panels |-> entries[p]],
         NEW tuples, tuples \subseteq Queries!Row, \A r, s \in tuples : r.title = s.title => r = s,
         NEW m, NEW ready \in BOOLEAN, ready => IsMap(m) /\ tuples = RowsOf(m),
         Queries!reload(w, tuples, m, ready)
  PROVE  /\ IsMap(cache') /\ entries' = [p \in Panels |-> cache']
         /\ IF fetched' THEN tuples = RowsOf(cache') ELSE cache' = Queries!Empty
<1>1. CASE ~ready /\ cache' = Queries!Empty /\ fetched' = FALSE
           /\ entries' = [entries EXCEPT ![w] = Queries!Empty]
  BY <1>1, EmptyIsMap
<1>2. CASE \E f \in IF ready THEN {m} ELSE Queries!Read(tuples) :
              cache' = f /\ fetched' = TRUE /\ entries' = [entries EXCEPT ![w] = f]
  <2>1. PICK f \in IF ready THEN {m} ELSE Queries!Read(tuples) :
               cache' = f /\ fetched' = TRUE /\ entries' = [entries EXCEPT ![w] = f]
    BY <1>2
  <2>2. IsMap(f) /\ tuples = RowsOf(f)
    BY <2>1, ReadIsTable
  <2> QED  BY <2>1, <2>2
<1> QED  BY <1>1, <1>2 DEF Queries!reload

(* The map that the box looks at is the table, or it is empty since it     *)
(* cannot be read; the same after a statement that the table accepts.      *)
LEMMA SaveAgrees ==
  ASSUME Mirror, stored \subseteq Queries!Row, Queries!NoTitle \notin Titles, box.open,
         NEW t \in Titles, NEW q \in Sqls, NEW ready \in {fetched, TRUE}, fetched \in BOOLEAN,
         NEW m \in Queries!check_accept(ready)
  PROVE  /\ ready => IsMap(m) /\ stored = RowsOf(m)
         /\ ~Queries!taken(m, t) =>
              /\ Queries!Saved(m, t, q) \subseteq Queries!Row
              /\ \A r, s \in Queries!Saved(m, t, q) : r.title = s.title => r = s
              /\ ready => IsMap(Queries!MapSaved(m, t, q)) /\ Queries!Saved(m, t, q) = RowsOf(Queries!MapSaved(m, t, q))
<1> DEFINE after == Queries!Saved(m, t, q)
           map == Queries!MapSaved(m, t, q)
<1>1. ready => IsMap(m) /\ stored = RowsOf(m)
  BY ReadIsTable DEF Mirror, Queries!check_accept, Queries!TitlesAreUnique
<1>2. IsMap(m) /\ (~ready => m = Queries!Empty)
  BY <1>1, EmptyIsMap DEF Mirror, Queries!check_accept
<1>3. Queries!renames(t) => ready /\ box.initial \in DOMAIN m
  BY DEF Queries!renames, Mirror, Queries!check_accept
<1>4. CASE Queries!renames(t) /\ ~Queries!taken(m, t)
  <2>1. [title |-> box.initial, sql |-> m[box.initial]] \in stored
    BY <1>1, <1>3, <1>4 DEF RowsOf
  <2>2. Queries!Named(stored, t) = {}
    BY <1>4, <2>1 DEF Queries!taken, Queries!Named
  <2>3. t \notin DOMAIN m
    <3>1. SUFFICES ASSUME t \in DOMAIN m PROVE FALSE
      OBVIOUS
    <3>2. [title |-> t, sql |-> m[t]] \in stored
      BY <1>1, <1>3, <1>4, <3>1 DEF RowsOf
    <3> QED  BY <2>2, <3>2 DEF Queries!Named
  <2>4. IsMap(map) /\ after = RowsOf(map)
    BY <1>1, <1>2, <1>3, <1>4, <2>3, RenameAgrees DEF Queries!MapSaved, Queries!MapRenamed,
       Queries!Saved, Queries!Renamed
  <2>5. after \subseteq Queries!Row
    BY <2>4 DEF IsMap, RowsOf, Queries!Row
  <2> QED  BY <1>1, <2>4, <2>5, RowsAreDistinct
<1>5. CASE ~Queries!renames(t) /\ Queries!name_exists(m, t)
  <2>1. t \in DOMAIN m /\ ready
    BY <1>2, <1>5 DEF Queries!name_exists, Queries!Empty
  <2>2. IsMap(map) /\ after = RowsOf(map)
    BY <1>1, <1>2, <1>5, <2>1, ReplaceAgrees DEF Queries!MapSaved, Queries!Saved, Queries!Replaced
  <2>3. after \subseteq Queries!Row
    BY <2>2 DEF IsMap, RowsOf, Queries!Row
  <2> QED  BY <1>1, <2>2, <2>3, RowsAreDistinct
<1>6. CASE ~Queries!renames(t) /\ ~Queries!name_exists(m, t) /\ ~Queries!taken(m, t)
  <2>1. t \notin DOMAIN m /\ Queries!Named(stored, t) = {}
    BY <1>6 DEF Queries!taken, Queries!name_exists
  <2>2. after = stored \cup {[title |-> t, sql |-> q]} /\ after \subseteq Queries!Row
    BY <1>6 DEF Queries!Saved, Queries!Inserted, Queries!Row
  <2>3. \A r, s \in after : r.title = s.title => r = s
    BY <2>1, <2>2 DEF Mirror, Queries!TitlesAreUnique, Queries!Named
  <2>4. ready => IsMap(map) /\ after = RowsOf(map)
    <3>1. map = Queries!Put(m, t, q)
      BY <1>6 DEF Queries!MapSaved
    <3>2. IsMap(Queries!Put(m, t, q))
          /\ RowsOf(Queries!Put(m, t, q)) = RowsOf(m) \cup {[title |-> t, sql |-> q]}
      BY <1>2, <2>1, InsertAgrees
    <3> QED  BY <1>1, <2>2, <3>1, <3>2
  <2> QED  BY <1>1, <2>2, <2>3, <2>4
<1> QED  BY <1>1, <1>4, <1>5, <1>6

-----------------------------------------------------------------------------
LEMMA QueriesInit ==
  ASSUME Queries!Init
  PROVE  QueriesInv
<1>1. stored \subseteq Queries!Row /\ Queries!TitlesAreUnique /\ fetched \in BOOLEAN /\ others = 0
      /\ ~box.open
  BY DEF Queries!Init, Queries!NoBox
<1>2. IsMap(cache) /\ IF fetched THEN stored = RowsOf(cache) ELSE cache = Queries!Empty
  BY <1>1, ReadIsTable, EmptyIsMap DEF Queries!Init, Queries!TitlesAreUnique
<1> QED  BY <1>1, <1>2 DEF Queries!Init, QueriesInv, Mirror

(* What holds whoever changes the table.                                   *)
LEMMA TypesKept ==
  ASSUME QueriesInv, [Queries!Next]_queryVars
  PROVE  /\ stored' \subseteq Queries!Row /\ fetched' \in BOOLEAN /\ others' \in Nat
         /\ box'.open => box'.panel \in Panels
         /\ others' = 0 => others = 0
<1>1. CASE Queries!open_box
  BY <1>1 DEF Queries!open_box, QueriesInv
<1>2. CASE Queries!cancel_box
  BY <1>2 DEF Queries!cancel_box, Queries!reload, Queries!NoBox, QueriesInv
<1>3. CASE Queries!save_filter_query
  <2>1. \A t \in Titles, q \in Sqls : \A m : Queries!Saved(m, t, q) \subseteq Queries!Row
    BY DEF QueriesInv, Queries!Saved, Queries!Renamed, Queries!Replaced, Queries!Inserted, Queries!Row
  <2> QED  BY <1>3, <2>1 DEF Queries!save_filter_query, Queries!reload, Queries!NoBox, QueriesInv
<1>4. CASE Queries!remove_query
  BY <1>4 DEF Queries!remove_query, QueriesInv
<1>5. CASE Queries!other_client
  BY <1>5 DEF Queries!other_client, QueriesInv, Queries!Row
<1>6. CASE UNCHANGED queryVars
  BY <1>6 DEF queryVars, QueriesInv
<1> QED  BY <1>1, <1>2, <1>3, <1>4, <1>5, <1>6 DEF Queries!Next

LEMMA MirrorKept ==
  ASSUME Unique, Queries!NoTitle \notin Titles, NEW w, Panels = {w},
         QueriesInv, Mirror, others' = 0, [Queries!Next]_queryVars
  PROVE  Mirror'
<1> USE DEF QueriesInv
<1>1. CASE Queries!open_box
  <2>1. PICK p \in Panels :
          \/ \E q \in Sqls : box' = [open |-> TRUE, panel |-> p, initial |-> Queries!NoTitle, sql |-> q]
          \/ \E t \in DOMAIN entries[p] :
               box' = [open |-> TRUE, panel |-> p, initial |-> t, sql |-> entries[p][t]]
    BY <1>1 DEF Queries!open_box
  <2>2. entries[p] = cache /\ (DOMAIN cache # {} => fetched)
    BY DEF Mirror, Queries!Empty
  <2>3. box'.initial # Queries!NoTitle => fetched /\ box'.initial \in DOMAIN cache
    BY <2>1, <2>2
  <2> QED  BY <1>1, <2>3 DEF Queries!open_box, Mirror, Queries!TitlesAreUnique
<1>2. CASE Queries!cancel_box
  <2>1. box.panel = w /\ ~box'.open /\ stored' = stored /\ Queries!reload(w, stored, cache, fetched)
    BY <1>2 DEF Queries!cancel_box, Queries!NoBox
  <2>2. /\ IsMap(cache') /\ entries' = [p \in Panels |-> cache']
        /\ IF fetched' THEN stored = RowsOf(cache') ELSE cache' = Queries!Empty
    BY <2>1, ReloadAgrees DEF Mirror, Queries!TitlesAreUnique
  <2> QED  BY <2>1, <2>2 DEF Mirror, Queries!TitlesAreUnique
<1>3. CASE Queries!save_filter_query
  <2>1. box.open /\ box.panel = w /\ ~box'.open
    BY <1>3 DEF Queries!save_filter_query, Queries!NoBox
  <2>2. PICK t \in Titles, q \in Sqls, ready \in {fetched, TRUE} : \E m \in Queries!check_accept(ready) :
          \/ /\ ~(Unique /\ Queries!taken(m, t)) /\ stored' = Queries!Saved(m, t, q)
             /\ Queries!reload(box.panel, stored', Queries!MapSaved(m, t, q), ready)
          \/ UNCHANGED stored /\ Queries!reload(box.panel, stored, m, ready)
    BY <1>3 DEF Queries!save_filter_query
  <2>3. PICK m \in Queries!check_accept(ready) :
          \/ /\ ~Queries!taken(m, t) /\ stored' = Queries!Saved(m, t, q)
             /\ Queries!reload(w, stored', Queries!MapSaved(m, t, q), ready)
          \/ stored' = stored /\ Queries!reload(w, stored, m, ready)
    BY <2>1, <2>2
  <2>4. /\ ready => IsMap(m) /\ stored = RowsOf(m)
        /\ ~Queries!taken(m, t) =>
             /\ Queries!Saved(m, t, q) \subseteq Queries!Row
             /\ \A r, s \in Queries!Saved(m, t, q) : r.title = s.title => r = s
             /\ ready => IsMap(Queries!MapSaved(m, t, q)) /\ Queries!Saved(m, t, q) = RowsOf(Queries!MapSaved(m, t, q))
    BY <2>1, SaveAgrees
  <2>5. ready \in BOOLEAN /\ entries = [p \in Panels |-> entries[p]] /\ stored \subseteq Queries!Row
    BY DEF Mirror
  <2>6. CASE ~Queries!taken(m, t) /\ stored' = Queries!Saved(m, t, q)
             /\ Queries!reload(w, stored', Queries!MapSaved(m, t, q), ready)
    <3>1. /\ IsMap(cache') /\ entries' = [p \in Panels |-> cache']
          /\ IF fetched' THEN stored' = RowsOf(cache') ELSE cache' = Queries!Empty
      BY <2>4, <2>5, <2>6, ReloadAgrees
    <3> QED  BY <2>1, <2>4, <2>6, <3>1 DEF Mirror, Queries!TitlesAreUnique
  <2>7. CASE stored' = stored /\ Queries!reload(w, stored, m, ready)
    <3>1. /\ IsMap(cache') /\ entries' = [p \in Panels |-> cache']
          /\ IF fetched' THEN stored = RowsOf(cache') ELSE cache' = Queries!Empty
      BY <2>4, <2>5, <2>7, ReloadAgrees DEF Mirror, Queries!TitlesAreUnique
    <3> QED  BY <2>1, <2>7, <3>1 DEF Mirror, Queries!TitlesAreUnique
  <2> QED  BY <2>3, <2>6, <2>7
<1>4. CASE Queries!remove_query
  <2>1. PICK t \in DOMAIN cache :
          /\ stored' = stored \ Queries!Named(stored, t) /\ cache' = Queries!Erase(cache, t)
          /\ entries' = [entries EXCEPT ![w] = Queries!Erase(@, t)]
    BY <1>4 DEF Queries!remove_query, Mirror
  <2>2. fetched /\ fetched' = fetched /\ stored = RowsOf(cache) /\ box' = box /\ ~box.open
    BY <1>4 DEF Queries!remove_query, Mirror, Queries!Empty
  <2>3. IsMap(cache') /\ stored' = RowsOf(cache')
    BY <2>1, <2>2, EraseAgrees DEF Mirror
  <2>4. entries' = [p \in Panels |-> cache'] /\ Queries!TitlesAreUnique'
    BY <2>1 DEF Mirror, Queries!TitlesAreUnique, Queries!Named
  <2> QED  BY <2>2, <2>3, <2>4 DEF Mirror
<1>5. CASE Queries!other_client
  BY <1>5 DEF Queries!other_client
<1>6. CASE UNCHANGED queryVars
  BY <1>6 DEF queryVars, Mirror, Queries!TitlesAreUnique
<1> QED  BY <1>1, <1>2, <1>3, <1>4, <1>5, <1>6 DEF Queries!Next

-----------------------------------------------------------------------------
(* user_queries_repository::m_map, changed by hand beside each statement   *)
(* that names, renames, replaces or removes a query, is what fetch would   *)
(* read again, for any titles and texts, when statements and fetches fail  *)
(* or not; with one panel, which shows it, and titles that are unique.     *)
THEOREM MapIsTable ==
  ASSUME Unique, Queries!NoTitle \notin Titles, NEW w, Panels = {w}
  PROVE  Spec => [](CacheMatchesTable /\ (part = "queries" => Queries!PanelsAgree))
<1> DEFINE Inv == part = "queries" => QueriesInv
<1>1. Init => Inv
  BY QueriesInit DEF Init
<1>2. QueriesInv /\ [Queries!Next]_queryVars => QueriesInv'
  <2> SUFFICES ASSUME QueriesInv, [Queries!Next]_queryVars PROVE QueriesInv'
    OBVIOUS
  <2>1. others' = 0 => Mirror'
    BY TypesKept, MirrorKept DEF QueriesInv
  <2> QED  BY <2>1, TypesKept DEF QueriesInv
<1>3. Inv /\ [Next]_vars => Inv'
  BY <1>2, PartKept, QueriesMove
<1>4. Inv => CacheMatchesTable /\ (part = "queries" => Queries!PanelsAgree)
  BY DEF CacheMatchesTable, QueriesInv, Mirror, Queries!CacheMatchesTable, Queries!CacheIsCurrent,
     Queries!PanelsAgree, RowsOf
<1> QED  BY <1>1, <1>3, <1>4, PTL DEF Spec
=============================================================================
