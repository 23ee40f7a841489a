------------------------------- MODULE UserQueries -------------------------------
(***************************************************************************)
(* user_queries_repository: the named queries of the table user_queries,   *)
(* cached in a static map that is fetched once; save_query_box and         *)
(* save_filter_query, which name, rename and replace them; the lists of    *)
(* them that the quick selection panels of the list windows show.          *)
(***************************************************************************)
EXTENDS Naturals

CONSTANTS Titles, Sqls,    \* what the queries are called, and what they say
          Panels,          \* the query_listview's: one in each list window
          Unique,          \* whether the table refuses a title it has
          MaxOthers        \* the changes other clients make

VARIABLES stored,          \* user_queries: a set of [title, sql]
          cache,           \* m_map: title -> sql
          fetched,         \* m_uq_map_fetched
          entries,         \* panel -> the title -> sql of its items
          box,             \* the save_query_box
          others           \* the changes by other clients

queriesVars == <<stored, cache, fetched, entries, box, others>>

Row == [title : Titles, sql : Sqls]
NoTitle == ""
NoBox == [open |-> FALSE, panel |-> CHOOSE p \in Panels : TRUE, initial |-> NoTitle, sql |-> CHOOSE q \in Sqls : TRUE]
Empty == [t \in {} |-> NoTitle]

TypeOK ==
  /\ stored \subseteq Row /\ fetched \in BOOLEAN /\ others \in 0..MaxOthers
  /\ \A f \in {cache} \cup {entries[p] : p \in Panels} :
       DOMAIN f \subseteq Titles /\ \A t \in DOMAIN f : f[t] \in Sqls
  /\ box.open \in BOOLEAN /\ box.initial \in Titles \cup {NoTitle} /\ box.sql \in Sqls

Named(rows, t) == {r \in rows : r.title = t}
Put(f, t, q) == [k \in DOMAIN f \cup {t} |-> IF k = t THEN q ELSE f[k]]
Erase(f, t) == [k \in DOMAIN f \ {t} |-> f[k]]

(* fetch: the maps that the rows make.  A title found twice keeps its last  *)
Read(rows) == {f \in [{r.title : r \in rows} -> Sqls] : \A t \in DOMAIN f : [title |-> t, sql |-> f[t]] \in rows}

(* reload_user_queries, in one panel, of the map m, fetched if it is not.   *)
(* When that fails the map is empty, and the panel too.                     *)
reload(p, rows, m, ready) ==
  \/ \E f \in IF ready THEN {m} ELSE Read(rows) :
       cache' = f /\ fetched' = TRUE /\ entries' = [entries EXCEPT ![p] = f]
  \/ ~ready /\ cache' = Empty /\ fetched' = FALSE /\ entries' = [entries EXCEPT ![p] = Empty]

(* A title names one query                                                  *)
TitlesAreUnique == \A r, s \in stored : r.title = s.title => r = s

(* The panels' constructors have loaded the list, or could not              *)
Init ==
  /\ stored \in SUBSET Row /\ TitlesAreUnique
  /\ fetched \in BOOLEAN /\ cache \in IF fetched THEN Read(stored) ELSE {Empty}
  /\ entries = [p \in Panels |-> cache] /\ box = NoBox /\ others = 0

---------------------------------------------------------------------------------
(* sel_save_query (the text of the window's filter), "New query" and "Edit" *)
(* (the query as the item has it)                                           *)
open_box ==
  /\ ~box.open
  /\ \E p \in Panels :
       \/ \E q \in Sqls : box' = [open |-> TRUE, panel |-> p, initial |-> NoTitle, sql |-> q]
       \/ \E t \in DOMAIN entries[p] :
            box' = [open |-> TRUE, panel |-> p, initial |-> t, sql |-> entries[p][t]]
  /\ UNCHANGED <<stored, cache, fetched, entries, others>>

(* A closed box: the panel it was opened from is reloaded                   *)
cancel_box ==
  /\ box.open /\ box' = NoBox /\ reload(box.panel, stored, cache, fetched)
  /\ UNCHANGED <<stored, others>>

(* The statements, each with the map as it is after it                      *)
Renamed(t, q) ==
  {[title |-> IF r.title = box.initial THEN t ELSE r.title,
    sql |-> IF r.title = box.initial THEN q ELSE r.sql] : r \in stored}
Replaced(t, q) ==
  {[title |-> r.title, sql |-> IF r.title = t THEN q ELSE r.sql] : r \in stored}
Inserted(t, q) == stored \cup {[title |-> t, sql |-> q]}

(* A mutation of MapRenamed: the entry of the old title stays               *)
OldTitleKept(m, t, q) == Put(m, t, q)
MapRenamed(m, t, q) == Put(Erase(m, box.initial), t, q)

(* check_accept: the map by which it asks whether to overwrite              *)
check_accept(ready) == IF fetched \/ ~ready THEN {cache} ELSE Read(stored)
name_exists(m, t) == t \in DOMAIN m

(* Whether the query has another name than before, whether the table may    *)
(* refuse that name, and what the table and the map are otherwise.          *)
renames(t) == box.initial # NoTitle /\ box.initial # t
taken(m, t) ==
  Named(stored, t) # {} /\ IF renames(t) THEN Named(stored, box.initial) # {} ELSE ~name_exists(m, t)
Saved(m, t, q) ==
  IF renames(t) THEN Renamed(t, q) ELSE IF name_exists(m, t) THEN Replaced(t, q) ELSE Inserted(t, q)
MapSaved(m, t, q) == IF renames(t) THEN MapRenamed(m, t, q) ELSE Put(m, t, q)

(* check_accept, then save_filter_query.  name_exists goes by the map, as   *)
(* it was fetched once, and by an empty one when it cannot be fetched.  A   *)
(* statement that fails, or is refused a title, leaves the map as it is.    *)
save_filter_query ==
  /\ box.open /\ box' = NoBox
  /\ \E t \in Titles, q \in Sqls, ready \in {fetched, TRUE} :
     \E m \in check_accept(ready) :
       \/ /\ ~(Unique /\ taken(m, t)) /\ stored' = Saved(m, t, q)
          /\ reload(box.panel, stored', MapSaved(m, t, q), ready)
       \/ UNCHANGED stored /\ reload(box.panel, stored, m, ready)
  /\ UNCHANGED others

remove_query ==
  /\ ~box.open
  /\ \E p \in Panels : \E t \in DOMAIN entries[p] :
       /\ stored' = stored \ Named(stored, t) /\ cache' = Erase(cache, t)
       /\ entries' = [entries EXCEPT ![p] = Erase(@, t)]
  /\ UNCHANGED <<fetched, box, others>>

(* Another client inserts, removes or changes a query                       *)
other_client ==
  /\ others < MaxOthers /\ others' = others + 1
  /\ \E t \in Titles : \E rows \in {{}} \cup {{[title |-> t, sql |-> q]} : q \in Sqls} :
       stored' = (stored \ Named(stored, t)) \cup rows /\ stored' # stored
  /\ UNCHANGED <<cache, fetched, entries, box>>

Next == open_box \/ cancel_box \/ save_filter_query \/ remove_query \/ other_client
Spec == Init /\ [][Next]_queriesVars

---------------------------------------------------------------------------------
(* Until another client changes them, the map is the table, through         *)
(* renamings, replacements, removals and statements that fail.              *)
CacheIsCurrent == fetched => stored = {[title |-> t, sql |-> cache[t]] : t \in DOMAIN cache}
CacheMatchesTable == others = 0 => CacheIsCurrent

(* Every panel lists the queries                                            *)
PanelsAgree == others = 0 => \A p \in Panels : entries[p] = cache
=================================================================================
