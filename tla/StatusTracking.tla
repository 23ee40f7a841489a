---------------------------- MODULE StatusTracking ----------------------------
(***************************************************************************)
(* The status of messages (read, archived, trashed, sent) is kept in four  *)
(* places: the database, each page's own copies, the global status cache   *)
(* and the quick selection's map of current messages.  This module says    *)
(* how they follow each other while the user reads, archives, trashes and  *)
(* deletes, lists are fetched, and new mail is notified.                   *)
(*                                                                         *)
(* Transactions are in the modules TransactionHandlers and Handlers: here  *)
(* the outcome of one is a written or a failed update.  No message has     *)
(* tags: m_tagged has only its branch 0.                                   *)
(***************************************************************************)
EXTENDS Integers, FiniteSets, FiniteSetsExt, Functions

CONSTANTS
  MaxId,    \* the messages' ids are 1..MaxId
  NOld,     \* the first ones are there when the program starts
  Old,      \* the statuses these may have
  Window,   \* the window of each page
  Filters,  \* the selections that are fetched: "all", "current", "trashcan"
  Batch,    \* so many messages are trashed one by one
  Faults    \* "write": an update may fail; "read": a query may

Ids     == 1..MaxId
Pages   == DOMAIN Window
Windows == Range(Window)
Bits    == {"read", "archived", "trashed", "sent"}

ASSUME StatusAssumption ==
  /\ MaxId \in Nat /\ NOld \in 0..MaxId /\ Old \subseteq SUBSET Bits
  /\ Batch \in Nat \ {0}

VARIABLES
  world,    \* the database and what the program knows of it
  born,     \* the messages that have been committed, ever
  pending,  \* a new_message notification is on its way
  cur,      \* each window's current page
  fetching  \* each window's query that runs, with what it has read

vars == <<world, born, pending, cur, fetching>>

(* A world: mail, the database; cache, high, the status cache and its high *)
(* water mark; counted, m_tagged[0] and whether it exists; for each page   *)
(* copy (m_status, m_db_status) and sel; and doubt, the messages for which *)
(* an update has failed or a notification was overtaken, which says        *)
(* nothing of the code and only serves the properties.  The icons and      *)
(* fonts that update_msg changes are left out.                             *)

(* Functions: f over g, x set in f, one message's status, f outside S.      *)
Over(f, g)    == [x \in DOMAIN f \cup DOMAIN g |-> IF x \in DOMAIN f THEN f[x] ELSE g[x]]
Put(f, x, s)  == [y \in DOMAIN f \cup {x} |-> IF y = x THEN s ELSE f[y]]
Just(m, s)    == [x \in {m} |-> s]
Without(f, S) == Restrict(f, DOMAIN f \ S)
Add(f, S, b)  == [m \in DOMAIN f |-> IF m \in S THEN f[m] \cup b ELSE f[m]]
Clear(f, S, b) == [m \in DOMAIN f |-> IF m \in S THEN f[m] \ b ELSE f[m]]
Only(S)       == CHOOSE m \in S : S = {m}
Idle          == [on |-> FALSE, rows |-> << >>]

Unread(s)      == s \cap {"read", "trashed", "archived"} = {}
Unprocessed(s) == s \cap {"trashed", "archived", "sent"} = {}
Current(s)     == s \cap {"trashed", "archived"} = {}

(* A bound: an update fails only when no earlier failure left its mark, no *)
(* new mail is on its way, there are counters, and one page at most lists  *)
(* something.                                                              *)
Failing ==
  /\ "write" \in Faults /\ world.doubt = {} /\ ~pending /\ born = Ids /\ world.branch
  /\ \E x \in Pages : \A y \in Pages \ {x} : world.copy[y] = << >>
  /\ \A x \in Pages : \A m \in DOMAIN world.copy[x] :
       world.copy[x][m].now = world.copy[x][m].orig

Doubt(w, S) == [w EXCEPT !.doubt = @ \cup S]

-----------------------------------------------------------------------------
(* The status cache and the quick selection.  What the code does for one   *)
(* message after another of a loop is done at once for all of them: st is  *)
(* the statuses they have now, and each of them touches only its own.      *)

(* Mutant: the high water mark is not raised.                              *)
updateMarkless(w, st) == [w EXCEPT !.cache = Over(st, @)]
update(w, st) ==
  [w EXCEPT !.cache = Over(st, @), !.high = Max({@} \cup DOMAIN st)]

(* Mutant: a message that is no longer current stays in the map.           *)
mail_status_changedKeeps(w, st) ==
  LET now == IF w.branch THEN {m \in DOMAIN st : Current(st[m])} ELSE {}
  IN [update(w, st) EXCEPT !.counted = Over(Restrict(st, now), @)]
(* query_listview::mail_status_changed: there is a branch to count it in   *)
(* only if some message was not tagged when the map was read               *)
mail_status_changed(w, st) ==
  LET now  == {m \in DOMAIN st : Current(st[m])}
      come == IF w.branch THEN now ELSE {}
  IN [update(w, st) EXCEPT !.counted =
        Over(Restrict(st, come), Without(@, DOMAIN st \ now))]
mail_deleted(w, S) == [w EXCEPT !.cache = Without(@, S), !.counted = Without(@, S)]

(* query_listview::refresh and init: what is current is read again, the    *)
(* high water mark stays                                                   *)
CurrentMail(w) ==
  Restrict(w.mail, {m \in DOMAIN w.mail : Current(w.mail[m]) /\ "sent" \notin w.mail[m]})
fetch_tag_map(w) ==
  LET c == CurrentMail(w)
  IN [w EXCEPT !.cache = c, !.counted = c, !.branch = DOMAIN c # {},
               !.high = Max({@} \cup DOMAIN c), !.doubt = {}]

-----------------------------------------------------------------------------
(* Pages: what they list and what is selected.                             *)

(* A page has the database's status of some messages.                      *)
Copy(w, p, st) ==
  LET of == [m \in DOMAIN st |-> [now |-> st[m], orig |-> st[m]]]
  IN [w EXCEPT !.copy = Put(@, p, Over(of, @[p]))]
(* A page gives a message a status that the database may not have.         *)
set_status(w, p, m, s) ==
  LET of == [now |-> s, orig |-> w.copy[p][m].orig]
  IN [w EXCEPT !.copy = Put(@, p, Put(@[p], m, of))]
Select(w, p, S) == [w EXCEPT !.sel = Put(@, p, S)]
(* These messages leave the lists of these pages.                          *)
remove_msgs(w, P, S) ==
  [w EXCEPT !.copy = [q \in Pages |-> IF q \in P THEN Without(@[q], S) ELSE @[q]],
            !.sel  = [q \in Pages |-> IF q \in P THEN @[q] \ S ELSE @[q]]]

(* propagate_status: the other pages, of all windows, change their list,   *)
(* not their own copy of a status                                          *)
propagate_status(w, st) == mail_status_changed(w, st)
(* Mutant: the other pages are not told of a deletion.                     *)
propagate_deletedHere(w, p, S) == mail_deleted(w, S)
propagate_deleted(w, p, S) == remove_msgs(mail_deleted(w, S), Pages \ {p}, S)

(* mail_msg::update_status: the whole status is written, if it is known to *)
(* differ from the database's                                              *)
Written(w, p, m) ==
  LET s == w.copy[p][m].now
      v == update(Copy(w, p, Just(m, s)), Just(m, s))
  IN IF w.copy[p][m].orig = s THEN w
     ELSE IF m \in DOMAIN w.mail THEN [v EXCEPT !.mail = Put(@, m, s)] ELSE v
MayFail(w, p, m) == Failing /\ w.copy[p][m].orig # w.copy[p][m].now

(* Mutant: the list's copy is taken for what the database has.             *)
refreshNot(w, p, m) == w
(* mail_listview::refresh                                                  *)
refresh(w, p, m) ==
  IF m \in DOMAIN w.mail
  THEN update(Copy(w, p, Just(m, w.mail[m])), Just(m, w.mail[m]))
  ELSE w

(* mail_selected: refreshed, marked as read, and shown as read, even when  *)
(* the update has failed                                                   *)
mail_selected(w, p, m) ==
  LET Read(v)  == set_status(v, p, m, v.copy[p][m].now \cup {"read"})
      Shown(v) == propagate_status(v, Just(m, v.copy[p][m].now))
      refreshed == {refresh(w, p, m)} \cup (IF "read" \in Faults THEN {Doubt(w, {m})} ELSE {})
  IN UNION {IF "read" \in v.copy[p][m].now
            THEN {Written(v, p, m)} \cup (IF MayFail(v, p, m) THEN {v} ELSE {})
            ELSE {Shown(Written(Read(v), p, m))}
                 \cup (IF MayFail(Read(v), p, m) THEN {Doubt(Shown(Read(v)), {m})} ELSE {})
            : v \in refreshed}
mails_selected(w, p) ==
  IF Cardinality(w.sel[p]) = 1 THEN mail_selected(w, p, Only(w.sel[p])) ELSE {w}

-----------------------------------------------------------------------------
(* What the user does in a window whose widgets are not disabled.          *)

Busy(v) == fetching[v].on
Elsewhere == UNCHANGED <<born, pending, cur, fetching>>

(* What a page shows of some messages.                                     *)
Listed(w, p, S) == [m \in S |-> w.copy[p][m].now]

select(v) ==
  /\ ~Busy(v)
  /\ \E S \in SUBSET DOMAIN world.copy[cur[v]] :
       world' \in mails_selected(Select(world, cur[v], S), cur[v])
  /\ Elsewhere

(* Mutant: the page is shown with what it had.                             *)
change_pageOnly(v) ==
  /\ ~Busy(v)
  /\ \E p \in Pages \ {cur[v]} : Window[p] = v /\ cur' = [cur EXCEPT ![v] = p]
  /\ UNCHANGED <<world, born, pending, fetching>>
change_page(v) ==
  /\ ~Busy(v)
  /\ \E p \in Pages \ {cur[v]} :
       /\ Window[p] = v /\ cur' = [cur EXCEPT ![v] = p]
       /\ world' \in mails_selected(world, p)
  /\ UNCHANGED <<born, pending, fetching>>

(* change_mail_status of the one selected message; the message below it is *)
(* selected before the others are told                                     *)
archive(v) ==
  LET p == cur[v]
      m == Only(world.sel[p])
      s == world.copy[p][m].now \cup {"archived", "read"}
      w == set_status(world, p, m, s)
      below == {world.sel[p]} \cup {{n} : n \in DOMAIN world.copy[p] \ {m}}
  IN /\ ~Busy(v) /\ Cardinality(world.sel[p]) = 1
     /\ \/ \E S \in below : \E x \in
             (IF S = world.sel[p] THEN {Written(w, p, m)}
              ELSE mails_selected(Select(Written(w, p, m), p, S), p)) :
             world' = propagate_status(x, Just(m, s))
        \/ MayFail(w, p, m) /\ world' = w
     /\ Elsewhere

(* change_multi_mail_status: bits are added in the database                *)
archive_multi(v) ==
  LET p  == cur[v]
      S  == world.sel[p]
      st == Add(Listed(world, p, S), S, {"archived", "read"})
      w  == [world EXCEPT !.mail = Add(@, S, {"archived", "read"})]
  IN /\ ~Busy(v) /\ Cardinality(S) > 1
     /\ \/ world' = propagate_status(Copy(w, p, st), st)
        \/ Failing /\ world' = Doubt(propagate_status(world, Listed(world, p, S)), S)
     /\ Elsewhere

(* The selection a removal leaves, and its mails_selected                  *)
AfterRemoval(w, p) ==
  UNION {mails_selected(Select(w, p, S), p)
         : S \in {w.sel[p]} \cup {{n} : n \in DOMAIN w.copy[p]}}

(* remove_selected_msgs(0), one by one: the server adds the bit and says   *)
(* what the status is; or a batch in one statement, whose messages leave   *)
(* the list whether it has failed or not                                   *)
msg_trash(v) ==
  LET p == cur[v]
      S == world.sel[p]
      Bit(T) == [world EXCEPT !.mail = Add(@, T, {"trashed"})]
      Said(T) == [m \in T |-> IF m \in DOMAIN world.mail THEN Bit(T).mail[m] ELSE {}]
      Off(w, st) == remove_msgs(propagate_status(w, st), {p}, DOMAIN st)
  IN /\ ~Busy(v) /\ S # {}
     /\ \/ /\ Cardinality(S) <= Batch
           /\ \E T \in IF Failing THEN SUBSET S ELSE {S} :
                world' \in AfterRemoval(Off(Bit(T), Said(T)), p)
        \/ /\ Cardinality(S) > Batch
           /\ \/ world' \in AfterRemoval(
                   Off(Bit(S), Add(Listed(world, p, S), S, {"trashed"})), p)
              \/ Failing /\ world' \in AfterRemoval(
                   Doubt(Off(world, Listed(world, p, S)), S), p)
     /\ Elsewhere

msg_delete(v) ==
  LET p == cur[v]
      S == world.sel[p]
      Off(T) == remove_msgs(propagate_deleted(
                  [world EXCEPT !.mail = Without(@, T)], p, T), {p}, T)
  IN /\ ~Busy(v) /\ S # {}
     /\ \E T \in IF Failing THEN SUBSET S ELSE {S} : world' \in AfterRemoval(Off(T), p)
     /\ Elsewhere

(* One transaction; when one of the messages fails, all of it is undone,   *)
(* and those before it are shown as if it were not                         *)
msg_untrash(v) ==
  LET p == cur[v]
      S == {m \in world.sel[p] : "trashed" \in world.copy[p][m].now}
      Bit(T) == [world EXCEPT !.mail = Clear(@, T, {"trashed"})]
      Said(T) == [m \in T |-> IF m \in DOMAIN world.mail THEN Bit(T).mail[m] ELSE {}]
      Shown(w, T) == propagate_status(Copy(w, p, Said(T)), Said(T))
  IN /\ ~Busy(v) /\ S # {}
     /\ \/ world' = Shown(Bit(S), S)
        \/ Failing /\ \E T \in SUBSET S : T # S /\ world' = Doubt(Shown(world, T), T)
     /\ Elsewhere

(* query_listview::refresh                                                 *)
refresh_quick_selection ==
  /\ \E v \in Windows : ~Busy(v)
  /\ \/ world' = fetch_tag_map(world)
     \/ "read" \in Faults
        /\ world' = [world EXCEPT !.cache = << >>, !.counted = << >>, !.branch = FALSE, !.doubt = Ids]
  /\ Elsewhere

-----------------------------------------------------------------------------
(* Lists, and mail that comes.                                             *)

Selected(f, mail) ==
  Restrict(mail, {m \in DOMAIN mail : CASE f = "all" -> TRUE
                                        [] f = "current" -> Current(mail[m])
                                        [] f = "trashcan" -> "trashed" \in mail[m]})
(* The thread reads what a query selects; its results come later           *)
fetch(v) ==
  /\ ~Busy(v)
  /\ \E f \in Filters :
       fetching' = [fetching EXCEPT ![v] = [on |-> TRUE, rows |-> Selected(f, world.mail)]]
  /\ UNCHANGED <<world, born, pending, cur>>

(* store_results, and timer_func, which opens them in a page: the cache    *)
(* learns of them, the quick selection does not                            *)
results(v) ==
  LET rows == fetching[v].rows
      w    == update(world, rows)
  IN /\ Busy(v) /\ fetching' = [fetching EXCEPT ![v] = Idle]
     /\ \E p \in Pages :
          /\ Window[p] = v /\ cur' = [cur EXCEPT ![v] = p]
          /\ world' = Doubt(Copy(remove_msgs(w, {p}, DOMAIN w.copy[p]), p, rows),
                            {m \in DOMAIN world.mail : m > world.high /\ m <= w.high})
     /\ UNCHANGED <<born, pending>>

(* A message is imported and notified; ids are given before the commit     *)
new_message(m) ==
  /\ m \notin born /\ born' = born \cup {m} /\ pending' = TRUE
  /\ world' = [world EXCEPT !.mail = Put(@, m, {}),
                            !.doubt = IF m <= world.high THEN @ \cup {m} ELSE @]
  /\ UNCHANGED <<cur, fetching>>

(* db_new_mail_notif: what is above the high water mark and not archived   *)
db_new_mail_notif ==
  /\ pending /\ pending' = FALSE
  /\ \/ LET rows == {m \in DOMAIN world.mail : m > world.high /\ "archived" \notin world.mail[m]}
        IN world' = mail_status_changed(world, Restrict(world.mail, rows))
     \/ "read" \in Faults /\ UNCHANGED world
  /\ UNCHANGED <<born, cur, fetching>>

-----------------------------------------------------------------------------

Init ==
  /\ \E f \in [1..NOld -> Old] :
       world = fetch_tag_map(
         [mail |-> f, cache |-> << >>, high |-> 0, counted |-> << >>, branch |-> FALSE,
          copy |-> [p \in Pages |-> << >>], sel |-> [p \in Pages |-> {}], doubt |-> {}])
  /\ born = 1..NOld /\ pending = FALSE
  /\ cur \in {f \in [Windows -> Pages] : \A v \in Windows : Window[f[v]] = v}
  /\ fetching = [v \in Windows |-> Idle]

Next ==
  \/ \E v \in Windows :
       \/ select(v) \/ change_page(v) \/ archive(v) \/ archive_multi(v)
       \/ msg_trash(v) \/ msg_delete(v) \/ msg_untrash(v) \/ fetch(v) \/ results(v)
  \/ refresh_quick_selection \/ db_new_mail_notif
  \/ \E m \in Ids : new_message(m)

Spec == Init /\ [][Next]_vars

-----------------------------------------------------------------------------
(* Properties.                                                             *)

Statuses    == SUBSET Bits
IsMap(f, T) == DOMAIN f \subseteq Ids /\ \A m \in DOMAIN f : f[m] \in T

(* The pieces of state have their types; the cache knows no message above  *)
(* its high water mark, and a page selects what it lists.                  *)
TypeOK ==
  /\ IsMap(world.mail, Statuses) /\ IsMap(world.cache, Statuses) /\ IsMap(world.counted, Statuses)
  /\ world.high \in 0..MaxId /\ DOMAIN world.cache \subseteq 1..world.high
  /\ world.branch \in BOOLEAN /\ world.doubt \subseteq Ids
  /\ \A p \in Pages : /\ IsMap(world.copy[p], [now : Statuses, orig : Statuses])
                      /\ world.sel[p] \subseteq DOMAIN world.copy[p]
  /\ born \subseteq Ids /\ DOMAIN world.mail \subseteq born
  /\ pending \in BOOLEAN /\ cur \in [Windows -> Pages]
  /\ \A v \in Windows : Window[cur[v]] = v /\ IsMap(fetching[v].rows, Statuses)

(* What the counters count is what the database has, message by message,   *)
(* after any sequence of selections, changes of page, updates from copies  *)
(* that are out of date, fetches and notifications.                        *)
CountedRight ==
  \A m \in Ids \ world.doubt :
    IF m \in DOMAIN world.mail /\ m <= world.high
    THEN LET s == world.mail[m] IN
         /\ m \in DOMAIN world.cache =>
              /\ Unread(world.cache[m]) = Unread(s)
              /\ Unprocessed(world.cache[m]) = Unprocessed(s)
         /\ m \notin DOMAIN world.cache => ~Current(s)
         /\ world.branch => /\ Current(s) <=> m \in DOMAIN world.counted
                            /\ Current(s) => world.counted[m] = s
    ELSE m \notin DOMAIN world.cache \cup DOMAIN world.counted

(* The message that is selected alone, whose whole status the next command *)
(* may write, has the status of the database, though other pages' copies   *)
(* may be out of date.                                                     *)
SelectedIsFresh ==
  \A v \in Windows : \A m \in DOMAIN world.mail :
    ~Busy(v) /\ world.sel[cur[v]] = {m} => world.copy[cur[v]][m].orig = world.mail[m]

(* No command removes a bit of a message's status, but to untrash it: a    *)
(* message never becomes unread, nor comes back from archive or trash,     *)
(* because a page wrote what it remembered.                                *)
NoBitLost ==
  [][\A m \in DOMAIN world.mail \cap DOMAIN world'.mail :
       world.mail[m] \subseteq world'.mail[m] \/ \E v \in Windows : msg_untrash(v)]_vars

(* A message that was deleted is in no list, cache or counter.             *)
DeletedIsForgotten ==
  \A m \in born \ DOMAIN world.mail :
    /\ m \notin DOMAIN world.cache \cup DOMAIN world.counted
    /\ \A p \in Pages : m \notin DOMAIN world.copy[p]

(* When the notifications have been handled, every unread message in the   *)
(* database is counted.                                                    *)
NewMailCounted ==
  ~pending => \A m \in DOMAIN world.mail : Unread(world.mail[m]) => m \in DOMAIN world.counted

(* Both of these: no page acts on the status a message had, nor on a        *)
(* message that is no more.                                                 *)
ListsRight == SelectedIsFresh /\ DeletedIsForgotten
=============================================================================
