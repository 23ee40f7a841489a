------------------------------ MODULE ListWindow ------------------------------
(***************************************************************************)
(* One window of message lists: its pages, the query that a thread runs    *)
(* for it, the timer that collects the results, and the widgets that are   *)
(* disabled meanwhile.                                                     *)
(*                                                                         *)
(* The window's pointers m_qlist, m_filter, m_msgview ("win") are separate *)
(* from the current page of its msgs_page_list ("cur"), and what a fetch   *)
(* is for is kept in members (m_loading_filter, m_fetch_command) that are  *)
(* read when the timer finds the thread finished.                          *)
(***************************************************************************)
EXTENDS Integers, Sequences

CONSTANTS
  Queries,   \* what filters select
  Limits,    \* the values the setting msg_window_pages takes
  Ids,       \* the sets of widgets of the pages
  Dialogs,   \* may a selection dialog deliver results on its own?
  Bars,      \* the values of the setting display/wordsearch/progress_bar
  Faults     \* "build", "query", "lost", "abort": what may go wrong

ASSUME WindowAssumption ==
  /\ Limits \subseteq Nat \ {0, 1} /\ Ids \subseteq Nat \ {0}
  /\ \A l \in Limits : 1..(l + 1) \subseteq Ids    \* a page more than are kept
  /\ Bars \subseteq BOOLEAN /\ Dialogs \in BOOLEAN

VARIABLES
  limit,    \* the setting msg_window_pages
  pages,    \* msgs_page_list::plist
  cur,      \* msgs_page_list::m_current_page
  win,      \* the page m_qlist, m_filter, m_msgview belong to
  widgets,  \* page -> its filter's query, the query its list shows, ...
  nav,      \* the menu's previous and next segment entries that are enabled
  loading,  \* m_loading_filter: the query, its direction and progress bar
  dest,     \* m_fetch_command.destination
  waiting,  \* m_waiting_for_results
  thread,   \* m_thread: state, query, success, and the connection it holds
  cancelled,\* fetch_thread::m_cancelled
  on,       \* the widgets that all pages share are enabled
  saved,    \* m_widgets_enable_state: what enable_interaction(true) restores
  abort,    \* the abort button is shown
  download, \* an attachment is being downloaded
  alive,    \* the program runs
  said,     \* the last message of the status bar about a query
  aborted   \* the user has aborted the query last started

view == <<limit, pages, cur, win, widgets, nav>>
inter == <<on, saved, abort>>
vars == <<view, loading, dest, waiting, thread, cancelled, inter, download, alive, said, aborted>>

None == [query |-> "none"]
Kinds == {"new_page", "new_window", "extend_current_page", "replace_current_page"}
Segments == {"prev", "next"}

Widgets(filter, list, b) ==
  [filter |-> filter, list |-> list, first |-> b.first, last |-> b.last, sel |-> {}, on |-> TRUE]
Freed == Widgets("none", "none", [first |-> TRUE, last |-> TRUE])

(* add_segments and enable_segments: what a result set has more of         *)
SegmentsOf(w) == (IF w.last THEN {} ELSE {"next"}) \cup (IF w.first THEN {} ELSE {"prev"})
AddSegments(ws, i) == [ws EXCEPT ![i].sel = @ \cup SegmentsOf(ws[i])]

-----------------------------------------------------------------------------
(* msgs_page_list                                                          *)

Listed(p)  == \E i \in 1..Len(pages) : pages[i] = p
Place(p)   == CHOOSE i \in 1..Len(pages) : pages[i] = p
HasNext    == Listed(cur) /\ Place(cur) < Len(pages)
HasPrev    == Listed(cur) /\ Place(cur) > 1
Unused     == Ids \ ({win} \cup {pages[i] : i \in 1..Len(pages)})

(* cut_pages(next_page()): what is left when a page is added               *)
CutPages == IF HasNext THEN SubSeq(pages, 1, Place(cur)) ELSE pages
(* Mutant: no page goes.                                                   *)
FreePageNot == CutPages
(* free_msgs_page: the current page is the last one by now, so it is the   *)
(* first one that goes                                                     *)
FreePage == IF Len(CutPages) >= limit THEN Tail(CutPages) ELSE CutPages

(* add_msgs_page, in the widgets ws: the pointers move to the new page's   *)
(* widgets w before it is known whether there is room for the page.        *)
AddPage(ws, w) ==
  LET new  == CHOOSE i \in Unused : TRUE
      room == Len(FreePage) < limit
      gone == {pages[i] : i \in 1..Len(pages)} \ {FreePage[i] : i \in 1..Len(FreePage)}
  IN [win |-> new,
      widgets |-> [i \in Ids |-> IF i = new THEN w ELSE IF i \in gone THEN Freed ELSE ws[i]],
      pages |-> IF room THEN Append(FreePage, new) ELSE FreePage,
      cur |-> IF room THEN new ELSE cur,
      nav |-> IF room THEN SegmentsOf(w) ELSE nav]

-----------------------------------------------------------------------------
(* enable_interaction: one state is recorded, and taken back               *)

(* Mutant: the state is recorded, and nothing is disabled.                 *)
DisableNot == saved' = <<[rest |-> on, list |-> widgets[win].on]>> /\ UNCHANGED <<on, widgets>>
Disable ==
  /\ on' = FALSE /\ saved' = <<[rest |-> on, list |-> widgets[win].on]>>
  /\ widgets' = [widgets EXCEPT ![win].on = FALSE]
(* Mutant: the list is not among the widgets that are enabled again.       *)
RestoredInNot(ws, w) == ws
RestoredIn(ws, w) == [ws EXCEPT ![w].on = Head(saved).list]
Restored == on' = Head(saved).rest /\ saved' = <<>>

(* What the user can reach: the shared widgets, or those of the page shown.*)
Usable == alive /\ (on \/ widgets[win].on)

Init ==
  /\ limit \in Limits /\ pages = <<1>> /\ cur = 1 /\ win = 1
  /\ \E q \in Queries, last \in BOOLEAN :
       widgets = [i \in Ids |-> IF i # 1 THEN Freed
                                ELSE Widgets(q, q, [first |-> TRUE, last |-> last])]
  /\ nav = SegmentsOf(widgets[1])
  /\ loading = None /\ dest \in Kinds
  /\ waiting = TRUE                     \* as the constructor leaves it
  /\ thread = [st |-> "new", query |-> "none", ok |-> TRUE, cnx |-> "none"]
  /\ cancelled = FALSE /\ on = TRUE /\ saved = <<>> /\ abort = FALSE
  /\ download = FALSE /\ alive = TRUE /\ said = "" /\ aborted = FALSE

-----------------------------------------------------------------------------
(* msgs_filter::asynchronous_fetch                                         *)

(* The query cannot be built, matches nothing already, or has no session   *)
(* to run on: r = 0 or 2.  A connection that failed is kept.               *)
FetchRefused ==
  /\ \/ "build" \in Faults /\ UNCHANGED thread
     \/ "lost" \in Faults /\ thread.cnx = "none" /\ thread' = [thread EXCEPT !.cnx = "bad"]
  /\ UNCHANGED <<waiting, aborted>>

(* Mutant: the thread is started with the query it had.                    *)
FetchStartedStale(q) ==
  /\ waiting' = TRUE /\ aborted' = FALSE
  /\ thread' = [thread EXCEPT !.st = "running", !.ok = TRUE, !.cnx = "ok"]
(* QThread::start does nothing to a thread that runs, whose query text may *)
(* already have been read.                                                 *)
FetchStarted(q) ==
  /\ waiting' = TRUE /\ aborted' = FALSE
  /\ LET cnx == IF thread.cnx = "none" THEN "ok" ELSE thread.cnx
     IN IF thread.st = "running"
        THEN \E text \in {q, thread.query} : thread' = [thread EXCEPT !.query = text]
        ELSE thread' = [st |-> "running", query |-> q, ok |-> TRUE, cnx |-> cnx]

Fetch(q) == FetchRefused \/ FetchStarted(q)

(* sel_filter: from the menus, the quick queries, the search box           *)
sel_filter(q, bar) ==
  /\ Usable
  /\ loading' = [query |-> q, dir |-> 0, bar |-> bar]
  /\ dest' \in {"new_page", "new_window"}
  /\ Disable /\ abort' = TRUE
  /\ Fetch(q)
  /\ UNCHANGED <<limit, pages, cur, win, nav, cancelled, download, alive, said>>

(* fetch_segment: from the menu, or an item of the list                    *)
fetch_segment(dir) ==
  /\ Usable
  /\ LET s == IF dir > 0 THEN "next" ELSE "prev"
     IN (on /\ s \in nav) \/ (widgets[win].on /\ s \in widgets[win].sel)
  /\ loading' = [query |-> widgets[win].filter, dir |-> dir, bar |-> FALSE]
  /\ dest' = "replace_current_page"
  /\ Disable /\ UNCHANGED abort
  /\ Fetch(widgets[win].filter)
  /\ UNCHANGED <<limit, pages, cur, win, nav, cancelled, download, alive, said>>

(* fetch_more: "More results" of the list's context menu                   *)
fetch_more ==
  /\ Usable /\ widgets[win].on
  /\ Disable /\ abort' = TRUE
  /\ Fetch(widgets[win].filter)
  /\ UNCHANGED <<limit, pages, cur, win, nav, loading, dest, cancelled, download, alive, said>>

(* fetch_thread::run.  The transaction begins outside the try block: an    *)
(* error there leaves the thread's function, and ends the program.         *)
ThreadRuns ==
  /\ alive /\ thread.st = "running"
  /\ \/ /\ thread.cnx # "bad"
        /\ \E ok \in {TRUE} \cup (IF "query" \in Faults \/ aborted THEN {FALSE} ELSE {}) :
             thread' = [thread EXCEPT !.st = "done", !.ok = ok]
        /\ UNCHANGED alive
     \/ /\ thread.cnx = "bad" \/ "lost" \in Faults
        /\ alive' = FALSE /\ UNCHANGED thread
  /\ UNCHANGED <<view, loading, dest, waiting, cancelled, inter, download, said, aborted>>

(* abort_operation: fetch_thread::cancel, which never knows whether it was *)
(* in time                                                                 *)
abort_operation ==
  /\ alive /\ abort /\ "abort" \in Faults
  /\ cancelled' = (cancelled \/ (waiting /\ thread.cnx # "none"))
  /\ aborted' = (aborted \/ (waiting /\ thread.cnx # "none"))
  /\ UNCHANGED <<view, loading, dest, waiting, thread, inter, download, alive, said>>

-----------------------------------------------------------------------------
(* The results.                                                            *)

(* postprocess_fetch: the bounds of the result set after a fetch           *)
Bounds(dir) ==
  {b \in [first : BOOLEAN, last : BOOLEAN] :
     /\ (dir = 0 => b.first) /\ (dir > 0 => ~b.first) /\ (dir < 0 => ~b.last)
     /\ ~thread.ok => (dir >= 0 => b.last) /\ (dir < 0 => b.first)}

HasBar == loading # None /\ loading.bar

(* timer_func puts the results where m_fetch_command says, in the page     *)
(* that is current by now: what the window becomes, from the widgets ws.   *)
Same(ws) == [win |-> win, widgets |-> ws, pages |-> pages, cur |-> cur]

Delivered(ws) ==
  IF dest = "extend_current_page"
  THEN {Same([ws EXCEPT ![win].first = b.first, ![win].last = b.last,
                        ![win].list = thread.query]) : b \in Bounds(1)}
  ELSE IF loading = None \/ dest = "new_window"
  THEN {Same(ws)}
  ELSE {LET w == Widgets(loading.query, thread.query, b)
        IN IF dest = "replace_current_page"
           THEN Same([ws EXCEPT ![win] = [w EXCEPT !.on = ws[win].on]])
           ELSE AddPage(ws, w) : b \in Bounds(loading.dir)}

(* Mutant: timer_func leaves the widgets as they are.                      *)
CollectDisabled ==
  /\ \E d \in Delivered(widgets) :
       /\ pages' = d.pages /\ cur' = d.cur /\ win' = d.win
       /\ widgets' = AddSegments(d.widgets, d.win) /\ nav' = SegmentsOf(d.widgets[d.win])
  /\ saved' = <<>> /\ abort' = FALSE /\ UNCHANGED <<limit, on>>

(* The widgets are restored first or, with a progress bar, last, in the    *)
(* page that is current then.  Then enable_segments and add_segments.      *)
Collect ==
  /\ \E d \in Delivered(IF HasBar THEN widgets ELSE RestoredIn(widgets, win)) :
       /\ pages' = d.pages /\ cur' = d.cur /\ win' = d.win
       /\ widgets' = AddSegments(IF HasBar THEN RestoredIn(d.widgets, d.win) ELSE d.widgets,
                                 d.win)
       /\ nav' = SegmentsOf(d.widgets[d.win])
  /\ Restored /\ abort' = FALSE /\ UNCHANGED limit

(* Taking a saved state from an empty list is undefined: the program ends. *)
timer_func ==
  /\ alive /\ waiting /\ thread.st = "done"
  /\ \/ saved # <<>> /\ Collect /\ UNCHANGED alive
     \/ saved = <<>> /\ alive' = FALSE /\ UNCHANGED <<view, inter>>
  /\ waiting' = FALSE /\ loading' = None
  /\ thread' = [st |-> "done", query |-> "none", ok |-> TRUE, cnx |-> "none"]
  /\ said' = (IF cancelled THEN "cancelled" ELSE "executed")
  /\ UNCHANGED <<dest, cancelled, download, aborted>>

-----------------------------------------------------------------------------
(* The pages.                                                              *)

Opened(d) ==
  pages' = d.pages /\ cur' = d.cur /\ win' = d.win /\ nav' = d.nav /\ UNCHANGED limit

(* "Show thread on new page": fetched at once, and is_last is what the     *)
(* memory holds                                                            *)
open_page(q) ==
  /\ Usable /\ widgets[win].on
  /\ \E last \in BOOLEAN :
       LET d == AddPage(widgets, Widgets(q, q, [first |-> TRUE, last |-> last]))
       IN Opened(d) /\ widgets' = d.widgets
  /\ UNCHANGED <<loading, dest, waiting, thread, cancelled, inter, download, alive, said, aborted>>

(* change_page, by move_backward and move_forward                          *)
change_page(p) ==
  /\ cur' = p /\ win' = p
  /\ UNCHANGED <<limit, pages, widgets, nav, loading, dest, waiting, thread, cancelled, inter,
                 download, alive, said, aborted>>
move_backward == Usable /\ HasPrev /\ change_page(pages[Place(cur) - 1])
move_forward  == Usable /\ HasNext /\ change_page(pages[Place(cur) + 1])

(* fill_fetch and fill_fetch_new_page: a selection dialog has results      *)
fill_fetch(q) ==
  /\ Dialogs /\ alive
  /\ \E last \in BOOLEAN :
       widgets' = [widgets EXCEPT ![win] = [Widgets(q, q, [first |-> TRUE, last |-> last])
                                             EXCEPT !.on = widgets[win].on]]
  /\ UNCHANGED <<limit, pages, cur, win, nav, loading, dest, waiting, thread, cancelled, inter,
                 download, alive, said, aborted>>
fill_fetch_new_page(q) ==
  /\ Dialogs /\ alive
  /\ \E last \in BOOLEAN :
       LET d == AddPage(widgets, Widgets(q, q, [first |-> TRUE, last |-> last]))
       IN Opened(d) /\ widgets' = AddSegments(d.widgets, d.win)
  /\ UNCHANGED <<loading, dest, waiting, thread, cancelled, inter, download, alive, said, aborted>>

(* attch_run: an attachment is downloaded while events are processed       *)
StartDownload ==
  /\ Usable /\ widgets[win].on /\ ~download
  /\ Disable /\ abort' = TRUE /\ download' = TRUE
  /\ UNCHANGED <<limit, pages, cur, win, nav, loading, dest, waiting, thread, cancelled, alive,
                 said, aborted>>
EndDownload ==
  /\ alive /\ download /\ download' = FALSE /\ abort' = FALSE
  /\ IF saved = <<>> THEN alive' = FALSE /\ UNCHANGED <<widgets, on, saved>>
     ELSE Restored /\ widgets' = RestoredIn(widgets, win) /\ UNCHANGED alive
  /\ UNCHANGED <<limit, pages, cur, win, nav, loading, dest, waiting, thread, cancelled,
                 said, aborted>>

preferences ==
  /\ alive /\ limit' \in Limits
  /\ UNCHANGED <<pages, cur, win, widgets, nav, loading, dest, waiting, thread, cancelled, inter,
                 download, alive, said, aborted>>

Ended == ~alive /\ UNCHANGED vars

Next ==
  \/ \E q \in Queries, bar \in Bars : sel_filter(q, bar)
  \/ \E dir \in {-1, 1} : fetch_segment(dir)
  \/ fetch_more \/ ThreadRuns \/ abort_operation \/ timer_func
  \/ \E q \in Queries : open_page(q) \/ fill_fetch(q) \/ fill_fetch_new_page(q)
  \/ move_backward \/ move_forward \/ StartDownload \/ EndDownload \/ preferences \/ Ended

Spec == Init /\ [][Next]_vars

(* The thread is scheduled, the timer fires every 200 ms, and a download   *)
(* comes to its end.                                                       *)
FairSpec == Spec /\ WF_vars(ThreadRuns) /\ WF_vars(timer_func) /\ WF_vars(EndDownload)

-----------------------------------------------------------------------------
(* Properties.                                                             *)

TypeOK ==
  /\ limit \in Limits /\ pages \in Seq(Ids) /\ cur \in Ids /\ win \in Ids
  /\ \A i \in 1..Len(pages) : "none" \notin {widgets[pages[i]].filter, widgets[pages[i]].list}
  /\ widgets \in [Ids -> [filter : Queries \cup {"none"}, list : Queries \cup {"none"}, first : BOOLEAN, last : BOOLEAN,
                          sel : SUBSET Segments, on : BOOLEAN]]
  /\ nav \subseteq Segments
  /\ loading \in {None} \cup [query : Queries, dir : {-1, 0, 1}, bar : BOOLEAN]
  /\ dest \in Kinds /\ waiting \in BOOLEAN
  /\ thread \in [st : {"new", "running", "done"}, query : Queries \cup {"none"}, ok : BOOLEAN,
                  cnx : {"none", "ok", "bad"}]
  /\ cancelled \in BOOLEAN /\ on \in BOOLEAN
  /\ saved \in {<<>>} \cup {<<s>> : s \in [rest : BOOLEAN, list : BOOLEAN]}
  /\ abort \in BOOLEAN /\ download \in BOOLEAN /\ alive \in BOOLEAN
  /\ said \in {"", "executed", "cancelled"} /\ aborted \in BOOLEAN

(* The page that is shown is the one whose list and filter the window      *)
(* works on, it is in the list of pages once, and the pages are no more    *)
(* than the setting allows.                                                *)
PointersAgree ==
  /\ win = cur /\ Listed(cur) /\ Len(pages) <= limit
  /\ \A i, j \in 1..Len(pages) : pages[i] = pages[j] => i = j

(* A page's list shows the results of the page's own filter: results never *)
(* end up in another page than the one they were asked for.                *)
ShownMatchesFilter ==
  \A i \in 1..Len(pages) : widgets[pages[i]].list = widgets[pages[i]].filter

(* enable_interaction records one state, and the code keeps its calls in   *)
(* pairs: nothing is taken from an empty list, and a disabled state is     *)
(* never recorded as the one to go back to.                                *)
InteractionPaired ==
  /\ alive /\ (saved = <<>> <=> on)
  /\ saved # <<>> => Head(saved) = [rest |-> TRUE, list |-> TRUE]

(* When nothing is under way, every page has its list enabled.             *)
ListsUsable == on => \A i \in 1..Len(pages) : widgets[pages[i]].on

(* The menu's segment entries are those of the page shown.                 *)
SegmentMenuFits == on => nav = SegmentsOf(widgets[win])

(* The status bar says that a query was cancelled only if it was.          *)
CancelledWasAsked == ~waiting /\ said = "cancelled" => aborted

(* An error of a query does not end the program.                           *)
QueryErrorsAreShown == alive

(* Results that have been fetched are given to a page or a window.         *)
ResultsAreUsed ==
  [][waiting /\ ~waiting' /\ thread.ok => dest = "extend_current_page" \/ loading # None]_vars

(* Whatever the user starts, the window can be used again some day.        *)
InteractionComesBack == ~on ~> on
=============================================================================
