------------------------------ MODULE MailingWindow -----------------------------
(***************************************************************************)
(* mailing_window: the list of the mailings with their progress, refreshed *)
(* every 5 seconds, and mailing_db's operations on the tables, which other *)
(* clients, the wizard and the server that runs the jobs change as well.   *)
(***************************************************************************)
EXTENDS Naturals, Sequences, FiniteSets, Functions

CONSTANTS Mailings,        \* mailing_id
          MaxSent          \* nb_total of each of them

VARIABLES runs,            \* mailing_run: mailing -> [status, sent]
          jobs,            \* jobs_queue
          known,           \* m_mailings: mailing -> [status, sent], at the last load
          rows,            \* the tree: mailing -> what its row displays
          chosen,          \* the current item's mailing, or Nobody
          button,          \* m_btn_stop_restart: "Start", "Stop" or "disabled"
          purged,          \* history: the mailings deleted by this window
          viewed           \* history: the mailings that were viewed, until their row is
                           \* displayed again

windowVars == <<runs, jobs, known, rows, chosen, button, purged, viewed>>

Nobody == "nobody"
Statuses == {"not_started", "running", "stopped", "finished"}
Run == [status : Statuses, sent : 0..MaxSent]

TypeOK ==
  /\ \A f \in {runs, known, rows} : DOMAIN f \subseteq Mailings /\ Range(f) \subseteq Run
  /\ jobs \subseteq Mailings /\ chosen \in DOMAIN rows \cup {Nobody}
  /\ button \in {"Start", "Stop", "disabled"} /\ purged \cup viewed \subseteq Mailings

Label(status) == CASE status \in {"not_started", "stopped"} -> "Start"
                   [] status = "running" -> "Stop"
                   [] OTHER -> "disabled"

(* The constructor: load, with nothing selected and the button "Stop"       *)
Init ==
  /\ runs \in UNION {[M -> {[status |-> s, sent |-> 0] : s \in {"not_started", "running"}}] :
                     M \in SUBSET Mailings}
  /\ jobs = {m \in DOMAIN runs : runs[m].status = "running"}
  /\ known = runs /\ rows = runs /\ chosen = Nobody /\ button = "Stop"
  /\ purged = {} /\ viewed = {}

item_changed ==
  /\ \E m \in DOMAIN rows \ {chosen} :
       chosen' = m /\ button' = IF m \in DOMAIN known THEN Label(known[m].status) ELSE button
  /\ UNCHANGED <<runs, jobs, known, rows, purged, viewed>>

With(f, m, r) == [k \in DOMAIN f \cup {m} |-> IF k = m THEN r ELSE f[k]]

(* instantiate_job and stop: an UPDATE of a row that may no longer be there *)
UpdatedRuns(m, status) ==
  [k \in DOMAIN runs |-> IF k = m THEN [runs[k] EXCEPT !.status = status] ELSE runs[k]]
instantiate_job(m) == runs' = UpdatedRuns(m, "running") /\ jobs' = jobs \cup {m}
stop(m) == runs' = UpdatedRuns(m, "stopped") /\ UNCHANGED jobs

start_stop ==
  /\ chosen \in DOMAIN known /\ button # "disabled"
  /\ LET s == known[chosen].status
         new == IF s \in {"not_started", "stopped"} THEN "running" ELSE "stopped"
         Display(k) == /\ known' = k /\ button' = Label(k[chosen].status)
                       /\ rows' = [rows EXCEPT ![chosen] = k[chosen]]
     IN \/ /\ s # "finished"
           /\ IF new = "running" THEN instantiate_job(chosen) ELSE stop(chosen)
           /\ Display([known EXCEPT ![chosen].status = new])
        \/ Display(known) /\ UNCHANGED <<runs, jobs>>            \* a statement fails
  /\ viewed' = viewed \ {chosen} /\ UNCHANGED <<chosen, purged>>

(* refresh: what has appeared, what has changed, and the current item's    *)
(* button.  A mailing that is no longer there is not looked for.            *)
Changed == {m \in DOMAIN runs \cap DOMAIN known : runs[m] # known[m]}
New == DOMAIN runs \ DOMAIN known
(* A mutation of RowsRefreshed: the progress alone does not redisplay       *)
ProgressNotShown ==
  [m \in DOMAIN rows \cup New |->
     IF m \in New \/ (m \in Changed /\ runs[m].status # known[m].status) THEN runs[m] ELSE rows[m]]

RowsRefreshed ==
  [m \in DOMAIN rows \cup New |-> IF m \in New \cup Changed THEN runs[m] ELSE rows[m]]

refresh ==
  /\ known' = [m \in DOMAIN known \cup New |-> IF m \in New \cup Changed THEN runs[m] ELSE known[m]]
  /\ rows' = RowsRefreshed
  /\ button' = IF chosen \in DOMAIN runs /\ chosen \in DOMAIN known
               THEN Label(known'[chosen].status) ELSE button
  /\ viewed' = viewed \ Changed /\ UNCHANGED <<runs, jobs, chosen, purged>>

(* view_mailing: show_merge_existing calls load_definition on the window's  *)
(* own entry, and this resets its status; nothing is displayed again.       *)
(* The viewer's own window is in MailingWizard.                             *)
view_mailing ==
  /\ chosen \in DOMAIN known
  /\ known' = [known EXCEPT ![chosen].status = "not_started"]
  /\ viewed' = viewed \cup {chosen}
  /\ UNCHANGED <<runs, jobs, rows, chosen, button, purged>>

(* delete_mailing, once it is confirmed.  m_mailings keeps its entry, and   *)
(* the tree moves its current item to another row.                          *)
purge(m) == runs' = Restrict(runs, DOMAIN runs \ {m})
delete_mailing ==
  /\ chosen # Nobody
  /\ \/ /\ purge(chosen) /\ purged' = purged \cup {chosen}
        /\ known' = [known EXCEPT ![chosen].status = "stopped"]
        /\ rows' = Restrict(rows, DOMAIN rows \ {chosen})
        /\ chosen' \in IF DOMAIN rows' = {} THEN {Nobody} ELSE DOMAIN rows'
        /\ button' = IF chosen' = Nobody THEN button ELSE Label(known'[chosen'].status)
     \/ UNCHANGED <<runs, known, rows, chosen, button, purged>>        \* a statement fails
  /\ UNCHANGED <<jobs, viewed>>

(* new_mailing_started: the wizard has stored a mailing; or another client  *)
(* has.  Others may start, stop and delete the mailings too.                *)
NewMailing ==
  /\ \E m \in Mailings \ (DOMAIN runs \cup purged), now \in BOOLEAN :
       /\ runs' = With(runs, m, [status |-> IF now THEN "running" ELSE "not_started", sent |-> 0])
       /\ jobs' = IF now THEN jobs \cup {m} ELSE jobs
  /\ UNCHANGED <<known, rows, chosen, button, purged, viewed>>
OtherClient ==
  /\ \E m \in DOMAIN runs :
       \/ runs[m].status # "running" /\ instantiate_job(m)
       \/ runs[m].status = "running" /\ stop(m)
       \/ purge(m) /\ UNCHANGED jobs
  /\ UNCHANGED <<known, rows, chosen, button, purged, viewed>>

(* The server: it sends messages of a queued mailing that runs, ends it, or *)
(* drops the job of a mailing that is stopped                               *)
RunJob ==
  /\ \E m \in jobs \cap DOMAIN runs :
       \/ /\ runs[m].status = "running" /\ runs[m].sent < MaxSent
          /\ runs' = [runs EXCEPT ![m].sent = @ + 1] /\ UNCHANGED jobs
       \/ /\ runs[m].status = "running" /\ runs[m].sent = MaxSent
          /\ runs' = [runs EXCEPT ![m].status = "finished"] /\ jobs' = jobs \ {m}
       \/ runs[m].status = "stopped" /\ jobs' = jobs \ {m} /\ UNCHANGED runs
  /\ UNCHANGED <<known, rows, chosen, button, purged, viewed>>

Next == \/ item_changed \/ start_stop \/ refresh \/ view_mailing \/ delete_mailing
        \/ NewMailing \/ OtherClient \/ RunJob

Spec == Init /\ [][Next]_windowVars

-----------------------------------------------------------------------------
(* mailing_window.cpp:255: the window tells one story: each row displays    *)
(* the entry that start_stop will look at, and the button what it will do   *)
(* to the current one, across starts, deletions, views and refreshes; but   *)
(* for the status of a mailing that was viewed since its row was displayed. *)
WindowAgrees ==
  /\ \A m \in DOMAIN rows : m \in DOMAIN known /\ rows[m].sent = known[m].sent
  /\ \A m \in DOMAIN rows \ viewed : rows[m] = known[m]
  /\ chosen \notin viewed \cup {Nobody} => button = Label(known[chosen].status)

(* The same of the mailings that were viewed.                               *)
AgreesWhenViewed ==
  /\ \A m \in DOMAIN rows : rows[m] = known[m]
  /\ chosen # Nobody => button = Label(known[chosen].status)

(* mailing.cpp:243: purge removes the mailing and all its data              *)
NoJobOfPurged == jobs \cap purged = {}

(* mailing.h:104: status_finished: a mailing that is over is over           *)
FinishedIsLast ==
  [][\A m \in DOMAIN runs \cap DOMAIN runs' :
       runs[m].status = "finished" => runs'[m].status # "stopped"]_windowVars
=============================================================================
