---------------------------- MODULE BackgroundQueries ----------------------------
(***************************************************************************)
(* The secondary connections of db.cpp and the queries that run on them:   *)
(* a list window, a selection dialog and a filter under test each own a    *)
(* fetch_thread, take a connection of the pool for it in the main thread,  *)
(* let it run, poll it from a timer, cancel it, and give the connection    *)
(* back.  Of a query, what matters is whether it is the last one asked.    *)
(***************************************************************************)
EXTENDS Naturals, FiniteSets

CONSTANTS ListWindows, SelectDialogs, FilterTests,  \* the owners of a fetch_thread
          MaxCnx,                                   \* max_cnx of db_cnx::db_cnx
          FaultSets                                 \* sets of faults to check under

ASSUME QueriesAssumption ==
  /\ MaxCnx \in Nat
  /\ FilterTests \cap (ListWindows \cup SelectDialogs) = {}

Clients == ListWindows \cup SelectDialogs \cup FilterTests
Slots == 1 .. MaxCnx
None == 0

VARIABLES
  faults,      \* subset of {"logon", "lost"}, fixed
  pool,        \* m_cnx_list: "fresh" (not connected), "idle", "used"
  dead,        \* the connections whose session has gone
  ui,          \* the main thread: "runs", or "ended"
  cnx,         \* fetch_thread::m_cnx of each client, as a slot
  runner,      \* its thread: "new", "running", "finished", the slot it uses,
               \* and whether it runs the last query asked
  waiting,     \* m_waiting_for_results
  shown,       \* what was last shown: "nothing", "asked", "other"
  loop,        \* filter tests: "out" of the loop over the results, "in", "stopped"
  forgotten    \* connections of thread objects that nobody points to any more

bqVars == <<faults, pool, dead, ui, cnx, runner, waiting, shown, loop, forgotten>>
Rest == <<faults, dead>>

Running(c) == runner[c].st = "running"

(* db_cnx::idle *)
Idle == \A s \in Slots : pool[s] # "used"

Init ==
  /\ faults \in FaultSets
  /\ pool = [s \in Slots |-> "fresh"] /\ dead = {} /\ ui = "runs"
  /\ cnx = [c \in Clients |-> None]
  /\ runner = [c \in Clients |-> [st |-> "new", slot |-> None, last |-> TRUE]]
  /\ waiting = [c \in Clients |-> FALSE]
  /\ shown = [c \in Clients |-> "nothing"]
  /\ loop = [c \in FilterTests |-> "out"]
  /\ forgotten = {}

(***************************************************************************)
(* db_cnx::db_cnx(true) and its destructor                                 *)
(***************************************************************************)

(* The constructor takes the first element of the list that is available.  *)
First(s) == pool[s] # "used" /\ \A t \in Slots : t < s => pool[t] = "used"

(* Mutant: a slot that is taken stays available. *)
TakenStillAvailable(c, s) == cnx' = [cnx EXCEPT ![c] = s] /\ pool' = [pool EXCEPT ![s] = "idle"]
Taken(c, s) == cnx' = [cnx EXCEPT ![c] = s] /\ pool' = [pool EXCEPT ![s] = "used"]

(* Every slot in use, or a logon that the server refuses: the exception is *)
(* caught by none of the callers and leaves the event loop.                *)
ConnectionRefused ==
  /\ \/ \A s \in Slots : pool[s] = "used"
     \/ "logon" \in faults /\ \E s \in Slots : First(s) /\ pool[s] = "fresh"
  /\ ui' = "ended"

(* The connection answers the ping, or a reset replaces its session, or    *)
(* the fetch gives up and the client keeps the connection.                 *)
PingOrReset(s) ==
  \/ s \notin dead /\ dead' = dead
  \/ s \in dead /\ dead' = dead \ {s}

(* Mutant: the results are shown and release() is not called. *)
NotReleased(c) == UNCHANGED <<cnx, pool>>
Released(c) ==
  /\ cnx' = [cnx EXCEPT ![c] = None]
  /\ pool' = IF cnx[c] = None THEN pool ELSE [pool EXCEPT ![cnx[c]] = "idle"]

(***************************************************************************)
(* msgs_filter::asynchronous_fetch                                         *)
(***************************************************************************)

(* QThread::start: a thread that runs goes on with what it has read.       *)
Start(c, s) ==
  runner' = [runner EXCEPT ![c] =
     IF @.st = "running" THEN [@ EXCEPT !.last = FALSE]
     ELSE [st |-> "running", slot |-> s, last |-> TRUE]]

Fetch(c) ==
  IF cnx[c] # None
  THEN Start(c, cnx[c]) /\ waiting' = [waiting EXCEPT ![c] = TRUE]
       /\ UNCHANGED <<pool, cnx, dead, ui>>
  ELSE \/ /\ \E s \in Slots :
               /\ First(s) /\ Taken(c, s)
               /\ \/ PingOrReset(s) /\ Start(c, s) /\ waiting' = [waiting EXCEPT ![c] = TRUE]
                  \/ s \in dead /\ UNCHANGED <<dead, runner, waiting>>
          /\ UNCHANGED ui
       \/ ConnectionRefused /\ UNCHANGED <<pool, cnx, dead, runner, waiting>>

(***************************************************************************)
(* fetch_thread::run, cancel                                               *)
(***************************************************************************)

(* BEGIN is outside run's try block: its failure ends the program.         *)
run(c) ==
  /\ ui # "ended" /\ Running(c)
  /\ runner' = [runner EXCEPT ![c] = [@ EXCEPT !.st = "finished", !.slot = None]]
  /\ \/ runner[c].slot \notin dead /\ ui' = ui
     \/ runner[c].slot \in dead /\ ui' \in {ui, "ended"}
  /\ UNCHANGED <<Rest, pool, cnx, waiting, shown, loop, forgotten>>

(***************************************************************************)
(* List windows: sel_filter, abort_operation, timer_func                   *)
(***************************************************************************)

list_fetch(c) ==
  /\ ui = "runs" /\ c \in ListWindows /\ ~waiting[c]
  /\ Fetch(c) /\ UNCHANGED <<faults, shown, loop, forgotten>>

(* abort_operation cancels the query on the server; the thread ends by     *)
(* itself and the timer collects it: no state of this module changes.      *)

Answers(c) == IF runner[c].last THEN "asked" ELSE "other"

list_timer(c) ==
  /\ ui = "runs" /\ c \in ListWindows /\ waiting[c] /\ runner[c].st = "finished"
  /\ waiting' = [waiting EXCEPT ![c] = FALSE]
  /\ shown' = [shown EXCEPT ![c] = Answers(c)]
  /\ Released(c)
  /\ UNCHANGED <<Rest, ui, runner, loop, forgotten>>

(***************************************************************************)
(* Selection dialogs: ok, cancel, timer_done                               *)
(***************************************************************************)

select_ok(c) ==
  /\ ui = "runs" /\ c \in SelectDialogs /\ ~waiting[c]
  /\ Fetch(c) /\ UNCHANGED <<faults, shown, loop, forgotten>>

(* The first press stops the query: the dialog waits no more, and the      *)
(* connection stays with it.                                               *)
select_cancel(c) ==
  /\ ui = "runs" /\ c \in SelectDialogs /\ waiting[c]
  /\ waiting' = [waiting EXCEPT ![c] = FALSE]
  /\ UNCHANGED <<Rest, pool, ui, cnx, runner, shown, loop, forgotten>>

select_timer(c) ==
  /\ ui = "runs" /\ c \in SelectDialogs /\ waiting[c] /\ runner[c].st = "finished"
  /\ waiting' = [waiting EXCEPT ![c] = FALSE]
  /\ shown' = [shown EXCEPT ![c] = Answers(c)]
  /\ Released(c)
  /\ UNCHANGED <<Rest, ui, runner, loop, forgotten>>

(***************************************************************************)
(* Filters under test: test_expr, timer_done, end_test_requested           *)
(***************************************************************************)

(* A new thread object each time.  One that is still waited for is         *)
(* forgotten with its connection, and runs on unseen.                      *)
test_expr(c) ==
  /\ ui = "runs" /\ c \in FilterTests /\ loop[c] = "out"
  /\ forgotten' = IF cnx[c] = None THEN forgotten ELSE forgotten \cup {cnx[c]}
  /\ \/ /\ \E s \in Slots :
             /\ First(s) /\ Taken(c, s) /\ PingOrReset(s)
             /\ runner' = [runner EXCEPT ![c] = [st |-> "running", slot |-> s, last |-> TRUE]]
        /\ waiting' = [waiting EXCEPT ![c] = TRUE] /\ ui' = ui
     \/ /\ ConnectionRefused /\ cnx' = [cnx EXCEPT ![c] = None]
        /\ UNCHANGED <<pool, dead, runner, waiting>>
  /\ UNCHANGED <<faults, shown, loop>>

(* The button pressed from within the loop replaces the thread object and  *)
(* the list that the loop goes over.                                       *)
test_expr_in_loop(c) ==
  /\ ui = "runs" /\ c \in FilterTests /\ loop[c] = "in"
  /\ ui' = "ended"
  /\ UNCHANGED <<Rest, pool, cnx, runner, waiting, shown, loop, forgotten>>

test_timer(c) ==
  /\ ui = "runs" /\ c \in FilterTests /\ waiting[c] /\ runner[c].st = "finished"
  /\ waiting' = [waiting EXCEPT ![c] = FALSE]
  /\ loop' = [loop EXCEPT ![c] = "in"]
  /\ UNCHANGED <<Rest, pool, ui, cnx, runner, shown, forgotten>>

(* After the loop: a further batch of a thousand, or the end.              *)
test_next(c) ==
  /\ ui = "runs" /\ c \in FilterTests /\ loop[c] = "in" /\ cnx[c] # None
  /\ Fetch(c) /\ loop' = [loop EXCEPT ![c] = "out"] /\ UNCHANGED <<faults, shown, forgotten>>

test_end(c) ==
  /\ ui = "runs" /\ c \in FilterTests /\ loop[c] \in {"in", "stopped"}
  /\ Released(c)
  /\ shown' = [shown EXCEPT ![c] = Answers(c)]
  /\ loop' = [loop EXCEPT ![c] = "out"]
  /\ UNCHANGED <<Rest, ui, runner, waiting, forgotten>>

(* The results window's stop button; in the loop it is seen when the loop  *)
(* ends.  While the query runs, its connection is released at once.        *)
end_test_requested(c) ==
  /\ ui = "runs" /\ c \in FilterTests
  /\ \/ /\ waiting[c]
        /\ waiting' = [waiting EXCEPT ![c] = FALSE] /\ Released(c) /\ loop' = loop
     \/ /\ loop[c] = "in" /\ loop' = [loop EXCEPT ![c] = "stopped"]
        /\ UNCHANGED <<waiting, pool, cnx>>
  /\ UNCHANGED <<Rest, ui, runner, shown, forgotten>>

-----------------------------------------------------------------------------
LoseSession(s) ==
  /\ "lost" \in faults /\ pool[s] # "fresh" /\ s \notin dead
  /\ dead' = dead \cup {s}
  /\ UNCHANGED <<faults, pool, ui, cnx, runner, waiting, shown, loop, forgotten>>

(* DisconnectDb, when the last window is closed *)
disconnect_all ==
  /\ ui = "runs" /\ Idle
  /\ pool' = [s \in Slots |-> "fresh"] /\ dead' = {} /\ ui' = "ended"
  /\ UNCHANGED <<faults, cnx, runner, waiting, shown, loop, forgotten>>

Polls(c) == list_timer(c) \/ select_timer(c) \/ test_timer(c) \/ test_next(c) \/ test_end(c)

Next ==
  \/ \E c \in Clients : run(c) \/ Polls(c) \/ end_test_requested(c) \/ select_cancel(c)
                        \/ list_fetch(c) \/ select_ok(c) \/ test_expr(c) \/ test_expr_in_loop(c)
  \/ \E s \in Slots : LoseSession(s)
  \/ disconnect_all

(* Threads are scheduled and the timers fire; nobody has to ask or stop.   *)
Fairness == \A c \in Clients : WF_bqVars(run(c)) /\ WF_bqVars(Polls(c))

Spec == Init /\ [][Next]_bqVars /\ Fairness
-----------------------------------------------------------------------------
TypeOK ==
  /\ pool \in [Slots -> {"fresh", "idle", "used"}] /\ dead \subseteq Slots
  /\ ui \in {"runs", "ended"}
  /\ cnx \in [Clients -> Slots \cup {None}]
  /\ runner \in [Clients -> [st : {"new", "running", "finished"},
                             slot : Slots \cup {None}, last : BOOLEAN]]
  /\ waiting \in [Clients -> BOOLEAN]
  /\ shown \in [Clients -> {"nothing", "asked", "other"}]
  /\ forgotten \subseteq Slots
  /\ loop \in [FilterTests -> {"out", "in", "stopped"}]

(* Two threads never talk on one connection at once, which libpq forbids:  *)
(* the pool's flags prevent it (db.cpp:288-335) between owners that give   *)
(* back a connection only when its thread has finished.                    *)
Orderly == ListWindows \cup SelectDialogs
ShareConnection(c, d) == Running(c) /\ Running(d) /\ runner[c].slot = runner[d].slot
OneThreadPerConnection == \A c, d \in Orderly : c # d => ~ShareConnection(c, d)
NoSharedConnection == \A c, d \in Clients : c # d => ~ShareConnection(c, d)

(* While a query runs in a thread, idle() says so: timer_idle then does    *)
(* not fetch bodies ahead (db.cpp:266-286, msg_list_window.cpp:3803).      *)
(* OrderlyThreads states both.                                              *)
BusyIsSeen == ui # "ended" /\ (\E c \in Orderly : Running(c)) => ~Idle
OrderlyThreads == OneThreadPerConnection /\ BusyIsSeen
AnyBusyIsSeen == ui # "ended" /\ (\E c \in Clients : Running(c)) => ~Idle

(* A connection out of the pool has a holder, and one only; one in the     *)
(* pool has none: between them the flags and the pointers lend each        *)
(* connection to one client (db.cpp:288-335, fetch_thread.cpp:157).        *)
Leases == INSTANCE ConnectionLeases
            WITH Prompt <- ListWindows, Careless <- FilterTests, Connections <- Slots,
                 lease <- cnx, lost <- forgotten, program <- ui
LendsConnections == Leases!Spec

(* The invariant behind both, for the proofs: the flags of the pool agree  *)
(* with its holders, of whom each connection has one at most, those that   *)
(* are forgotten have none, and a thread runs on what its owner holds.     *)
PoolOK ==
  /\ pool \in [Slots -> {"fresh", "idle", "used"}]
  /\ cnx \in [Clients -> Slots \cup {None}] /\ forgotten \subseteq Slots
  /\ \A c \in Clients : cnx[c] # None => pool[cnx[c]] = "used" /\ cnx[c] \notin forgotten
  /\ \A c, d \in Clients : c # d /\ cnx[c] # None => cnx[c] # cnx[d]
  /\ \A s \in forgotten : pool[s] = "used"
RunsOK ==
  /\ runner \in [Clients -> [st : {"new", "running", "finished"},
                             slot : Slots \cup {None}, last : BOOLEAN]]
  /\ \A c \in Orderly : Running(c) => cnx[c] # None /\ runner[c].slot = cnx[c]
LeaseInv == PoolOK /\ RunsOK /\ ui \in {"runs", "ended"}

(* The results a list shows are those of the last question it asked.       *)
ListAnswersTheQuestion == \A c \in ListWindows : shown[c] # "other"
AnswersTheQuestion == \A c \in Clients : shown[c] # "other"

(* Without faults, the connection that a list window takes comes back to   *)
(* the pool (fetch_thread.cpp:157), unless the program ends.               *)
ConnectionsComeBack ==
  \A c \in ListWindows : (faults = {} /\ cnx[c] # None) ~> (cnx[c] = None \/ ui = "ended")
DialogConnectionsComeBack ==
  \A c \in SelectDialogs : (faults = {} /\ cnx[c] # None) ~> (cnx[c] = None \/ ui = "ended")

(* A query that finds no connection is refused with a message, as the text *)
(* of db_cnx's exception intends, and the program goes on (db.cpp:333).    *)
RefusalIsReported == [][\A c \in Clients : Fetch(c) => ui' = ui]_bqVars

(* A failure in a thread is reported, and does not stop the program.       *)
ThreadFailureIsContained == [][\A c \in Clients : run(c) => ui' = ui]_bqVars
=============================================================================
