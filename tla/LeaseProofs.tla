------------------------------- MODULE LeaseProofs -------------------------------
(***************************************************************************)
(* However many windows, dialogs, tests and connections there are, threads *)
(* of list windows and dialogs never share a connection, and the pool with *)
(* its flags, pointers and threads lends each connection to one client.    *)
(***************************************************************************)
EXTENDS BackgroundQueries, TLAPS

LEMMA SlotsArePositive == Slots \subseteq Nat /\ None \notin Slots
  BY QueriesAssumption DEF Slots, None

LEMMA TestsAreNotOrderly == \A c \in FilterTests : c \notin Orderly /\ c \in Clients
  BY QueriesAssumption DEF Orderly, Clients

LEMMA OrderlyAreClients == Orderly \subseteq Clients
  BY DEF Orderly, Clients

-----------------------------------------------------------------------------
(* What each change of the pool keeps.                                     *)

(* A client takes a connection; the one it had, if any, is forgotten.      *)
LEMMA TakenKeeps ==
  ASSUME PoolOK, NEW c \in Clients, NEW s \in Slots, First(s), Taken(c, s),
         forgotten' = IF cnx[c] = None THEN forgotten ELSE forgotten \cup {cnx[c]}
  PROVE  PoolOK'
<1>1. /\ pool' \in [Slots -> {"fresh", "idle", "used"}]
      /\ cnx' \in [Clients -> Slots \cup {None}] /\ forgotten' \subseteq Slots
  BY DEF PoolOK, Taken
<1>2. pool[s] # "used" /\ s # None /\ s \notin forgotten /\ \A d \in Clients : cnx[d] # s
  BY SlotsArePositive DEF PoolOK, First
<1>3. \A d \in Clients : cnx'[d] = IF d = c THEN s ELSE cnx[d]
  BY DEF PoolOK, Taken
<1>4. \A t \in Slots : pool'[t] = IF t = s THEN "used" ELSE pool[t]
  BY DEF PoolOK, Taken
<1>5. \A d \in Clients : cnx'[d] # None => pool'[cnx'[d]] = "used" /\ cnx'[d] \notin forgotten'
  BY <1>2, <1>3, <1>4 DEF PoolOK
<1>6. \A d, e \in Clients : d # e /\ cnx'[d] # None => cnx'[d] # cnx'[e]
  BY <1>2, <1>3 DEF PoolOK
<1>7. \A t \in forgotten' : pool'[t] = "used"
  BY <1>1, <1>2, <1>4 DEF PoolOK
<1> QED  BY <1>1, <1>5, <1>6, <1>7 DEF PoolOK

(* A client gives back what it holds.                                      *)
LEMMA ReleasedKeeps ==
  ASSUME PoolOK, NEW c \in Clients, Released(c), forgotten' = forgotten
  PROVE  PoolOK'
<1>1. /\ pool' \in [Slots -> {"fresh", "idle", "used"}]
      /\ cnx' \in [Clients -> Slots \cup {None}] /\ forgotten' \subseteq Slots
  BY DEF PoolOK, Released
<1>2. \A d \in Clients : cnx'[d] = IF d = c THEN None ELSE cnx[d]
  BY DEF PoolOK, Released
<1>3. \A t \in Slots : t # cnx[c] => pool'[t] = pool[t]
  BY DEF PoolOK, Released
<1>4. \A d \in Clients : cnx'[d] # None => pool'[cnx'[d]] = "used" /\ cnx'[d] \notin forgotten'
  BY <1>2, <1>3 DEF PoolOK
<1>5. \A d, e \in Clients : d # e /\ cnx'[d] # None => cnx'[d] # cnx'[e]
  BY <1>2 DEF PoolOK
<1>6. \A t \in forgotten' : pool'[t] = "used"
  BY <1>3, SlotsArePositive DEF PoolOK
<1> QED  BY <1>1, <1>4, <1>5, <1>6 DEF PoolOK

(* A client forgets what it holds, and gets nothing.                       *)
LEMMA ForgottenKeeps ==
  ASSUME PoolOK, NEW c \in Clients, cnx' = [cnx EXCEPT ![c] = None], pool' = pool,
         forgotten' = IF cnx[c] = None THEN forgotten ELSE forgotten \cup {cnx[c]}
  PROVE  PoolOK'
<1>1. /\ pool' \in [Slots -> {"fresh", "idle", "used"}]
      /\ cnx' \in [Clients -> Slots \cup {None}] /\ forgotten' \subseteq Slots
  BY DEF PoolOK
<1>2. \A d \in Clients : cnx'[d] = IF d = c THEN None ELSE cnx[d]
  BY DEF PoolOK
<1>3. \A d \in Clients : cnx'[d] # None => pool'[cnx'[d]] = "used" /\ cnx'[d] \notin forgotten'
  BY <1>2 DEF PoolOK
<1>4. \A d, e \in Clients : d # e /\ cnx'[d] # None => cnx'[d] # cnx'[e]
  BY <1>2 DEF PoolOK
<1>5. \A t \in forgotten' : pool'[t] = "used"
  BY DEF PoolOK
<1> QED  BY <1>1, <1>3, <1>4, <1>5 DEF PoolOK

LEMMA SamePool ==
  ASSUME PoolOK, UNCHANGED <<pool, cnx, forgotten>>
  PROVE  PoolOK'
  BY DEF PoolOK

(* Nobody holds anything when the pool is idle: it may be emptied.         *)
LEMMA IdleIsFree ==
  ASSUME PoolOK, Idle
  PROVE  forgotten = {} /\ \A c \in Clients : cnx[c] = None
  BY DEF PoolOK, Idle

-----------------------------------------------------------------------------
(* What each change of a thread keeps.                                     *)

(* Of one client: if its thread runs, it runs on what the client holds.    *)
LEMMA RunsKept ==
  ASSUME RunsOK, NEW c \in Clients,
         runner' \in [Clients -> [st : {"new", "running", "finished"},
                                  slot : Slots \cup {None}, last : BOOLEAN]],
         \A d \in Clients : d # c => runner'[d] = runner[d] /\ cnx'[d] = cnx[d],
         c \in Orderly /\ runner'[c].st = "running"
           => cnx'[c] # None /\ runner'[c].slot = cnx'[c]
  PROVE  RunsOK'
  BY OrderlyAreClients DEF RunsOK, Running

LEMMA SameRuns ==
  ASSUME RunsOK, runner' = runner, cnx' = cnx
  PROVE  RunsOK'
  BY OrderlyAreClients DEF RunsOK, Running

(* Of a client whose own thread does not run, or that is a test: whatever  *)
(* becomes of what it holds.                                               *)
LEMMA HolderChanges ==
  ASSUME RunsOK, NEW c \in Clients, runner' = runner,
         \A d \in Clients : d # c => cnx'[d] = cnx[d],
         c \in Orderly => ~Running(c)
  PROVE  RunsOK'
  BY RunsKept DEF RunsOK, Running

(* QThread::start on the connection that the client holds from now on.     *)
LEMMA StartKeeps ==
  ASSUME RunsOK, NEW c \in Clients, NEW s \in Slots, Start(c, s), cnx'[c] = s,
         \A d \in Clients : d # c => cnx'[d] = cnx[d],
         c \in Orderly /\ Running(c) => cnx[c] = s
  PROVE  RunsOK'
<1>1. /\ runner' \in [Clients -> [st : {"new", "running", "finished"},
                                  slot : Slots \cup {None}, last : BOOLEAN]]
      /\ \A d \in Clients : d # c => runner'[d] = runner[d]
  BY DEF RunsOK, Start
<1>2. runner'[c] = IF runner[c].st = "running" THEN [runner[c] EXCEPT !.last = FALSE]
                   ELSE [st |-> "running", slot |-> s, last |-> TRUE]
  BY DEF RunsOK, Start
<1>3. c \in Orderly => runner'[c].slot = s
  BY <1>2, OrderlyAreClients DEF RunsOK, Running
<1> QED  BY <1>1, <1>3, RunsKept, SlotsArePositive

-----------------------------------------------------------------------------
(* The steps, seen as steps of ConnectionLeases.                           *)

Lends == [Leases!Next]_(Leases!leaseVars)

LEMMA TakingIsTake ==
  ASSUME PoolOK, NEW c \in Clients, NEW s \in Slots, First(s), Taken(c, s), ui = "runs",
         cnx[c] = None, UNCHANGED <<forgotten, ui, faults>>
  PROVE  Lends
<1>1. s \notin forgotten /\ \A d \in Clients : cnx[d] # s
  BY SlotsArePositive DEF PoolOK, First
<1>2. Leases!Free(s)
  BY <1>1 DEF Leases!Free
<1>3. Leases!Take(c)
  BY <1>2 DEF Leases!Take, Taken
<1> QED  BY <1>3 DEF Lends, Leases!Next

LEMMA ReleasingIsGiveBack ==
  ASSUME PoolOK, NEW c \in Clients, Released(c), ui = "runs", UNCHANGED <<forgotten, ui, faults>>
  PROVE  Lends
<1>1. CASE cnx[c] = None
  <2>1. cnx' = cnx
    BY <1>1 DEF PoolOK, Released
  <2> QED  BY <2>1 DEF Lends, Leases!leaseVars
<1>2. CASE cnx[c] # None
  <2>1. Leases!GiveBack(c)
    BY <1>2 DEF Leases!GiveBack, Released
  <2> QED  BY <2>1 DEF Lends, Leases!Next
<1> QED  BY <1>1, <1>2

LEMMA EndingIsEnd ==
  ASSUME ui = "runs", ui' = "ended", UNCHANGED <<cnx, forgotten, faults>>
  PROVE  Lends
  BY DEF Lends, Leases!Next, Leases!End

LEMMA NothingLent ==
  ASSUME UNCHANGED <<cnx, forgotten, ui, faults>>
  PROVE  Lends
  BY DEF Lends, Leases!leaseVars

-----------------------------------------------------------------------------
(* One lemma per kind of action: it keeps the invariant, and is a step of  *)
(* ConnectionLeases.                                                       *)

LEMMA FetchStep ==
  ASSUME LeaseInv, NEW c \in Clients, Fetch(c), ui = "runs", UNCHANGED <<forgotten, faults>>
  PROVE  LeaseInv' /\ Lends
<1>1. CASE cnx[c] # None
  <2>1. Start(c, cnx[c]) /\ UNCHANGED <<pool, cnx, ui>>
    BY <1>1 DEF Fetch
  <2>2. cnx[c] \in Slots
    BY <1>1 DEF LeaseInv, PoolOK
  <2>3. RunsOK'
    BY <2>1, <2>2, StartKeeps DEF LeaseInv
  <2> QED  BY <2>1, <2>3, SamePool, NothingLent DEF LeaseInv
<1>2. ASSUME cnx[c] = None, NEW s \in Slots, First(s), Taken(c, s), UNCHANGED ui,
             Start(c, s) \/ UNCHANGED runner
      PROVE  LeaseInv' /\ Lends
  <2>1. PoolOK'
    BY <1>2, TakenKeeps DEF LeaseInv
  <2>2. \A d \in Clients : cnx'[d] = IF d = c THEN s ELSE cnx[d]
    BY <1>2 DEF LeaseInv, PoolOK, Taken
  <2>3. ~(c \in Orderly /\ Running(c))
    BY <1>2 DEF LeaseInv, RunsOK
  <2>4. RunsOK'
    BY <1>2, <2>2, <2>3, StartKeeps, HolderChanges DEF LeaseInv
  <2> QED  BY <1>2, <2>1, <2>4, TakingIsTake DEF LeaseInv
<1>3. CASE cnx[c] = None /\ ConnectionRefused /\ UNCHANGED <<pool, cnx, runner>>
  BY <1>3, SamePool, SameRuns, EndingIsEnd DEF LeaseInv, ConnectionRefused
<1> QED  BY <1>1, <1>2, <1>3 DEF Fetch

(* A thread that is not running any more, or that of a test, lets go.       *)
LEMMA ReleaseStep ==
  ASSUME LeaseInv, NEW c \in Clients, Released(c), ui = "runs",
         c \in Orderly => runner[c].st = "finished",
         UNCHANGED <<forgotten, faults, ui, runner>>
  PROVE  LeaseInv' /\ Lends
<1>1. PoolOK'
  BY ReleasedKeeps DEF LeaseInv
<1>2. \A d \in Clients : d # c => cnx'[d] = cnx[d]
  BY DEF LeaseInv, PoolOK, Released
<1>3. RunsOK'
  BY <1>2, HolderChanges DEF LeaseInv, Running
<1> QED  BY <1>1, <1>3, ReleasingIsGiveBack DEF LeaseInv

LEMMA RunStep ==
  ASSUME LeaseInv, NEW c \in Clients, run(c)
  PROVE  LeaseInv' /\ Lends
<1>1. ui = "runs" /\ ui' \in {ui, "ended"} /\ UNCHANGED <<faults, pool, cnx, forgotten>>
  BY DEF run, LeaseInv, Rest
<1>2. /\ runner' \in [Clients -> [st : {"new", "running", "finished"},
                                  slot : Slots \cup {None}, last : BOOLEAN]]
      /\ \A d \in Clients : d # c => runner'[d] = runner[d]
      /\ runner'[c].st = "finished"
  BY DEF run, LeaseInv, RunsOK
<1>3. RunsOK'
  BY <1>1, <1>2, RunsKept DEF LeaseInv
<1>4. CASE ui' = ui
  BY <1>1, <1>3, <1>4, SamePool, NothingLent DEF LeaseInv
<1>5. CASE ui' = "ended"
  BY <1>1, <1>3, <1>5, SamePool, EndingIsEnd DEF LeaseInv
<1> QED  BY <1>1, <1>4, <1>5

LEMMA TestStep ==
  ASSUME LeaseInv, NEW c \in Clients, test_expr(c)
  PROVE  LeaseInv' /\ Lends
<1> DEFINE Forgets == forgotten' = IF cnx[c] = None THEN forgotten ELSE forgotten \cup {cnx[c]}
<1>0. c \in FilterTests /\ c \notin Orderly /\ ui = "runs" /\ Forgets /\ UNCHANGED faults
  BY TestsAreNotOrderly DEF test_expr
<1>1. ASSUME NEW s \in Slots, First(s), Taken(c, s), UNCHANGED ui,
             runner' = [runner EXCEPT ![c] = [st |-> "running", slot |-> s, last |-> TRUE]]
      PROVE  LeaseInv' /\ Lends
  <2>1. PoolOK'
    BY <1>0, <1>1, TakenKeeps DEF LeaseInv
  <2>2. /\ \A d \in Clients : cnx'[d] = IF d = c THEN s ELSE cnx[d]
        /\ \A d \in Clients : d # c => runner'[d] = runner[d]
        /\ runner' \in [Clients -> [st : {"new", "running", "finished"},
                                    slot : Slots \cup {None}, last : BOOLEAN]]
    BY <1>1 DEF LeaseInv, PoolOK, RunsOK, Taken
  <2>3. RunsOK'
    BY <1>0, <2>2, RunsKept DEF LeaseInv
  <2>4. Lends
    <3>1. CASE cnx[c] = None
      BY <1>0, <1>1, <3>1, TakingIsTake DEF LeaseInv
    <3>2. CASE cnx[c] # None
      <4>1. s \notin forgotten /\ \A d \in Clients : cnx[d] # s
        BY <1>1, SlotsArePositive DEF LeaseInv, PoolOK, First
      <4>2. Leases!Lose(c)
        BY <1>0, <1>1, <3>2, <4>1 DEF Leases!Lose, Leases!Free, Taken
      <4> QED  BY <1>0, <4>2 DEF Lends, Leases!Next
    <3> QED  BY <3>1, <3>2
  <2> QED  BY <1>1, <2>1, <2>3, <2>4 DEF LeaseInv
<1>2. ASSUME ConnectionRefused, cnx' = [cnx EXCEPT ![c] = None], UNCHANGED <<pool, runner>>
      PROVE  LeaseInv' /\ Lends
  <2>1. PoolOK'
    BY <1>0, <1>2, ForgottenKeeps DEF LeaseInv
  <2>2. \A d \in Clients : cnx'[d] = IF d = c THEN None ELSE cnx[d]
    BY <1>2 DEF LeaseInv, PoolOK
  <2>3. RunsOK'
    BY <1>0, <1>2, <2>2, HolderChanges DEF LeaseInv
  <2>4. ui' = "ended"
    BY <1>2 DEF ConnectionRefused
  <2>5. CASE cnx[c] = None
    <3>1. cnx' = cnx
      BY <1>2, <2>5 DEF LeaseInv, PoolOK
    <3> QED  BY <1>0, <2>1, <2>3, <2>4, <2>5, <3>1, EndingIsEnd DEF LeaseInv
  <2>6. CASE cnx[c] # None
    <3>1. Leases!Lose(c)
      BY <1>0, <1>2, <2>4, <2>6 DEF Leases!Lose
    <3> QED  BY <1>0, <2>1, <2>3, <2>4, <3>1 DEF Lends, Leases!Next, LeaseInv
  <2> QED  BY <2>5, <2>6
<1> QED  BY <1>1, <1>2 DEF test_expr

LEMMA DisconnectStep ==
  ASSUME LeaseInv, disconnect_all
  PROVE  LeaseInv' /\ Lends
<1>1. PoolOK'
  BY IdleIsFree DEF LeaseInv, PoolOK, disconnect_all
<1> QED  BY <1>1, SameRuns, EndingIsEnd DEF LeaseInv, disconnect_all

(* The actions that leave the pool and the threads alone.                   *)
LEMMA QuietStep ==
  ASSUME LeaseInv, UNCHANGED <<faults, pool, cnx, runner, forgotten>>,
         ui' = ui \/ (ui = "runs" /\ ui' = "ended")
  PROVE  LeaseInv' /\ Lends
  BY SamePool, SameRuns, NothingLent, EndingIsEnd DEF LeaseInv

-----------------------------------------------------------------------------
LEMMA InitOK == Init => LeaseInv /\ Leases!Init
<1> SUFFICES ASSUME Init PROVE LeaseInv /\ Leases!Init
  OBVIOUS
<1>1. PoolOK
  BY DEF Init, PoolOK
<1>2. RunsOK
  BY OrderlyAreClients DEF Init, RunsOK, Running
<1> QED  BY <1>1, <1>2 DEF Init, LeaseInv, Leases!Init

LEMMA NextStep ==
  ASSUME LeaseInv, [Next]_bqVars
  PROVE  LeaseInv' /\ Lends
<1>1. ASSUME NEW c \in Clients, run(c) PROVE LeaseInv' /\ Lends
  BY <1>1, RunStep
<1>2. ASSUME NEW c \in Clients, list_timer(c) \/ select_timer(c) PROVE LeaseInv' /\ Lends
  <2>1. /\ ui = "runs" /\ Released(c) /\ runner[c].st = "finished"
        /\ UNCHANGED <<forgotten, faults, ui, runner>>
    BY <1>2 DEF list_timer, select_timer, Rest
  <2> QED  BY <2>1, ReleaseStep
<1>3. ASSUME NEW c \in Clients, test_timer(c) PROVE LeaseInv' /\ Lends
  <2>1. UNCHANGED <<faults, pool, cnx, runner, forgotten>> /\ ui' = ui
    BY <1>3 DEF test_timer, Rest
  <2> QED  BY <2>1, QuietStep
<1>4. ASSUME NEW c \in Clients, test_next(c) PROVE LeaseInv' /\ Lends
  BY <1>4, FetchStep DEF test_next
<1>5. ASSUME NEW c \in Clients, test_end(c) PROVE LeaseInv' /\ Lends
  <2>1. /\ ui = "runs" /\ Released(c) /\ c \in FilterTests
        /\ UNCHANGED <<forgotten, faults, ui, runner>>
    BY <1>5 DEF test_end, Rest
  <2> QED  BY <2>1, ReleaseStep, TestsAreNotOrderly
<1>6. ASSUME NEW c \in Clients, end_test_requested(c) PROVE LeaseInv' /\ Lends
  <2>1. /\ ui = "runs" /\ c \in FilterTests /\ UNCHANGED <<forgotten, faults, ui, runner>>
        /\ Released(c) \/ UNCHANGED <<pool, cnx>>
    BY <1>6 DEF end_test_requested, Rest
  <2> QED  BY <2>1, ReleaseStep, QuietStep, TestsAreNotOrderly
<1>7. ASSUME NEW c \in Clients, select_cancel(c) PROVE LeaseInv' /\ Lends
  <2>1. UNCHANGED <<faults, pool, cnx, runner, forgotten>> /\ ui' = ui
    BY <1>7 DEF select_cancel, Rest
  <2> QED  BY <2>1, QuietStep
<1>8. ASSUME NEW c \in Clients, list_fetch(c) \/ select_ok(c) PROVE LeaseInv' /\ Lends
  <2>1. ui = "runs" /\ Fetch(c) /\ UNCHANGED <<forgotten, faults>>
    BY <1>8 DEF list_fetch, select_ok
  <2> QED  BY <2>1, FetchStep
<1>9. ASSUME NEW c \in Clients, test_expr(c) PROVE LeaseInv' /\ Lends
  BY <1>9, TestStep
<1>10. ASSUME NEW c \in Clients, test_expr_in_loop(c) PROVE LeaseInv' /\ Lends
  <2>1. UNCHANGED <<faults, pool, cnx, runner, forgotten>> /\ ui = "runs" /\ ui' = "ended"
    BY <1>10 DEF test_expr_in_loop, Rest
  <2> QED  BY <2>1, QuietStep
<1>11. ASSUME NEW s \in Slots, LoseSession(s) PROVE LeaseInv' /\ Lends
  <2>1. UNCHANGED <<faults, pool, cnx, runner, forgotten>> /\ ui' = ui
    BY <1>11 DEF LoseSession
  <2> QED  BY <2>1, QuietStep
<1>12. CASE disconnect_all
  BY <1>12, DisconnectStep
<1>13. CASE UNCHANGED bqVars
  <2>1. UNCHANGED <<faults, pool, cnx, runner, forgotten>> /\ ui' = ui
    BY <1>13 DEF bqVars
  <2> QED  BY <2>1, QuietStep
<1> QED  BY <1>1, <1>2, <1>3, <1>4, <1>5, <1>6, <1>7, <1>8, <1>9, <1>10, <1>11, <1>12, <1>13
         DEF Next, Polls

LEMMA InvGivesThreads == LeaseInv => OrderlyThreads
<1> SUFFICES ASSUME LeaseInv PROVE OrderlyThreads
  OBVIOUS
<1>1. \A c \in Orderly : Running(c) => /\ cnx[c] # None /\ runner[c].slot = cnx[c]
                                       /\ c \in Clients /\ cnx[c] \in Slots
                                       /\ pool[cnx[c]] = "used"
  BY OrderlyAreClients DEF LeaseInv, PoolOK, RunsOK
<1>2. OneThreadPerConnection
  BY <1>1 DEF OneThreadPerConnection, ShareConnection, LeaseInv, PoolOK
<1>3. BusyIsSeen
  BY <1>1 DEF BusyIsSeen, Idle
<1> QED  BY <1>2, <1>3 DEF OrderlyThreads

-----------------------------------------------------------------------------
(* For any number of windows, dialogs, tests and connections, and whatever *)
(* faults there are: in every reachable state the flags of the pool agree  *)
(* with its holders and threads run on what their owners hold.             *)
THEOREM PoolIsRight == Spec => []LeaseInv
<1>1. LeaseInv /\ [Next]_bqVars => LeaseInv'
  BY NextStep
<1> QED  BY InitOK, <1>1, PTL DEF Spec

(* Two threads of list windows or dialogs never use one connection, and     *)
(* db_cnx::idle says no as long as one of them runs.                        *)
THEOREM Threads == Spec => []OrderlyThreads
<1> QED  BY PoolIsRight, InvGivesThreads, PTL

(* The pool with its flags, pointers, threads and timers does nothing but   *)
(* lend connections, take them back, and lose those of tests.  (That a list *)
(* window's connection does come back is the fairness of LendsConnections,  *)
(* which TLC checks.)                                                       *)
THEOREM Lending == Spec => Leases!Init /\ [][Leases!Next]_(Leases!leaseVars)
<1>1. LeaseInv /\ [Next]_bqVars => [Leases!Next]_(Leases!leaseVars)
  BY NextStep DEF Lends
<1> QED  BY InitOK, PoolIsRight, <1>1, PTL DEF Spec
=================================================================================
