------------------------------ MODULE PgSession ------------------------------
(***************************************************************************)
(* The primary connection pgDb of src/db.cpp and the server session behind *)
(* it.                                                                     *)
(*                                                                         *)
(* Every db_cnx built in the main thread shares pgDb, so one integer       *)
(* counts the transactions that nested handlers believe they have opened;  *)
(* only the step between 0 and 1 reaches the server.  The server keeps its *)
(* own idea of the transaction, and a session can vanish under both.       *)
(***************************************************************************)
EXTENDS Integers

CONSTANT Faults   \* what may go wrong, a subset of FaultKinds

(* "sql"    a statement is refused by the server                           *)
(* "commit" the server refuses a COMMIT (a deferred constraint)            *)
(* "lost"   the session to the server is lost                              *)
FaultKinds == {"sql", "commit", "lost"}

ASSUME FaultsAssumption == Faults \subseteq FaultKinds

VARIABLES
  count,   \* database::m_open_trans_count
  link,    \* the session: "up" or "down"
  txn,     \* the server's transaction: "none", "open" or "failed" (aborted)
  pend,    \* the open transaction holds changes
  kept,    \* a change made since the last top level begin is durable
  lost,    \* a change asked for since the last top level begin is refused
           \* or discarded
  proc     \* "running", or how the program ended: "quit", "fatal", "terminated"

server  == <<link, txn, pend, kept, lost>>
session == <<count, server, proc>>

SessionTypeOK ==
  /\ count \in Int
  /\ link \in {"up", "down"}
  /\ txn \in {"none", "open", "failed"}
  /\ pend \in BOOLEAN /\ kept \in BOOLEAN /\ lost \in BOOLEAN
  /\ proc \in {"running", "quit", "fatal", "terminated"}

SessionInit ==
  /\ count = 0 /\ link = "up" /\ txn = "none" /\ proc = "running"
  /\ pend = FALSE /\ kept = FALSE /\ lost = FALSE

-----------------------------------------------------------------------------
(* One PQexec of a statement.  The "r" of these operators is what the      *)
(* client sees: "" for success, "db" for the db_excpt that execute throws. *)

(* The server's answer to a statement that changes data (writes) or not.   *)
(* Outside a transaction a change is durable at once.                      *)
Statement(writes, r) ==
  \/ /\ r = "" /\ link = "up" /\ txn # "failed"
     /\ pend' = (pend \/ (writes /\ txn = "open"))
     /\ kept' = (kept \/ (writes /\ txn = "none" /\ count > 0))
     /\ UNCHANGED <<link, txn, lost>>
  \/ /\ r = "db" /\ link = "up" /\ "sql" \in Faults /\ txn # "failed"
     /\ txn' = (IF txn = "open" THEN "failed" ELSE "none")
     /\ lost' = (lost \/ (writes /\ count > 0))
     /\ UNCHANGED <<link, pend, kept>>
  \/ /\ r = "db" /\ (link = "down" \/ txn = "failed")
     /\ lost' = (lost \/ (writes /\ count > 0))
     /\ UNCHANGED <<link, txn, pend, kept>>

(* BEGIN inside a transaction is only a warning; a top level begin starts  *)
(* the account of what is kept and what is lost.                           *)
SendBegin(r) ==
  /\ \/ /\ r = "" /\ link = "up" /\ txn # "failed"
        /\ txn' = "open"
     \/ /\ r = "db" /\ (link = "down" \/ txn = "failed")
        /\ UNCHANGED txn
  /\ kept' = FALSE /\ lost' = FALSE
  /\ UNCHANGED <<link, pend>>

(* COMMIT of an aborted transaction rolls it back and still answers with   *)
(* success.  A refused COMMIT rolls back.  A session lost during a COMMIT  *)
(* reports an error whether or not the server applied it.                  *)
SendCommit(r) ==
  \/ /\ r = "" /\ link = "up"
     /\ kept' = (kept \/ (pend /\ txn = "open"))
     /\ lost' = (lost \/ (pend /\ txn = "failed"))
     /\ txn' = "none" /\ pend' = FALSE /\ UNCHANGED link
  \/ /\ r = "db" /\ link = "up" /\ txn = "open" /\ "commit" \in Faults
     /\ lost' = (lost \/ pend)
     /\ txn' = "none" /\ pend' = FALSE /\ UNCHANGED <<link, kept>>
  \/ /\ r = "db" /\ link = "up" /\ "lost" \in Faults
     /\ \/ kept' = (kept \/ (pend /\ txn = "open")) /\ lost' = (lost \/ (pend /\ txn # "open"))
        \/ lost' = (lost \/ pend) /\ UNCHANGED kept
     /\ link' = "down" /\ txn' = "none" /\ pend' = FALSE
  \/ /\ r = "db" /\ link = "down"
     /\ UNCHANGED server

SendRollback(r) ==
  \/ /\ r = "" /\ link = "up"
     /\ lost' = (lost \/ pend)
     /\ txn' = "none" /\ pend' = FALSE /\ UNCHANGED <<link, kept>>
  \/ /\ r = "db" /\ link = "down"
     /\ UNCHANGED server

-----------------------------------------------------------------------------
(* db_cnx::begin_transaction, commit_transaction, rollback_transaction.    *)
(* The count moves before anything is sent, so an exception leaves it      *)
(* moved; end_transaction stops the program when it goes below zero.       *)

(* Mutant: only a top level begin is counted.                              *)
BeginTransactionTopOnly(r) ==
  /\ IF count = 0 THEN count' = 1 /\ SendBegin(r) ELSE r = "" /\ UNCHANGED <<count, server>>
  /\ UNCHANGED proc

BeginTransaction(r) ==
  /\ count' = count + 1
  /\ IF count' = 1 THEN SendBegin(r) ELSE r = "" /\ UNCHANGED server
  /\ UNCHANGED proc

(* Mutant: the count may go below zero.                                    *)
EndTransactionUnchecked(r, sent) ==
  /\ count' = count - 1
  /\ IF count' = 0 THEN sent ELSE r = "" /\ UNCHANGED server
  /\ UNCHANGED proc

EndTransaction(r, sent) ==
  /\ count' = count - 1
  /\ IF count' < 0
     THEN /\ proc' = "fatal" /\ r = ""
          /\ txn' = "none" /\ pend' = FALSE /\ lost' = (lost \/ pend)
          /\ UNCHANGED <<link, kept>>
     ELSE /\ IF count' = 0 THEN sent ELSE r = "" /\ UNCHANGED server
          /\ UNCHANGED proc

CommitTransaction(r)   == EndTransaction(r, SendCommit(r))
RollbackTransaction(r) == EndTransaction(r, SendRollback(r))

(* Mutants: the session is tried inside a transaction too, or never.       *)
PingAlways == link = "up"
PingNever  == count >= 0 \/ link = "up"

(* pgConnection::ping does not look at the session inside a transaction.   *)
Ping == count > 0 \/ link = "up"

(* pgConnection::reconnect: PQreset opens a new session, without the old   *)
(* one's transaction.                                                      *)
Reconnect ==
  /\ link' = "up" /\ txn' = "none" /\ pend' = FALSE /\ lost' = (lost \/ pend)
  /\ UNCHANGED <<count, kept, proc>>

(* The session is lost: the server discards the open transaction.          *)
LoseSession ==
  /\ "lost" \in Faults /\ link = "up"
  /\ link' = "down" /\ txn' = "none" /\ pend' = FALSE /\ lost' = (lost \/ pend)
  /\ UNCHANGED <<count, kept, proc>>

(* The program ends: so does its session.                                  *)
EndProcess(how) ==
  /\ proc' = how
  /\ txn' = "none" /\ pend' = FALSE /\ lost' = (lost \/ pend)
  /\ UNCHANGED <<count, link, kept>>

-----------------------------------------------------------------------------
(* The refresh of a message list runs on the same session.                 *)

(* msg_list_window::check_new_mail: one SELECT, outside of any count.  An  *)
(* error, of a session that is down too, is shown and changes nothing.     *)
CheckNewMail ==
  /\ \/ UNCHANGED txn
     \/ "sql" \in Faults /\ txn = "open" /\ txn' = "failed"
  /\ UNCHANGED <<count, link, pend, kept, lost, proc>>

(* msgs_filter::fetch: BEGIN, SELECT, then END, or ROLLBACK on an error,   *)
(* sent without db_cnx::begin_transaction.  An aborted transaction refuses *)
(* the BEGIN and fetch gives up.                                           *)
SynchronousFetch ==
  /\ IF txn # "open"
     THEN UNCHANGED <<txn, pend, kept, lost>>
     ELSE /\ txn' = "none" /\ pend' = FALSE
          /\ \/ kept' = (kept \/ pend) /\ UNCHANGED lost
             \/ "sql" \in Faults /\ lost' = (lost \/ pend) /\ UNCHANGED kept
  /\ UNCHANGED <<count, link, proc>>
=============================================================================
