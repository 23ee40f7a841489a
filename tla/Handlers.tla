------------------------------- MODULE Handlers -------------------------------
(***************************************************************************)
(* The functions of the program that use transactions, as code for the     *)
(* interpreter of TransactionHandlers.                                     *)
(*                                                                         *)
(* A function is a function from block names to sequences of instructions: *)
(* "body" is what its try block (or the whole function) does, and a block  *)
(* named for a kind of exception is the catch clause for that kind.  What  *)
(* a statement says, and the data around it, are left out; the order of    *)
(* the transaction calls, the statements, the calls, the early returns,    *)
(* the exceptions, the error dialogs and the event loops is what matters.  *)
(***************************************************************************)
EXTENDS Sequences

Begin     == [op |-> "begin", kind |-> "db"]
BeginFlag == [op |-> "begin", kind |-> "begin"]
Commit   == [op |-> "commit"]
Rollback == [op |-> "rollback"]
Sql      == [op |-> "sql", writes |-> TRUE, kind |-> "db"]
SqlStr   == [op |-> "sql", writes |-> TRUE, kind |-> "str"]  \* an error thrown as QString
Read     == [op |-> "sql", writes |-> FALSE, kind |-> "db"]
Quiet    == [op |-> "quiet", writes |-> FALSE]  \* its error is looked at by nobody
QuietWrite == [op |-> "quiet", writes |-> TRUE]
Alert    == [op |-> "alert"]      \* DBEXCPT: a modal dialog and its event loop
Events   == [op |-> "events"]     \* QApplication::processEvents
Goto(S)  == [op |-> "goto", to |-> S]
Call(f)  == [op |-> "call", f |-> f, no |-> 0]              \* result ignored
Test(f, no) == [op |-> "call", f |-> f, no |-> no]          \* FALSE goes to no
Return(v)   == [op |-> "return", val |-> v]
Throw(k)    == [op |-> "throw", kind |-> k]

(* Mutant: the catch clause forgets the rollback.                          *)
TellOnly == <<Alert, Return(FALSE)>>

(* catch { rollback; DBEXCPT; return false }                               *)
RollbackAndTell == <<Rollback, Alert, Return(FALSE)>>
(* catch { DBEXCPT; return false }, or rethrow for a db_ctxt that          *)
(* propagates exceptions                                                   *)
Tell(propagate) ==
  IF propagate THEN <<Throw("db")>> ELSE <<Alert, Return(FALSE)>>

(* try { begin; stmts; commit } catch { rollback; DBEXCPT }                *)
Guarded(stmts) ==
  [body |-> <<Begin>> \o stmts \o <<Commit, Return(TRUE)>>,
   db   |-> RollbackAndTell]
(* try { stmts } catch { DBEXCPT }: part of its caller's transaction       *)
Bare(stmts, propagate) ==
  [body |-> stmts \o <<Return(TRUE)>>, db |-> Tell(propagate)]

-----------------------------------------------------------------------------
(* src/message.cpp: one message                                            *)

mdelete   == Guarded(<<Sql>>)
trash_set == Guarded(<<Sql>>)
toggle_tags_set == Guarded(<<Sql, Read>>)
(* set_tag reports success on a unique_constraint_violation                *)
set_tag   == [body |-> <<Begin, Sql, Commit, Return(TRUE)>>,
              db   |-> <<Rollback, Goto({3, 5}), Alert, Return(FALSE), Return(TRUE)>>]
trash         == Bare(<<Sql>>, FALSE)
untrash       == Bare(<<Sql>>, FALSE)
update_status(propagate) == Bare(<<Sql>>, propagate)
update_priority == Bare(<<Sql>>, FALSE)
set_or_with_status == Bare(<<Sql>>, FALSE)
multi_archive == Bare(<<Sql>>, FALSE)
multi_trash   == Guarded(<<Sql>>)
store_tags    == Bare(<<Goto({2, 4}), Sql, Goto({2, 4})>>, FALSE)
store_note    == Bare(<<Sql>>, FALSE)
store_send_datetime(propagate) == Bare(<<Sql>>, propagate)
(* mail_thread: a propagated exception leaves their own begin behind       *)
thread_messages     == Bare(<<Sql>>, TRUE)
insert_auto_actions == [body |-> <<Begin, Sql, Sql, Commit, Return(TRUE)>>, db |-> Tell(TRUE)]
remove_auto_actions == [body |-> <<Begin, Sql, Commit, Return(TRUE)>>, db |-> Tell(TRUE)]

(* mail_msg::store: the new message, the message it answers, its tags, its *)
(* header, its note, its attachments and the job that sends it             *)
mail_store ==
  [body |-> <<Begin, Read, Goto({4, 5}), Sql, Sql, Sql,
              Test("store_tags", 15), Test("header_store", 15),
              Goto({10, 11}), Test("store_note", 15),
              Test("attachments_store", 15),
              Test("store_send_datetime", 15), Commit, Return(TRUE),
              Rollback, Return(FALSE)>>,
   db   |-> RollbackAndTell,
   str  |-> RollbackAndTell,
   app  |-> <<Rollback, Throw("app")>>]
(* new_mail_widget::send, around it                                        *)
send_message == [body |-> <<Test("mail_store", 3), Return(TRUE), Alert, Return(FALSE)>>,
                 app  |-> <<Alert, Return(FALSE)>>]

-----------------------------------------------------------------------------
(* src/mailheader.cpp, src/addresses.cpp                                   *)

address_lookup == Bare(<<Read>>, FALSE)
address_store  == [body |-> <<Test("next_seq_val", 4), Sql, Return(TRUE), Return(FALSE)>>,
                   db   |-> Tell(FALSE)]
update_last_used == Bare(<<Sql>>, FALSE)
store_addresses_list ==
  [body |-> <<Goto({2, 10}), Test("address_lookup", 9), Goto({4, 5}),
              Test("address_store", 9), Goto({6, 7}), Call("update_last_used"),
              Sql, Goto({1}), Return(FALSE), Return(TRUE)>>]
header_store ==
  [body |-> <<Goto({2, 4}), Call("store_addresses_list"), Goto({2, 4}), Sql, Return(TRUE)>>]

(* mail_header::fetch_raw gives up without an end of transaction when the  *)
(* raw message or its large object is not there.                           *)
fetch_raw == [body |-> <<Begin, Read, Goto({4, 6}), Quiet, Goto({6, 7}),
                         Return(FALSE), Quiet, Commit, Return(TRUE)>>,
              db   |-> RollbackAndTell]

-----------------------------------------------------------------------------
(* src/db.cpp, src/attachment.cpp                                          *)

next_seq_val == Bare(<<Read>>, FALSE)

duplicate_existing == [body |-> <<Sql, Goto({3, 5}), Sql, Goto({5, 6}), Throw("app"), Return(TRUE)>>]

(* attachment::store: an error in next_seq_val returns at once             *)
attachment_store ==
  [body |-> <<Begin, Test("next_seq_val", 8), Sql, Test("import_file_content", 7),
              Commit, Return(TRUE), Rollback, Return(FALSE)>>,
   db   |-> RollbackAndTell]

attachments_store ==
  [body |-> <<Goto({2, 4, 7}), Call("duplicate_existing"), Goto({1}),
              Test("attachment_store", 6), Goto({1}), Return(FALSE), Return(TRUE)>>]

(* attachment::import_file_content: the contents may be known already, be  *)
(* uploaded in chunks while events are processed, or not exist             *)
import_file_content ==
  [body |-> <<Begin, Read, Goto({4, 7, 10, 12, 14}), SqlStr, Events, Goto({4, 7}),
              Sql, Commit, Return(TRUE), Rollback, Return(TRUE),
              Rollback, Return(FALSE), Quiet, Goto({7})>>,
   db   |-> RollbackAndTell,
   str  |-> <<Rollback, Return(FALSE)>>]

(* attachment::get_contents reads once before it begins                    *)
get_contents == [body |-> <<Goto({2, 9}), Read, Goto({4, 9}), Begin, Read, Quiet, Commit, Return(TRUE),
                            Return(FALSE)>>,
                 db   |-> RollbackAndTell]

(* attch_lvitem::download: open_lo returns with the transaction that       *)
(* close_lo commits; the window stays alive between two chunks             *)
open_lo  == [body |-> <<Read, Goto({3, 6}), Begin, Read, Return(TRUE), Return(FALSE)>>,
             db   |-> RollbackAndTell]
download == [body |-> <<Test("open_lo", 8), Goto({3, 9}), Quiet, Events, Goto({3, 6}),
                        Commit, Return(TRUE), Return(FALSE), Commit, Throw("app")>>]
save_attachment == [body |-> <<Call("download"), Return(TRUE)>>,
                    app  |-> <<Alert, Return(FALSE)>>]
open_attachment == [body |-> <<Call("download"), Return(TRUE)>>]

-----------------------------------------------------------------------------
(* src/msg_list_window.cpp: what the user does to messages                 *)

change_mail_status ==
  [body |-> <<Begin, Read, Test("update_status", 6), Commit, Return(TRUE),
              Rollback, Return(FALSE)>>,
   db   |-> RollbackAndTell]

(* Mutants: the first read comes before the begin; a failed call is        *)
(* ignored.                                                                *)
RemoveReadingFirst(f) ==
  [body |-> <<Read, Begin, Test(f, 6), Commit, Return(TRUE), Rollback, Return(FALSE)>>,
   db   |-> RollbackAndTell]
RemoveIgnoring(f) ==
  [body |-> <<Begin, Read, Call(f), Commit, Return(TRUE)>>, db |-> RollbackAndTell]

(* One message of remove_selected_msgs, trashed or deleted                 *)
remove_one(f) ==
  [body |-> <<Begin, Read, Test(f, 6), Commit, Return(TRUE), Rollback, Return(FALSE)>>,
   db   |-> RollbackAndTell]

(* One batch: the messages count as removed whatever the database said     *)
remove_batch == [body |-> <<Goto({2, 4}), Call("multi_trash"), Return(TRUE),
                            Call("trash_set"), Return(TRUE)>>]

(* One batch of change_multi_mail_status                                   *)
change_batch == [body |-> <<Goto({2, 4}), Call("multi_archive"), Return(TRUE),
                            Call("set_or_with_status"), Return(TRUE)>>]

msg_untrash ==
  [body |-> <<Begin, Goto({3, 6}), Read, Call("untrash"), Goto({2}), Commit, Return(TRUE)>>,
   db   |-> RollbackAndTell]

(* thread_auto_archive and thread_auto_trash                               *)
thread_auto_action ==
  [body |-> <<Begin, Goto({3, 6}), Call("thread_messages"), Call("insert_auto_actions"),
              Goto({7}), Call("remove_auto_actions"), Commit, Return(TRUE)>>,
   db   |-> RollbackAndTell]

save_display_settings ==
  [body |-> <<Begin, Test("conf_store", 6), Goto({2, 4}), Commit,
              Return(TRUE), Rollback, Return(FALSE)>>]

-----------------------------------------------------------------------------
(* Settings: src/app_config.cpp, preferences.cpp, identities.cpp,          *)
(* filter_rules.cpp, tags.cpp, tagsdialog.cpp, msg_properties.cpp          *)

conf_store        == Guarded(<<Goto({3, 4}), Sql, Goto({2, 5})>>)
update_filters    == Guarded(<<Goto({3, 4}), Sql, Goto({2, 5})>>)
update_viewers_db == Guarded(<<Sql, Sql>>)
identity_update   == Bare(<<Sql>>, TRUE)
identity_delete   == Bare(<<Sql, Sql, Sql>>, TRUE)
(* update_identities_db rolls back only when its flag in_trans is set,     *)
(* after a begin that returned                                             *)
update_identities_db ==
  [body  |-> <<Goto({2, 9}), BeginFlag, Goto({4, 6}), Call("identity_update"),
               Goto({4, 6, 8}), Call("identity_delete"), Goto({6, 8}), Commit, Return(TRUE)>>,
   db    |-> RollbackAndTell,
   begin |-> <<Alert, Return(FALSE)>>]
tag_remove == Guarded(<<Sql, Sql>>)
tag_store  == [body |-> <<Goto({2, 3}), Call("next_seq_val"), Sql, Return(TRUE)>>,
               db   |-> Tell(FALSE)]
(* tags_dialog::ok ignores the removals and the stores that failed         *)
tags_dialog_ok ==
  [body |-> <<Begin, Goto({3, 4}), Call("tag_remove"), Goto({5, 7}), Call("tag_store"),
              Goto({5, 7}), Commit, Return(TRUE)>>,
   db   |-> RollbackAndTell]
(* properties_dialog: the priority is stored without the dialog's db_ctxt  *)
properties_ok ==
  [body |-> <<Begin, Read, Call("update_status_throw"), Goto({5, 6}),
              Call("update_priority"), Goto({7, 8}), Call("store_send_datetime_throw"),
              Commit, Return(TRUE)>>,
   db   |-> RollbackAndTell]

-----------------------------------------------------------------------------
(* Users and roles: src/users.cpp, src/users_dialog.cpp                    *)

role_statement == Bare(<<Sql>>, TRUE)       \* CREATE ROLE, GRANT, REVOKE, RENAME
oid_db_role    == [body |-> <<Read, Goto({3, 4}), Return(TRUE), Return(FALSE)>>,
                   db   |-> Tell(FALSE)]
(* set_grants returns from the middle when the new role cannot be found    *)
set_grants ==
  [body |-> <<Begin, Goto({3, 5}), Call("role_statement"), Test("oid_db_role", 9),
              Goto({6, 7}), Call("role_statement"), Goto({5, 8}), Goto({10}),
              Return(FALSE), Commit, Return(TRUE)>>,
   db   |-> RollbackAndTell]
granted_roles  == Bare(<<Read>>, FALSE)
(* user_edit_dialog::done commits whatever create, update or grant said    *)
user_edit_done ==
  [body |-> <<Begin, Goto({3, 5}), Call("role_statement"), Goto({3, 5}), Call("granted_roles"),
              Goto({7, 9}), Call("role_statement"), Goto({7, 9}), Commit, Return(TRUE)>>,
   db   |-> RollbackAndTell]

-----------------------------------------------------------------------------
(* Mailings: src/mailing.cpp, src/mailing_wizard.cpp                       *)

mailing_create  == Guarded(<<Sql, Sql>>)
store_data      == Bare(<<Sql>>, FALSE)
mailing_job     == Guarded(<<Sql, Sql>>)
mailing_purge   == Guarded(<<Sql, Sql, Sql, Sql>>)
(* launch_mailing catches the QString it throws, and no db_excpt           *)
launch_mailing ==
  [body |-> <<Begin, Goto({3, 8}), Test("mailing_create", 8), Test("store_data", 8),
              Goto({6, 7}), Test("mailing_job", 8), Goto({9}), Throw("str"),
              Commit, Return(TRUE)>>,
   str  |-> <<Rollback, Return(FALSE)>>]

-----------------------------------------------------------------------------
(* Mailboxes: src/mbox_file.cpp, src/import_window.cpp, export_window.cpp  *)

launch_import_job == [body |-> <<Begin, Sql, Sql, Commit, Return(TRUE)>>, db |-> Tell(FALSE)]
import_purge      == [body |-> <<Begin, Sql, Sql, Commit, Return(TRUE)>>, db |-> Tell(FALSE)]
import_job        == Guarded(<<Sql, Sql, Sql>>)
(* database_import: a message that is refused is reported and skipped; the *)
(* catch clause neither ends the transaction nor changes the result        *)
database_import ==
  [body |-> <<Goto({2, 3}), Return(FALSE), Begin, Goto({5, 8}), Events, QuietWrite,
              Goto({5, 8}), Goto({9, 12}), Read, Commit, Return(TRUE),
              Read, Rollback, Return(FALSE)>>,
   db   |-> <<Alert, Return(TRUE)>>]
mbox_import ==
  [body |-> <<Sql, Test("database_import", 4), Return(TRUE), Begin, Sql, Sql, Commit,
              Return(FALSE)>>,
   db   |-> Tell(FALSE)]
delete_imported ==
  [body |-> <<Read, Goto({3, 8}), Begin, Test("mdelete", 9), Goto({4, 6}), Commit,
              Goto({8}), Return(TRUE), Rollback, Return(FALSE)>>,
   db   |-> Tell(FALSE)]
export_messages ==
  [body |-> <<Read, Goto({3, 11}), Begin, Read, Read, Events, Quiet, Goto({5, 9}), Read,
              Commit, Return(TRUE)>>,
   db   |-> RollbackAndTell]

-----------------------------------------------------------------------------
Code == [
  mdelete |-> mdelete, trash_set |-> trash_set,
  toggle_tags_set |-> toggle_tags_set, set_tag |-> set_tag, trash |-> trash,
  untrash |-> untrash, update_priority |-> update_priority,
  set_or_with_status |-> set_or_with_status, multi_archive |-> multi_archive,
  multi_trash |-> multi_trash, store_tags |-> store_tags,
  store_note |-> store_note, thread_messages |-> thread_messages,
  insert_auto_actions |-> insert_auto_actions,
  remove_auto_actions |-> remove_auto_actions, mail_store |-> mail_store,
  address_lookup |-> address_lookup, address_store |-> address_store,
  update_last_used |-> update_last_used,
  store_addresses_list |-> store_addresses_list, header_store |-> header_store,
  fetch_raw |-> fetch_raw, next_seq_val |-> next_seq_val,
  duplicate_existing |-> duplicate_existing,
  attachment_store |-> attachment_store,
  attachments_store |-> attachments_store,
  import_file_content |-> import_file_content, get_contents |-> get_contents,
  open_lo |-> open_lo, download |-> download, send_message |-> send_message,
  save_attachment |-> save_attachment, open_attachment |-> open_attachment,
  change_mail_status |-> change_mail_status, remove_batch |-> remove_batch,
  change_batch |-> change_batch, msg_untrash |-> msg_untrash,
  thread_auto_action |-> thread_auto_action,
  save_display_settings |-> save_display_settings, conf_store |-> conf_store,
  update_filters |-> update_filters, update_viewers_db |-> update_viewers_db,
  identity_update |-> identity_update, identity_delete |-> identity_delete,
  update_identities_db |-> update_identities_db, tag_remove |-> tag_remove,
  tag_store |-> tag_store, tags_dialog_ok |-> tags_dialog_ok,
  properties_ok |-> properties_ok, role_statement |-> role_statement,
  oid_db_role |-> oid_db_role, granted_roles |-> granted_roles,
  set_grants |-> set_grants, user_edit_done |-> user_edit_done,
  mailing_create |-> mailing_create, store_data |-> store_data,
  mailing_job |-> mailing_job, mailing_purge |-> mailing_purge,
  launch_mailing |-> launch_mailing, launch_import_job |-> launch_import_job,
  import_purge |-> import_purge, import_job |-> import_job,
  database_import |-> database_import, mbox_import |-> mbox_import,
  delete_imported |-> delete_imported, export_messages |-> export_messages,
  update_status |-> update_status(FALSE),
  update_status_throw |-> update_status(TRUE),
  store_send_datetime |-> store_send_datetime(FALSE),
  store_send_datetime_throw |-> store_send_datetime(TRUE),
  trash_one |-> remove_one("trash"), delete_one |-> remove_one("mdelete")]
=============================================================================
