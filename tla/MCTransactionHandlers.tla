------------------------- MODULE MCTransactionHandlers -------------------------
(* The code of Handlers run by TransactionHandlers.                        *)
EXTENDS TransactionHandlers, Handlers

(* The functions that the event loop starts and whose begins and ends      *)
(* match on every path, when only statements fail.                         *)
DisciplinedRoots ==
  {"trash_one", "delete_one", "remove_batch", "change_batch", "change_mail_status",
   "set_tag", "toggle_tags_set", "store_note", "msg_untrash", "save_display_settings",
   "conf_store", "update_filters", "update_viewers_db", "update_identities_db",
   "tags_dialog_ok", "properties_ok", "user_edit_done", "mailing_job", "mailing_purge",
   "launch_mailing", "import_job", "delete_imported"}

(* The others: an early return, an unguarded catch clause or a nested      *)
(* function leaves the count off.                                          *)
LeakyRoots ==
  {"thread_auto_action", "send_message", "fetch_raw", "get_contents", "save_attachment",
   "open_attachment", "set_grants", "launch_import_job", "import_purge", "mbox_import",
   "export_messages"}

AllRoots == DisciplinedRoots \cup LeakyRoots

(* Those that say to their user what the database did.  In the others a    *)
(* failure of a nested function is reported by that function and ignored.  *)
HonestRoots ==
  DisciplinedRoots \ {"remove_batch", "set_tag", "msg_untrash", "tags_dialog_ok",
                      "properties_ok", "user_edit_done"}

(* Handlers without a loop that swallows errors, so that they end while    *)
(* the session is down.                                                    *)
EndingRoots == {"trash_one", "delete_one", "remove_batch", "change_mail_status", "set_tag",
                "mailing_purge", "store_note", "change_batch"}
=============================================================================
