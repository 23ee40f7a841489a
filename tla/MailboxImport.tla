------------------------------ MODULE MailboxImport -----------------------------
(***************************************************************************)
(* mbox_import_wizard and mbox_file: the upload of an mbox file into       *)
(* import_mbox and import_message, one line at a time with the events of   *)
(* the interface processed between two lines, in one transaction of the    *)
(* shared session; import_window: the list of the imports, refreshed every *)
(* 5 seconds, from which they are started, stopped and purged; the server  *)
(* (manitou-mdx) that does the imports, and other clients.                 *)
(*                                                                         *)
(* What one reaches during the upload works in its transaction: the writes *)
(* are held in `pending` until it ends.  A refused COMMIT is in Handlers.  *)
(***************************************************************************)
EXTENDS Naturals, Sequences, FiniteSets, SequencesExt

CONSTANTS Files,           \* the mbox files: sequences of lines, a line being the
                           \* sequence of its chunks of at most 1023 bytes
          FirstImports,    \* the tables to begin with: import_id -> import
          MaxImports,      \* the largest import_id
          MaxJobs,         \* the jobs of an import
          MaxClicks        \* the starts, stops and purges, here and elsewhere

VARIABLES tables,          \* import_mbox with import_message, and jobs_queue, as committed
          nextId,          \* the sequence of import_id
          session,         \* the shared session: "idle", "open" or "broken"
          pending,         \* the writes of its open transaction
          wizard,          \* the wizard: its page, m_upload_finished, m_import_id, its label
          upload,          \* database_import while it runs
          listed,          \* m_list: import_id -> status.  Nothing ever leaves it
          items,           \* the tree: import_id -> the status displayed
          current,         \* its current item, or 0
          serving,         \* the imports that the server is doing
          clicks           \* the starts, stops and purges, up to MaxClicks

importVars == <<tables, nextId, session, pending, wizard, upload, listed, items, current, serving, clicks>>

Ids == 1..MaxImports
Statuses == 0..3           \* not started, running, stopped, finished
From == "From"             \* a chunk of less than 1023 bytes that starts with "From "

Max1(S) == CHOOSE i \in S \cup {0} : \A k \in S : k <= i
Click == clicks < MaxClicks /\ clicks' = clicks + 1
Without(f, i) == [k \in DOMAIN f \ {i} |-> f[k]]
With(f, i, v) == [k \in DOMAIN f \cup {i} |-> IF k = i THEN v ELSE f[k]]

(* What an mbox file holds: after each line that is a From line, a message  *)
Reference(file) ==
  LET starts == {k \in 1..Len(file) : file[k] = <<From>>}
      end(k) == IF \E n \in starts : n > k
                THEN (CHOOSE n \in starts : n > k /\ \A o \in starts : o > k => n <= o) - 1
                ELSE Len(file)
  IN [j \in 1..Cardinality(starts) |->
        LET k == CHOOSE n \in starts : Cardinality({o \in starts : o <= n}) = j
        IN FlattenSeq(SubSeq(file, k + 1, end(k)))]

NoUpload == [on |-> FALSE, id |-> 0, chunks |-> <<>>, at |-> 1, number |-> 0, bytes |-> <<>>,
             abort |-> FALSE, mine |-> FALSE]
NoWizard == [page |-> "none", file |-> <<>>, finished |-> FALSE, id |-> 0, told |-> "", count |-> 0]

TypeOK ==
  /\ DOMAIN tables.imports \subseteq Ids /\ nextId \in 1..(MaxImports + 1)
  /\ \A i \in DOMAIN tables.imports :
       LET m == tables.imports[i]
       IN m.file \in Files /\ m.status \in Statuses /\ m.done \in Nat /\ m.auto_purge \in BOOLEAN
  /\ tables.jobs \in [Ids -> 0..(2 * MaxJobs)]
  /\ session \in {"idle", "open", "broken"} /\ (upload.on => session # "idle")
  /\ wizard.page \in {"none", "file", "options", "upload"} /\ wizard.told \in {"", "uploaded", "failed"}
  /\ DOMAIN items \subseteq DOMAIN listed /\ current \in DOMAIN items \cup {0}
  /\ serving \subseteq Ids

(* The window has just been opened: load                                    *)
Init ==
  /\ \E f \in FirstImports :
       /\ tables = [imports |-> f, jobs |-> [i \in Ids |-> 0]] /\ nextId = 1 + Max1(DOMAIN f)
       /\ listed = [i \in DOMAIN f |-> f[i].status] /\ items = listed
  /\ session = "idle" /\ pending = <<>> /\ wizard = NoWizard /\ upload = NoUpload
  /\ current = 0 /\ serving = {} /\ clicks = 0

---------------------------------------------------------------------------------
(* The writes, by what they do to the tables                                *)
Update(t, i, status) ==
  [t EXCEPT !.imports = [k \in DOMAIN @ |-> IF k = i THEN [@[k] EXCEPT !.status = status] ELSE @[k]]]
Queue(t, i) == [t EXCEPT !.jobs[i] = @ + 1]
Delete(t, i) == [t EXCEPT !.imports = Without(@, i)]
Store(t, i, bytes) == [t EXCEPT !.imports[i].stored = Append(@, bytes)]

Write(t, w) == CASE w.op = "start" -> Queue(Update(t, w.id, 1), w.id)
                 [] w.op = "stop"  -> Update(t, w.id, 2)
                 [] w.op = "purge" -> Delete(t, w.id)
                 [] w.op = "job"   -> Queue(t, w.id)
                 [] w.op = "store" -> Store(t, w.id, w.bytes)

(* What the session sees, and what its statements do: held in the open      *)
(* transaction, done at once outside of one, refused in a broken one.       *)
View == FoldLeft(Write, tables, pending)
Do(op, i) ==
  CASE session = "idle"   -> tables' = Write(tables, [op |-> op, id |-> i]) /\ UNCHANGED pending
    [] session = "open"   -> pending' = Append(pending, [op |-> op, id |-> i]) /\ UNCHANGED tables
    [] session = "broken" -> UNCHANGED <<tables, pending>>
Breaks == session' = "broken" /\ pending' = <<>>
Held(i) == \E k \in 1..Len(pending) : pending[k].id = i /\ pending[k].op # "store"

---------------------------------------------------------------------------------
(* mbox_import_wizard                                                       *)
new_import ==
  /\ wizard.page = "none" /\ wizard' = [NoWizard EXCEPT !.page = "file"]
  /\ UNCHANGED <<tables, nextId, session, pending, upload, listed, items, current, serving, clicks>>

check_format(file) == file # <<>> /\ Head(Head(file)) = From

choose_file ==
  /\ wizard.page = "file"
  /\ \E f \in Files : check_format(f) /\ wizard' = [wizard EXCEPT !.page = "options", !.file = f]
  /\ UNCHANGED <<tables, nextId, session, pending, upload, listed, items, current, serving, clicks>>

(* initializePage and do_upload up to the loop.  The row is inserted on its *)
(* own.  With an upload already on its way (Back and Next again, or another *)
(* wizard) the statement of that name is there: PREPARE is refused in the   *)
(* transaction of the first upload, and so is the DELETE of the row.        *)
do_upload ==
  /\ wizard.page = "options" /\ (session = "idle" => nextId <= MaxImports)
  /\ LET Fails == wizard' = [wizard EXCEPT !.page = "upload", !.finished = TRUE, !.id = 0,
                                           !.told = "failed", !.count = 0]
     IN \/ /\ session = "idle" /\ nextId' = nextId + 1
           /\ \E purge \in BOOLEAN :
                tables' = [tables EXCEPT !.imports = With(@, nextId,
                  [file |-> wizard.file, status |-> 0, stored |-> <<>>, done |-> 0, auto_purge |-> purge])]
           /\ session' = "open"
           /\ upload' = [NoUpload EXCEPT !.on = TRUE, !.id = nextId, !.chunks = FlattenSeq(wizard.file),
                                         !.mine = TRUE]
           /\ wizard' = [wizard EXCEPT !.page = "upload", !.finished = FALSE, !.id = 0, !.told = ""]
           /\ UNCHANGED pending
        \/ session = "idle" /\ Fails /\ nextId' = nextId + 1      \* the file cannot be opened
           /\ UNCHANGED <<tables, session, pending, upload>>
        \/ /\ session = "open" /\ Fails /\ Breaks
           /\ upload' = [upload EXCEPT !.abort = @ /\ ~upload.mine]
           /\ UNCHANGED <<tables, nextId>>       \* the number it takes is not counted
        \/ session = "broken" /\ Fails /\ UNCHANGED <<tables, nextId, session, pending, upload>>
  /\ UNCHANGED <<listed, items, current, serving, clicks>>

back ==
  /\ wizard.page = "upload" /\ wizard' = [wizard EXCEPT !.page = "options"]
  /\ UNCHANGED <<tables, nextId, session, pending, upload, listed, items, current, serving, clicks>>

(* Closing the wizard hides it: the upload goes on                          *)
close_wizard ==
  /\ wizard.page # "none" /\ wizard' = NoWizard /\ upload' = [upload EXCEPT !.mine = FALSE]
  /\ UNCHANGED <<tables, nextId, session, pending, listed, items, current, serving, clicks>>

abort_import ==
  /\ wizard.page = "upload" /\ upload.on /\ upload.mine /\ ~upload.abort
  /\ upload' = [upload EXCEPT !.abort = TRUE]
  /\ UNCHANGED <<tables, nextId, session, pending, wizard, listed, items, current, serving, clicks>>

---------------------------------------------------------------------------------
(* database_import.  import_message: one row, unless the server refuses it  *)
(* (always, once the import's own row has been purged): the transaction is  *)
(* then broken, and only a message box says so.                             *)
import_message(bytes) ==
  \/ /\ session = "open" /\ upload.id \in DOMAIN View.imports
     /\ pending' = Append(pending, [op |-> "store", id |-> upload.id, bytes |-> bytes])
     /\ UNCHANGED session
  \/ Breaks

(* A turn of the loop: a chunk of the file                                  *)
read_line ==
  /\ upload.on /\ ~upload.abort /\ upload.at <= Len(upload.chunks)
  /\ LET c == upload.chunks[upload.at]
         next == [upload EXCEPT !.at = @ + 1]
     IN IF c # From
        THEN upload' = [next EXCEPT !.bytes = Append(@, c)] /\ UNCHANGED <<pending, session>>
        ELSE IF upload.number = 0
        THEN upload' = [next EXCEPT !.number = 1] /\ UNCHANGED <<pending, session>>
        ELSE /\ upload' = [next EXCEPT !.number = @ + 1, !.bytes = <<>>]
             /\ import_message(upload.bytes)
  /\ UNCHANGED <<tables, nextId, wizard, listed, items, current, serving, clicks>>

(* A mutation of Completed: an aborted upload is not told from a whole one  *)
AbortCommits(error) == ~error

Completed(error) == ~error /\ ~upload.abort

(* After the loop: the last message, DEALLOCATE, COMMIT or ROLLBACK; then   *)
(* import deletes the row of an upload that failed.  In a broken            *)
(* transaction DEALLOCATE raises and database_import returns true.          *)
end_upload ==
  /\ upload.on
  /\ \E error \in BOOLEAN :
       /\ error \/ upload.abort \/ upload.at > Len(upload.chunks)
       /\ LET whole == Completed(error)
              last == [op |-> "store", id |-> upload.id, bytes |-> upload.bytes]
              writes == IF whole /\ upload.bytes # <<>> THEN Append(pending, last) ELSE pending
              Tell(told, id, count) ==
                wizard' = IF ~upload.mine THEN wizard
                          ELSE [wizard EXCEPT !.finished = TRUE, !.told = told, !.id = id, !.count = count]
              Raises == Tell("uploaded", upload.id, 0) /\ Breaks /\ UNCHANGED tables
              Refused == writes # pending /\ (upload.id \notin DOMAIN View.imports)
          IN IF session = "broken" \/ Refused THEN Raises
             ELSE \/ writes # pending /\ Raises
                  \/ /\ session' = "idle" /\ pending' = <<>>
                     /\ IF whole
                        THEN /\ tables' = FoldLeft(Write, tables, writes)
                             /\ Tell("uploaded", upload.id, upload.number)
                        ELSE tables' = Delete(tables, upload.id) /\ Tell("failed", 0, 0)
  /\ upload' = NoUpload
  /\ UNCHANGED <<nextId, listed, items, current, serving, clicks>>

---------------------------------------------------------------------------------
(* import_window.  refresh: what has appeared is added, what has changed is *)
(* redisplayed, and the items of what has gone are deleted                  *)
Status(t) == [i \in DOMAIN t.imports |-> t.imports[i].status]
Refreshed(now) ==
  LET fresh == DOMAIN now \ DOMAIN listed
      kept == DOMAIN items \cap DOMAIN now
  IN /\ listed' = [i \in DOMAIN listed \cup fresh |-> IF i \in DOMAIN now THEN now[i] ELSE listed[i]]
     /\ items' = [i \in kept \cup fresh |->
                    IF i \in fresh \/ now[i] # listed[i] THEN now[i] ELSE items[i]]
     /\ IF current \in kept THEN UNCHANGED current ELSE current' \in kept \cup fresh \cup {0}

refresh ==
  /\ session # "broken" /\ Refreshed(Status(View))
  /\ UNCHANGED <<tables, nextId, session, pending, wizard, upload, serving, clicks>>

(* Finish: the job is queued, whatever comes of it, and new_import_started  *)
(* refreshes the list.  Without an import nothing happens.                  *)
Finish ==
  /\ wizard.page = "upload" /\ wizard.finished /\ wizard.id # 0
  /\ tables.jobs[wizard.id] < MaxJobs
  /\ Do("job", wizard.id) /\ wizard' = NoWizard
  /\ IF session = "broken" THEN UNCHANGED <<listed, items, current>>
     ELSE Refreshed(Status(View))
  /\ UNCHANGED <<nextId, session, upload, serving, clicks>>

item_changed ==
  /\ \E i \in DOMAIN items \ {current} : current' = i
  /\ UNCHANGED <<tables, nextId, session, pending, wizard, upload, listed, items, serving, clicks>>

(* update_buttons enables the button by m_list, which start_stop, whether   *)
(* its statements pass or not, leaves as it is                              *)
Label(i) == CASE listed[i] \in {0, 2} -> "Start" [] listed[i] = 1 -> "Stop" [] OTHER -> "disabled"

start_stop ==
  /\ Click /\ current # 0 /\ Label(current) # "disabled" /\ View.jobs[current] < MaxJobs
  /\ Do(IF Label(current) = "Start" THEN "start" ELSE "stop", current)
  /\ items' = [items EXCEPT ![current] = listed[current]]
  /\ UNCHANGED <<nextId, session, wizard, upload, listed, current, serving>>

purge_import ==
  /\ Click /\ current # 0 /\ session # "broken" /\ Do("purge", current)
  /\ items' = Without(items, current) /\ current' \in DOMAIN items' \cup {0}
  /\ UNCHANGED <<nextId, session, wizard, upload, listed, serving>>

---------------------------------------------------------------------------------
(* Another client, outside of the rows this session's transaction holds     *)
other_client ==
  /\ Click
  /\ \E i \in DOMAIN tables.imports :
       /\ ~Held(i)
       /\ \/ /\ tables.imports[i].status \in {0, 2} /\ tables.jobs[i] < MaxJobs
             /\ tables' = Write(tables, [op |-> "start", id |-> i])
          \/ ~(upload.on /\ i = upload.id) /\ tables' = Write(tables, [op |-> "purge", id |-> i])
  /\ UNCHANGED <<nextId, session, pending, wizard, upload, listed, items, current, serving>>

(* The server takes a job, and does the import of the messages it finds     *)
server_takes ==
  /\ \E i \in Ids :
       /\ tables.jobs[i] > 0 /\ ~Held(i) /\ i \notin serving
       /\ tables' = [Update(tables, i, 1) EXCEPT !.jobs[i] = @ - 1]
       /\ serving' = IF i \in DOMAIN tables.imports THEN serving \cup {i} ELSE serving
  /\ UNCHANGED <<nextId, session, pending, wizard, upload, listed, items, current, clicks>>

server_ends ==
  /\ \E i \in serving :
       /\ ~Held(i) /\ serving' = serving \ {i}
       /\ IF i \notin DOMAIN tables.imports \/ tables.imports[i].status # 1 THEN UNCHANGED tables
          ELSE LET m == tables.imports[i]
               IN IF m.auto_purge /\ i # upload.id THEN tables' = Delete(tables, i)
                  ELSE tables' = [tables EXCEPT !.imports[i].status = 3,
                                                !.imports[i].done = Len(m.stored)]
  /\ UNCHANGED <<nextId, session, pending, wizard, upload, listed, items, current, clicks>>

Next == \/ new_import \/ choose_file \/ do_upload \/ back \/ close_wizard \/ abort_import
        \/ read_line \/ end_upload \/ refresh \/ Finish \/ item_changed \/ start_stop
        \/ purge_import \/ other_client \/ server_takes \/ server_ends

Spec == Init /\ [][Next]_importVars

---------------------------------------------------------------------------------
(* An import has all of the messages of its file or none, whatever was      *)
(* clicked while they were read, and all of them once the wizard says that  *)
(* the mailbox has been uploaded (in a session that still works).           *)
UploadIsWhole ==
  \A i \in DOMAIN tables.imports :
    LET m == tables.imports[i]
    IN /\ m.stored \in {<<>>, Reference(m.file)}
       /\ (wizard.told = "uploaded" /\ wizard.id = i /\ session # "broken")
             => m.stored = Reference(m.file)

(* What the wizard says of the upload is so                                 *)
ToldIsTrue ==
  (wizard.told = "uploaded" /\ wizard.id \in DOMAIN tables.imports)
     => tables.imports[wizard.id].stored # <<>>
CountTold ==
  (wizard.told = "uploaded" /\ session # "broken" /\ wizard.id \in DOMAIN tables.imports)
     => wizard.count = Len(tables.imports[wizard.id].stored)

(* A job for each import; a finished import has imported its messages       *)
OneJobEach == \A i \in Ids : tables.jobs[i] <= 1
FinishedMeansAll ==
  \A i \in DOMAIN tables.imports :
    tables.imports[i].status = 3 => tables.imports[i].done = Len(tables.imports[i].stored)

(* After a refresh the window lists the imports there are                   *)
EveryImportShown == [][refresh => DOMAIN items' = DOMAIN View.imports]_importVars
=================================================================================
