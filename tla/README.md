# A model of manitou-mail's user interface

Manitou-Mail keeps mail in a PostgreSQL database.  The program in `src/src/`
is its Qt user interface: lists of messages, a composer, filters, tags,
mailings.  It has no server code of its own; what makes it hard to get right
is that one thread runs many handlers, nested through error dialogs and event
loops, on one database session that several functions open and close
transactions on, while further threads run queries on connections of a pool, timers
collect their results, the server notifies new mail, and other clients change the same
tables.  Around that, a dozen windows and dialogs hold copies of rows that they let the
user edit in any order and write back, completely or not.

This directory holds TLA+ modules translated from that code, the TLC
configurations that check them on small instances, and proofs that TLAPS
checks for all values of the constants.  `PROJECT.json` is the index: which
definition stands for which lines, which run checks which property, which
mutation of the code each property notices, which hazards are covered.

Paths below are relative to `src/src/`.

## How to run it

```
tlc -workers 2 -config lw_any.cfg ListWindow          # one run; see the table
tlapm TransactionProofs.tla; tlapm LeaseProofs.tla; tlapm ListProofs.tla; tlapm SegmentProofs.tla
tlapm StatusProofs.tla; tlapm OfficeProofs.tla; tlapm DeskProofs.tla; tlapm AccountProofs.tla
```

## Inventory

| Component | State it keeps | Operations | Interacts through | Hard because | Module |
|---|---|---|---|---|---|
| Primary connection (`db.cpp`, `sqlstream.cpp`) | `m_open_trans_count`, the session, `m_listeners` | begin, commit, rollback, statements, `ping`, `reconnect` | shared by every handler of the main thread | nesting, failures between begin and end, sessions that vanish | `PgSession` |
| Handlers that run transactions (`message.cpp`, `tags.cpp`, `users.cpp`, `mbox_file.cpp`, ...) | local | some forty functions that open a transaction or run in one | calls, exceptions, return values | early returns, swallowed errors, catch clauses shared by several phases | `TransactionHandlers`, `Handlers` |
| Event loop, error dialog, timer (`db_error_dialog.cpp`, `errors.cpp`) | the stack of handlers | `DBEXCPT`, `processEvents`, `timer_func` | reentrancy | a handler runs inside another's transaction or catch clause | `TransactionHandlers` |
| List window (`msg_list_window*.cpp`, `msgs_page_list.cpp`) | pages, current page, pointers into it, disabled widgets | run a selection, change page, segments, more results, abort, download | fetch thread, timer, selection dialogs | results arrive later than the question; pairs of disable and enable | `ListWindow` |
| Secondary connections and threads (`db.cpp`, `fetch_thread.cpp`, `selectmail.cpp`, `edit_rules.cpp`) | the pool, a thread per owner, `m_waiting_for_results` | take, start, poll, cancel, release | list windows, selection dialogs, tests of filters, `idle` | cancellation races the end; who gives back what | `BackgroundQueries` |
| Segments (`selectmail.cpp`) | `m_segment`, `m_direction`, the list | `build_query`, `postprocess_fetch`, `check_new_mail` | database, list window | bounds taken from messages that come and go | `SegmentPaging` |
| Status and counters (`msg_status_cache.cpp`, `query_listview.cpp`, `message.cpp`) | the database's status, each page's copies, the cache, the counters | read, archive, trash, delete, notification, refresh | all pages of all windows, threads, other clients | four copies of the same fact | `StatusTracking` |
| Tags and their counters (`tags*.cpp`, `query_listview.cpp`) | the repository, the dialog's tree, the panel's branches | edit, move, save, toggle, count | status changes, other clients | temporary numbers; counters kept by differences | `TagsDialog`, `QuickSelection` |
| Search bar and selection dialog (`selectmail.cpp`) | a filter, widgets that change each other | type, fill, run, refine | list window | the same filter is filled and shown again | `Selection`, `SearchBar`, `SelectionDialog` |
| Saved queries (`user_queries.cpp`) | a map that mirrors a table, panels | save, rename, replace, remove | panels of all windows | the map is changed by hand | `UserQueries` |
| Message tree (`mail_listview.cpp`) | rows by parent, the selectors of segments | insert, remove, complete, sort, redisplay | pages | arrival in any order, removal of parents | `MailTree` |
| Composer (`newmailwidget.cpp`, `html_editor.cpp`, ...) | two or three editors, headers, attachments, a message | edit, change format, identity or editor, send, close | `mail_msg::store`, event loop | several copies of one text; sending that fails and is tried again | `ComposerText`, `ComposerSend` |
| Filters (`filter_eval.cpp`, `filter_rules.cpp`, editors) | rules, their rows, expressions | edit, move, save; parse, evaluate | database | renumbering; precedence, conditions that refer to each other | `FilterRules`, `FilterEval` |
| Mailings (`mailing*.cpp`, `text_merger.cpp`) | a wizard's options, data files, jobs | prepare, preview, launch, start, stop, delete | server's job queue, other clients | going back with other choices; state shared with a server | `TextMerger`, `MailingWizard`, `MailingWindow` |
| Mailbox files (`mbox_file.cpp`, import windows) | the file's lines, an import, a job | upload, abort, start, stop, purge | transactions, event loop, server | the event loop runs at every line | `MailboxImport` |
| Users and permissions (`users*.cpp`) | roles, operators, caches | create, edit, drop, grant, revoke | server's catalogue, other clients | two tables and a catalogue that must agree | `Users` |
| Preferences, identities, configuration (`preferences.cpp`, `identities.cpp`, `app_config.cpp`) | three tables, a map of settings, a dialog | edit, save | composer, other clients | three transactions that fail one by one | `Preferences` |
| SQL text, addresses, attachments' contents, MIME, display, login, help, statistics, vendored code | none that others depend on | - | - | input and output | - |

What makes the modelled components correct:

* *transactions*: every function hands the count back as it found it; the
  program is not stopped by `end_transaction` or by a stray exception; a user
  who was told of a success has it; a top level transaction is kept as a
  whole or not at all; a lost session is noticed and replaced;
* *connections and threads*: a connection is used by one thread; whoever takes one
  gives it back; what is idle is known to be;
* *list window*: the pointers follow the current page; results are shown in
  the page they were asked for; what was disabled is given back, always, and to
  the same widgets;
* *segments*: no message that matched all along is jumped over, the end is the
  end, without changes the segments partition the list; new mail is new;
* *status and tags*: no command undoes a bit that another set; counters equal the
  database; deleted messages are forgotten;
* *searching*: what is selected is what the text or the dialog says, the first
  time and when it is shown and run again;
* *tree*: each message has one row, a reply is below what it descends from;
* *writing*: what is sent is the last text, with its sender's signature, all its
  addresses and files, however often the sending failed;
* *dialogs that save* (rules, tags, mailings, imports, accounts, queries, preferences):
  after OK the tables hold what was shown, and what other clients changed meanwhile is
  left as they made it;
* *panels that mirror tables*: they show what the table holds, until others change it;
* *algorithms* (filter expressions, search text, CSV, mbox lines): the automaton accepts and
  yields what a reference definition does.

## Modules

| Module | What it is |
|---|---|
| `PgSession` | the primary connection: the client's count, the server's transaction and the session, with faults |
| `TransactionHandlers` (extends `PgSession`) | the main thread as a stack of handler frames that execute an instruction list; error dialogs, `processEvents`, the timer, exceptions |
| `Handlers` | the instruction lists: one function of the program each, forty odd, in source order |
| `TransactionDiscipline` (extends `TransactionHandlers`) | a static typing of instruction lists (begins held at each instruction, exceptions that escape), a second one for code that tells its user the truth (instructions reached with nothing lost), and the inductive invariants built from them |
| `MCTransactionHandlers`, `MCTransactionDiscipline` | instances |
| `TransactionProofs` | theorems about `TransactionHandlers` and about `TransactionDiscipline` |
| `BackgroundQueries` | the pool of secondary connections and the threads that borrow from it |
| `ConnectionLeases`, `LeaseProofs` | what the pool promises, abstractly; theorems, the refinement's among them |
| `ListWindow` | pages, fetch thread, timer, disabled widgets, abort, downloads |
| `ListProofs` | theorems about `ListWindow`: its pages; what is disabled and where results go |
| `SegmentPaging` | segments of results against a changing database |
| `SegmentProofs` | theorems about `SegmentPaging` |
| `StatusTracking`, `MCStatusTracking` | statuses in database, pages, cache, counters |
| `StatusProofs` | theorems about `StatusTracking` |
| `Selection`; `SearchBar`, `SelectionDialog` (extend it) | a filter as a predicate on messages; the text and the dialog that fill it |
| `ComposerText`, `ComposerSend` | the composer's texts; its headers, attachments and sending |
| `MailTree` | the rows of a list |
| `FilterRules`, `FilterEval` | the window of the rules; the evaluator of expressions |
| `Preferences` | identities, settings and viewers, and the dialog that saves them |
| `Desk`, `MCDesk` | the eight modules above that have a state, from `SearchBar` on, side by side; their constants |
| `DeskProofs` | theorems about `Desk`: the composer's text, its sending, the selection dialog |
| `TextMerger`; `MailingWizard` (extends it), `MailingWindow` | the CSV automata; the wizard with its previews; the list of mailings |
| `TagsDialog`, `QuickSelection` | definitions of tags; branches and counters of the panel |
| `Users`, `UserQueries`, `MailboxImport` | accounts; saved queries; uploads and imports |
| `Office`, `MCOffice` | these seven side by side; their constants |
| `OfficeProofs`, `AccountProofs` | theorems about `Office`: the mailing window and the saved queries; the accounts |

How they compose.  `TransactionHandlers` composes `PgSession` with the code of `Handlers` (its
constant `Program`).  `BackgroundQueries` composes the pool with its three kinds of users and their threads.
`ListWindow` and `SegmentPaging` share the interface of a
fetch: `ListWindow` decides that one fetch runs at a time and where its
results go, which is why a fetch is one step in `SegmentPaging`; the latter
decides what the results and the two flags are, which `ListWindow` leaves
free.  `StatusTracking` takes from `ListWindow` that nothing else can be done
in a window that fetches, and from the transaction modules that a handler's
update is done or not done; so do the dialogs that save, each of whose transactions is one
step which may fail, where the failure in the middle is in `Handlers`.
`SelectionDialog` leaves its thread to `BackgroundQueries`.  `MailingWizard` composes the CSV
machines with the pages.

The other parts share no state with each other.  `Desk` and `Office` put them side by
side, so that one run explores them all: the variable `part` says of which one a behaviour is, the variables of the
others stay 0, `Init` and `Next` are the disjunctions, and each property is that of its part
(`part = "queries" => Queries!CacheMatchesTable`).  The state space is the disjoint union
of theirs.  Two parts that call different things by one name get it renamed (`INSTANCE ... WITH`).
### Transactions

A *function* of `Handlers` is a map from blocks to instruction sequences: its
body, and one block per kind of exception it catches.  The instructions are
the calls that matter: `begin`, `commit`, `rollback`, `sql` (a statement that
throws on error), `quiet` (one whose error nobody looks at), `alert` (the
modal error dialog), `events` (`processEvents`), `goto` (a condition on data
that the model does not keep, so any of its outcomes), `call`, `return`,
`throw`.  Keeping code as data has two advantages: the interpreter is written
once, and the theorems hold for every program, not only for this one.

The count and the server are separate in `PgSession`: only the step between 0
and 1 reaches the server (`db.cpp:557-584`), the server goes to "failed" when
a statement of a transaction is refused, COMMIT is then a rollback, and
`end_transaction` stops the program when the count goes below zero.  `kept`
and `lost` remember whether any change of the present top level transaction
became durable or was refused.

Faults: `"sql"`, a statement is refused; `"commit"`, a COMMIT is; `"lost"`,
the session ends.  Bounds: `MaxFrames`, frames on the stack (12: the deepest
chain of calls is five, and two handlers are nested at most); `MaxCount`, a
handler is started by an event loop only while at most one begin is open (1: the
count of a leaking handler would grow for ever); a handler that interrupts
another one is not interrupted itself (`Interrupting`).  The theorem
`Balance` holds for all values of the first two.

### List window

The window's pointers (`m_qlist`, `m_filter`, `m_msgview`) are one variable,
`win`, and the list's current page another, `cur`, since the code updates
them at different places.  `dest` and `loading` are the members that the timer
reads when it finds the thread finished.  `saved` is what
`enable_interaction(false)` recorded.  A query is a model value; what matters is
whose results are shown.  Bounds: two queries are enough for "the wrong one",
two pages for "the other one", and a third set of widgets for a page that is
being opened.

### Segments

A message is its id and one of two dates, so that equal dates occur at
boundaries.  Rows are compared as PostgreSQL does.  `Init` takes a segment size `N` from `Sizes`: four messages give
four segments of one, or two of two, a last one that is full or, after a change, short, in both orders; two changes
(messages that come, go, or are removed from the list) fall anywhere between
the fetches, enough for all of a segment to go.  `stable` and `seen` are the history that the properties
are about, and `emptied` says that a previous segment was asked for when nothing was left of it:
it gets empty bounds, and what follows is listed under the divergences.  The theorems remove the bounds.

### Status

A world record holds the database and what the program knows of it, since one
handler of the user interface passes through all of it (selecting a message
refreshes it, marks it as read, writes, updates the cache and the counters).
Handlers are written as functions from worlds to sets of worlds and composed
as the code composes them.  `doubt` names the messages for which an update
has failed, or whose notification was overtaken by a fetch, since the counters
were last read: the properties about counters leave these out, and the list of
divergences below says what goes wrong with them.  What a loop of the code does to
one message after another is done to all of them at once, since each turn of it touches its own
message only.  Two messages, one read before the program starts and one new, and two pages in one
window.  The bound `Failing` lets an update fail when no earlier failure is outstanding, no mail is on
its way, there are counters and one page at most lists something.  `StatusProofs` removes the
bounds on messages and pages; it is about this same definition of when an update may fail.
Pages are interchangeable, so that they are declared
symmetric; no liveness is checked there.

### Connections and threads

`pool` is `m_cnx_list` with its flags, `cnx` the connection that each `fetch_thread` object
points to, `runner` the thread with the slot it was started on.  A client is a list window, a
selection dialog or a test of a filter; the three take and give back by different code: the
window's timer releases, the dialog's `timer_done` does and its `cancel` does not, the test's
`end_test_requested` does while the thread may still run.  Starting a thread that runs does
nothing, as in `QThread::start`.  Fault sets: none, or `"logon"` (a connection is refused) with
`"lost"` (a session ends); the set is chosen in `Init`, so that one run has both.  Bounds: two
connections, one client of each kind: one connection too few for all of them, so that the pool
runs out, and two for the lending of one to the wrong client.

### Searching

A message is what clauses look at: bits, a day, addresses by type, tags, a sequence of words
and delimiters, other conditions as a set.  `SearchBar` runs `parse_search_string`'s automaton symbol by
symbol on what is typed token by token; the reference (`Asks`) is the meaning of each token.
A run of letters is one symbol.  `SelectionDialog` keeps the widgets and their signals (dates and
check boxes change each other), the filter that outlives a query, cancelling, and the dialog shown again
on a page's filter; a text with an operator stands for those that `parse_search_string` makes of the field "Contains".  Three tokens give each operator before and after each other; the days are those
before, on and after the boundaries of `date`, `before` and `after`.

### Message tree

`kids` is the model's rows.  `make_list`, `complete_thread`, `remove_msg`, `select_msg`, `sort` and
`toggle_threaded` are actions, over the helpers `insert_list`, `insert_sub_tree` and `reparent_msg`; the rows of the segment selectors are
the numbers -1 and -2.  Three messages in a chain of replies: a parent, a child, a grandchild, each of which
comes in any fetch or not at all.

### Composer

A text is the number of its last edit with the signatures in it, which is what switching editors may
lose.  `ComposerText` has the two documents, the source editor above one of them, the external
editor's file, the marked paragraph of the signature, whether there is text under the signature and inside that
paragraph, and the flags that closing reads.
`slip` notes that an editor was left aside with changes, that the format on display was chosen again over an edited text, or that
the identity was changed with text in the marked paragraph (those behaviours are listed as divergences and not
followed).  `ComposerSend` has the header lines (a new one comes with the addresses of the message's `To`), the list of files, the local image that becomes a
content-id, `check_validity`, and the store, which may fail and be repeated and which processes events.
Two editors, two attempts and two edits let each copy be older than the other.

### Filters

`FilterRules` has the table, the rules in memory, the rows with their numbers, the column they are
sorted by, and the rows of actions with the pointers they hold; a moved rule gets an order between
those of its neighbours, a new one goes last, deleting renumbers.  `FilterEval` translates the evaluator: operator priorities, the
stack, functions of no argument and one, conditions that name others; the reference (`Means`)
derives the text by a grammar.  Every text of up to five tokens of three keyboards is evaluated.

### Mailings

The CSV machines of `TextMerger` are folds over characters and separate the first line, from
which the separator is learnt, from the data.  `MailingWizard` has the pages in both directions: what each page's
`validatePage` and `initializePage` read and write of `m_options`, what the pages keep when the user
goes back, the previews, what `launch_mailing` stores and what `load_definition` reads back.  The bound
`MaxBacks` (1) lets a source be chosen, parsed, left and replaced by another.
`MailingWindow`: two mailings, the server, and other clients between two refreshes.  `viewed` holds the mailings whose entry
View has loaded since it was last displayed: their `m_status` is 0 in `m_mailings`, whatever the row and the button say, and
`WindowAgrees` leaves the status of these out (`AgreesWhenViewed`, among the divergences).

### Tags

`TagsDialog` keeps the table, the repository, the tree of the dialog with temporary negative numbers, the
set to delete, and the box beside a message.  One action is the whole of OK: the removals and the statements in order, one of
which may fail, the translation of numbers, the reset of the repository and the signals.  `QuickSelection` keeps a counter per
branch and the messages in memory, single and batched toggles; `slips` names the steps
after which the code is known to miscount (each has its formula and row below), so that the
property says all other sequences are right.

### Accounts, saved queries, imports

`Users` has the catalogue of roles and the table `users` as two functions, a form for each dialog and the
three caches.  The right to connect is the server's: own, of a superuser, of PUBLIC (`PublicConnect`) or of a group (`Inherited`),
while the dialog grants and revokes the own one only.  OK is one action: rename, password, registration, databases, groups in the order of the
code.  `UserQueries` has the table, the map, and the items of each panel.  `MailboxImport` steps through
an upload line by line; between two lines anything the user or the server may do can happen, in the
upload's transaction when it is this program.  Another client changes the accounts once, and the saved queries once:
a second change would meet the same stale copy.  Imports are started, stopped or purged twice, here or
elsewhere.

### Preferences

The three tables, the map in memory, and the dialog: its list of identities, which of them is current,
the box of addresses, the fields on display.  Each signal handler is one action, and OK the whole of `done`:
`meant` is the history of what the user saw (identities in the order of the box, the one shown, the
default one), `base` that of the settings first shown, `before` the tables when OK was clicked.  Each of
the three transactions may fail, that of the identities after some of its statements, and OK may be
clicked again.  Two identities, three edits, one other client; a setting stands for all those that have
a widget with a choice.

## Runs

| Run | Module | Checks | Size |
|---|---|---|---|
| `tx_disciplined` | MCTransactionDiscipline | `IndInv` for the twenty-two functions that have a typing, statements failing; the timer inside their dialogs, incorporating new results; the assumption `HonestCode(HonestRoots)` | 823 states |
| `tx_honest` | MCTransactionHandlers | `SuccessIsDurable`, `Balanced`, `NoAbruptEnd` for the sixteen of them that look at what their calls return | 467 states |
| `tx_atomic` | MCTransactionHandlers | `TypeOK`, `AllOrNothing` for all thirty-three, all faults, one started while another processes events in the middle of its transaction | 70,000 states |
| `tx_recovers` | MCTransactionHandlers | `SessionRecovers`, session lost anywhere | 319 states |
| `bq_fetch` | BackgroundQueries | `OrderlyThreads`, `ConnectionsComeBack`, and `LendsConnections`: the pool implements `ConnectionLeases` | 42,000 states |
| `lw_any` | ListWindow | `TypeOK`, `PointersAgree` with dialogs, refused queries, failing connections | 750,000 states |
| `lw_returns` | ListWindow | `ShownMatchesFilter`, `InteractionPaired`, `ListsUsable`, `InteractionComesBack` with failing and aborted queries | 320,000 states |
| `sp_paging` | SegmentPaging | `TypeOK`, `NothingSkipped`, `EndMeansAll`, `Aligned` | 576,000 states |
| `st_counts` | MCStatusTracking | `TypeOK`, `CountedRight`, `ListsRight`, `NoBitLost` | 1.4 million states |
| `st_lost` | MCStatusTracking | `NoBitLost` with two windows: violated, see the divergences | |
| `desk` | MCDesk (`Desk`) | `TypeOK`, `SelectsAsAsked` (search bar and selection dialog), `SentAsComposed`, `StoredIsWhole`, `TreeOfReplies`, `RulesSavedAsShown`, `EvaluatesAsWritten`, `PreferencesSaved` | 847,000 states |
| `office` | MCOffice (`Office`) | `TypeOK`, `MailingAsPrepared`, `WindowAgrees`, `TagsAgree`, `QuickCounts`, `AccountAsEdited`, `UploadIsWhole`, `CacheMatchesTable` | 469,000 states |

Deadlock is checked except in `sp_paging`, `bq_fetch`, `desk` and `office`: there the
bounded steps of the user may be used up, and a program that has stopped or a text that has
been sent has no step.  The other modules have a step `Ended`
for a program that has stopped.  `desk` has a state constraint, `NoSlip`: it does not continue
behaviours of `ComposerText` and `Preferences` that are past one of the steps noted in `slip` and
`slips`, since their properties say nothing of these.

Where a property is stated *except after* a named step (`slips`, `doubt`, `strayed`, `emptied`, `Leftover`, ...), the code is known
to go wrong after that step: the module has a formula without the exception, or for that
exception alone, which is violated and is listed under the divergences.

**Fairness.**  `FairSpec` of `TransactionHandlers` says that the running handler goes
on (weak: the main thread is running code, and somebody answers a modal dialog)
and that the timer's ping of a lost session runs if Qt returns to an event loop
again and again (strong: `startTimer` with a fixed interval; a repeating timer is
served whenever the loop runs), **where the setting `fetch/auto_refresh_messages_list` is not 0** and the
refreshes that are due do not all find a query running in the window (`msg_list_window.cpp:3743-3745`).  The
setting is the constant `AutoRefresh`; it has no default value (`app_config.cpp:27-52`), and where it is 0
`Timer` is never enabled, `FairSpec` asks nothing of it and `SessionRecovers` claims nothing: a lost session then comes
back only through an error dialog (`SessionReturns`, among the divergences).  `FairSpec` of `ListWindow`: the fetch thread is
scheduled, the 200 ms timer fires, a download ends.  `Spec` of `BackgroundQueries`: each thread
that was started goes on until it ends (weak: the scheduler of the system), and the timer that polls it fires
(weak).  Nothing is assumed of the user, nor of faults: `ConnectionsComeBack` is about behaviours whose
fault set is empty, which `Init` chooses.

**Where the fair runs differ from the others.**  `tx_recovers` uses functions
that come to an end while the session is down; loops that swallow an error per
iteration are in `tx_atomic`.  The functions of `tx_disciplined` and `tx_honest` process no events
while they work, so that only the timer and the dialogs interrupt them there; functions that
do (uploads, downloads, imports, exports) are in `tx_atomic`, and in the theorem for any code.  `tx_honest` leaves out the handlers in which a nested
function reports the failure and the caller goes on (`remove_batch`, `set_tag`,
`msg_untrash`, `tags_dialog_ok`, `properties_ok`, `user_edit_done`):
one of them, `msg_untrash`, is among the divergences.

## Proofs

`TransactionProofs` proves, for **every** program, set of roots, bound and fault
set that satisfy the assumptions of `TransactionHandlers` (instructions have targets
inside their block; functions that are called exist):

* `TypeCorrect == Spec => []TypeOK`.  `TypeOK` is not inductive: a return needs to
  know that the frame below stands at a call, and a catch that the frame has a
  block.  The strengthening is `StacksOK`, every frame but the last waits at a call
  or an event loop, split from `SessionOK`, the session's part; each instruction
  preserves each of them.
* `Atomicity == ~AutoIncorporate /\ Spec => []AllOrNothing`.  The induction goes through
  `AtomicInv` (in `TransactionHandlers`): while begins are counted nothing has been kept,
  and once a change is lost the server refuses what follows or the session is gone.
  It needs no assumption on the handlers: half a transaction is impossible however
  badly they behave, *unless* lists incorporate new results by themselves, which
  sends BEGIN and END past the count (see the divergences below).

It also proves, for every program that has a typing (`WellTyped`,
which TLC evaluates for the code of `Handlers` whenever `tx_disciplined` runs), all bounds,
with `AutoIncorporate` either way, and statements failing anywhere (`Faults \subseteq {"sql"}`):

* `Typing == Faults \subseteq {"sql"} /\ Spec => []IndInv`, and from it
* `Balance == Faults \subseteq {"sql"} /\ Spec => []Balanced`: every function hands the count back as it found it;
* `NeverStops == Faults \subseteq {"sql"} /\ Spec => []NoAbruptEnd`: neither `end_transaction` nor an exception that
  nobody catches ends the program;
* `Durability == Faults \subseteq {"sql"} /\ HonestCode(Roots) /\ Spec => []SuccessIsDurable`: when a handler that keeps a second
  discipline has said that it succeeded, nothing it had asked for was refused or rolled back.

`Balanced` is not inductive: whether a return finds the count it started from depends on
every begin and end since, in nested functions and in handlers that an event loop started
in between.  `IndInv` counts them frame by frame: each frame's `base` is the base of the
frame below plus the begins that one holds where it waits (`Waits`), the running frame's
base plus what it holds is the count, and an exception on its way finds what its catch
clause expects, or nothing held if it leaves the function (`TopOK`, `MayRaise`).
`ServerOK` is needed since only the client's count says whether COMMIT can fail.  The argument
then is type soundness: one lemma per kind of instruction (`TransactionStep`, `StatementStep`,
`CodeStep`, `ReturnStep`, `UnwindStep`, `LoopStep`), over lemmas on stacks (`ChainReplace`,
`ChainPush`, `ChainPop`).  
`Durability` does not hold of every well-typed program: `msg_untrash` balances its count and reports success for what the server
refused.  `HonestCode` is what the sixteen functions of `HonestRoots` do and it does not: `Clean` marks the instructions reached
with nothing lost on the way, a mark that no rule makes true but the start of a function and that a catch clause, a rollback,
a dialog, a statement whose error nobody looks at and a call whose answer does not tell a failure take away; only a marked
instruction may return TRUE to the event loop, unless the function begins nothing (`Silent`).  TLC evaluates
`HonestCode(HonestRoots)` for the code of `Handlers` whenever `tx_disciplined` runs (`HonestAssumption`).
`HonestInv` is the invariant: at marked instructions of *all* frames of the stack, once something may be in the transaction, the server has
neither refused nor discarded anything (`Settled` in the proof); and a success is told only with no begin open.  It is proved
on top of `IndInv`, which gives that the count is zero when a root function returns.  A handler that
calls `processEvents` inside its transaction is outside of the discipline: another one could report success for a change
that the first one then rolls back.

The restriction on faults is real: a refused COMMIT or a session lost
at a begin does stop or unbalance this program, see the divergences.  The eleven functions of
`LeakyRoots` have no typing; four of the divergences come from them.

`LeaseProofs` proves, for every set of clients and number of connections:

* `PoolIsRight == Spec => []LeaseInv`;
* `Threads == Spec => []OrderlyThreads`: no two threads of list windows and selection dialogs use one
  connection, and `idle` answers no while one of them runs;
* `Lending == Spec => Leases!Init /\ [][Leases!Next]_(Leases!leaseVars)`: the safety part of the refinement,
  each step lends, gives back, loses, ends the program, or is a stutter.

`OrderlyThreads` is not inductive: that two threads are on different connections follows from what
their owners hold, and the owners' differ because a slot that is lent is flagged.  `LeaseInv` is
`PoolOK` (the flags agree with the holders, of whom a connection has one at most, and a forgotten
connection has none) and `RunsOK` (a thread of an orderly client runs on what its owner holds).  It says
nothing of the threads of filter tests, for which it would be false: see the divergences.  There is
one lemma per way to change the pool (`TakenKeeps`, `ReleasedKeeps`, `ForgottenKeeps`, `SamePool`), one per abstract
step (`TakingIsTake`, `ReleasingIsGiveBack`, `EndingIsEnd`), and one per action.  The refinement maps `cnx` to
`lease`, `forgotten` to `lost` and `ui` to `program`.  That list windows give back what they borrow, the
fairness part, is checked by `bq_fetch` only.

`OfficeProofs`, `DeskProofs` and `AccountProofs` are about the specifications of `Office` and of `Desk`, each theorem about the
property that the run checks, for the part that it speaks of, with the part's type invariant beside it.

`OfficeProofs` proves, for every set of titles and of texts, one panel and a table whose titles are unique:

* `MapIsTable == Spec => [](CacheMatchesTable /\ (part = "queries" => Queries!PanelsAgree))`:
  until another client changes the table, the map that is written by hand beside each
  statement is what `fetch` would read again.

`CacheMatchesTable` is not inductive: a rename updates the row of the title that the box was opened with, and adds
the new title to the map whether there was such a row or not.  `QueriesInv` adds that the panel shows the map, so
that a box is opened on a query that exists (`Mirror`), and that a map which has not been read is empty.
There is one lemma per way to write the map (`InsertAgrees`, `ReplaceAgrees`, `RenameAgrees`, `EraseAgrees`), which says
that the rows of the map change as the table does.  Both assumptions are needed: see the
divergences with two panels and with titles that are not unique.

And for every set of mailings and every number of messages of a job:

* `OneStoryTold == Spec => [](WindowAgrees /\ (part = "mailings" => Window!TypeOK))`: whatever the server, the
  wizard and other clients do between two refreshes, each row shows the entry that `start_stop` will look at, and the
  button what it will do, but for the status of a mailing that View has loaded since.

Nothing in `WindowAgrees` says that the current mailing is in `m_mailings`, which `start_stop` reads without a test.  `WindowInv`
adds it: the current item is a row or nobody (`OneStory`), and rows are entries.  It does not say that entries are
rows: `m_mailings` keeps the mailings that have been deleted.  There is one lemma per way to change a table, and
one per action; what happens elsewhere takes one for all (`OutsideKeeps`).

`AccountProofs` proves, for any roles and operators at the start, logins, names, passwords, abilities and number of changes, here and by
other clients:

* `AccountsAsShown == Spec => [](AccountAsEdited /\ (part = "users" => Accounts!TypeOK))`: when the dialog of an account
  closes on OK, the server and the table of operators are as the form showed, unless another account or operator has taken
  one of its names (`heir`).  Whether it may connect is as the form showed, or it may in any case (`ConnectsAnyway`: a superuser,
  PUBLIC, a group).

`AccountAsEdited` speaks of one state, the one after OK, and of statements that find the account in different ways: `ALTER` and `GRANT` by the name
that the form was opened with, the memberships to compare with by oid, the operator by its id.  That these are one account takes
`AccountsInv`: names are distinct and no role is a member of itself (`IsRoles`); an operator whom a form holds is in the table;
an oid that a list or a form holds, of a role that may be gone, is not given again to a role of the other kind (`SelectedInv`, `FormInv`); and
the account's name is none of the groups that the form lists, without which a statement that finds the account by its name could be about a group.
`SomeLast` gives a new oid (the largest of a finite set of numbers, from the well-foundedness of strict inclusion), and `RoleIsFinal`,
`MembershipsSaved`, `OperatorSaved` say what the statements of OK leave.  The assumptions: the tables at the start are such as
the server can hold, and no login is empty.

`DeskProofs` proves, for any identities and number of edits, then for any fields, addresses, files, lines and attempts, if there is a field `To`:

* `LastTextSent == Spec => [](SentAsComposed /\ (part = "text" => Text!TypeOK))`: through changes of
  format, identity and editor, templates and inserted files, what is sent is the last text, signed by its sender or nobody,
  unless the user sends while another editor is open, has chosen the format on display again over an edited text, or
  has changed the identity with text in the marked paragraph (`slip`; the divergences show what happens then);
* `StoredAsAsked == Spec => [](StoredIsWhole /\ (part = "send" => Send!TypeOK))`.

`SentAsComposed` speaks of a message that has been sent, hence takes an invariant of the window before.  `TextInv` says where the
last text is: in the source or the external editor while one is open, never both, and in what is
shown when none is (`Kept`).  A signature on a page must be in the paragraph that is marked as one, since that is all that a change of
identity rewrites: the two formats need different invariants (`SignedText`, `SignedPage`, `SignedFile`), related by the
conversions (`Conversions`, `HtmlizedIsSigned`).  For `StoredIsWhole`, `SendInv` says that `m_msg` answers what the window
showed when the attempt began, while a single store reads it.  Send called again inside of a store clears a list that is being
iterated on: the model stops there (`"freed"`), and nothing is claimed of what follows.

It also proves, for any messages, status bits, further fields and texts of the selection dialog:

* `DialogSelectsAsShown == Spec => [](part # "bar" => SelectsAsAsked /\ (part = "select" => Select!TypeOK))`: what OK selects is what the
  widgets say, and the dialog opened again on the filter of a page, and left as it is, selects the same messages, unless an earlier query of the same
  dialog left something in the filter (`Leftover`) or a range has no bound (`BoundlessRange`).

A filter is written in three places and read in a fourth: `Copied` says what it has of the dialog while a query runs, field by field, the bounds and the operators
with a minus sign being the ones that an earlier query may have added to (`ToFilterCopies`); `SameSelection` compares the clauses of `build_query` with the
widgets; and since opening the dialog sets the boxes and the dates through widgets whose signals change each other (`SetDateMoves`), the order in which
`filter_to_dialog` does it is the matter of `ShownDates`, from which `RefinedIsSame`: the same filter comes back.  The search bar, the other half of
`SelectsAsAsked`, is an automaton over the characters of the text and stays with TLC.

`ListProofs` proves, for any number of pages `l` that does not change, and everything else that may happen in
`ListWindow` (dialogs that deliver results on their own, failures, progress bars):

* `Pointers == Limits = {l} => (Spec => []PointersAgree)`.  `add_msgs_page` moves the window's pointers before it knows
  whether there will be room for the page.  That there always is takes
  three lemmas on the sequence of pages (`CutKeeps`, `FreeKeeps`, `AddPageKeeps`), and a pigeonhole
  argument (`SomeUnused`): as one set of widgets more exists than pages are kept, the new page gets one that no page has.

It also proves, for any queries, any number of pages and queries that are refused, fail or are
aborted, without selection dialogs, progress bars and lost sessions (`Orderly`):

* `ResultsFindTheirPage == Spec => []ShownMatchesFilter`, `Paired == Spec => []InteractionPaired`,
  `NoListStaysDead == Spec => []ListsUsable`: what `lw_returns` checks but for its liveness.  The three are
  conjuncts of one argument, `WindowInv`: while a thread works or
  its results wait the window is disabled, and the thread's query is the one that the page in `dest` has asked for (`FetchRight`); what is
  recorded is the enabled state (`SavedRight`); and every page would be usable and right
  if the current one's list were enabled (`PagesGood`), which no step but the timer's and the end of a
  download makes so.  None of the three can be proved alone: it is because the window is disabled that the current page is still
  the one that asked.  The divergences say what a
  dialog, a progress bar, a lost session and a setting that is lowered each break.

And with everything that `Orderly` leaves out (selection dialogs, progress bars, lost sessions):

* `TypesKept == Limits = {l} /\ "none" \notin Queries => (Spec => []TypeOK)`.  The typing needs `TypesInv`: `timer_func`
  writes into the page that `dest` and the current pointers lead to, so that a page in the list must be filled
  (`Filled`: its widgets are not those that `delete_page` left), a thread at work must have a query and so must
  results that wait (`FetchTyped`, `RequestTyped`), and `PagesInv`, the invariant of `Pointers`, says that the pointers lead
  to pages in the list.  `"none"` is the model's name for a page without a query, which no query may have.

`SegmentProofs` proves, for any finite set of messages, dates, sizes of segments and number of changes:

* `Paging == Faults = {} => (Spec => []NothingSkipped)` and `LastSegment == Faults = {} => (Spec => []EndMeansAll)`:
  while no query fails, going through the segments in any way jumps over no message that has matched all along,
  and the last segment is the last, until a previous segment is asked for when all of it has gone;
* `PagesAreExact == Faults = {} => (Spec => []Aligned)`: while no message comes or goes either, whatever way was taken
  through the segments, what is shown is exactly one of the pages that the sorted list is cut into, and the flags
  for the first and the last segment say the truth;
* `TypeCorrect == Spec => []TypeOK`, whatever fails.

`NothingSkipped` is not inductive: `SegmentInv` adds that the two bounds of the segment are keys of
messages which come before all stable ones not yet seen (`BoundsAgree`).  Under it is the theory of
a limited, ordered query: the order is strict and total (`FetchIsOrder`); a set of messages has a first one
(`SomeFirst`, from the well-foundedness of strict inclusion of finite sets); what the limit keeps comes before what it
drops (`FirstComeFirst`, `StoredComeFirst`), and one row more than a segment tells whether there is more
(`NoMoreMeansAll`).  The bounds of a segment depend on the direction and on the order, which `BoundsOfDirection` makes
one case of two (before the segment, after it); then there is one lemma per way to fetch.

`Aligned` compares the bounds and flags with a definition of the pages that does not use them, and takes
another invariant, `AlignedInv`: the segment is a `Cut`, a page whose two bounds are the keys of two of its own messages, its
extremes.  The bridge is the rank of a message, the number of those before it.  Ranks follow the order
(`RankFollows`) and each number below the size is one (`RankOnto`: an injection between finite sets of one size is onto), so
a page is an interval of ranks (`SliceIsRanked`), and what a limited query gets of what is beyond a bound is the next
interval (`FirstFrom`, `FirstBack`).  That the query for N + 1 rows comes back with more than N exactly when there is
a page more (`ForwardCut`, `BackCut`) makes the flags exact; `OpenCuts`, `NextCuts`, `PreviousCuts` and `RefreshCuts` are
the ways to fetch.  Both assumptions are needed: see the divergences for a query that fails and for messages that go.

`StatusProofs` proves, for every number of messages, pages, filters and initial statuses (`Sole` restricts three
things, each of which some divergence shows to be needed):

* `CountersAreRight == Sole => (Spec => []CountedRight)`: the cache and the counters, kept by hand beside each statement, agree
  with the database about each message that is not in doubt;
* `ListsAreRight == Sole => (Spec => []ListsRight)`: a message selected alone has in its list the database's status, and a
  deleted one is in no list, cache or counter;
* `NoBitIsLost == Sole => (Spec => NoBitLost)`: only `msg_untrash` takes a bit off a status in the database;
* `TypesKept == Spec => []TypeOK`, without `Sole`.

`Sole` says: one window (two lose bits, run `st_lost`, and store results that were read before a change); no query fails (a
refresh that fails leaves a stale copy selected, though updates may fail); no message
that was sent from here is left in the folder (the counters treat it in two ways).  None of the three is
inductive.  `StatusInv` is their common strengthening:
what is listed is in the database and below the high water mark, and a list only adds bits to what it remembers (`Lists`),
cache and counters know nothing that the database does not (`Forgotten`), they agree with it (`Right`), and, in the window,
either a fetch runs and what it has read is still true (`StillTrue`), or the message selected alone is fresh (`Fresh`).  The
invariants must be proved together: a bit is not lost because the copy that is written is fresh; it is fresh because
`mails_selected` refreshes the page each time the selection or the page changes, and because nothing is done
elsewhere meanwhile; the counters are right because the status that is told is the one written.
A command is a composition of operations on worlds, and so are its lemmas: for each operation what it does
(`UpdateDoes`, `ChangedDoes`, ...), that it keeps types (`...Typed`), and what it does to one message and leaves to the others
(`...At`, `...Sound`); for each command, one lemma that composes them (`ArchiveKeeps`, `TrashKeeps`, `UntrashKeeps`, ...).

What the proofs take from TLC's runs: nothing; the runs found the invariants.

What stays model-checked only, and why:

* the liveness properties (`SessionRecovers`, `InteractionComesBack`, `ConnectionsComeBack`, the fairness of `LendsConnections`):
  TLAPS 1.4.5 reasons about neither fairness nor `ENABLED`;
* the typing of `Handlers` itself, which `MCTransactionDiscipline` computes with recursive operators and TLC checks against `WellTyped` and `HonestCode`;
* what automata, folds and recursive functions compute: the search bar's half of `SelectsAsAsked`, `EvaluatesAsWritten`, `MailingAsPrepared` (CSV),
  `UploadIsWhole` (mbox lines, and a transaction that is the fold of its writes), `TreeOfReplies` (sub-trees), `TagsAgree` (a hierarchy walked to
  its root, tags stored in the order of their depth), `QuickCounts` (counters that are folds over batches).  Each would take an induction over data, and the library's
  induction theorems take an operator as a parameter, which these provers cannot instantiate;
* `RulesSavedAsShown`, whose order is that of a sort, and is kept by halves of intervals, which run out after enough moves (the model's at 1/16, the table's at the
  precision of a float), so that it does not hold for every number of changes;
* `PreferencesSaved`, whose three transactions and list of identities are written with choices from sorted sets;
* `TypeOK` of `Desk` and of `Office` as wholes: six of the fifteen parts have theirs in the theorems above.
## Where the code differs from what it says

Most of what was expected of the code holds.  What does not is listed here.  One of these,
`st_lost`, has a run of its own, expected to end in a counterexample; the others
are seen by checking the named formula, which is left in its module (a property of a run has the
same name there), under the constants given; those not given are as in the run named in the title.
Formulas of the parts of `desk` and `office` are checked as `Text!AsksBeforeLosing` and the like, and,
in `desk`, without the constraint `NoSlip`.

### Transactions (constants as in `tx_atomic`)

| Formula | Constants | What happens |
|---|---|---|
| `Balanced` | `Roots = {"fetch_raw"}`, `Faults = {}`, `UserEvents = FALSE` | `mail_header::fetch_raw` returns between begin and end when the raw message is not there (`mailheader.cpp:511`). Each later transaction of the session is nested in one that nobody commits. |
| `NeverFatal` | `Roots = {"trash_one"}`, `Faults = {"commit"}` | `commit_transaction` decrements before it sends COMMIT; when that is refused, the caller's catch clause rolls back, the count goes to -1 and `end_transaction` exits the program (`db.cpp:516-523`, `568`). |
| `NeverFatal` | `Roots = {"get_contents"}`, `Faults = {"sql"}` | `attachment::get_contents` reads before it begins, in the same try block (`attachment.cpp:400`): an error of that read exits the program. `open_lo` has the same shape. |
| `SessionRecovers` | `FairSpec`, `Roots = {"update_identities_db"}`, `Faults = {"lost"}` | `in_trans` is set after the begin has returned (`preferences.cpp:1383`); when it throws, the begin stays counted and `ping` answers yes for ever (`db.cpp:427`), against `NEWS:128`. |
| `SessionReturns` | as in `tx_recovers` with `AutoRefresh = 0` | "automatic database reconnection" (`NEWS:128`): `timer_func` pings only when `fetch/auto_refresh_messages_list` is not 0 (`msg_list_window.cpp:3745`), and it is not set by default. |
| `AllOrNothing` | `Roots = {"send_message"}`, `Faults = {"sql"}`, `AutoIncorporate = TRUE` | `msgs_filter::fetch` sends BEGIN and END as plain statements (`selectmail.cpp:1135`): run by the timer while an attachment is uploaded, it commits half of a message. |
| `SuccessIsDurable` | `Roots = {"msg_untrash"}`, `Faults = {"sql"}` | "database error in status update should have thrown an exception" (`msg_list_window.cpp:1309`): `mail_msg::untrash` catches it. The message leaves the list and stays in the trash. |
| `ErrorsAreShown` | `Roots = {"open_attachment"}`, `Faults = {}` | `download` "may emit an app_exception" (`attachment_listview.cpp:99`); the caller at line 262 does not catch it, and it ends the program. |

### List window (constants as in `lw_returns`)

| Formula | Constants | What happens |
|---|---|---|
| `InteractionComesBack` | `Queries = {"q1"}`, `Faults = {"build"}` | `asynchronous_fetch` answers 0 or 2 (no such address, say) after interaction was disabled: no thread will end and nothing enables it (`msg_list_window.cpp:2585`). |
| `ResultsAreUsed` | `Queries = {"q1"}`, `Faults = {}` | Nothing assigns the destination `extend_current_page` (comment at `msg_list_window.cpp:3693`): what "More results" fetches is dropped. |
| `ListsUsable` | `Bars = {TRUE}` | With a progress bar, the widgets are restored after the results have opened a new page (`msg_list_window.cpp:3725`): the old page's list stays dead. |
| `SegmentMenuFits` | | `change_page` does not call `enable_segments` (`msg_list_window_pages.cpp:35`). |
| `PointersAgree` | `Limits = {2, 3}`, `Ids = 1..4` | When the limit of pages was lowered, one page is freed and there is still no room: "OK, forget it" (`msg_list_window_pages.cpp:277`), but the pointers are those of the new page already. |
| `CancelledWasAsked` | `Faults = {"abort"}` | `m_cancelled` is never reset (`fetch_thread.cpp:151`): after one abort each query of the window ends as "cancelled". |
| `QueryErrorsAreShown` | `Faults = {"lost"}` | The constructor of `db_transaction` sends BEGIN before the try block of `fetch_thread::run` (line 119): a connection lost there ends the program. |
| `InteractionPaired` | `Dialogs = TRUE` | A selection dialog that adds a page while a query runs installs an enabled list; "only one state is recorded (no stack)" (`msg_list_window.cpp:2285`), and it is the wrong one that is restored (`2802`). |

### Segments (constants as in `sp_paging`)

| Formula | Constants | What happens |
|---|---|---|
| `NewMailIsNew` | | `check_new_mail` asks for one row more than the list holds, and after a change of segment for the next segment: old messages are announced as new mail (`msg_list_window.cpp:3607-3626`). |
| `EndIsSeen` | | Going back to a segment whose messages have all gone leaves valid, empty bounds (`selectmail.cpp:170`), and `to_timestamp('')` precedes all dates: newest first, the next segment finds nothing and is said to be the last. |
| `BeginningIsSeen` | | And going back from there shows the other end of the list. |
| `NothingSkipped` | `Faults = {"query"}` | A segment whose query failed leaves such bounds too: going back shows the other end of the list (`selectmail.cpp:470`). |

### Status (constants as in `st_counts`)

| Formula | Constants | What happens |
|---|---|---|
| `NoBitLost` | run `st_lost` | The other windows repaint their icon but keep their copy of the status; `change_mail_status` writes the whole of such a copy, and a message that was trashed elsewhere comes back (`message.cpp:790`). |
| `CountedRight`, `DeletedIsForgotten` | `Window <- TwoWindows`, `Faults = {}` | Results that were read before a change in another window are stored after it, in the cache and in the counters (`fetch_thread.cpp:40`). |
| `NewMailCounted` | `Faults = {}` | `db_new_mail_notif` asks for ids above a high water mark that results and sent messages raise too (`msg_status_cache.cpp:107`): a message read by a fetch before its notification is neither counted nor announced. The same goes for a message whose transaction commits after that of a higher id. |
| `CountedRight` | `Old <- SentStatuses` | "current (=NOT(sent OR archived OR trashed))" (`query_listview.cpp:512`); `mail_status_changed` (839) does not look at "sent". |

### SearchBar (`desk`)

| Formula | Constants | What happens |
|---|---|---|
| `FoundIsAsked` |  | The text of a phrase stays in curr_substr when the next one begins, so that the second phrase is looked for with the first in front of it; of two dates under one name only the last is used (`selectmail.cpp:294`). |
| `BoundaryIncluded` |  | The comment at selectmail.cpp:765 says "For date_before and date_after, the boundary is included"; before:yesterday finds the messages of yesterday, before:today does not find those of today (`selectmail.cpp:780`). |

### SelectionDialog (`desk`)

| Formula | Constants | What happens |
|---|---|---|
| `AlwaysSelectsWhatIsShown` |  | The filter of the dialog lives as long as the dialog: when a query is cancelled or finds nothing and another is asked, operators with a minus sign, which clear() does not remove, and the bounds of a range, which "today" does not reset, still apply (`selectmail.cpp:241`). |
| `RefineKeepsAnySelection` |  | Opening the dialog on a filter and pressing OK does not select the same messages when the filter is a range without bounds, since the signals of the widgets give it one, or has bounds left over (`selectmail.cpp:1718`). |

### ComposerText (`desk`)

| Formula | Constants | What happens |
|---|---|---|
| `AlwaysSentAsComposed` |  | The comment at newmailwidget.cpp:151 says "disable some actions while we're editing html source"; "Schedule delivery" is not disabled, and sends the page as it was before; insert_file, in HTML, inserts into the hidden plain document. |
| `FormatKeepsText` |  | Nothing stops the format that is shown from being chosen again: Format > Plain text in the plain mode replaces the typed text by that of the HTML page as it was left (an empty one, say), without a question unless that page is modified; HTML text does the same the other way (413) (`newmailwidget.cpp:392`). |
| `IdentityKeepsText` |  | The change to HTML puts all the text from the signature to the end in the marked paragraph, and a change of identity replaces that paragraph by the new signature (681): what was typed under the old one is lost (`newmailwidget.cpp:424`). |
| `AsksBeforeLosing` |  | closeEvent warns "The message you are composing in this window will be lost if you confirm"; setPlainText and setHtml, called by a change of identity or of format, by the source editor and by templates, clear the flags that it reads, and the window closes without a question (`newmailwidget.cpp:912`). |
| `EditableWhenIdle` |  | The comment in external_editor_cleanup says "re-enable actions disabled by launch_external_editor()"; setContentEditable(false) is undone by load_finished only, so that after an abort or an error the HTML page cannot be edited (`newmailwidget.cpp:892`). |

### ComposerSend (`desk`)

| Formula | Constants | What happens |
|---|---|---|
| `RetryKeepsImages` |  | Send replaces the references of the page by content-ids before the store, and rebuilds the attachments from the list view: the next attempt after a failure sends references without their images (`newmailwidget.cpp:1097`). |
| `CountedOnce` |  | mail_msg::store appends to m_tags_transitions, which nothing clears when the transaction is rolled back: the counters of the tags change twice when the second attempt succeeds (`message.cpp:1065`). |
| `SendOnce` |  | mail_msg::store calls processEvents while it uploads attachments and the window stays enabled: a second Send clears m_msg.attachments() under attachments_list::store, which iterates on it (`newmailwidget.cpp:1103`). |

### MailTree (`desk`)

| Formula | Constants | What happens |
|---|---|---|
| `RepliesUnderParents` |  | The comment at mail_listview.cpp:1331 says "build reparent_map: each existing item whose parent is missing in the view and is found in the new items"; only the rows of the top level are read: the replies that a removed message has left to its own parent stay there when it comes back (`mail_listview.cpp:1330`). |
| `SiblingsSorted` |  | The model is sorted, and insertion_point's binary search relies on it; remove_msg puts the children of a removed message in its place among its siblings, whatever their order, and reparent_msg appends (`mail_listview.cpp:527`). |
| `SelectorsAtEnds` |  | insertion_point's comment says that the command items "must be kept at their positions"; in a flat list, insert_list appends what complete_thread has found after the selector of the next segment (`mail_listview.cpp:1381`). |
| `ShownIsListed` |  | complete_thread adds messages to the list view and not to the page's filter: toggle_threaded, which inserts the filter's list again, forgets them (`msg_list_window.cpp:1583`). |

### FilterRules (`desk`)

| Formula | Constants | What happens |
|---|---|---|
| `NumbersFollowOrder` |  | delete_expr renumbers the items in the order in which the list is sorted: after a deletion in a list sorted by name, the numbers, and the moves made by them, are not the order in which the filters apply (`edit_rules.cpp:873`). |
| `ActionsShownAreSaved` |  | move_filter_action takes the action out of its QList and inserts a copy, but the row keeps the pointer to the former one: editing it writes to freed memory, removing it removes the row only (`edit_rules.cpp:1338`). |
| `OkChangesNothing` |  | filter_action::ui_text (filter_rules.cpp:107) reads "field:value" as the value to set; set_param takes the first word of the value for the operation and drops it, and the status letters that the list still shows (T, D) (`filter_action_editor.cpp:318`). |

### FilterEval (`desk`)

| Formula | Constants | What happens |
|---|---|---|
| `StackNeverEmpty` |  | inner_eval returns true without an operand when "not" follows a comparison (subject is not "x"): the operator pops two values where there is one, while the user types (`filter_eval.cpp:891`). |
| `ValidIsEvaluable` |  | The tooltip at edit_rules.cpp:1380 says "No error found in expression."; the arguments of date, now and age are looked at only when the expression is executed on a message (`edit_rules.cpp:930`). |
| `RegmatchesWhenFound` |  | regmatches_operator converts the position given by indexIn to a boolean: it is true when nothing matches (-1) and false when the match is at the first character (0); "=~" tests the position (`filter_eval.cpp:134`). |

### MailingWizard (`office`)

| Formula | Constants | What happens |
|---|---|---|
| `ViewedAsPreviewed` |  | The names of the columns are stored joined by commas and split at every comma, the first one becomes "email", and a file with one column is stored without names: the messages that View shows are not those of the preview (`mailing.cpp:142`). |
| `ListsCarryNoValues` |  | check_addresses_file and check_pasted_addresses leave csv_data and field_names of an earlier CSV file: going back and choosing a list of addresses stores its recipients with the values of others (`mailing_wizard.cpp:546`). |
| `PreviewHasValues` |  | With those stale values, and more recipients than lines, show_merge reads csv_data at an index outside of the list (`mailing_viewer.cpp:169`). |
| `HasFormatRequested` |  | The comment at mailing_wizard.cpp:1042 says "Check that the template has the format that the user requested"; with a saved template, the html part is not looked at when both parts are requested (`mailing_wizard.cpp:1035`). |

### MailingWindow (`office`)

| Formula | Constants | What happens |
|---|---|---|
| `AgreesWhenViewed` |  | View (mailing_window.cpp:305) loads the definition into the window's own entry, which sets m_status to 0, and displays nothing: the row and the button go on showing what the mailing was (running, say, and Stop), while start_stop reads not_started and starts it (`mailing.cpp:135`). |
| `NoJobOfPurged` |  | mailing.h:72 says "remove the mailing and all its data from the database"; its entry of jobs_queue stays, and Start on a mailing that another client deleted queues one (`mailing.cpp:243`). |
| `FinishedIsLast` |  | Stop sets the status without looking at it: a mailing that ends between two refreshes becomes stopped, and Start runs it again (`mailing.cpp:189`). |

### TagsDialog (`office`)

| Formula | Constants | What happens |
|---|---|---|
| `ParentsStored` |  | The comment says "the parent should be inserted in db already because we're scanning the tree from top to bottom"; a new tag that keeps its default name is not dirty and not stored: a named tag under it is stored with its negative number as parent (`tagsdialog.cpp:348`). |
| `HierarchyConsistent` |  | A removed tag takes with it the tags under it that the dialog shows; one that an identity hides (tagsdialog.cpp:127) stays without its parent, and the constructor then refuses the whole table as inconsistent (`tagsdialog.cpp:309`). |
| `SaveStoresTheRest` |  | The question says "There are unsaved changes. Save now?"; after one statement has failed, COMMIT has rolled back the tags stored before it, which are no longer dirty: Save stores the others only (`tagsdialog.cpp:174`). |
| `DeletedIsGone` |  | message_tag::remove (tags.cpp:344) catches the error of a refused DELETE and answers false, which ok only takes for "no update": COMMIT then rolls back every removal, and when no item is dirty closeEvent asks nothing and the dialog closes as accepted (`tagsdialog.cpp:337`). |
| `ChecksKept` |  | The comment says "reconstruct the tree, keeping the selection if possible"; a hierarchy found inconsistent empties the box, and the checks of the tags that remain with it (`tagsbox.cpp:196`). |
| `EveryPathFound` |  | hierarchy_lookup takes the first tag of that name and parent; the dialog checks names when one is edited (tagsdialog.cpp:208), not when a tag is dropped into a branch or another client has stored one (`tags.cpp:200`). |

### QuickSelection (`office`)

| Formula | Constants | What happens |
|---|---|---|
| `NewBranchCounted` |  | A tag checked on a message for the first time makes its branch and leaves the message counted in "Not tagged" as well; and when there was no untagged message at the start there is no map for them and none is ever counted (`query_listview.cpp:742`). |
| `BatchCounted` |  | With more than 20 messages selected, the counters are moved before the database is changed and the m_tags of the messages are never updated: those that lose their last tag are not counted as untagged (`msg_list_window.cpp:327`). |
| `BatchFiledCounted` |  | toggle_tags_set starts count_archived_assigned with the archived messages and resets it only when the tag is added (its TODO says "do not count trashed messages. Separate archived and non archived counts"): removing a tag from a batch adds to its archived counter (`message.cpp:488`). |
| `FailureNotCounted` |  | The result of set_tag is ignored: the counters move when the database has refused the tag (`msg_list_window.cpp:354`). |
| `AgainNotCounted` |  | An archived message that already has the tag is not given it again, and the archived counter goes up all the same (`msg_list_window.cpp:369`). |
| `NewUntaggedTrue` |  | A message that gets its first tag leaves the current "Not tagged" branch, and stays counted in the one of unread messages (`query_listview.cpp:728`). |
| `RemovalCounted` |  | Messages that lose their only tag because it is removed in the dialog are not counted as untagged (`query_listview.cpp:500`). |
| `NeverCrashes` |  | The box of tags shows those that an identity hides, add_current_tag does not find them in the tree and reads the null node (`query_listview.cpp:694`). |

### Users (`office`)

| Formula | Constants | What happens |
|---|---|---|
| `HeirAsEdited` |  | Nobody asks whether the table users still has an operator under the name of the new account (of one renamed or dropped in SQL): the account comes out registered, or with two operators. And when another account has taken the name while the dialog was open, OK alters that one, by its name, and grants it the groups that differ from those read by the oid of the first (`users_dialog.cpp:381`). |
| `ConnectionRemoved` |  | The notes say "Remove the permission to connect to each database: uncheck the "Can connect" checkbox in each database"; REVOKE from the login leaves what the account has from one of its groups, or (PublicConnect = TRUE) from PUBLIC, the default of the server: it may still connect, and the box is checked again when the dialog is opened (`users_dialog.cpp:1022`). |
| `RenamedWithPassword` | `MaxEdits = 5` | The message says "When changing the login, a password must be set simultaneously."; the test is on the text, the change on the box Change: unchecked again, it leaves the new login, and no password since the server has forgotten it (`users_dialog.cpp:335`). |
| `PermissionsAsChecked` |  | Abilities share privileges (object_permissions is in the database): one that is unchecked revokes what one before it has just granted, even when nothing was changed in the dialog (`users_dialog.cpp:674`). |
| `EmailKept` |  | The field of the email is not in the layout and is never filled: each edit of a registered account erases its email (`users_dialog.cpp:365`). |
| `SelectionKept` |  | The comment says "Redraw the groups list and re-select the previously selected entry if any"; the selected entry is read from the list of users (`users_dialog.cpp:852`). |
| `PermissionsCurrent` |  | The answer is kept until the program ends, also when the same program changes the groups of the current user (`users.cpp:92`). |
| `CurrentUserKnown` | `MaxEdits = 4` | The comment says "cached value of USERS.user_id for the user connected to the database"; 0 is cached as well, and stays when the user is registered in the dialog: notes and status changes are stored without an author (`users.cpp:27`). |
| `NamesCurrent` |  | The names of the operators are read once, when the program starts; the dialog that changes them does not update the cache that msg_properties.cpp:105 reads (`main.cpp:408`). |

### UserQueries (`office`)

| Formula | Constants | What happens |
|---|---|---|
| `CacheMatchesTable` | `Panels = {"w", "v"}` | A query renamed from the panel of another window, where it is still listed after it was removed or renamed, updates no row, yet the new title enters the map: the cache lists a query the table has not (`user_queries.cpp:71`). |
| `PanelsAgree` | `Panels = {"w", "v"}` | Only the panel the query was saved from is reloaded: the panels of the other list windows keep the old list, and edit and run its texts (`msg_list_window.cpp:2604`). |
| `CacheIsCurrent` |  | The comment says "Returns true if 'name' is already used in the user_queries table" (user_queries.cpp:187): name_exists goes by a map that is fetched once, so a query another client has saved is not seen, and one it has removed is updated in no row (`user_queries.cpp:156`). |
| `TitlesAreUnique` | `Unique = FALSE` | The question "Are you sure you want to overwrite it?" (user_queries.cpp:142) is asked of a renaming too, which then sets the title of a second row: two rows have it, or the statement fails if the table has titles unique; the other query is never overwritten (`user_queries.cpp:56`). |

### MailboxImport (`office`)

| Formula | Constants | What happens |
|---|---|---|
| `ToldIsTrue` |  | database_import returns true after an exception: once an insert was refused, or a second upload was started from the same event loop (Back and Next), DEALLOCATE raises, and the wizard says that the mailbox has been uploaded (mbox_import_wizard.cpp:191) when nothing is stored, in a transaction left open (`mbox_file.cpp:253`). |
| `UploadIsWhole` | a file in `Files` with a line of two chunks, the second one "From" | The comment says "We truncate lines larger than 1023" (mbox_file.cpp:186): the line is kept, and when its next chunk starts with From the message is cut in two there (`mbox_file.cpp:195`). |
| `CountTold` | a file in `Files` that ends with a From line | A From line at the end of the file counts as a message, but an empty last message is not stored: the count announced (mbox_import_wizard.cpp:191) is one too many (`mbox_file.cpp:257`). |
| `OneJobEach` | `MaxJobs = 2` | instantiate_job changes the status in the database and not in m_list: until the next refresh the button still says Start, and a second click queues a second job (`import_window.cpp:259`). |
| `FinishedMeansAll` |  | The row of an import is committed before the transaction of its messages: started from another window meanwhile, it is finished with none of them (`mbox_file.cpp:109`). |
| `EveryImportShown` |  | m_list never loses an entry: an import purged while an upload is under way that is then aborted is back in the table and never again in the window (`import_window.cpp:281`). |

### BackgroundQueries (`bq_fetch`)

| Formula | Constants | What happens |
|---|---|---|
| `NoSharedConnection` |  | end_test_requested releases the connection while the thread that was cancelled still runs its query on it; the next fetch is lent it, and two threads are in libpq on one connection (`edit_rules.cpp:852`). |
| `AnyBusyIsSeen` |  | The comment says "Return false if at least one non-primary connection is in use, meaning that we're probably running a query in a sub-thread"; one released by a stopped test is in use and counts as free (`db.cpp:268`). |
| `AnswersTheQuestion` |  | The comment says "stop the query but don't close the dialog"; the thread may go on for a while, and OK pressed meanwhile starts nothing (QThread::start does nothing while it runs): the results of the query that was stopped are taken for those of the new one (`selectmail.cpp:1868`). |
| `DialogConnectionsComeBack` |  | After Cancel nobody releases the connection (the call is commented out): it stays taken until the dialog is used again or closed, idle() answers no, and message bodies are not fetched ahead (`selectmail.cpp:1871`). |
| `RefusalIsReported` |  | A sixth query, or a refused logon, throws from db_cnx's constructor; none of the slots that start a fetch catches it, and it ends the program instead of being reported (`db.cpp:353`). |
| `ThreadFailureIsContained` |  | The transaction of run is opened outside of its try block: a session lost between the ping and BEGIN ends the program (`fetch_thread.cpp:119`). |

### Preferences (`desk`)

| Formula | Constants | What happens |
|---|---|---|
| `NoBlankRow` |  | identities.cpp:66 says of an identity without an address "This shouldn't happen"; OK with no identity defined, or with one that was added and left blank, inserts a row without an address, which no dialog shows again: each OK may add one (`preferences.cpp:766`). |
| `DefaultFollowed` |  | NEWS:273 announces "fallback to first identity when no default is defined"; deleting the default identity, or giving it another address with its box unchecked, leaves its old address in default_identity: the composer looks for it and selects no sender (`preferences.cpp:1281`). |
| `TwiceSaved` |  | The dialog finds an identity by its address: when two are given the same one, the second cannot be chosen any more, and what is typed for it is saved in the first (`preferences.cpp:1226`). |
| `RetrySaves` | `MaxEdits = 4` | The comment says "shouldn't happen? assert?"; an identity inserted by a transaction that is rolled back keeps its id, so that the next OK does not find it among those fetched, skips it and closes: it is never saved (`preferences.cpp:1378`). |
| `RefusedSettings` |  | The result of diff_update is not looked at: after an error the settings in memory are replaced all the same, so that pressing OK again finds no difference and the settings are lost when the program ends (`preferences.cpp:1178`). |
| `UnreadKept` |  | When the identities cannot be read the dialog opens without any, and OK deletes the setting default_identity (`preferences.cpp:752`). |
| `FallbackSaved` | no `format` in `FirstConfig` | A setting that has no value is shown with its widget's first one and saved with it, over the value that another client has given it meanwhile (`preferences.cpp:946`). |
| `NamedSaved` | a style in `FirstConfig.all` | A setting emptied in a named configuration has its row deleted: if all configurations have a value for it, that one comes back when the program starts again (`app_config.cpp:280`). |
| `CommonViewersSaved` | a program in `FirstPrograms.all` | The list shows the programs of all configurations with those of this one, and saves all of them as this one's: the former are listed twice after any change, and cannot be deleted (`preferences.cpp:1427`). |

Seen while reading, and not modelled: after `sel_filter` the number of a stored query is put in
the page that was left (`store_quick_sel`); the properties dialog writes a whole status from the copy it
was opened with, as `change_mail_status` does;
the dialog of a group's permissions closes as accepted when `set_grants` fails; operators of the search bar that
are not known are ignored without a word.

## Not modelled

* *Data races* of a thread with the main thread on `msg_status_cache` (a `std::map`, `fetch_thread.cpp:40`): the
  outcome is undefined; the order of the logical updates is in `StatusTracking`.
* *Notifications* (`db_listener.cpp`): their effects are in `StatusTracking`; what a socket notifier delivers
  while its socket is closed and replaced is a matter of Qt and of the operating system.
* *The export window* writes files; its transactions and its loop that processes events are in `Handlers`.
* *The SQL parser, addresses, MIME, HTML and attachments' contents* (`sqlstream.cpp`, `addresses.cpp`, `mime_msg_viewer.cpp`,
  `attachment.cpp`): characters in, characters out, no state between calls.  The four automata whose result
  decides what is selected, sent or imported are modelled (search text, filter expressions, CSV, mbox).
* *Display*, fonts, icons, layout, printing, help, statistics, the login dialog, startup options: nothing
  depends on them.
* *Code that nothing calls*: `user::create_if_missing`, `msgs_filter::add_result`,
  `msg_list_window::incorporate_message`, `text_merger::merge_record`, the window of `mbox_import_window`, the
  selector of configurations in the preferences.
* *Vendored code*: `getopt*.cpp`, `sha1.cpp`.

In the modelled parts: the server's functions (`trash_msg`, `untrash_msg`,
`delete_msg`) and its programs that run mailings and imports are outside this repository and modelled from their
use: they set or clear the trashed bit, or remove the row, and return the status; they take a job, advance
its count and end it.  The permission tests
(`user::has_permission`) are taken as granted outside `Users`, the setting "fetch on demand" as off.
A status, a tag or a message is small data: two or three of each.  `PROJECT.json` has one entry per
component with what it leaves out.

## What could follow

* Proofs about the parts of `desk` and `office` that are only model-checked: first the statements of OK in `Preferences` and
  the list of actions in `FilterRules`, then the counters of `QuickSelection`.
* An abstract list (a prefix that grows or shrinks) that `SegmentPaging` implements.
* Listeners across a reconnection, with an explicit model of the socket notifiers.
