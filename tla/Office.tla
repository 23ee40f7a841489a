--------------------------------- MODULE Office ---------------------------------
(***************************************************************************)
(* What keeps the tables besides the mail: the mailing wizard and window,  *)
(* the tags' dialog and the quick selection panel, the users, the import   *)
(* of mailboxes, the user queries.  These parts share no state: a behaviour*)
(* is of one of them, `part`, and the variables of the others stay 0.      *)
(***************************************************************************)
EXTENDS Naturals, Sequences

CONSTANTS Subjects, Bodies, TemplateIds, MailingIds, Paths, DataFiles, Lists, Addresses, MaxBacks,
          Mailings, MaxSent,
          TagNames, NewName, FirstTags, HiddenSets, MaxNew, MaxTagEdits,
          Tags, HiddenTags, Mails, FirstMail, BatchSize, MaxChanges,
          Logins, Names, Passwords, FirstRoles, FirstUsers, Me, Abilities, object_permissions,
          PublicConnect, MaxEdits,
          Files, FirstImports, MaxImports, MaxJobs, MaxClicks,
          Titles, Sqls, Panels, Unique,
          MaxOthers

VARIABLES part,
          page, sender, body, data, readable, parsed, options, backs, viewer, mailing,
          runs, jobs, known, rows, chosen, button, purged, viewed,
          table, seq, repository, hidden, items, dialog, deleted, created, tags_box, edits,
          other_tags, shown, slip,
          mail, cached, defined, panel, crashed, slips, changes,
          roles, users, form, accepted, selected, me, permission_cache, known_users, edited, outside,
          tables, nextId, session, pending, wizard, upload, listed, import_items, current, serving, clicks,
          stored, cache, fetched, entries, box, others

Wizard    == INSTANCE MailingWizard WITH stored <- mailing
Window    == INSTANCE MailingWindow
Hierarchy == INSTANCE TagsDialog WITH
               Names <- TagNames, MaxEdits <- MaxTagEdits, box <- tags_box, others <- other_tags
Panel     == INSTANCE QuickSelection
Accounts  == INSTANCE Users WITH known <- known_users
Import    == INSTANCE MailboxImport WITH items <- import_items
Queries   == INSTANCE UserQueries

---------------------------------------------------------------------------------
wizardVars == <<page, sender, body, data, readable, parsed, options, backs, viewer, mailing>>
windowVars == <<runs, jobs, known, rows, chosen, button, purged, viewed>>
tagVars    == <<table, seq, repository, hidden, items, dialog, deleted, created, tags_box, edits,
                other_tags, shown, slip>>
panelVars  == <<mail, cached, defined, panel, crashed, slips, changes>>
userVars   == <<roles, users, form, accepted, selected, me, permission_cache, known_users, edited, outside>>
importVars == <<tables, nextId, session, pending, wizard, upload, listed, import_items, current, serving, clicks>>
queryVars  == <<stored, cache, fetched, entries, box, others>>

NoWizard == /\ page = 0 /\ sender = 0 /\ body = 0 /\ data = 0 /\ readable = 0 /\ parsed = 0 /\ options = 0
            /\ backs = 0 /\ viewer = 0 /\ mailing = 0
NoWindow == /\ runs = 0 /\ jobs = 0 /\ known = 0 /\ rows = 0 /\ chosen = 0 /\ button = 0 /\ purged = 0
            /\ viewed = 0
NoTags == /\ table = 0 /\ seq = 0 /\ repository = 0 /\ hidden = 0 /\ items = 0 /\ dialog = 0 /\ deleted = 0
          /\ created = 0 /\ tags_box = 0 /\ edits = 0 /\ other_tags = 0 /\ shown = 0 /\ slip = 0
NoPanel == mail = 0 /\ cached = 0 /\ defined = 0 /\ panel = 0 /\ crashed = 0 /\ slips = 0 /\ changes = 0
NoAccounts == /\ roles = 0 /\ users = 0 /\ form = 0 /\ accepted = 0 /\ selected = 0 /\ me = 0
              /\ permission_cache = 0 /\ known_users = 0 /\ edited = 0 /\ outside = 0
NoImport == /\ tables = 0 /\ nextId = 0 /\ session = 0 /\ pending = 0 /\ wizard = 0 /\ upload = 0
            /\ listed = 0 /\ import_items = 0 /\ current = 0 /\ serving = 0 /\ clicks = 0
NoQueries == stored = 0 /\ cache = 0 /\ fetched = 0 /\ entries = 0 /\ box = 0 /\ others = 0

Parts == {"wizard", "mailings", "tags", "panel", "users", "import", "queries"}

Init ==
  /\ part \in Parts
  /\ IF part = "wizard" THEN Wizard!Init ELSE NoWizard
  /\ IF part = "mailings" THEN Window!Init ELSE NoWindow
  /\ IF part = "tags" THEN Hierarchy!Init ELSE NoTags
  /\ IF part = "panel" THEN Panel!Init ELSE NoPanel
  /\ IF part = "users" THEN Accounts!Init ELSE NoAccounts
  /\ IF part = "import" THEN Import!Init ELSE NoImport
  /\ IF part = "queries" THEN Queries!Init ELSE NoQueries

Next ==
  \/ part = "wizard" /\ Wizard!Next
     /\ UNCHANGED <<part, windowVars, tagVars, panelVars, userVars, importVars, queryVars>>
  \/ part = "mailings" /\ Window!Next
     /\ UNCHANGED <<part, wizardVars, tagVars, panelVars, userVars, importVars, queryVars>>
  \/ part = "tags" /\ Hierarchy!Next
     /\ UNCHANGED <<part, wizardVars, windowVars, panelVars, userVars, importVars, queryVars>>
  \/ part = "panel" /\ Panel!Next
     /\ UNCHANGED <<part, wizardVars, windowVars, tagVars, userVars, importVars, queryVars>>
  \/ part = "users" /\ Accounts!Next
     /\ UNCHANGED <<part, wizardVars, windowVars, tagVars, panelVars, importVars, queryVars>>
  \/ part = "import" /\ Import!Next
     /\ UNCHANGED <<part, wizardVars, windowVars, tagVars, panelVars, userVars, queryVars>>
  \/ part = "queries" /\ Queries!Next
     /\ UNCHANGED <<part, wizardVars, windowVars, tagVars, panelVars, userVars, importVars>>

vars == <<part, wizardVars, windowVars, tagVars, panelVars, userVars, importVars, queryVars>>
Spec == Init /\ [][Next]_vars

---------------------------------------------------------------------------------
TypeOK ==
  /\ part \in Parts
  /\ part = "wizard" => Wizard!TypeOK
  /\ part = "mailings" => Window!TypeOK
  /\ part = "tags" => Hierarchy!TypeOK
  /\ part = "panel" => Panel!TypeOK
  /\ part = "users" => Accounts!TypeOK
  /\ part = "import" => Import!TypeOK
  /\ part = "queries" => Queries!TypeOK

(* A mailing is stored with what the wizard's pages show.                   *)
MailingAsPrepared == part = "wizard"   => Wizard!MailingAsPrepared
(* The rows of the mailings' window and its button agree with m_mailings.   *)
WindowAgrees      == part = "mailings" => Window!WindowAgrees
(* The tags are stored as the tree of the dialog shows them.                *)
TagsAgree         == part = "tags"     => Hierarchy!TagsAgree
(* The counters of the quick selection panel are those of the messages.     *)
QuickCounts       == part = "panel"    => Panel!QuickCounts
(* An account is on the server as its dialog showed it.                     *)
AccountAsEdited   == part = "users"    => Accounts!AccountAsEdited
(* What is uploaded of a mailbox file is the messages of that file.         *)
UploadIsWhole     == part = "import"   => Import!UploadIsWhole
(* The map of the saved queries is the table of them.                       *)
CacheMatchesTable == part = "queries"  => Queries!CacheMatchesTable
=================================================================================
