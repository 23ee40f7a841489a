----------------------------- MODULE QuickSelection ---------------------------
(***************************************************************************)
(* query_listview, the panel of quick selections: the branches of current  *)
(* and archived tags with their counters, which follow the tags put on     *)
(* messages, the status of messages and the definitions of tags without    *)
(* asking the database again.  The tag 0 stands for the messages that have *)
(* no tag.                                                                 *)
(***************************************************************************)
EXTENDS Integers, Sequences, FiniteSets, SequencesExt

CONSTANTS Tags,           \* tag ids: numbers above 0
          HiddenTags,     \* excluded from the panel by an identity
          Mails,          \* messages in the window's list
          FirstMail,      \* their status and tags at the start
          BatchSize,      \* of tag_toggled: 20
          MaxChanges

VARIABLES mail,           \* the messages in the database
          cached,         \* the m_tags of the messages in memory
          defined,        \* the tags that exist
          panel,          \* m_tagged, the items that show it, and m_archtag_map
          crashed,        \* a null node was read
          slips,          \* history: the steps after which the counters may be wrong
          changes

quickVars == <<mail, cached, defined, panel, crashed, slips, changes>>

Statuses == {"unread", "read", "archived", "trashed"}
is_current(s) == s \in {"unread", "read"}

over(f, g) == [i \in DOMAIN f \cup DOMAIN g |-> IF i \in DOMAIN f THEN f[i] ELSE g[i]]
only(f, S) == [i \in DOMAIN f \cap S |-> f[i]]
put(f, i, v) == over([j \in {i} |-> v], f)
Empty == [i \in {} |-> 0]

TypeOK ==
  /\ mail \in [Mails -> [status : Statuses, tags : SUBSET Tags]] /\ cached \in [Mails -> SUBSET Tags]
  /\ defined \subseteq Tags /\ DOMAIN panel.leaves \subseteq DOMAIN panel.tagged
  /\ DOMAIN panel.tagged \subseteq Tags \cup {0} /\ DOMAIN panel.archived \subseteq Tags \cup {0}
  /\ crashed \in BOOLEAN /\ changes \in 0..MaxChanges

-----------------------------------------------------------------------------
(* What the items show.                                                     *)

count_unread_messages(m) == Cardinality({i \in DOMAIN m : m[i] = "unread"})
set_title(m) == [messages |-> Cardinality(DOMAIN m), unread |-> count_unread_messages(m)]
NoTitle == [messages |-> 0, unread |-> 0]

(* update_tag_current_counter: the leaf of the tag, if it has one.          *)
update_tag_current_counter(p, t) ==
  IF t = 0 THEN [p EXCEPT !.notTagged = IF 0 \in DOMAIN p.tagged THEN set_title(p.tagged[0]) ELSE NoTitle]
  ELSE IF t \in DOMAIN p.leaves THEN [p EXCEPT !.leaves[t] = set_title(p.tagged[t])] ELSE p

(* display_counter(new_not_tagged).                                         *)
display_counter(p) ==
  [p EXCEPT !.newNotTagged = IF 0 \in DOMAIN p.tagged THEN count_unread_messages(p.tagged[0]) ELSE 0]

Visible == defined \ HiddenTags

(* add_current_tag: a new leaf, and an empty map.                           *)
add_current_tag(p, t) == [p EXCEPT !.tagged = put(@, t, Empty), !.leaves = put(@, t, NoTitle)]

(* create_branch_current on what fetch_tag_map has read: one map for each   *)
(* tag that a current message has, one leaf for those that are visible.     *)
Fetched(ms) ==
  LET tagsOf(m) == IF ms[m].tags = {} THEN {0} ELSE ms[m].tags
      here == {m \in Mails : is_current(ms[m].status)}
      tagged == [t \in UNION {tagsOf(m) : m \in here} |->
                   [m \in {i \in here : t \in tagsOf(i)} |-> ms[m].status]]
      filed == {m \in Mails : ms[m].status = "archived"}
  IN display_counter(update_tag_current_counter(
       [tagged |-> tagged,
        leaves |-> [t \in DOMAIN tagged \cap Visible |-> set_title(tagged[t])],
        notTagged |-> NoTitle, newNotTagged |-> 0,
        archived |-> [t \in UNION {tagsOf(m) : m \in filed} |->
                        Cardinality({m \in filed : t \in tagsOf(m)})]], 0))

Init ==
  /\ mail = FirstMail /\ cached = [m \in Mails |-> FirstMail[m].tags] /\ defined \in SUBSET Tags
  /\ \A m \in Mails : FirstMail[m].tags \subseteq defined
  /\ panel = Fetched(mail) /\ crashed = FALSE /\ slips = {} /\ changes = 0

-----------------------------------------------------------------------------
(* Tags put on messages and removed.                                        *)

(* Mutant: a message that gets a tag stays among those that have none. *)
StaysUntagged(p, m) == p
(* The message leaves the map of the messages without a tag.                *)
NowTagged(p, m) ==
  IF 0 \in DOMAIN p.tagged /\ m \in DOMAIN p.tagged[0]
  THEN update_tag_current_counter([p EXCEPT !.tagged[0] = only(@, Mails \ {m})], 0) ELSE p

mail_tag_changed(p, m, tags, t, added) ==
  LET status == mail[m].status
      with == [p EXCEPT !.tagged[t] = put(@, m, status)]
      without == [p EXCEPT !.tagged[t] = only(@, Mails \ {m})]
      untagged == IF tags = {} /\ 0 \in DOMAIN p.tagged
                  THEN display_counter(update_tag_current_counter(
                         [without EXCEPT !.tagged[0] = put(@, m, status)], 0))
                  ELSE without
      new == add_current_tag(p, t)
  IN IF t \notin DOMAIN p.tagged
     THEN update_tag_current_counter([new EXCEPT !.tagged[t] = put(@, m, status)], t)
     ELSE IF added THEN NowTagged(update_tag_current_counter(with, t), m)
     ELSE update_tag_current_counter(untagged, t)

(* A new leaf is made for a tag that the panel does not show: a null node.  *)
UnknownTag(t) == t \notin DOMAIN panel.tagged /\ t \notin Visible

archive_tag_changed(p, t, diff) ==
  IF t \in DOMAIN p.archived THEN [p EXCEPT !.archived[t] = @ + diff]
  ELSE IF diff >= 0 THEN [p EXCEPT !.archived = put(@, t, diff)] ELSE p

tagsAfter(tags, t, on) == IF on THEN tags \cup {t} ELSE tags \ {t}

(* set_tag on each message of a small selection, and the counters after it  *)
(* whatever its result.                                                     *)
toggle_few(sel, t, on, fails) ==
  LET after(m) == IF fails THEN cached[m] ELSE tagsAfter(cached[m], t, on)
      count(p, m) == IF is_current(mail[m].status) THEN mail_tag_changed(p, m, after(m), t, on)
                     ELSE IF mail[m].status = "archived"
                     THEN archive_tag_changed(p, t, IF on THEN 1 ELSE -1) ELSE p
  IN /\ mail' = [m \in Mails |-> IF m \in sel /\ ~fails
                                 THEN [mail[m] EXCEPT !.tags = tagsAfter(@, t, on)] ELSE mail[m]]
     /\ cached' = [m \in Mails |-> IF m \in sel THEN after(m) ELSE cached[m]]
     /\ panel' = FoldLeft(count, panel, SetToSeq(sel))
     /\ slips' = slips \cup (IF fails THEN {"failed"} ELSE {})
                       \cup (IF /\ \E m \in sel : is_current(mail[m].status)
                                 /\ {t, 0} \ DOMAIN panel.tagged # {} THEN {"branch"} ELSE {})
                       \cup (IF \E m \in sel : (t \in mail[m].tags) = on THEN {"again"} ELSE {})

(* toggle_tags_set on a batch: the counters of current messages go first,   *)
(* the m_tags of the messages are left, and what is returned counts the     *)
(* messages of the batch that were assigned, or are archived.               *)
toggle_batch(sel, t, on, fails) ==
  LET count(p, m) == IF is_current(mail[m].status) THEN mail_tag_changed(p, m, cached[m], t, on) ELSE p
      filed == {m \in sel : mail[m].status = "archived"}
      count_archived_assigned == Cardinality(IF on /\ ~fails THEN {m \in sel : t \notin mail[m].tags}
                                             ELSE filed)
      counted == FoldLeft(count, panel, SetToSeq(sel))
  IN /\ mail' = [m \in Mails |-> IF m \in sel /\ ~fails
                                 THEN [mail[m] EXCEPT !.tags = tagsAfter(@, t, on)] ELSE mail[m]]
     /\ panel' = IF count_archived_assigned > 0
                 THEN archive_tag_changed(counted, t, count_archived_assigned) ELSE counted
     /\ slips' = slips \cup {"batch"} \cup (IF fails THEN {"failed"} ELSE {})
     /\ UNCHANGED cached

tag_toggled(sel, t, on, fails) ==
  /\ IF UnknownTag(t) /\ \E m \in sel : is_current(mail[m].status)
     THEN crashed' = TRUE /\ UNCHANGED <<mail, cached, panel, slips>>
     ELSE /\ IF Cardinality(sel) > BatchSize THEN toggle_batch(sel, t, on, fails)
             ELSE toggle_few(sel, t, on, fails)
          /\ UNCHANGED crashed
  /\ UNCHANGED defined

-----------------------------------------------------------------------------
(* The status of a message changes: the maps of its tags, or every map that *)
(* has it when it is no longer current.  The database tells how the         *)
(* archived counters moved.                                                 *)
mail_status_changed(p, m, s) ==
  LET tags == IF cached[m] = {} THEN {0} \cap DOMAIN p.tagged ELSE cached[m]
      into(q, t) == LET r == IF t \in DOMAIN q.tagged THEN q ELSE add_current_tag(q, t)
                    IN update_tag_current_counter([r EXCEPT !.tagged[t] = put(@, m, s)], t)
      from(q, t) == update_tag_current_counter([q EXCEPT !.tagged[t] = only(@, Mails \ {m})], t)
      holders == {t \in DOMAIN p.tagged : m \in DOMAIN p.tagged[t]}
  IN IF is_current(s)
     THEN LET q == FoldLeft(into, p, SetToSeq(tags)) IN IF tags = {0} THEN display_counter(q) ELSE q
     ELSE display_counter(FoldLeft(from, p, SetToSeq(holders)))

change_archive_counts(p, m, s) ==
  LET diff == IF s = "archived" THEN 1 ELSE IF mail[m].status = "archived" THEN -1 ELSE 0
  IN IF diff = 0 THEN p
     ELSE FoldLeft(LAMBDA q, t : archive_tag_changed(q, t, diff), p,
                   SetToSeq(IF mail[m].tags = {} THEN {0} ELSE mail[m].tags))

StatusChanges(m, s) ==
  /\ s # mail[m].status /\ (s = "unread" => mail[m].status # "read")
  /\ mail' = [mail EXCEPT ![m].status = s]
  /\ IF is_current(s) /\ \E t \in cached[m] : UnknownTag(t)
     THEN crashed' = TRUE /\ UNCHANGED panel
     ELSE panel' = mail_status_changed(change_archive_counts(panel, m, s), m, s) /\ UNCHANGED crashed
  /\ slips' = slips \cup (IF is_current(s) /\ cached[m] = {} /\ 0 \notin DOMAIN panel.tagged
                          THEN {"branch"} ELSE {})
  /\ UNCHANGED <<cached, defined>>

(* tags_restructured: the leaves of the tags that are gone go; the maps     *)
(* stay, and those of the messages that lose their last tag do not change. *)
tags_restructured(now) ==
  LET kept == only(panel.leaves, now \ HiddenTags)
  IN /\ now # defined /\ defined' = now
     /\ mail' = [m \in Mails |-> [mail[m] EXCEPT !.tags = @ \cap now]]
     /\ panel' = [panel EXCEPT !.leaves = [t \in DOMAIN kept |-> set_title(panel.tagged[t])]]
     /\ slips' = slips \cup (IF \E m \in Mails : ~(mail[m].tags \subseteq now) THEN {"removed"} ELSE {})
     /\ UNCHANGED <<cached, crashed>>

(* The user refreshes the panel.                                            *)
refresh ==
  /\ panel' = Fetched(mail)
  /\ slips' = slips \cap {"batch", "removed"}   \* the messages in memory are not read again
  /\ UNCHANGED <<mail, cached, defined, crashed>>

Next ==
  /\ ~crashed /\ changes < MaxChanges /\ changes' = changes + 1
  /\ \/ \E sel \in SUBSET Mails \ {{}}, t \in defined, on, fails \in BOOLEAN : tag_toggled(sel, t, on, fails)
     \/ \E m \in Mails, s \in Statuses : StatusChanges(m, s)
     \/ \E t \in Tags : \/ tags_restructured(defined \ {t})
                        \/ t \notin DOMAIN panel.tagged /\ tags_restructured(defined \cup {t})
     \/ refresh

Spec == Init /\ [][Next]_quickVars

-----------------------------------------------------------------------------
(* The counters are those of the database: each tag has a leaf as soon as a *)
(* current message has it, the leaf counts its messages and the unread      *)
(* ones, and so do "Not tagged" and the archived tags.                      *)
Here(t) == {m \in Mails : is_current(mail[m].status) /\ IF t = 0 THEN mail[m].tags = {} ELSE t \in mail[m].tags}
Title(t) == set_title([m \in Here(t) |-> mail[m].status])
Counted ==
  /\ \A t \in Visible : IF t \in DOMAIN panel.leaves THEN panel.leaves[t] = Title(t) ELSE Here(t) = {}
  /\ panel.notTagged = Title(0)
FiledCounted ==
  \A t \in defined \cap DOMAIN panel.archived :
    panel.archived[t] = Cardinality({m \in Mails : mail[m].status = "archived" /\ t \in mail[m].tags})

(* After any sequence of tags toggled, messages read, archived, trashed and *)
(* restored, and refreshes, the panel shows the counters of the database;   *)
(* except after the steps of slips.                                         *)
QuickCounts == slips = {} /\ ~crashed => Counted /\ FiledCounted

(* A tag that no message had yet is checked.                                *)
NewBranchCounted == slips \subseteq {"branch"} => Counted
(* A selection larger than a batch.                                         *)
BatchCounted == slips \subseteq {"batch"} => Counted
BatchFiledCounted == slips \subseteq {"batch"} => FiledCounted
(* The statement fails.                                                     *)
FailureNotCounted == slips \subseteq {"failed"} => Counted
(* A tag that an archived message of the selection already has is checked.  *)
AgainNotCounted == slips \subseteq {"again"} => FiledCounted
(* The unread messages without a tag, in the branch of unread messages.     *)
NewUntaggedTrue == slips = {} => panel.newNotTagged = Title(0).unread
(* A tag is removed in the dialog.                                          *)
RemovalCounted == slips \subseteq {"removed"} => Counted
NeverCrashes == ~crashed
=============================================================================
