------------------------------- MODULE TagsDialog -----------------------------
(***************************************************************************)
(* The definitions of tags: the table, the repository that caches it, the  *)
(* dialog that edits the tree while other clients change the table, and    *)
(* the box of tags beside a message.  A name is a sequence of characters.  *)
(* Tags get their id from the sequence of the database when they are       *)
(* stored; until then the dialog numbers them -1, -2...                    *)
(***************************************************************************)
EXTENDS Integers, Sequences, FiniteSets, SequencesExt

CONSTANTS Names,          \* what a tag may be called
          NewName,        \* m_new_tag_default_name
          FirstTags,      \* the table at the start
          HiddenSets,     \* the possible sets of tags excluded by an identity
          MaxNew,         \* how many times New is clicked
          MaxEdits,       \* how many changes the user makes in the dialog and the box
          MaxOthers       \* how many times other clients change the table

VARIABLES table,          \* tags: tag_id -> [name, parent]
          seq,            \* seq_tag_id
          repository,     \* m_tags_map
          hidden,         \* m_excluded_by_identity
          items,          \* the tree of the dialog: id -> [name, up, parent, dirty]
          dialog,         \* "closed", "open", or "asking" what to do of unsaved changes
          deleted,        \* m_delete
          created,        \* 1 - m_new_id
          box,            \* the tags in the box, and whether they are checked
          edits,          \* history: changes by the user
          others,         \* history: changes by other clients
          shown,          \* history: the tree as it was when OK was clicked
          slip            \* history: OK was clicked on a tree that is not saved as shown

tagVars == <<table, seq, repository, hidden, items, dialog, deleted, created, box, edits,
             others, shown, slip>>

None == [i \in {} |-> 0]
\* f, and also g where f is not defined
over(f, g) == [i \in DOMAIN f \cup DOMAIN g |-> IF i \in DOMAIN f THEN f[i] ELSE g[i]]
only(f, S) == [i \in DOMAIN f \cap S |-> f[i]]
at(i, v) == [j \in {i} |-> v]

-----------------------------------------------------------------------------
(* The hierarchy.                                                           *)

(* The passes of the constructor, of fill_listview and of get_child_tags:   *)
(* what hangs from the root, without what an identity hides.                *)
Reached(t, without) ==
  LET pass[n \in 0..Cardinality(DOMAIN t)] ==
        IF n = 0 THEN {0}
        ELSE LET done == pass[n-1] IN done \cup {i \in DOMAIN t \ without : t[i].parent \in done}
  IN pass[Cardinality(DOMAIN t)] \ {0}
Consistent(t) == Reached(t, {}) = DOMAIN t

(* tags_definition_list::fetch: the tags, and those that the identities that *)
(* the user has no part in hide, with what hangs from them.                 *)
definitions == only(table, Reached(table, hidden))

(* The names from the top level down to a tag: hierarchy, depth.            *)
Ancestors(t, i) ==
  LET names[j \in DOMAIN t] ==
        IF t[j].parent \in DOMAIN t THEN Append(names[t[j].parent], t[j].name) ELSE <<t[j].name>>
  IN names[i]
hierarchy(t, i) ==
  LET names == Ancestors(t, i)
  IN FoldLeft(LAMBDA text, n : text \o <<"-", ">">> \o n, Head(names), Tail(names))
depth(t, i) == Len(Ancestors(t, i)) - 1

(* search_substring: what the completion proposes, the upper levels first.  *)
search_substring(t, part) ==
  SetToSortSeq({i \in DOMAIN t : \E a \in 1..Len(hierarchy(t, i)), b \in 0..Len(hierarchy(t, i)) :
                                   SubSeq(hierarchy(t, i), a, b) = part},
               LAMBDA i, j : \/ depth(t, i) < depth(t, j)
                             \/ depth(t, i) = depth(t, j) /\ i < j)

(* Mutant: a held minus sign is lost. *)
NothingHeld(s) == <<>>
Held(s) == IF s.state = "minus" THEN <<"-">> ELSE <<>>
(* hierarchy_lookup: the text is cut at each "->"; a backslash quotes, and  *)
(* a minus sign is held until the next character.                           *)
Scan(s, c) ==
  LET put(cs) == [s EXCEPT !.tag = @ \o cs, !.state = "normal"]
      held == Held(s)
  IN IF c = "\\" /\ s.state = "quote" THEN put(<<c>>)
     ELSE IF c = "\\" THEN [s EXCEPT !.tag = @ \o held, !.state = "quote"]
     ELSE IF c = "-" /\ s.state = "quote" THEN [s EXCEPT !.tag = Append(@, c)]
     ELSE IF c = "-" THEN [s EXCEPT !.state = "minus"]
     ELSE IF c = ">" /\ s.state = "minus"
          THEN [levels |-> Append(s.levels, s.tag), tag |-> <<>>, state |-> "normal"]
     ELSE put(held \o <<c>>)
Levels(text) ==
  LET last == FoldLeft(Scan, [levels |-> <<>>, tag |-> <<>>, state |-> "normal"], text)
  IN Append(last.levels, last.tag \o Held(last) \o (IF last.state = "quote" THEN <<"\\">> ELSE <<>>))
lookup_level(t, name, up) ==
  LET found == {i \in DOMAIN t : t[i].name = name /\ t[i].parent = up}
  IN IF found = {} THEN -1 ELSE CHOOSE i \in found : \A j \in found : i <= j
hierarchy_lookup(t, text) ==
  LET last == FoldLeft(LAMBDA up, name : IF up = -1 THEN -1 ELSE lookup_level(t, name, up), 0,
                       Levels(text))
  IN IF last = -1 THEN 0 ELSE last

-----------------------------------------------------------------------------
TypeOK ==
  /\ DOMAIN table \subseteq 1..(seq - 1) /\ seq \in Nat /\ dialog \in {"closed", "open", "asking"}
  /\ \A i \in DOMAIN items : items[i].up \in DOMAIN items \cup {0} /\ items[i].dirty \in BOOLEAN
  /\ created \in 0..MaxNew /\ others \in 0..MaxOthers
  /\ edits \in 0..MaxEdits /\ slip \in BOOLEAN
  /\ \A i \in DOMAIN box : box[i] \in BOOLEAN

Init ==
  /\ table = FirstTags /\ seq = 1 + Cardinality(DOMAIN FirstTags) /\ repository = table
  /\ hidden \in HiddenSets /\ items = None /\ dialog = "closed" /\ deleted = {} /\ created = 0
  /\ box = [i \in DOMAIN table |-> FALSE] /\ others = 0 /\ edits = 0 /\ shown = None /\ slip = FALSE

(* Other clients, and a second dialog of this one, change the table.        *)
OtherStores ==
  /\ others < MaxOthers /\ others' = others + 1 /\ slip' = TRUE
  /\ \/ \E up \in DOMAIN table \cup {0}, n \in Names :
          table' = over(table, at(seq, [name |-> n, parent |-> up])) /\ seq' = seq + 1
     \/ \E i \in DOMAIN table : table' = only(table, DOMAIN table \ {i}) /\ UNCHANGED seq
  /\ UNCHANGED <<repository, hidden, items, dialog, deleted, created, box, edits, shown>>

(* The box: the user checks or unchecks a tag of the current message; a     *)
(* user without the permission sees the old state again.                    *)
toggle_tag_state(i) ==
  /\ edits < MaxEdits /\ edits' = edits + 1
  /\ box' = [box EXCEPT ![i] = ~@]
  /\ UNCHANGED <<table, seq, repository, hidden, items, dialog, deleted, created, others, shown, slip>>

(* reinit: the box is rebuilt with the checks of the tags that remain; it   *)
(* stays empty if the hierarchy is not consistent.                          *)
reinit(t) == IF Consistent(t) THEN [i \in DOMAIN t |-> i \in DOMAIN box /\ box[i]] ELSE None

-----------------------------------------------------------------------------
(* The dialog.                                                              *)

\* bounds: while there are edits to make, and until a save
Open ==
  /\ dialog = "closed" /\ edits < MaxEdits /\ shown = None /\ Consistent(table) /\ dialog' = "open" /\ deleted' = {} /\ shown' = None
  /\ items' = [i \in DOMAIN definitions |->
                 LET t == definitions[i]
                 IN [name |-> t.name, up |-> t.parent, parent |-> t.parent, dirty |-> FALSE]]
  /\ slip' = FALSE
  /\ UNCHANGED <<table, seq, repository, hidden, created, box, edits, others>>

edit(it) == /\ dialog = "open" /\ items' = it /\ edits < MaxEdits /\ edits' = edits + 1
            /\ UNCHANGED <<table, seq, repository, hidden, dialog, created, box, others, shown>>

(* A tag and what is under it in the tree: collect_childs.                  *)
(* Mutant: it does not call itself for the tags below. *)
ChildsOnly(i) == {i} \cup {j \in DOMAIN items : items[j].up = i}
collect_childs(i) ==
  LET down[n \in 0..Cardinality(DOMAIN items)] ==
        IF n = 0 THEN {i}
        ELSE LET done == down[n-1] IN done \cup {j \in DOMAIN items : items[j].up \in done}
  IN down[Cardinality(DOMAIN items)]

(* action_new: under the current item, or under the root.                   *)
action_new(up) ==
  /\ dialog = "open" /\ created < MaxNew /\ created' = created + 1
  /\ items' = over(items, at(-created', [name |-> NewName, up |-> up, parent |-> up, dirty |-> FALSE]))
  /\ UNCHANGED <<table, seq, repository, hidden, dialog, deleted, box, edits, others, shown, slip>>

(* item_changed: no two tags of a branch get the same name.                 *)
item_changed(i, n) ==
  /\ n # items[i].name
  /\ ~ \E j \in DOMAIN items \ {i} : items[j].up = items[i].up /\ items[j].name = n
  /\ edit([items EXCEPT ![i].name = n, ![i].dirty = TRUE]) /\ UNCHANGED <<deleted, slip>>

(* dropEvent: an item dropped on itself or below itself leaves the tree.    *)
dropEvent(i, dest) ==
  /\ dest # items[i].up
  /\ IF dest \in collect_childs(i)
     THEN edit(only(items, DOMAIN items \ collect_childs(i))) /\ slip' = TRUE
     ELSE edit([items EXCEPT ![i].up = dest, ![i].parent = dest, ![i].dirty = TRUE])
          /\ UNCHANGED slip
  /\ UNCHANGED deleted

action_delete(i) ==
  /\ deleted' = deleted \cup collect_childs(i)
  /\ edit(only(items, DOMAIN items \ collect_childs(i))) /\ UNCHANGED slip

-----------------------------------------------------------------------------
(* OK.                                                                      *)

dirtyItems == {i \in DOMAIN items : items[i].dirty}
LevelOf(i) == CHOOSE n \in 0..Cardinality(DOMAIN items) :
                LET up[k \in 0..n] == IF k = 0 THEN i ELSE IF up[k-1] = 0 THEN -99 ELSE items[up[k-1]].up
                IN up[n] = 0
TopToBottom == SetToSortSeq(dirtyItems, LAMBDA i, j : \/ LevelOf(i) < LevelOf(j)
                                                      \/ LevelOf(i) = LevelOf(j) /\ i > j)

(* message_tag::remove of each deleted tag, then message_tag::store of each *)
(* dirty item, from top to bottom: failing holds the tag whose statement    *)
(* fails, if any, and all fail after it.  A tag that gets its id before the *)
(* INSERT fails keeps it.                                                   *)
untranslated(s, p) == p  \* Mutant: the children keep the number that their parent had.
translated(s, p) == IF p < 0 /\ p \in DOMAIN s.trans_id THEN s.trans_id[p] ELSE p
store(s, i) ==
  LET it == [items[i] EXCEPT !.parent = translated(s, @)]
      id == IF i < 0 THEN s.seq ELSE i
      row == at(id, [name |-> it.name, parent |-> it.parent])
      numbered == [s EXCEPT !.items[i] = it, !.ids = IF i < 0 THEN over(at(i, id), @) ELSE @,
                            !.seq = IF i < 0 THEN @ + 1 ELSE @]
  IN IF s.failed THEN [s EXCEPT !.items[i] = it]
     ELSE IF i \in s.failing THEN [numbered EXCEPT !.failed = TRUE]
     ELSE [numbered EXCEPT !.items[i].dirty = FALSE,
                           !.trans_id = IF i < 0 THEN over(at(i, id), @) ELSE @,
                           !.table = IF i < 0 \/ i \in DOMAIN @ THEN over(row, @) ELSE @]

removed == only(table, DOMAIN table \ deleted)
Stored(failing) ==
  FoldLeft(store, [table |-> removed, items |-> items, ids |-> None, trans_id |-> None, seq |-> seq,
                   failing |-> failing, failed |-> failing \cap deleted # {}], TopToBottom)

(* The items under their new numbers.                                       *)
Renumbered(s) ==
  LET key(i) == IF i \in DOMAIN s.ids THEN s.ids[i] ELSE i
  IN [k \in {key(i) : i \in DOMAIN s.items} |->
        LET i == CHOOSE i \in DOMAIN s.items : key(i) = k
        IN [s.items[i] EXCEPT !.up = key(@)]]

(* What the user sees: the named tags and where they are.                   *)
Displayed(its) == [i \in {j \in DOMAIN its : j > 0} |-> [name |-> its[i].name, parent |-> its[i].up]]

(* A tag under a new one that was never named is stored without its parent. *)
UnnamedParent == \E i \in dirtyItems : items[i].up < 0 /\ ~items[items[i].up].dirty

(* tags_restructured, and the repository fetched again.                     *)
Closed(t, update) == /\ dialog' = "closed" /\ items' = None /\ deleted' = {}
                     /\ repository' = IF update THEN t ELSE repository
                     /\ box' = IF update THEN reinit(t) ELSE box

(* ok: a failed statement leaves a transaction that COMMIT rolls back; the  *)
(* question of closeEvent comes for the items that are still dirty.  When   *)
(* none is, as after a refused DELETE, the dialog closes as accepted.       *)
ok(failing) ==
  LET s == Stored(failing)
      after == Renumbered(s)
      kept == IF s.failed THEN table ELSE s.table
      update == dirtyItems # {} \/ \E i \in deleted : \A j \in failing \cap deleted : i < j
  IN /\ seq' = s.seq
     /\ IF s.failed /\ dirtyItems # {}
        THEN /\ dialog' = "asking" /\ items' = after /\ slip' = TRUE
             /\ UNCHANGED <<table, repository, deleted, box, shown>>
        ELSE /\ table' = kept /\ Closed(kept, update)
             /\ shown' = IF update \/ s.failed THEN Displayed(after) ELSE None
             /\ slip' = (slip \/ s.failed \/ UnnamedParent)
     /\ UNCHANGED <<hidden, created, edits, others>>

clickOk == /\ dialog = "open"
           /\ \E failing \in {{}} \cup {{i} : i \in dirtyItems \cup deleted} : ok(failing)

(* The answers to the question that follows a failure: Save runs ok again;  *)
(* with the others the dialog closes all the same.                          *)
answer(save) ==
  /\ dialog = "asking"
  /\ IF save THEN ok({})
     ELSE Closed(table, dirtyItems # {} \/ deleted # {}) /\ UNCHANGED <<table, seq, hidden, created, edits, others, shown, slip>>

(* Cancel, and the window closed: only renamed or moved tags are asked for. *)
reject ==
  /\ dialog = "open" /\ dialog' = "closed" /\ items' = None /\ deleted' = {}
  /\ UNCHANGED <<table, seq, repository, hidden, created, box, edits, others, shown, slip>>

Next ==
  \/ OtherStores \/ Open \/ clickOk \/ reject
  \/ \E i \in DOMAIN box : toggle_tag_state(i)
  \/ \E up \in DOMAIN items \cup {0} : action_new(up)
  \/ \E i \in DOMAIN items : \/ action_delete(i)
                             \/ \E n \in Names : item_changed(i, n)
                             \/ \E dest \in DOMAIN items \cup {0} : dropEvent(i, dest)
  \/ \E save \in BOOLEAN : answer(save)

Spec == Init /\ [][Next]_tagVars

-----------------------------------------------------------------------------
(* After OK, the table holds the tree that the dialog showed, every tag     *)
(* under its parent and no other tag, and the repository and the box hold   *)
(* the same tags.  It does not hold when other clients change the table     *)
(* while the dialog is open, when a tag is dropped below itself, or under a *)
(* new tag that has no name (UnnamedParent).                                *)
TagsSavedAsShown ==
  dialog = "closed" /\ shown # None /\ ~slip =>
    /\ definitions = shown /\ repository = table
    /\ DOMAIN box = IF Consistent(table) THEN DOMAIN table ELSE {}

(* The completion proposes every tag by its path, and that path is looked up *)
(* as this tag: a minus sign inside a name is not taken for a separator.    *)
Plain(n) == \A i \in DOMAIN n : n[i] # "\\" /\ (n[i] = "-" => i < Len(n) /\ n[i+1] \notin {"-", ">"})
LookupFindsTag ==
  /\ Consistent(repository)
  /\ \A i \in DOMAIN repository : /\ Plain(repository[i].name)
                                  /\ \A j \in DOMAIN repository \ {i} : repository[j] # repository[i]
  => LET proposed == search_substring(repository, <<>>)
     IN /\ Range(proposed) = DOMAIN repository
        /\ \A k \in DOMAIN proposed :
             hierarchy_lookup(repository, hierarchy(repository, proposed[k])) = proposed[k]

(* The hierarchy of the table stays one that the dialog can open.           *)
HierarchyConsistent == others = 0 => Consistent(table)

(* The parent "should be inserted in db already".                           *)
ParentsStored == \A i \in DOMAIN table : table[i].parent >= 0

(* "keeping the selection if possible": a save keeps the checks of the tags *)
(* that remain.                                                             *)
ChecksKept == [][\A i \in DOMAIN box \cap DOMAIN table' :
                   dialog = "open" /\ dialog' = "closed" => i \in DOMAIN box' /\ box'[i] = box[i]]_tagVars

(* "Save now?": after a failure, Save stores the rest of the tree.          *)
SaveStoresTheRest ==
  [][dialog = "asking" /\ table' # table => only(table', DOMAIN shown') = shown']_tagVars

(* A tag that was deleted is gone once OK has closed the dialog.            *)
DeletedIsGone ==
  [][dialog = "open" /\ shown' # shown => deleted \cap DOMAIN table' = {}]_tagVars

(* Every path that is displayed is found.                                   *)
EveryPathFound == Consistent(repository) =>
  \A i \in DOMAIN repository : hierarchy_lookup(repository, hierarchy(repository, i)) = i

(* Both of these: what is saved is what was shown, and what the completion  *)
(* proposes is found.                                                       *)
TagsAgree == TagsSavedAsShown /\ LookupFindsTag
=============================================================================
