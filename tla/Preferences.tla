------------------------------ MODULE Preferences -------------------------------
(***************************************************************************)
(* The preferences: the table of identities, the settings of a named       *)
(* configuration over those of all configurations, the programs that show  *)
(* attachments, and the dialog that edits the three and saves them one     *)
(* after the other.  The name of an identity stands for its other fields   *)
(* too (signature, root tag...); other clients change the same tables.     *)
(***************************************************************************)
EXTENDS Naturals, FiniteSets, FiniteSetsExt, SequencesExt

CONSTANTS Emails, Names,      \* what is typed
          Options,            \* setting -> [values: those of its widget, first: the one by default]
          FirstIdentities,    \* the table at the start: id -> [email, name]
          FirstConfig,        \* [own, all]: setting -> value
          FirstPrograms,      \* [own, all]: sequences of <<type, program>>
          Viewers,            \* what is typed as type and program
          Named,              \* whether the configuration has a name
          m_default_values,
          Faults,             \* of "fetch", "config", "viewers", "identities"
          MaxEdits, MaxOthers \* steps of the user, of other clients

VARIABLES identities, config, programs, \* the tables
          seq,                \* the sequence of the identities
          mapconf,            \* the settings in memory
          dialog,             \* the dialog, its identities, boxes and fields
          meant,              \* history: the identities as the user sees them
          base,               \* history: the settings that the dialog showed first
          before,             \* history: the tables when the dialog was saved
          saved,              \* history: the last step has saved and closed the dialog
          slips,              \* history: what the properties leave out
          edits, others       \* counts of the bounds

prefsVars == <<identities, config, programs, seq, mapconf, dialog, meant, base, before, saved,
               slips, edits, others>>
tables == <<identities, config, programs>>

None == [i \in {} |-> ""]
put(f, i, v) == [j \in DOMAIN f \cup {i} |-> IF j = i THEN v ELSE f[j]]
only(f, S) == [j \in DOMAIN f \cap S |-> f[j]]
at(f, k) == IF k \in DOMAIN f THEN f[k] ELSE ""
Changeable == DOMAIN Options \cup {"default_identity"}

-----------------------------------------------------------------------------
(* The settings.                                                            *)

own == IF Named THEN "own" ELSE "all"
(* What a program that starts finds.                                        *)
init(c) ==
  LET stored == [k \in DOMAIN c.own \cup DOMAIN c.all |-> IF k \in DOMAIN c.own THEN c.own[k] ELSE c.all[k]]
  IN [k \in DOMAIN stored \cup DOMAIN m_default_values |->
        IF k \in DOMAIN stored THEN stored[k] ELSE m_default_values[k]]

conf_to_widgets(conf) ==
  [k \in DOMAIN Options |-> IF at(conf, k) \in Options[k].values THEN at(conf, k) ELSE Options[k].first]
widgets_to_conf(d) == put(d.option, "default_identity", d.default_email)

(* Mutant: each setting of the dialog is written. *)
WriteAll(newconf) ==
  [config EXCEPT ![own] = [k \in {j \in DOMAIN @ \cup DOMAIN newconf : at(newconf, j) # ""} |-> newconf[k]]]
(* diff_update: those that changed are written, those without a value are   *)
(* deleted.                                                                 *)
diff_update(newconf) ==
  LET differ == {k \in DOMAIN newconf : newconf[k] # at(mapconf, k)}
      emptied == {k \in differ : newconf[k] = ""}
  IN [config EXCEPT ![own] = [k \in (DOMAIN @ \cup differ) \ emptied |->
                                IF k \in differ THEN newconf[k] ELSE @[k]]]
diff_replace(newconf) == [k \in DOMAIN mapconf \cup DOMAIN newconf |->
                            IF k \in DOMAIN newconf THEN newconf[k] ELSE mapconf[k]]

-----------------------------------------------------------------------------
(* The identities of the dialog: a list of records, one of which is current *)
(* (0: none), and a box that shows their addresses.                         *)

mail_identity == [id |-> 0, email |-> "", name |-> "", default |-> FALSE]
BlankFields == [email |-> "", name |-> "", default |-> FALSE]
get_identity(ids, email) == SelectInSeq(ids, LAMBDA i : i.email = email)
currentText(box) == IF box.index = 0 THEN "" ELSE box.items[box.index]

ident_to_widgets(d) ==
  LET i == d.ids[d.curr]
  IN [d EXCEPT !.fields = IF i.email = "" THEN BlankFields
                          ELSE [email |-> i.email, name |-> i.name, default |-> i.default]]

widgets_to_ident(d) ==
  LET f == d.fields
      written == [d.ids EXCEPT ![d.curr] = [id |-> @.id, email |-> f.email, name |-> f.name, default |-> f.default]]
      prev == get_identity(written, d.default_email)
  IN [d EXCEPT !.ids = IF f.default /\ prev \notin {0, d.curr} THEN [written EXCEPT ![prev].default = FALSE]
                       ELSE written,
               !.default_email = IF f.default THEN f.email ELSE IF @ = f.email THEN "" ELSE @]

(* The box follows the address; its first item comes with the first address.*)
email_edited(d) ==
  IF d.fields.email = d.ids[d.curr].email THEN d
  ELSE [d EXCEPT !.ids[d.curr].email = d.fields.email,
                 !.box = IF @.items = <<>> THEN [items |-> <<d.fields.email>>, index |-> 1]
                         ELSE [@ EXCEPT !.items[@.index] = d.fields.email]]

add_new_identity(d) ==
  ident_to_widgets([d EXCEPT !.ids = Append(@, mail_identity), !.curr = Len(d.ids) + 1,
                             !.box = [items |-> Append(@.items, ""), index |-> Len(@.items) + 1]])

without_identity(d) ==
  LET items == IF d.box.index = 0 THEN d.box.items ELSE RemoveAt(d.box.items, d.box.index)
      box == [items |-> items, index |-> IF d.box.index > Len(items) THEN Len(items) ELSE d.box.index]
      ids == RemoveAt(d.ids, d.curr)
      rest == [d EXCEPT !.ids = ids, !.box = box, !.curr = get_identity(ids, currentText(box))]
  IN ident_to_widgets(IF rest.curr = 0 THEN add_new_identity(rest) ELSE rest)

Closed == [open |-> FALSE, fetched |-> None, ids |-> <<mail_identity>>, curr |-> 1, default_email |-> "",
           box |-> [items |-> <<>>, index |-> 0], fields |-> BlankFields, option |-> None,
           viewers |-> <<>>, viewers_updated |-> FALSE]

(* The widgets are filled from the table; without an identity, or when the  *)
(* query fails, there is one with no address, in no box.                    *)
ident_widget(fails) ==
  LET rows == IF fails THEN {} ELSE {i \in DOMAIN identities : identities[i].email # ""}
      default(i) == identities[i].email = at(mapconf, "default_identity")
      ids == [n \in 1..Cardinality(rows) |->
                LET i == SetToSeq(rows)[n]
                IN [id |-> i, email |-> identities[i].email, name |-> identities[i].name, default |-> default(i)]]
  IN IF rows = {} THEN Closed
     ELSE ident_to_widgets([Closed EXCEPT
            !.fetched = only(identities, rows), !.ids = ids,
            !.box = [items |-> [n \in DOMAIN ids |-> ids[n].email], index |-> 1],
            !.default_email = IF \E i \in rows : default(i) THEN at(mapconf, "default_identity") ELSE ""])
prefs_dialog(fails) ==
  [ident_widget(fails) EXCEPT !.open = TRUE, !.option = conf_to_widgets(mapconf),
                              !.viewers = programs.own \o programs.all]

-----------------------------------------------------------------------------
(* What the user sees: the identities in the order of the box, which of     *)
(* them is shown and which is the default one.                              *)

Seen(d) == [ids |-> [n \in DOMAIN d.ids |-> [id |-> d.ids[n].id, email |-> d.ids[n].email, name |-> d.ids[n].name]],
            shown |-> 1, default |-> get_identity(d.ids, d.default_email) * (IF d.default_email = "" THEN 0 ELSE 1)]
blank == [id |-> 0, email |-> "", name |-> ""]
Looks(m, n) == IF m.ids[n].email = "" THEN [m EXCEPT !.shown = n, !.ids[n].name = "", !.default = IF @ = n THEN 0 ELSE @]
               ELSE [m EXCEPT !.shown = n]
Removes(m) ==
  LET rest == RemoveAt(m.ids, m.shown)
      ids == IF rest = <<>> THEN <<blank>> ELSE rest
      n == IF m.shown > Len(ids) THEN Len(ids) ELSE m.shown
  IN Looks([ids |-> ids, shown |-> n,
            default |-> IF m.default = m.shown THEN 0 ELSE IF m.default > m.shown THEN m.default - 1 ELSE m.default], n)
Adds(m) ==
  LET n == SelectInSeq(m.ids, LAMBDA i : i.email = "")
  IN IF n # 0 THEN Looks(m, n) ELSE [m EXCEPT !.ids = Append(@, blank), !.shown = Len(m.ids) + 1]

DefaultShown == IF meant.default = 0 THEN "" ELSE meant.ids[meant.default].email
Shown == put(dialog.option, "default_identity", DefaultShown)

(* Left out: two identities with one address, the default one deleted, or   *)
(* unchecked and given another address.                                     *)
Repeated(m) == \E i, j \in DOMAIN m.ids : i # j /\ m.ids[i].email = m.ids[j].email
Noted(m, more) == slips' = slips \cup more \cup (IF Repeated(m) THEN {"twice"} ELSE {})

-----------------------------------------------------------------------------
TypeOK ==
  /\ DOMAIN identities \subseteq 1..seq
  /\ dialog.curr \in DOMAIN dialog.ids /\ dialog.box.index \in 0..Len(dialog.box.items)
  /\ meant.shown \in DOMAIN meant.ids /\ meant.default \in 0..Len(meant.ids)
  /\ edits \in 0..MaxEdits /\ others \in 0..MaxOthers

Init ==
  /\ identities = FirstIdentities /\ config = FirstConfig /\ programs = FirstPrograms
  /\ seq = Cardinality(DOMAIN FirstIdentities) /\ mapconf = init(FirstConfig)
  /\ dialog = Closed /\ meant = Seen(Closed) /\ base = None
  /\ before = <<>> /\ saved = FALSE /\ slips = {} /\ edits = 0 /\ others = 0

Open(fails) ==
  /\ ~dialog.open /\ edits < MaxEdits
  /\ dialog' = prefs_dialog(fails) /\ meant' = Seen(dialog')
  /\ base' = put(dialog'.option, "default_identity", dialog'.default_email)
  /\ slips' = slips \cup (IF fails THEN {"fetch"} ELSE {})
                    \cup (IF programs.all # <<>> THEN {"viewers"} ELSE {})
  /\ saved' = FALSE
  /\ UNCHANGED <<tables, seq, mapconf, before, edits, others>>

Edit(d, m) ==
  /\ dialog.open /\ edits < MaxEdits /\ edits' = edits + 1
  /\ dialog' = d /\ meant' = m /\ saved' = FALSE
  /\ UNCHANGED <<tables, seq, mapconf, base, before, others>>

(* The address is typed; the field loses the focus before anything else.    *)
type_email(e) ==
  /\ e # dialog.fields.email
  /\ LET m == [meant EXCEPT !.ids[meant.shown].email = e]
     IN /\ Edit(email_edited([dialog EXCEPT !.fields.email = e]), m)
        /\ Noted(m, IF meant.default # meant.shown /\ dialog.default_email # ""
                       /\ get_identity(dialog.ids, dialog.default_email) = dialog.curr
                    THEN {"default"} ELSE {})
type_name(n) ==
  /\ n # dialog.fields.name /\ UNCHANGED slips
  /\ Edit([dialog EXCEPT !.fields.name = n], [meant EXCEPT !.ids[meant.shown].name = n])
check_default ==
  /\ Edit([dialog EXCEPT !.fields.default = ~@],
          [meant EXCEPT !.default = IF ~dialog.fields.default THEN meant.shown
                                    ELSE IF dialog.ids[dialog.curr].default THEN 0
                                    ELSE SelectInSeq(dialog.ids, LAMBDA i : i.default)])
  /\ Noted(meant, IF dialog.fields.default /\ dialog.ids[dialog.curr].default
                     /\ dialog.default_email # dialog.fields.email THEN {"default"} ELSE {})

(* An item of the box is chosen: what is displayed goes into memory first.  *)
ident_changed(n) ==
  LET d == widgets_to_ident([dialog EXCEPT !.box.index = n])
      email == d.box.items[n]
  IN /\ Edit(ident_to_widgets([d EXCEPT !.curr = get_identity(d.ids, email)]), Looks(meant, n))
     /\ UNCHANGED slips
delete_identity ==
  /\ Edit(without_identity(dialog), Removes(meant))
  /\ Noted(Removes(meant), IF meant.default = meant.shown \/ dialog.ids[dialog.curr].default
                           THEN {"default"} ELSE {})
new_identity ==
  LET d == widgets_to_ident(dialog)
      p == get_identity(d.ids, "")
      n == SelectInSeq(d.box.items, LAMBDA i : i = "")
  IN /\ dialog.box.items = <<>> \/ dialog.fields.email # ""
     /\ Edit(IF p # 0 /\ n # 0 THEN ident_to_widgets([d EXCEPT !.box.index = n, !.curr = p])
             ELSE add_new_identity(d), Adds(meant))
     /\ UNCHANGED slips

choose_option(k, v) ==
  /\ v # dialog.option[k] /\ Edit([dialog EXCEPT !.option[k] = v], meant) /\ UNCHANGED slips

viewers_edited(list) ==
  Edit([dialog EXCEPT !.viewers = list, !.viewers_updated = TRUE], meant) /\ UNCHANGED slips
new_mimetype(v) == v[1] # "" /\ viewers_edited(Append(dialog.viewers, v))
edit_mimetype(n, v) == viewers_edited([dialog.viewers EXCEPT ![n] = v])
delete_mimetype(n) == viewers_edited(RemoveAt(dialog.viewers, n))

Cancel == /\ dialog.open /\ dialog' = Closed /\ meant' = Seen(Closed) /\ saved' = FALSE
          /\ UNCHANGED <<tables, seq, mapconf, base, before, slips, edits, others>>

-----------------------------------------------------------------------------
(* OK.                                                                      *)

(* update_db inserts an identity that has no id, and gives it one.          *)
Fetched(d) == DOMAIN d.fetched
compare_fields(d, i) == d.fetched[i.id] = [email |-> i.email, name |-> i.name]
ToWrite(d) ==
  SelectSeq([n \in DOMAIN d.ids |-> n],
            LAMBDA n : d.ids[n].id = 0 \/ (d.ids[n].id \in Fetched(d) /\ ~compare_fields(d, d.ids[n])))
ToDelete(d) == Fetched(d) \ {d.ids[n].id : n \in DOMAIN d.ids}
StatementsOf(d) == Len(ToWrite(d)) + Cardinality(ToDelete(d))

(* The ids after the first k statements: those inserted have one, which     *)
(* stays with them when the transaction is rolled back.                     *)
Inserted(d, k) == {n \in ToSet(SubSeq(ToWrite(d), 1, Min({k, Len(ToWrite(d))}))) : d.ids[n].id = 0}
NewId(d, k, n) == seq + Cardinality({m \in Inserted(d, k) : m <= n})
after_inserts(d, k) ==
  [d EXCEPT !.ids = [n \in DOMAIN @ |-> IF n \in Inserted(d, k) THEN [@[n] EXCEPT !.id = NewId(d, k, n)] ELSE @[n]]]

(* update_identities_db when every statement succeeds: an update finds the  *)
(* row that is still there.                                                 *)
rows_written(d, written) ==
  LET row(i) == {n \in DOMAIN d.ids : d.ids[n].id = i /\ i \in written}
  IN [i \in (DOMAIN identities \cup written) \ ToDelete(d) |->
        IF row(i) = {} THEN identities[i]
        ELSE LET r == d.ids[CHOOSE n \in row(i) : TRUE] IN [email |-> r.email, name |-> r.name]]
updated_identities(d) ==
  LET found == {n \in ToSet(ToWrite(d)) : d.ids[n].id \in {0} \cup DOMAIN identities}
      all == after_inserts(d, Len(ToWrite(d)))
  IN rows_written(all, {all.ids[n].id : n \in found})

Outside(d, newconf, stopped, tried) ==
  {x \in {"blank", "retry", "fallback", "named"} :
     CASE x = "blank" -> \E n \in DOMAIN d.ids : d.ids[n].email = ""
       [] x = "retry" -> ~stopped /\ tried < StatementsOf(d) /\ Inserted(d, tried) # {}
       [] x = "fallback" -> \E c \in Changeable : Shown[c] = base[c] /\ at(mapconf, c) # newconf[c]
       [] x = "named" -> Named /\ \E c \in Changeable : newconf[c] = "" /\ c \in DOMAIN config.all}

identities_saved(d) ==
  /\ identities' = updated_identities(d)
  /\ dialog' = [after_inserts(d, Len(ToWrite(d))) EXCEPT !.open = FALSE]
  /\ saved' = TRUE /\ before' = tables /\ UNCHANGED base
left_open(d, newconf) == dialog' = d /\ base' = newconf /\ saved' = FALSE /\ UNCHANGED <<identities, before>>

(* done: each of the three is a transaction of its own.  A failure of the   *)
(* settings' is not looked at; those of the others leave the dialog open.   *)
(* `tried` of the statements on identities succeed, then one fails if there *)
(* are more (TransactionHandlers has a COMMIT that fails).                  *)
save(d, newconf, conf_fails, stopped, tried) ==
  /\ config' = IF conf_fails THEN config ELSE diff_update(newconf)
  /\ mapconf' = diff_replace(newconf)
  /\ programs' = IF d.viewers_updated /\ ~stopped THEN [programs EXCEPT !.own = d.viewers] ELSE programs
  /\ IF stopped THEN left_open(d, newconf) /\ UNCHANGED seq
     ELSE /\ seq' = seq + Cardinality(Inserted(d, tried))
          /\ IF tried < StatementsOf(d) THEN left_open(after_inserts(d, tried), newconf) ELSE identities_saved(d)
  /\ slips' = slips \cup Outside(d, newconf, stopped, tried) \cup IF conf_fails THEN {"config"} ELSE {}
  /\ UNCHANGED <<meant, edits, others>>
MayFail(f) == IF f \in Faults THEN BOOLEAN ELSE {FALSE}
accept(d) ==
  \E conf_fails \in MayFail("config"), stopped \in IF d.viewers_updated THEN MayFail("viewers") ELSE {FALSE} :
    \E tried \in IF "identities" \in Faults /\ ~stopped THEN {0, 1, StatementsOf(d)} ELSE {StatementsOf(d)} :
      save(d, widgets_to_conf(d), conf_fails, stopped, tried)
done == dialog.open /\ accept(widgets_to_ident(dialog))

(* Another client changes or removes an identity, changes a setting.        *)
OtherClient ==
  /\ others < MaxOthers /\ others' = others + 1 /\ saved' = FALSE
  /\ \/ \E i \in DOMAIN identities, n \in Names :
          identities' = [identities EXCEPT ![i].name = n] /\ UNCHANGED config
     \/ \E i \in DOMAIN identities :
          identities' = only(identities, DOMAIN identities \ {i}) /\ UNCHANGED config
     \/ \E k \in DOMAIN Options : \E v \in Options[k].values \ {""} :
          config' = [config EXCEPT ![own] = put(@, k, v)] /\ UNCHANGED identities
  /\ UNCHANGED <<programs, seq, mapconf, dialog, meant, base, before, slips, edits>>

Next ==
  \/ \E f \in MayFail("fetch") : Open(f)
  \/ \E e \in Emails \cup {""} : type_email(e)
  \/ \E n \in Names \cup {""} : type_name(n)
  \/ check_default \/ delete_identity \/ new_identity
  \/ \E n \in DOMAIN dialog.box.items : ident_changed(n)
  \/ \E k \in DOMAIN Options : dialog.open /\ \E v \in Options[k].values : choose_option(k, v)
  \/ \E v \in Viewers : new_mimetype(v) \/ \E n \in DOMAIN dialog.viewers : edit_mimetype(n, v)
  \/ \E n \in DOMAIN dialog.viewers : delete_mimetype(n)
  \/ done \/ Cancel \/ OtherClient

Spec == Init /\ [][Next]_prefsVars

-----------------------------------------------------------------------------
(* What the tables should be when OK has closed the dialog.                 *)
Kept(i) == {n \in DOMAIN meant.ids : meant.ids[n].id = i}
Row(n) == [email |-> meant.ids[n].email, name |-> meant.ids[n].name]
Expected(i) == IF i \in Fetched(dialog) /\ \E n \in Kept(i) : Row(n) # dialog.fetched[i]
               THEN Row(CHOOSE n \in Kept(i) : TRUE) ELSE before[1][i]
IdentitiesSaved ==
  LET new == DOMAIN identities \ DOMAIN before[1]
  IN /\ \A i \in DOMAIN before[1] :
          IF i \in Fetched(dialog) /\ Kept(i) = {} THEN i \notin DOMAIN identities
          ELSE i \in DOMAIN identities /\ identities[i] = Expected(i)
     /\ {identities[i] : i \in new} = {Row(n) : n \in Kept(0)} /\ Cardinality(new) = Cardinality(Kept(0))
Restarted(c, k) == IF k = "default_identity" THEN at(init(c), k) ELSE conf_to_widgets(init(c))[k]
SettingsSaved ==
  \A k \in Changeable : Restarted(config, k) = IF Shown[k] # base[k] THEN Shown[k] ELSE Restarted(before[2], k)
ViewersSaved == programs.own \o programs.all = dialog.viewers
(* The composer takes the default identity, or the first one when there is  *)
(* none.                                                                    *)
load_identities ==
  LET emails == {identities[i].email : i \in DOMAIN identities} \ {""}
      default == at(mapconf, "default_identity")
  IN IF default # "" THEN {default} \cap emails ELSE emails
ComposerHasSender == DOMAIN identities # {} => load_identities # {}

Saved == IdentitiesSaved /\ SettingsSaved /\ ViewersSaved /\ (others = 0 => ComposerHasSender)
(* When OK has closed the dialog, however often it failed before, what the  *)
(* user changed is in the tables as it was shown, what was not changed is   *)
(* as other clients left it, a program that starts shows the same settings  *)
(* and the composer finds a sender; except after the steps of slips.        *)
PreferencesSaved == saved /\ slips = {} => Saved

(* An identity without an address is saved.                                 *)
NoBlankRow == saved /\ slips \subseteq {"blank"} => \A i \in DOMAIN identities : identities[i].email # ""
(* The default identity is deleted, or renamed and unchecked.               *)
DefaultFollowed == saved /\ slips \subseteq {"default"} => ComposerHasSender
(* Two identities get one address.                                          *)
TwiceSaved == saved /\ slips \subseteq {"twice"} => IdentitiesSaved
(* The transaction of the identities is rolled back after an insert.        *)
RetrySaves == saved /\ slips \subseteq {"retry"} => IdentitiesSaved
(* The settings could not be written.                                       *)
RefusedSettings == saved /\ slips \subseteq {"config"} => SettingsSaved
(* The identities could not be read.                                        *)
UnreadKept == saved /\ slips \subseteq {"fetch", "blank", "fallback"} => SettingsSaved
(* A setting has no known value, and another client gives it one.           *)
FallbackSaved == saved /\ slips \subseteq {"fallback"} => SettingsSaved
(* A setting of all configurations is emptied in a named one.               *)
NamedSaved == saved /\ slips \subseteq {"named"} => SettingsSaved
(* There are programs for all configurations.                               *)
CommonViewersSaved == saved /\ slips \subseteq {"viewers"} => ViewersSaved
=============================================================================
