------------------------------ MODULE FilterRules ------------------------------
(***************************************************************************)
(* filter_edit, the window of the filter rules: expr_list, the rules in    *)
(* memory, loaded from the tables filter_expr and filter_action and saved  *)
(* at once by update_db; the list view of the rules, that of the actions   *)
(* of the current rule, and filter_action_editor.  An order is a float of  *)
(* the table: here a multiple of 1/Unit.                                   *)
(***************************************************************************)
EXTENDS Integers, Sequences, FiniteSets, SequencesExt

CONSTANTS RuleNames,     \* the names that a rule may have
          Loaded,        \* sets of the rules that the table may hold at first
          NewActions,    \* the actions that the user may choose in the editor
          MaxChanges     \* bound: the changes made in the window

VARIABLES table,         \* filter_expr and filter_action: the saved rules
          rules,         \* m_expr_list, in the order of its creation
          rows,          \* lv_expr: the rules by number
          sortedBy,      \* the column by which lv_expr is sorted
          selected,      \* m_current_expr: an index of rules, or 0
          actionRows,    \* lv_actions: the action shown and m_act_ptr
          window,        \* the window: open, saved or closed
          renumbered,    \* history: a rule was deleted in a list sorted by name
          strayed,       \* history: a row of lv_actions has lost its action
          changes        \* the changes made

ruleVars == <<table, rules, rows, sortedBy, selected, actionRows, window, renumbered, strayed, changes>>

Unit == 16

-----------------------------------------------------------------------------
(* filter_action_editor: an action is a type and the words of its argument. *)

StatusLetters == <<"R", "A", "F">>
HeaderOps == {"set", "append", "prepend"}

(* set_param of each kind of action_line, followed by its get_param.        *)
SetHeader(arg) ==
  IF Len(arg) = 2 THEN <<arg[1], "set", arg[2]>>
  ELSE <<arg[1], IF arg[2] \in HeaderOps THEN arg[2] ELSE "set">> \o SubSeq(arg, 3, Len(arg))
Parameter(type, arg) ==
  CASE type = "status"     -> SelectSeq(StatusLetters, LAMBDA l : l \in Range(arg))
    [] type = "priority"   -> IF arg # <<>> /\ arg[1] \in {"=", "+="} THEN arg ELSE <<"=", "0">>
    [] type = "set header" -> SetHeader(arg)
    [] type = "discard"    -> IF arg = <<"trash">> THEN arg ELSE <<"delete">>
    [] type = "stop"       -> <<>>
    [] OTHER               -> arg

(* display_action, and get_action when the user confirms.                   *)
Confirmed(a) == [type |-> a.type, arg |-> Parameter(a.type, a.arg)]

(* ui_text: what the list says of the action, for the status and headers.   *)
ui_text(a) ==
  CASE a.type = "status" -> [says |-> "status", of |-> SelectSeq(a.arg, LAMBDA l : l \in {"R", "T", "A", "F", "D"})]
    [] a.type = "set header" /\ Len(a.arg) > 2 /\ a.arg[2] \in HeaderOps -> [says |-> a.arg[2], of |-> a.arg]
    [] a.type = "set header" -> [says |-> "set", of |-> <<a.arg[1], "set">> \o Tail(a.arg)]
    [] OTHER -> [says |-> a.type, of |-> a.arg]

-----------------------------------------------------------------------------
ActionsOf(r) == [k \in DOMAIN r.actions |-> r.actions[k].act]
Nodes == 1..(2 * MaxChanges + 4)
UsedNodes == UNION {{r.actions[k].node : k \in DOMAIN r.actions} : r \in Range(rules)}
             \cup {actionRows[k].node : k \in DOMAIN actionRows}
FreshNode == CHOOSE n \in Nodes : n \notin UsedNodes /\ \A m \in Nodes \ UsedNodes : n <= m
ByOrder(S) == SetToSortSeq(S, LAMBDA a, b : a.order < b.order)

(* expr_list::fetch and filter_edit::load                                   *)
fetch(t) ==
  LET s == ByOrder(t)
      Before(i) == FoldFunction(+, 0, [j \in 1..i-1 |-> Len(s[j].actions)])
  IN [i \in DOMAIN s |->
        [id |-> s[i].id, name |-> s[i].name, order |-> s[i].order, dirty |-> FALSE, delete |-> FALSE,
         actions |-> [k \in DOMAIN s[i].actions |-> [node |-> Before(i) + k, act |-> s[i].actions[k]]]]]

Init ==
  /\ table \in Loaded /\ rules = fetch(table) /\ rows = [i \in DOMAIN rules |-> i]
  /\ sortedBy = "number" /\ selected = 0 /\ actionRows = <<>>
  /\ window = "open" /\ renumbered = FALSE /\ strayed = FALSE /\ changes = 0

TypeOK ==
  /\ \A r \in Range(rules) : r.id \in Nat /\ r.name \in RuleNames /\ r.order \in Nat
  /\ Range(rows) \subseteq DOMAIN rules /\ selected \in {0} \cup DOMAIN rules
  /\ window \in {"open", "saved", "closed"} /\ changes \in 0..MaxChanges

(* What each operation that changes a rule shares                           *)
Change == window = "open" /\ changes < MaxChanges /\ changes' = changes + 1
Edit(i, r) == rules' = [rules EXCEPT ![i] = [r EXCEPT !.dirty = TRUE]]

(* filter_expr_to_dlg and display_actions, for the item that is selected    *)
display_actions(r) ==
  [k \in DOMAIN r.actions |-> [shown |-> r.actions[k].act, node |-> r.actions[k].node]]

selection_changed(i) ==
  /\ window = "open" /\ i \in Range(rows) /\ i # selected
  /\ selected' = i /\ actionRows' = display_actions(rules[i]) /\ strayed' = FALSE
  /\ UNCHANGED <<table, rules, rows, sortedBy, window, renumbered, changes>>

expr_sort_order_changed ==
  /\ window = "open" /\ sortedBy' = (IF sortedBy = "number" THEN "name" ELSE "number")
  /\ UNCHANGED <<table, rules, rows, selected, actionRows, window, renumbered, strayed, changes>>

(* move_filter_item, whose buttons are enabled when the list is sorted by   *)
(* number: the order of the rule is put between those of its neighbours.    *)
(* Mutant: the order is that of the rule above. *)
AboveNeighbour(above, below) == IF above # 0 THEN rules[above].order ELSE rules[below].order \div 2
OrderBetween(above, below) ==
  IF above = 0 THEN rules[below].order \div 2
  ELSE IF below = 0 THEN rules[above].order + Unit
  ELSE rules[above].order + (rules[below].order - rules[above].order) \div 2

move_filter_item(new) ==
  /\ Change /\ selected # 0 /\ sortedBy = "number" /\ new \in DOMAIN rows /\ rows[new] # selected
  /\ LET others == SelectSeq(rows, LAMBDA i : i # selected)
         above == IF new = 1 THEN 0 ELSE others[new - 1]
         below == IF new > Len(others) THEN 0 ELSE others[new]
     IN /\ rows' = InsertAt(others, new, selected)
        /\ Edit(selected, [rules[selected] EXCEPT !.order = OrderBetween(above, below)])
  /\ actionRows' = display_actions(rules[selected]) /\ strayed' = FALSE
  /\ UNCHANGED <<table, sortedBy, selected, window, renumbered>>

(* current_name_edited; expr_update for the rest of the fields              *)
current_name_edited(name) ==
  /\ Change /\ selected # 0 /\ name # rules[selected].name
  /\ Edit(selected, [rules[selected] EXCEPT !.name = name])
  /\ UNCHANGED <<table, rows, sortedBy, selected, actionRows, window, renumbered, strayed>>

new_expr(name) ==
  /\ Change
  /\ LET max_apply_order == FoldFunction(LAMBDA r, m : IF r.order > m THEN r.order ELSE m, 0, rules)
     IN rules' = Append(rules, [id |-> 0, name |-> name, order |-> max_apply_order + Unit,
                                dirty |-> TRUE, delete |-> FALSE, actions |-> <<>>])
  /\ rows' = Append(rows, Len(rules')) /\ selected' = Len(rules') /\ actionRows' = <<>> /\ strayed' = FALSE
  /\ UNCHANGED <<table, sortedBy, window, renumbered>>

(* delete_expr, and renumber_items in the order in which the list is shown  *)
delete_expr ==
  /\ Change /\ selected # 0
  /\ rules' = [rules EXCEPT ![selected].delete = TRUE]
  /\ LET left == SelectSeq(rows, LAMBDA i : i # selected)
         Before(b) == {c \in RuleNames \X DOMAIN rules : c[1] < rules[b].name \/ (c[1] = rules[b].name /\ c[2] < b)}
         byName == SetToSortSeq(Range(left), LAMBDA a, b : <<rules[a].name, a>> \in Before(b))
     IN /\ rows' = IF sortedBy = "name" THEN byName ELSE left
        /\ renumbered' = (renumbered \/ rows' # left)
  /\ selected' = 0 /\ actionRows' = <<>> /\ strayed' = FALSE
  /\ UNCHANGED <<table, sortedBy, window>>

-----------------------------------------------------------------------------
(* The actions of the current rule                                          *)

NodeOf(k) == {j \in DOMAIN rules[selected].actions : rules[selected].actions[j].node = actionRows[k].node}

add_action(a) ==
  /\ Change /\ selected # 0
  /\ Edit(selected, [rules[selected] EXCEPT !.actions = Append(@, [node |-> FreshNode, act |-> Confirmed(a)])])
  /\ actionRows' = Append(actionRows, [shown |-> Confirmed(a), node |-> FreshNode])
  /\ UNCHANGED <<table, rows, sortedBy, selected, window, renumbered, strayed>>

(* edit_action writes through m_act_ptr.                                    *)
edit_action(k, a) ==
  /\ Change /\ k \in DOMAIN actionRows
  /\ actionRows' = [actionRows EXCEPT ![k].shown = Confirmed(a)]
  /\ Edit(selected, [rules[selected] EXCEPT !.actions =
                       [j \in DOMAIN @ |-> IF j \in NodeOf(k) THEN [@[j] EXCEPT !.act = Confirmed(a)] ELSE @[j]]])
  /\ UNCHANGED <<table, rows, sortedBy, selected, window, renumbered, strayed>>

remove_action(k) ==
  /\ Change /\ k \in DOMAIN actionRows
  /\ actionRows' = RemoveAt(actionRows, k)
  /\ IF NodeOf(k) = {} THEN UNCHANGED rules
     ELSE Edit(selected, [rules[selected] EXCEPT !.actions = RemoveAt(@, CHOOSE j \in NodeOf(k) : TRUE)])
  /\ UNCHANGED <<table, rows, sortedBy, selected, window, renumbered, strayed>>

(* move_filter_action takes the action from its QList and inserts a copy,   *)
(* which may be at the same address or at another one.                      *)
move_filter_action(k, j) ==
  /\ Change /\ k \in DOMAIN actionRows /\ j \in DOMAIN actionRows \cap {k - 1, k + 1}
  /\ actionRows' = InsertAt(RemoveAt(actionRows, k), j, actionRows[k])
  /\ \E n \in {rules[selected].actions[k].node, FreshNode} :
       /\ LET copy == [node |-> n, act |-> rules[selected].actions[k].act]
          IN Edit(selected, [rules[selected] EXCEPT !.actions = InsertAt(RemoveAt(@, k), j, copy)])
       /\ strayed' = (strayed \/ n # actionRows[k].node)
  /\ UNCHANGED <<table, rows, sortedBy, selected, window, renumbered>>

-----------------------------------------------------------------------------
(* update_db, in one transaction: the rules deleted, those created, and the *)
(* others if they were changed.  Its failure leaves the window open.        *)

(* Mutant: the former actions of the rule are not deleted. *)
KeepOldActions(r, id) ==
  LET old == {s \in table : s.id = id}
  IN [id |-> id, name |-> r.name, order |-> r.order,
      actions |-> (IF old = {} THEN <<>> ELSE (CHOOSE s \in old : TRUE).actions) \o ActionsOf(r)]
Saved(r, id) == [id |-> id, name |-> r.name, order |-> r.order, actions |-> ActionsOf(r)]

needs_save == \E r \in Range(rules) : r.delete \/ r.dirty

ok ==
  /\ window = "open" /\ window' = "saved"
  /\ LET base == Cardinality(DOMAIN rules) * 10
         Id(i) == IF rules[i].id = 0 THEN base + i ELSE rules[i].id
         written == {i \in DOMAIN rules : rules[i].dirty /\ ~rules[i].delete}
         gone == {Id(i) : i \in {j \in DOMAIN rules : rules[j].delete}} \cup {Id(i) : i \in written}
     IN table' = {s \in table : s.id \notin gone} \cup {Saved(rules[i], Id(i)) : i \in written}
  /\ UNCHANGED <<rules, rows, sortedBy, selected, actionRows, renumbered, strayed, changes>>

(* closeEvent, when there is nothing to save or the user says so; cancel    *)
close ==
  /\ window = "open" /\ window' = "closed"
  /\ UNCHANGED <<table, rules, rows, sortedBy, selected, actionRows, renumbered, strayed, changes>>

Next ==
  \/ expr_sort_order_changed \/ delete_expr \/ ok \/ close
  \/ \E i \in DOMAIN rules : selection_changed(i) \/ move_filter_item(i)
  \/ \E name \in RuleNames : current_name_edited(name) \/ new_expr(name)
  \/ \E a \in NewActions : add_action(a) \/ \E k \in DOMAIN actionRows : edit_action(k, a)
  \/ \E k \in DOMAIN actionRows : remove_action(k) \/ \E j \in DOMAIN actionRows : move_filter_action(k, j)

Spec == Init /\ [][Next]_ruleVars

-----------------------------------------------------------------------------
Shown == [n \in DOMAIN rows |-> [name |-> rules[rows[n]].name, actions |-> ActionsOf(rules[rows[n]])]]
InTable == [n \in DOMAIN ByOrder(table) |-> [name |-> ByOrder(table)[n].name, actions |-> ByOrder(table)[n].actions]]
ShownActions == [k \in DOMAIN actionRows |-> actionRows[k].shown]

(* After OK the table holds the rules of the window, in the order of their  *)
(* numbers and with the actions that the window lists, whatever was moved,  *)
(* created and deleted; unless the list was renumbered by name, or one of   *)
(* its actions has lost its row.                                            *)
RulesSavedAsShown ==
  /\ window = "saved" /\ ~renumbered => InTable = Shown
  /\ selected # 0 /\ ~strayed => ShownActions = ActionsOf(rules[selected])

(* The numbers of the list are the order of the rules: not after a rule was *)
(* deleted while the list was sorted by name.                               *)
NumbersFollowOrder == window = "saved" => InTable = Shown

(* The list of the actions is that of the rule: not after one was moved and *)
(* then edited or removed through the pointer to its former place.          *)
ActionsShownAreSaved == selected # 0 => ShownActions = ActionsOf(rules[selected])

(* To open an action and to confirm changes nothing in what the list says:  *)
(* not if its form is an older one.                                         *)
OkChangesNothing ==
  \A r \in Range(rules) : \A k \in DOMAIN r.actions : ui_text(Confirmed(r.actions[k].act)) = ui_text(r.actions[k].act)
=============================================================================
