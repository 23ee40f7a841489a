---------------------------- MODULE SelectionDialog ----------------------------
(***************************************************************************)
(* msg_select_dialog: its widgets, whose signals change each other, the    *)
(* filter that they are copied to when OK is pressed, which lives as long  *)
(* as the dialog, and the reopening of a dialog on the filter of a page.   *)
(* The thread that runs the query is in BackgroundQueries.                 *)
(***************************************************************************)
EXTENDS Selection

CONSTANTS StatusBits,   \* the bits that status_dialog edits
          Fields,       \* the further fields: address, subject, SQL, tag
          Texts,        \* what the "Contains" field may hold, as fts_options
          Mails

VARIABLES dialog,       \* the widgets
          filter,       \* m_filter
          running       \* the query asked: "no", "yes"

dialogVars == <<dialog, filter, running>>

StartDay == 1
EndDay == 2             \* the dates in the two date fields, when they are set

(* msg_select_dialog's constructor                                          *)
NewDialog ==
  [date |-> "", chkmin |-> FALSE, chkmax |-> FALSE, min |-> Today, max |-> Today,
   contains |-> NoOptions, conditions |-> {}, trash |-> FALSE, set |-> {}, unset |-> {},
   limit |-> "1000"]

-----------------------------------------------------------------------------
(* date_cb_changed: without a bound, a range gets one.                      *)
date_cb_changed(d) ==
  IF d.date = "range" THEN [d EXCEPT !.chkmin = @ \/ ~d.chkmax]
  ELSE [d EXCEPT !.chkmin = FALSE, !.chkmax = FALSE]

SetDate(d, e) == IF d.date = e THEN d ELSE date_cb_changed([d EXCEPT !.date = e])

(* select_date_range: a bound that gets checked makes a range.              *)
select_date_range(d, on) == IF on THEN SetDate(d, "range") ELSE d
CheckMin(d, on) == IF d.chkmin = on THEN d ELSE select_date_range([d EXCEPT !.chkmin = on], on)
CheckMax(d, on) == IF d.chkmax = on THEN d ELSE select_date_range([d EXCEPT !.chkmax = on], on)

(* select_status_box::status_changed: Yes, No or Either                     *)
(* Mutant: Yes leaves the bit in the other mask. *)
UnsetKept(d, bit, choice) ==
  [d EXCEPT !.set = IF choice = "yes" THEN @ \cup {bit} ELSE @ \ {bit},
            !.unset = IF choice = "no" THEN @ \cup {bit} ELSE @]
status_changed(d, bit, choice) ==
  [d EXCEPT !.set = IF choice = "yes" THEN @ \cup {bit} ELSE @ \ {bit},
            !.unset = IF choice = "no" THEN @ \cup {bit} ELSE @ \ {bit}]

-----------------------------------------------------------------------------
(* to_filter.  It stops at a limit that is not a number, and what it has    *)
(* copied before stays in the filter.                                       *)

ToFilterDates(d, f) ==
  CASE d.date = "" -> [f EXCEPT !.clause = "", !.min = NoDay, !.max = NoDay]
    [] d.date = "range" -> [f EXCEPT !.clause = "range", !.min = IF d.chkmin THEN d.min ELSE NoDay,
                                                         !.max = IF d.chkmax THEN d.max ELSE NoDay]
    [] OTHER -> [f EXCEPT !.clause = d.date]

ToFilterContents(d, f) ==
  [ToFilterDates(d, f) EXCEPT
     !.fts = [d.contains EXCEPT !.minus = Cleared(f.fts).minus \cup @],
     !.conditions = d.conditions, !.inTrash = d.trash]

Numeric(limit) == limit # "many"

(* Mutant: the masks of the status are copied one for the other. *)
MasksSwapped(d, f) ==
  IF ~Numeric(d.limit) THEN ToFilterContents(d, f)
  ELSE [ToFilterContents(d, f) EXCEPT !.limit = d.limit, !.set = d.unset, !.unset = d.set]
to_filter(d, f) ==
  IF ~Numeric(d.limit) THEN ToFilterContents(d, f)
  ELSE [ToFilterContents(d, f) EXCEPT !.limit = d.limit, !.set = d.set, !.unset = d.unset]

(* filter_to_dialog, on a new dialog: a null date leaves today's; the words *)
(* that the filter has looked for are not shown.                            *)
FieldsShown(f) ==
  [NewDialog EXCEPT !.min = IF f.min = NoDay THEN @ ELSE f.min,
                    !.max = IF f.max = NoDay THEN @ ELSE f.max,
                    !.conditions = f.conditions, !.trash = f.inTrash,
                    !.limit = f.limit, !.set = f.set, !.unset = f.unset]
(* Mutant: the boxes of the bounds stay as they are. *)
BoundsForgotten(f) == SetDate(FieldsShown(f), f.clause)
filter_to_dialog(f) ==
  LET shown == FieldsShown(f)
      min == IF f.min # NoDay THEN CheckMin(shown, TRUE) ELSE shown
      max == IF f.max # NoDay THEN CheckMax(min, TRUE) ELSE min
  IN SetDate(max, f.clause)

-----------------------------------------------------------------------------
Init == dialog = NewDialog /\ filter = NewFilter /\ running = "no"

(* enable_inputs: nothing of this while a query runs.                       *)
Edit(d) == running = "no" /\ dialog' = d /\ UNCHANGED <<filter, running>>

ChooseDate(e) == Edit(SetDate(dialog, e))
CheckBound ==
  \/ \E on \in BOOLEAN : Edit(CheckMin([dialog EXCEPT !.min = StartDay], on))
  \/ \E on \in BOOLEAN : Edit(CheckMax([dialog EXCEPT !.max = EndDay], on))
more_status(bit, choice) == Edit(status_changed(dialog, bit, choice))
FillIn ==
  \/ \E t \in Texts : Edit([dialog EXCEPT !.contains = t])
  \/ \E f \in Fields : Edit([dialog EXCEPT !.conditions = IF f \in @ THEN @ \ {f} ELSE @ \cup {f}])
  \/ Edit([dialog EXCEPT !.trash = ~@])
  \/ \E l \in {"1000", "many"} : Edit([dialog EXCEPT !.limit = l])

ok ==
  /\ running = "no"
  /\ filter' = to_filter(dialog, filter)
  /\ running' = IF Numeric(dialog.limit) /\ build_query(filter', {}) = 1 THEN "yes" ELSE "no"
  /\ UNCHANGED dialog

Results == {m \in Mails : InQuery(filter, m)}

(* timer_done: without results the dialog stays, and its filter with it.    *)
(* With results it is closed, and opened again, on a new filter: by         *)
(* new_list, or by sel_refine on the filter of the page.                    *)
timer_done ==
  /\ running = "yes" /\ running' = "no"
  /\ IF Results = {} THEN UNCHANGED <<dialog, filter>>
     ELSE dialog' \in {NewDialog, filter_to_dialog(filter)} /\ filter' = NewFilter

(* The first press stops the query, the second one closes the dialog.       *)
cancel ==
  \/ running = "yes" /\ running' = "no" /\ UNCHANGED <<dialog, filter>>
  \/ running = "no" /\ dialog' = NewDialog /\ filter' = NewFilter /\ UNCHANGED running

Next == \/ \E e \in {"", "today", "range"} : ChooseDate(e)
        \/ CheckBound \/ FillIn \/ ok \/ timer_done \/ cancel
        \/ \E b \in StatusBits, c \in {"yes", "no", "either"} : more_status(b, c)

Spec == Init /\ [][Next]_dialogVars
-----------------------------------------------------------------------------
TypeOK ==
  /\ dialog.date \in {"", "today", "range"} /\ dialog.set \cap dialog.unset = {}
  /\ running \in {"no", "yes"} /\ filter.set \cup filter.unset \subseteq StatusBits

(* What the widgets say is selected: the date, bits, fields and the words   *)
(* and operators of the text, each by itself.                               *)
Wanted(d, m) ==
  /\ d.date = "today" => m.day = Today
  /\ d.date = "range" => (d.chkmin => m.day >= d.min) /\ (d.chkmax => m.day <= d.max)
  /\ d.set \subseteq m.status /\ d.unset \cap m.status = {}
  /\ d.trash <=> "trashed" \in m.status
  /\ d.conditions \subseteq m.meets
  /\ LET text == [fts |-> d.contains]
     IN /\ WordClauses(text, m) /\ process_status_clause(text, m) /\ process_address_clause(text, m)
        /\ process_tag_clause(text, m) /\ process_condition_clauses(text, m)
        /\ d.date = "" => \A o \in DateOperators :
                            process_date_clause(o[2], LastValue(d.contains.ops, o[1]), m)

(* What is selected is what the widgets say (selectmail.cpp:1621-1700), but *)
(* for what an earlier query of the same dialog left: its bounds and its    *)
(* operators with a minus sign.                                             *)
Leftover == \/ filter.clause = "today" /\ (filter.min # NoDay \/ filter.max # NoDay)
            \/ ~(filter.fts.minus \subseteq dialog.contains.minus)
SelectsWhatIsShown ==
  running = "yes" /\ ~Leftover => Results = {m \in Mails : Wanted(dialog, m)}
AlwaysSelectsWhatIsShown ==
  running = "yes" => Results = {m \in Mails : Wanted(dialog, m)}

(* A selection that is refined and left as it is selects the same messages  *)
(* (selectmail.cpp:1702-1762).  Words are asked again, and a range without  *)
(* bounds gets one when it is shown.                                        *)
Refined(f) == {m \in Mails : InQuery(to_filter(filter_to_dialog(f), NewFilter), m)}
BoundlessRange(f) == f.clause = "range" /\ f.min = NoDay /\ f.max = NoDay
RefineKeepsSelection ==
  running = "yes" /\ filter.fts = NoOptions /\ ~BoundlessRange(filter) /\ ~Leftover =>
     Refined(filter) = Results
RefineKeepsAnySelection == running = "yes" /\ filter.fts = NoOptions => Refined(filter) = Results

(* Both of these: OK selects what the dialog shows, and opening the dialog  *)
(* again on a filter and pressing OK selects the same messages.             *)
DialogAgrees == SelectsWhatIsShown /\ RefineKeepsSelection
=============================================================================
