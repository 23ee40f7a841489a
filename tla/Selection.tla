------------------------------- MODULE Selection -------------------------------
(***************************************************************************)
(* What a filter selects: msgs_filter and the clauses that build_query     *)
(* gives to the database, as a predicate on messages.  A message is a      *)
(* record: its status bits, the day of its date, its addresses by type,    *)
(* its tags, its text as a sequence of words and separators, and the other *)
(* conditions (subject, thread, priority, SQL, attachments...) it meets.   *)
(* The bounds of a segment and the limit are in SegmentPaging.             *)
(***************************************************************************)
EXTENDS Integers, Sequences, FiniteSets, SequencesExt

Today == 3                     \* days are counted from 0, the oldest
NoDay == -1                    \* a null QDate
Bits == {"read", "replied", "archived", "trashed", "sent"}

(* fts_options: operators are lists of <<name, value>>, oldest first; those *)
(* with a minus sign are only used all together, as a set.                  *)
NoOptions == [words |-> {}, excluded |-> {}, substrs |-> {}, ops |-> <<>>, minus |-> {}]

(* msgs_filter::init *)
NewFilter ==
  [exact |-> "any", set |-> {}, unset |-> {}, inTrash |-> FALSE, withTrash |-> FALSE,
   untagged |-> FALSE, tags |-> {}, addresses |-> {}, conditions |-> {},
   clause |-> "", min |-> NoDay, max |-> NoDay, limit |-> "1000", fts |-> NoOptions]

(* fts_options::clear leaves the operators with a minus sign.               *)
Cleared(options) == [NoOptions EXCEPT !.minus = options.minus]

(* fts_options::add_operator: a minus sign before the name negates.         *)
AddOperator(options, name, value) ==
  IF Len(name) > 1 /\ Head(name) = "-"
  THEN [options EXCEPT !.minus = @ \cup {<<Tail(name), value>>}]
  ELSE [options EXCEPT !.ops = Append(@, <<name, value>>)]

Values(operators, name) == {o[2] : o \in {x \in operators : x[1] = <<name>>}}

-----------------------------------------------------------------------------
(* Dates.  "-N" is compared with the day only: N days back or later.        *)

Span(e) ==
  CASE e = "today" -> <<Today, Today>>
    [] e = "yesterday" -> <<Today - 1, Today - 1>>
    [] e = "year" -> <<0, 1>>            \* YYYY, YYYY-MM, YYYY-MM-DD: a past period
    [] e = "-1" -> <<Today - 1, Today>>
    [] OTHER -> <<>>

Invalid(e) == e # "" /\ Span(e) = <<>>

(* Mutant: the last day of the period left out. *)
BoundaryLost(compare, e, m) ==
  e # "" /\ e # "-1" =>
    CASE compare = "equal"  -> m.day \in Span(e)[1] .. Span(e)[2]
      [] compare = "before" -> m.day < Span(e)[2]
      [] compare = "after"  -> m.day >= Span(e)[1]

process_date_clause(compare, e, m) ==
  CASE e = "" -> TRUE
    [] e = "-1" -> compare = "equal" => m.day >= Span(e)[1]
    [] e = "today" /\ compare = "before" -> m.day < Today
    [] compare = "equal" -> m.day \in Span(e)[1] .. Span(e)[2]
    [] compare = "before" -> m.day <= Span(e)[2]
    [] compare = "after" -> m.day >= Span(e)[1]

(* The last operator of each name counts; any other choice of the dialog   *)
(* than a range excludes them.  The bounds, once set, count in any case.   *)
LastValue(operators, name) ==
  LET given == SelectSeq(operators, LAMBDA o : o[1] = <<name>>)
  IN IF given = <<>> THEN "" ELSE Last(given)[2]

DateOperators == {<<"date", "equal">>, <<"before", "before">>, <<"after", "after">>}

DateClauses(f, m) ==
  /\ f.min # NoDay => m.day >= f.min
  /\ f.max # NoDay => m.day <= f.max
  /\ f.clause = "" => \A d \in DateOperators :
                        process_date_clause(d[2], LastValue(f.fts.ops, d[1]), m)
  /\ f.clause \notin {"", "range"} => process_date_clause("equal", f.clause, m)

-----------------------------------------------------------------------------
(* Status.  Two combinations with "(No tag set)" have clauses of their own. *)

InTrash(f) == ~f.withTrash /\ f.inTrash
OutOfTrash(f) == ~f.withTrash /\ ~f.inTrash

(* Mutant: a message in the trashcan is found like any other. *)
TrashIncluded(f, m) == f.set \subseteq m.status /\ f.unset \cap m.status = {}
Masks(f, m) ==
  /\ f.set \cup (IF InTrash(f) THEN {"trashed"} ELSE {}) \subseteq m.status
  /\ (f.unset \cup (IF OutOfTrash(f) THEN {"trashed"} ELSE {})) \cap m.status = {}

StatusClauses(f, m) ==
  /\ f.untagged => m.tags = {}
  /\ IF f.exact # "any" THEN m.status = f.exact
     ELSE IF f.untagged /\ ~f.inTrash /\ f.set = {} /\ f.unset = {"archived"}
     THEN "archived" \notin m.status
     ELSE Masks(f, m)

(* is: and isnot: a name that is not in the table adds no clause.           *)
process_status_clause(f, m) ==
  LET named == Bits \ {"trashed"}
  IN /\ Values(Range(f.fts.ops), "is") \cap named \subseteq m.status
     /\ Values(Range(f.fts.ops), "isnot") \cap named \cap m.status = {}

-----------------------------------------------------------------------------
(* Addresses, tags, attachments, identifiers, words *)

AddressTypes == {"from", "to", "cc"}

(* Mutant: a negated address that is required like the others. *)
MinusIgnored(f, m) ==
  \A t \in AddressTypes : Values(Range(f.fts.ops), t) \cup Values(f.fts.minus, t) \subseteq m.addresses[t]
process_address_clause(f, m) ==
  \A t \in AddressTypes : /\ Values(Range(f.fts.ops), t) \subseteq m.addresses[t]
                          /\ Values(f.fts.minus, t) \cap m.addresses[t] = {}

(* An unknown tag selects nothing, an empty one the untagged messages.      *)
process_tag_clause(f, m) ==
  \A v \in Values(Range(f.fts.ops), "tag") : IF v = "" THEN m.tags = {} ELSE v \in m.tags

ConditionOperators == {"filename", "filesuffix", "msgid", "id"}
process_condition_clauses(f, m) ==
  \A name \in ConditionOperators : \A v \in Values(Range(f.fts.ops), name) : <<name, v>> \in m.meets

HasPart(text, part) ==
  \E i \in 1 .. Len(text) : i + Len(part) - 1 <= Len(text) /\ SubSeq(text, i, i + Len(part) - 1) = part

WordsOf(text) == {<<x>> : x \in Range(text)}

WordClauses(f, m) ==
  /\ f.fts.words \subseteq WordsOf(m.text)
  /\ f.fts.excluded \cap WordsOf(m.text) = {}
  /\ \A s \in f.fts.substrs : HasPart(m.text, s)

(* add_address_selection: <<type, address>>, "any" type included            *)
AddressClauses(f, m) ==
  \A a \in f.addresses : \E t \in AddressTypes : a[1] \in {t, "any"} /\ a[2] \in m.addresses[t]

-----------------------------------------------------------------------------
InQuery(f, m) ==
  /\ DateClauses(f, m) /\ StatusClauses(f, m) /\ process_status_clause(f, m)
  /\ process_address_clause(f, m) /\ process_tag_clause(f, m)
  /\ process_condition_clauses(f, m) /\ WordClauses(f, m) /\ AddressClauses(f, m)
  /\ f.tags \subseteq m.tags /\ f.conditions \subseteq m.meets

(* build_query: 1 the query can run, 2 it would have no result, 3 an error  *)
(* has been shown.                                                          *)
build_query(f, knownAddresses) ==
  IF \E a \in f.addresses : a[2] \notin knownAddresses THEN 2
  ELSE IF \/ f.clause # "range" /\ Invalid(f.clause)
          \/ f.clause = "" /\ \E d \in DateOperators : Invalid(LastValue(f.fts.ops, d[1]))
  THEN 3 ELSE 1
=============================================================================
