-------------------------------- MODULE MailTree ------------------------------
(***************************************************************************)
(* mail_listview and its mail_item_model: the rows of a list of messages,  *)
(* as a tree of replies or as a flat list, while results are incorporated  *)
(* in any order, messages removed, and the list sorted or redisplayed.     *)
(* A message is the number that sorts it (its date, for instance).         *)
(***************************************************************************)
EXTENDS Integers, Sequences, FiniteSets, SequencesExt

CONSTANTS Msgs,          \* the messages that queries may return: numbers above 0
          ReplyTo        \* inReplyTo of each, 0 if there is none

VARIABLES kids,          \* the children of each item, and of the root, by row
          listed,        \* the filter's m_list_msgs
          threaded,      \* m_display_threads
          ascending,     \* the sort order of the header
          current,       \* the current item
          gone           \* history: removed since the tree was built

treeVars == <<kids, listed, threaded, ascending, current, gone>>

Root == 0
PrevSegment == -1        \* the data of the two command items
NextSegment == -2
Commands == {PrevSegment, NextSegment}
Nodes == {Root} \cup Msgs
EmptyTree == [n \in Nodes |-> <<>>]

(* items_map: the messages that have a row.                                 *)
items_map(t) == {m \in Msgs : \E n \in Nodes : m \in Range(t[n])}
parent(t, m) == CHOOSE n \in Nodes : m \in Range(t[n])
row(t, m) == CHOOSE i \in DOMAIN t[parent(t, m)] : t[parent(t, m)][i] = m

TypeOK ==
  /\ kids \in [Nodes -> Seq(Msgs \cup Commands)] /\ listed \subseteq Msgs /\ gone \subseteq Msgs
  /\ threaded \in BOOLEAN /\ ascending \in BOOLEAN
  /\ current \in Nodes \cup Commands

Init ==
  /\ kids = EmptyTree /\ listed = {} /\ threaded \in BOOLEAN /\ ascending \in BOOLEAN
  /\ current = Root /\ gone = {}

-----------------------------------------------------------------------------
(* Insertion.                                                               *)

insert(t, m, n, i) == [t EXCEPT ![n] = InsertAt(@, i, m)]
append(t, m, n) == [t EXCEPT ![n] = Append(@, m)]

(* insertion_point: a binary search between the command items that may be   *)
(* at both ends of the top level.                                           *)
insertion_point(s, m, top) ==
  LET first == IF top /\ s # <<>> /\ s[1] \in Commands THEN 2 ELSE 1
      last  == IF top /\ Len(s) > first /\ s[Len(s)] \in Commands THEN Len(s) - 1 ELSE Len(s)
      search[p \in (1..Len(s) + 1) \X (0..Len(s))] ==
        LET mid == (p[1] + p[2]) \div 2
        IN IF p[1] > p[2] THEN p[1]
           ELSE IF (s[mid] < m) = ascending THEN search[<<mid + 1, p[2]>>]
           ELSE search[<<p[1], mid - 1>>]
  IN search[<<first, last>>]

insert_msg_sorted(t, m, n) == insert(t, m, n, insertion_point(t[n], m, n = Root))

(* insert_sub_tree: the parents of the message that belong to the batch are *)
(* inserted before it.                                                      *)
insert_sub_tree(t0, batch, msg) ==
  LET ins[m \in Msgs] ==
        LET p == ReplyTo[m]
            above == IF p \in batch /\ p \notin items_map(t0) THEN ins[p] ELSE t0
        IN insert_msg_sorted(above, m, IF p \in items_map(above) THEN p ELSE Root)
  IN ins[msg]

(* reparent_msg: the row goes to the end of the new parent's children.      *)
takeRow(t, m) == [t EXCEPT ![parent(t, m)] = SelectSeq(@, LAMBDA x : x # m)]
reparent_msg(t, m, p) == IF parent(t, m) = p THEN t ELSE append(takeRow(t, m), m, p)

(* Mutant: the items of the list are not given to their parents. *)
make_tree_only(t, batch) ==
  FoldSeq(LAMBDA m, acc : IF m \in items_map(acc) THEN acc ELSE insert_sub_tree(acc, Range(batch), m),
          t, batch)
(* make_tree: the rows of the top level whose parent arrives go under it.   *)
make_tree(t, batch) ==
  LET orphans == {m \in Range(t[Root]) \ Commands : ReplyTo[m] \in Range(batch)}
      inserted == make_tree_only(t, batch)
  IN FoldSeq(LAMBDA m, acc : reparent_msg(acc, m, ReplyTo[m]), inserted, SetToSortSeq(orphans, <))

(* insert_list, without and with the final sort                             *)
SortedRow(s) == SetToSortSeq(Range(s) \ Commands, LAMBDA a, b : (a < b) = ascending /\ a # b)
insert_list(t, batch) ==
  IF threaded THEN make_tree(t, batch)
  ELSE FoldSeq(LAMBDA m, acc : IF m \in items_map(acc) THEN acc ELSE append(acc, m, Root), t, batch)

(* add_segment_selector, for the segments that are not the first or last    *)
add_segments(t, sides) ==
  LET below == IF NextSegment \in sides THEN append(t, NextSegment, Root) ELSE t
  IN IF PrevSegment \in sides THEN insert(below, PrevSegment, Root, 1) ELSE below

-----------------------------------------------------------------------------
(* A page is filled by make_list, which puts the new results in the         *)
(* filter's list, and shows the segments' selectors.                        *)
make_list ==
  /\ listed = {} /\ kids = EmptyTree
  /\ \E S \in SUBSET Msgs, sides \in SUBSET Commands :
       /\ S # {} /\ listed' = S
       /\ \E batch \in SetToSeqs(S) : kids' = add_segments(insert_list(EmptyTree, batch), sides)
  /\ UNCHANGED <<threaded, ascending, current, gone>>

(* complete_thread fetches with a filter of its own: its messages are not   *)
(* in the list of the page's filter.                                        *)
complete_thread ==
  /\ \E S \in SUBSET (Msgs \ items_map(kids)) : S # {} /\ kids' = insert_list(kids, SetToSortSeq(S, <))
  /\ current \in Msgs /\ UNCHANGED <<listed, threaded, ascending, current, gone>>

(* remove_msg: the children take the place of the message, and the nearest  *)
(* row below, or else above, becomes the current one.                       *)
remove_row(t, m) ==
  LET p == parent(t, m)
      i == row(t, m)
  IN [t EXCEPT ![m] = <<>>, ![p] = SubSeq(t[p], 1, i - 1) \o t[m] \o SubSeq(t[p], i + 1, Len(t[p]))]

Rows(t) ==
  LET flat[n \in Nodes \cup Commands] ==
        <<n>> \o IF n \in Commands THEN <<>> ELSE FlattenSeq([i \in DOMAIN t[n] |-> flat[t[n][i]]])
  IN Tail(flat[Root])
nearest(t, m) ==
  LET s == Rows(t)
      i == CHOOSE k \in DOMAIN s : s[k] = m
  IN IF i < Len(s) THEN s[i + 1] ELSE IF i > 1 THEN s[i - 1] ELSE Root

remove_msg(m) ==
  /\ m \in items_map(kids)
  /\ kids' = remove_row(kids, m) /\ listed' = listed \ {m} /\ gone' = gone \cup {m}
  /\ current' = IF current = m THEN nearest(kids, m) ELSE current
  /\ UNCHANGED <<threaded, ascending>>

select_msg(m) ==
  /\ m \in items_map(kids) /\ current' = m /\ current # m
  /\ UNCHANGED <<kids, listed, threaded, ascending, gone>>

(* sort: the command items at both ends are put back at theirs.             *)
sort ==
  /\ ascending' = ~ascending
  /\ LET ends == {kids[Root][i] : i \in {1, Len(kids[Root])} \cap DOMAIN kids[Root]} \cap Commands
         inside == SelectSeq(kids[Root], LAMBDA x : x \in Commands \ ends)
         Sorted(s) == Reverse(SetToSortSeq(Range(s) \ Commands, LAMBDA a, b : (a < b) = ascending /\ a # b))
         t == [n \in Nodes |-> IF n = Root THEN Sorted(kids[n]) \o inside ELSE Sorted(kids[n])]
     IN kids' = add_segments(t, ends)
  /\ UNCHANGED <<listed, threaded, current, gone>>

(* toggle_threaded clears the model and inserts the filter's list again.    *)
toggle_threaded ==
  /\ listed # {} /\ threaded' = ~threaded
  /\ LET batch == SetToSortSeq(listed, <)
         sides == Range(kids[Root]) \cap Commands
         t == IF threaded THEN [EmptyTree EXCEPT ![Root] = SortedRow(batch)] ELSE make_tree(EmptyTree, batch)
     IN kids' = add_segments(t, sides)
  /\ current' = IF current \in listed THEN current ELSE Root
  /\ gone' = {}
  /\ UNCHANGED <<listed, ascending>>

Next ==
  \/ make_list \/ complete_thread \/ sort \/ toggle_threaded
  \/ \E m \in Msgs : remove_msg(m) \/ select_msg(m)

Spec == Init /\ [][Next]_treeVars

-----------------------------------------------------------------------------
(* Above a message, in the tree of replies.                                 *)
Above(m) ==
  LET up[x \in Nodes] == IF x = Root THEN {} ELSE {ReplyTo[x]} \cup up[ReplyTo[x]]
  IN up[m] \ {Root}

(* In whatever order messages come and go, every message of the list has    *)
(* one row; a reply is under one of the messages it descends from, or at    *)
(* the top level if its parent is not shown, or has gone and come back.     *)
TreeOfReplies ==
  /\ listed \subseteq items_map(kids)
  /\ \A m \in items_map(kids) :
       /\ Cardinality({n \in Nodes : m \in Range(kids[n])}) = 1
       /\ IF ~threaded THEN parent(kids, m) = Root
          ELSE IF parent(kids, m) = Root THEN ReplyTo[m] \notin items_map(kids) \ gone
          ELSE parent(kids, m) \in Above(m)

(* A reply is under its parent: not after the parent was removed and has    *)
(* come back, as only the rows of the top level are given to new parents.   *)
RepliesUnderParents ==
  threaded => \A m \in items_map(kids) :
                ReplyTo[m] \in items_map(kids) => parent(kids, m) = ReplyTo[m]

(* The children of a message are sorted: not those that it has adopted.     *)
SiblingsSorted ==
  threaded => \A n \in Msgs : \A i \in 1..Len(kids[n]) - 1 : (kids[n][i] < kids[n][i+1]) = ascending

(* The selectors are fixed at both ends of the list: not in a flat list, to *)
(* which new results are appended.                                          *)
SelectorsAtEnds ==
  \A i \in DOMAIN kids[Root] :
    /\ kids[Root][i] = PrevSegment => i = 1
    /\ kids[Root][i] = NextSegment => i = Len(kids[Root])

(* What is shown is in the list of the page: not what completes a thread.   *)
ShownIsListed == items_map(kids) \subseteq listed
=============================================================================
