----------------------------- MODULE SegmentPaging -----------------------------
(***************************************************************************)
(* The list of a selection is fetched one segment at a time: each query is *)
(* limited to one message more than a segment holds, and bounded by the    *)
(* (date, mail_id) pairs of the segment that is shown, while messages come *)
(* and go in the database.                                                 *)
(*                                                                         *)
(* The window lets one fetch run at a time (module ListWindow), so that a  *)
(* fetch and its results are one step here.                                *)
(***************************************************************************)
EXTENDS Integers, FiniteSets

CONSTANTS
  Msgs,   \* the messages' ids
  Dates,  \* the dates they may have; several may have the same one
  Sizes,  \* the values of m_max_results
  Faults, \* "query": a query may fail
  MaxChanges \* how many messages come or go after the selection is opened

ASSUME PagingAssumption ==
  /\ Msgs \subseteq Nat \ {0} /\ IsFiniteSet(Msgs)
  /\ Dates \subseteq Nat \ {0} /\ Sizes \subseteq Nat \ {0} /\ MaxChanges \in Nat

VARIABLES
  date,    \* the messages' dates
  order,   \* m_order: 1 oldest first, -1 newest first
  N,       \* m_max_results of the filter
  db,      \* the messages that match the selection
  dir,     \* m_direction of the filter: of its last fetch
  seg,     \* m_segment
  shown,   \* the messages in the list
  news,    \* what the status bar says of new mail
  stable,  \* the messages that match since the selection was opened
  seen,    \* the messages that have been in the list since
  changes, \* how many messages have come or gone since
  emptied  \* a fetch of the previous segment has found nothing since

rows == <<date, order, N, db>>
vars == <<rows, dir, seg, shown, news, stable, seen, changes, emptied>>

(* (msg_date, mail_id) as PostgreSQL compares rows                         *)
Key(m) == <<date[m], m>>
Less(a, b) == a[1] < b[1] \/ (a[1] = b[1] /\ a[2] < b[2])

(* to_timestamp of an empty string is before any date; the ids start at 0  *)
NoBound == <<0, 0>>

(* What comes first in the list, and in the query of direction d           *)
Precedes(a, b) == IF order > 0 THEN Less(Key(a), Key(b)) ELSE Less(Key(b), Key(a))
(* Mutant: going back does not turn the order round.                       *)
FetchedFirstNot(d, a, b) == Precedes(a, b)
FetchedFirst(d, a, b) == IF d >= 0 THEN Precedes(a, b) ELSE Precedes(b, a)

(* The first n of a set of messages, in a query's order                    *)
FirstOf(n, S, d) == {m \in S : Cardinality({x \in S : FetchedFirst(d, x, m)}) < n}

-----------------------------------------------------------------------------
(* build_query: the bounds, the order and the limit.                       *)

Bounded(d) ==
  {m \in db : /\ (seg.valid /\ d * order < 0) => Less(Key(m), seg.min)
              /\ (seg.valid /\ d * order > 0) => Less(seg.max, Key(m))}
(* Mutant: as many messages as the segment holds.                          *)
QueryExact(d) == FirstOf(N, Bounded(d), d)
Query(d) == FirstOf(N + 1, Bounded(d), d)

(* store_results: the first N of them, and their bounds                    *)
Stored(res, d) == FirstOf(N, res, d)
(* Mutant: the bounds of all that was fetched.                             *)
BoundsOfAll(res, d) ==
  LET K == {Key(m) : m \in res}
  IN IF K = {} THEN [min |-> NoBound, max |-> NoBound]
     ELSE [min |-> CHOOSE k \in K : \A x \in K : ~Less(x, k),
           max |-> CHOOSE k \in K : \A x \in K : ~Less(k, x)]
BoundsOf(res, d) ==
  LET K == {Key(m) : m \in Stored(res, d)}
  IN IF K = {} THEN [min |-> NoBound, max |-> NoBound]
     ELSE [min |-> CHOOSE k \in K : \A x \in K : ~Less(x, k),
           max |-> CHOOSE k \in K : \A x \in K : ~Less(k, x)]

(* postprocess_fetch                                                       *)
Segment(res, d) ==
  LET more == Cardinality(res) > N
      b    == BoundsOf(res, d)
  IN [first |-> IF d = 0 THEN TRUE ELSE d < 0 /\ ~more,
      last  |-> d >= 0 /\ ~more,
      min |-> b.min, max |-> b.max, valid |-> TRUE]

(* The rows a fetch gets: none when the query fails                        *)
Results(d) == {Query(d)} \cup (IF "query" \in Faults THEN {{}} ELSE {})

-----------------------------------------------------------------------------

Init ==
  /\ date \in [Msgs -> Dates] /\ order \in {-1, 1} /\ N \in Sizes /\ db \in SUBSET Msgs
  /\ dir = 0 /\ seg = [first |-> TRUE, last |-> FALSE, min |-> NoBound, max |-> NoBound,
                       valid |-> FALSE]
  /\ shown = {} /\ news = "" /\ stable = db /\ seen = {} /\ changes = 0 /\ emptied = FALSE

Show(S) == shown' = S /\ seen' = seen \cup S

(* A selection is opened: a new filter, in a new page                      *)
open ==
  /\ dir' = 0 /\ news' = "" /\ stable' = db /\ changes' = 0 /\ emptied' = FALSE
  /\ \E res \in {FirstOf(N + 1, db, 0)} \cup (IF "query" \in Faults THEN {{}} ELSE {}) :
       /\ seg' = Segment(res, 0)
       /\ shown' = Stored(res, 0) /\ seen' = Stored(res, 0)
  /\ UNCHANGED rows

(* Mutant: the direction adds up.                                          *)
fetch_segmentAdds(d) ==
  /\ seg.valid /\ (d > 0 => ~seg.last) /\ (d < 0 => ~seg.first)
  /\ \E res \in Results(d) :
       /\ seg' = Segment(res, d) /\ Show(Stored(res, d))
       /\ emptied' = (emptied \/ (d < 0 /\ res = {}))
  /\ dir' = dir + d /\ news' = ""
  /\ UNCHANGED <<rows, stable, changes>>
(* sel_next_segment, sel_prev_segment: the page's contents are replaced    *)
fetch_segment(d) ==
  /\ seg.valid /\ (d > 0 => ~seg.last) /\ (d < 0 => ~seg.first)
  /\ \E res \in Results(d) :
       /\ seg' = Segment(res, d) /\ Show(Stored(res, d))
       /\ emptied' = (emptied \/ (d < 0 /\ res = {}))
  /\ dir' = d /\ news' = ""
  /\ UNCHANGED <<rows, stable, changes>>

(* sel_refresh, and incorporated results: msgs_filter::fetch from the      *)
(* start of the list, one message less than a segment, merged with what is *)
(* shown; the segment stays as it was                                      *)
sel_refresh ==
  /\ seg.valid
  /\ dir' = 0
  /\ LET q == FirstOf(N + 1, db, 0) IN Show(shown \cup FirstOf(N - 1, q, 0))
  /\ UNCHANGED <<rows, seg, news, stable, changes, emptied>>

(* check_new_mail: the query of the last fetch's direction, unlimited by   *)
(* what a segment keeps                                                    *)
check_new_mail ==
  /\ seg.valid
  /\ news' = (IF Query(dir) \subseteq shown THEN "No new mail." ELSE "New mail is available.")
  /\ UNCHANGED <<rows, dir, seg, shown, stable, seen, changes, emptied>>

(* Messages come and go, by what others do                                 *)
Change == changes < MaxChanges /\ changes' = changes + 1
Comes(m) ==
  /\ m \notin db /\ db' = db \cup {m} /\ Change
  /\ UNCHANGED <<date, order, N, dir, seg, shown, news, stable, seen, emptied>>
Goes(m) ==
  /\ m \in db /\ db' = db \ {m} /\ stable' = stable \ {m} /\ Change
  /\ UNCHANGED <<date, order, N, dir, seg, shown, news, seen, emptied>>

(* msg_archive, msg_delete: the user takes a message off the list          *)
remove_msg(m) ==
  /\ m \in shown /\ shown' = shown \ {m}
  /\ db' = db \ {m} /\ stable' = stable \ {m} /\ Change
  /\ UNCHANGED <<date, order, N, dir, seg, news, seen, emptied>>

Next ==
  \/ open \/ \E d \in {-1, 1} : fetch_segment(d)
  \/ sel_refresh \/ check_new_mail
  \/ \E m \in Msgs : Comes(m) \/ Goes(m) \/ remove_msg(m)

Spec == Init /\ [][Next]_vars

-----------------------------------------------------------------------------
(* Properties.                                                             *)

Keys == (Dates \cup {0}) \X (Msgs \cup {0})
TypeOK ==
  /\ date \in [Msgs -> Dates] /\ order \in {-1, 1} /\ N \in Sizes /\ db \subseteq Msgs
  /\ dir \in {-1, 0, 1}
  /\ seg \in [first : BOOLEAN, last : BOOLEAN, min : Keys, max : Keys, valid : BOOLEAN]
  /\ shown \subseteq Msgs /\ news \in {"", "No new mail.", "New mail is available."}
  /\ stable \subseteq db /\ seen \subseteq Msgs /\ shown \subseteq seen /\ changes \in 0..MaxChanges
  /\ emptied \in BOOLEAN

(* Whatever comes and goes meanwhile, going through the segments in any    *)
(* way never jumps over a message that has matched all along: what was     *)
(* shown is a beginning of the list.  Except after the previous segment    *)
(* was asked for when all of it had gone.                                  *)
BeginningIsSeen == \A m \in stable \ seen : \A x \in seen : ~Precedes(m, x)
NothingSkipped == ~emptied => BeginningIsSeen

(* When a segment is the last one, every message that has matched all      *)
(* along has been shown, with the same exception.                          *)
EndIsSeen == seg.last => stable \subseteq seen
EndMeansAll == ~emptied => EndIsSeen

(* A reference: the pages that the list is cut into when nothing changes.  *)
Slice(k) == {m \in db : Cardinality({x \in db : Precedes(x, m)}) \in ((k - 1) * N)..(k * N - 1)}
Slices   == {k \in 1..(Cardinality(Msgs) + 1) : k = 1 \/ Slice(k) # {}}

(* While nothing changes, the segment shown is one of the pages, whatever  *)
(* way led to it, and the two flags are exact.                             *)
Aligned ==
  changes = 0 /\ seg.valid =>
    \E k \in Slices :
      /\ Slice(k) \subseteq shown /\ (Slice(k) # {} => \A m \in Slice(k) :
                                        ~Less(Key(m), seg.min) /\ ~Less(seg.max, Key(m)))
      /\ shown \subseteq Slice(k) \cup Slice(1)
      /\ seg.first = (k = 1) /\ seg.last = (k + 1 \notin Slices)

(* New mail is announced only if a message has come.                       *)
NewMailIsNew ==
  [][news' # news /\ news' = "New mail is available." => ~(db \subseteq stable)]_vars
=============================================================================
