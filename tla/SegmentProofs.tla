----------------------------- MODULE SegmentProofs -----------------------------
(***************************************************************************)
(* However many messages there are, come or go, and whatever the size of a *)
(* segment is, going through the segments jumps over no message that has   *)
(* matched all along, and the last segment is the last, until the previous *)
(* segment is asked for when all of it has gone.  And while none comes or  *)
(* goes, what is shown is one of the pages of the sorted list, exactly.    *)
(***************************************************************************)
EXTENDS SegmentPaging, FiniteSetTheorems, TLAPS

Typed ==
  /\ date \in [Msgs -> Dates] /\ order \in {-1, 1} /\ N \in Sizes
  /\ stable \subseteq db /\ db \subseteq Msgs /\ seen \subseteq Msgs /\ shown \subseteq seen

(* The bounds of the segment are the keys of messages that come before all *)
(* that have not been seen; a segment without bounds is at the end.        *)
BoundsAgree ==
  IF seg.min = NoBound THEN stable \subseteq seen
  ELSE \E a, b \in Msgs :
         /\ seg.min = Key(a) /\ seg.max = Key(b)
         /\ \A m \in stable \ seen : Precedes(a, m) /\ Precedes(b, m)

SegmentInv == Typed /\ (~emptied => BeginningIsSeen /\ EndIsSeen /\ (seg.valid => BoundsAgree))

-----------------------------------------------------------------------------
(* The order of the list is strict and total.                              *)
LEMMA KeysAreNumbers ==
  ASSUME Typed, NEW m \in Msgs
  PROVE  date[m] \in Nat \ {0} /\ m \in Nat \ {0} /\ Key(m) # NoBound
BY PagingAssumption DEF Typed, Key, NoBound

LEMMA LessIsOrder ==
  ASSUME Typed, NEW a \in Msgs, NEW b \in Msgs, NEW c \in Msgs
  PROVE  /\ ~Less(Key(a), Key(a))
         /\ Less(Key(a), Key(b)) => ~Less(Key(b), Key(a))
         /\ a # b => Less(Key(a), Key(b)) \/ Less(Key(b), Key(a))
         /\ Less(Key(a), Key(b)) /\ Less(Key(b), Key(c)) => Less(Key(a), Key(c))
BY KeysAreNumbers DEF Less, Key

LEMMA FetchIsOrder ==
  ASSUME Typed, NEW d \in {-1, 0, 1}, NEW a \in Msgs, NEW b \in Msgs, NEW c \in Msgs
  PROVE  /\ ~FetchedFirst(d, a, a)
         /\ FetchedFirst(d, a, b) => ~FetchedFirst(d, b, a)
         /\ a # b => FetchedFirst(d, a, b) \/ FetchedFirst(d, b, a)
         /\ FetchedFirst(d, a, b) /\ FetchedFirst(d, b, c) => FetchedFirst(d, a, c)
BY LessIsOrder DEF FetchedFirst, Precedes

(* What comes before a message, in a set of messages.                      *)
Before(S, d, m) == {x \in S : FetchedFirst(d, x, m)}

LEMMA BeforeIsFinite ==
  ASSUME NEW S, S \subseteq Msgs
  PROVE  /\ IsFiniteSet(S) /\ Cardinality(S) \in Nat
         /\ \A d, m : IsFiniteSet(Before(S, d, m)) /\ Cardinality(Before(S, d, m)) \in Nat
<1>1. \A T \in SUBSET Msgs : IsFiniteSet(T) /\ Cardinality(T) \in Nat
  BY PagingAssumption, FS_Subset, FS_CardinalityType
<1>2. \A d, m : Before(S, d, m) \in SUBSET Msgs
  BY DEF Before
<1> QED  BY <1>1, <1>2

(* A set of messages has a first one, since its subsets are well founded.  *)
LEMMA SomeFirst ==
  ASSUME Typed, NEW d \in {-1, 0, 1}, NEW S, S \subseteq Msgs, S # {}
  PROVE  \E y \in S : Before(S, d, y) = {}
<1> DEFINE T == {Before(S, d, y) : y \in S}
           R == StrictSubsetOrdering(Msgs)
<1>1. T # {} /\ T \subseteq FiniteSubsetsOf(Msgs)
  BY BeforeIsFinite DEF FiniteSubsetsOf, Before
<1>2. IsWellFoundedOn(R, FiniteSubsetsOf(Msgs))
  BY FS_StrictSubsetOrderingWellFounded
<1> HIDE DEF R, T
<1>3. \E x \in T : \A y \in T : ~(<<y, x>> \in R)
  BY <1>1, <1>2, WFMin
<1>4. PICK y \in S : \A z \in S : ~(<<Before(S, d, z), Before(S, d, y)>> \in R)
  BY <1>3 DEF T
<1>5. SUFFICES ASSUME NEW z \in Before(S, d, y) PROVE FALSE
  BY <1>4
<1>6. z \in S /\ FetchedFirst(d, z, y)
  BY <1>5 DEF Before
<1>7. Before(S, d, z) \subseteq Before(S, d, y)
  BY <1>6, FetchIsOrder DEF Before
<1>8. z \notin Before(S, d, z)
  BY <1>6, FetchIsOrder DEF Before
<1>9. Before(S, d, z) \in SUBSET Msgs /\ Before(S, d, y) \in SUBSET Msgs
  BY DEF Before
<1>10. <<Before(S, d, z), Before(S, d, y)>> \in R
  BY <1>5, <1>7, <1>8, <1>9 DEF R, StrictSubsetOrdering
<1> QED  BY <1>4, <1>6, <1>10

-----------------------------------------------------------------------------
(* What the limit of a query keeps.                                        *)
LEMMA FirstOfIsBefore ==
  ASSUME NEW n, NEW S, NEW d, NEW m
  PROVE  m \in FirstOf(n, S, d) <=> m \in S /\ Cardinality(Before(S, d, m)) < n
BY DEF FirstOf, Before

LEMMA FirstComeFirst ==
  ASSUME Typed, NEW d \in {-1, 0, 1}, NEW n \in Nat, NEW S, S \subseteq Msgs,
         NEW x \in FirstOf(n, S, d), NEW m \in S \ FirstOf(n, S, d)
  PROVE  FetchedFirst(d, x, m)
<1>1. x \in S /\ Cardinality(Before(S, d, x)) < n /\ ~(Cardinality(Before(S, d, m)) < n)
  BY FirstOfIsBefore
<1>2. SUFFICES ASSUME FetchedFirst(d, m, x) PROVE FALSE
  BY <1>1, FetchIsOrder
<1>3. Before(S, d, m) \in SUBSET Before(S, d, x)
  BY <1>1, <1>2, FetchIsOrder DEF Before
<1>4. Cardinality(Before(S, d, m)) <= Cardinality(Before(S, d, x))
  BY <1>3, BeforeIsFinite, FS_Subset
<1> QED  BY <1>1, <1>4, BeforeIsFinite

LEMMA FirstIsSome ==
  ASSUME Typed, NEW d \in {-1, 0, 1}, NEW n \in Nat \ {0}, NEW S, S \subseteq Msgs, S # {}
  PROVE  FirstOf(n, S, d) # {}
<1>1. PICK y \in S : Before(S, d, y) = {}
  BY SomeFirst
<1>2. Cardinality(Before(S, d, y)) = 0
  BY <1>1, FS_EmptySet
<1> QED  BY <1>2, FirstOfIsBefore

(* The first of the first: how a segment is stored.                        *)
LEMMA StoredComeFirst ==
  ASSUME Typed, NEW d \in {-1, 0, 1}, NEW n \in Nat, NEW k \in Nat, NEW S, S \subseteq Msgs,
         NEW x \in FirstOf(n, FirstOf(k, S, d), d), NEW m \in S \ FirstOf(n, FirstOf(k, S, d), d)
  PROVE  FetchedFirst(d, x, m)
<1> DEFINE res == FirstOf(k, S, d)
<1>1. res \subseteq S /\ x \in res
  BY DEF FirstOf
<1>2. CASE m \in res
  BY <1>1, <1>2, FirstComeFirst
<1>3. CASE m \notin res
  BY <1>1, <1>3, FirstComeFirst
<1> QED  BY <1>2, <1>3

(* A query that gets no more than a segment has got all there is.          *)
LEMMA NoMoreMeansAll ==
  ASSUME Typed, NEW d \in {-1, 0, 1}, NEW n \in Nat, NEW S, S \subseteq Msgs,
         Cardinality(FirstOf(n + 1, S, d)) <= n
  PROVE  FirstOf(n, FirstOf(n + 1, S, d), d) = S
<1> DEFINE res == FirstOf(n + 1, S, d)
<1>1. res \subseteq S /\ S \subseteq Msgs /\ IsFiniteSet(res) /\ Cardinality(res) \in Nat
  BY BeforeIsFinite DEF FirstOf
<1>2. res = S
  <2>1. SUFFICES ASSUME S \ res # {} PROVE FALSE
    BY <1>1
  <2>2. PICK y \in S \ res : Before(S \ res, d, y) = {}
    BY <2>1, SomeFirst
  <2>3. Before(S, d, y) \in SUBSET res
    BY <2>2 DEF Before
  <2>4. Cardinality(Before(S, d, y)) <= Cardinality(res) /\ Cardinality(Before(S, d, y)) \in Nat
    BY <1>1, <2>3, FS_Subset, BeforeIsFinite
  <2>5. Cardinality(Before(S, d, y)) < n + 1
    BY <1>1, <2>4
  <2> QED  BY <2>2, <2>5, FirstOfIsBefore
<1>3. ASSUME NEW m \in S PROVE m \in FirstOf(n, S, d)
  <2>1. Before(S, d, m) \in SUBSET S /\ Before(S, d, m) # S
    BY <1>3, FetchIsOrder DEF Before
  <2>2. Cardinality(Before(S, d, m)) < Cardinality(S)
    BY <2>1, BeforeIsFinite, FS_Subset
  <2> QED  BY <1>1, <1>2, <2>2, BeforeIsFinite, FirstOfIsBefore
<1> QED  BY <1>2, <1>3 DEF FirstOf

-----------------------------------------------------------------------------
(* store_results: the bounds are the keys of two of the messages stored,   *)
(* or none.                                                                *)
LEMMA BoundsAreKeys ==
  ASSUME Typed, NEW d \in {-1, 0, 1}, NEW res, res \subseteq Msgs
  PROVE  IF Stored(res, d) = {} THEN BoundsOf(res, d) = [min |-> NoBound, max |-> NoBound]
         ELSE \E a, b \in Stored(res, d) : BoundsOf(res, d) = [min |-> Key(a), max |-> Key(b)]
<1> DEFINE St == Stored(res, d)
           K == {Key(m) : m \in St}
<1>1. St \subseteq Msgs
  BY DEF Stored, FirstOf
<1>2. CASE St = {}
  BY <1>2 DEF BoundsOf
<1>3. CASE St # {}
  <2>1. PICK y \in St, z \in St : Before(St, 1, y) = {} /\ Before(St, -1, z) = {}
    BY <1>1, <1>3, SomeFirst
  <2>2. \A x \in St : ~Precedes(x, y) /\ ~Precedes(z, x)
    BY <2>1 DEF Before, FetchedFirst
  <2>3. /\ \E a \in St : \A x \in St : ~Less(Key(x), Key(a))
        /\ \E b \in St : \A x \in St : ~Less(Key(b), Key(x))
    <3>1. CASE order = 1
      BY <2>2, <3>1 DEF Precedes
    <3>2. CASE order = -1
      BY <2>2, <3>2 DEF Precedes
    <3> QED  BY <3>1, <3>2 DEF Typed
  <2> HIDE DEF St
  <2>4. (\E k \in K : \A x \in K : ~Less(x, k)) /\ (\E k \in K : \A x \in K : ~Less(k, x))
    BY <2>3
  <2> HIDE DEF K
  <2>5. K # {}
    BY <2>4
  <2>6. /\ BoundsOf(res, d).min \in K /\ BoundsOf(res, d).max \in K
        /\ BoundsOf(res, d) = [min |-> BoundsOf(res, d).min, max |-> BoundsOf(res, d).max]
    BY <2>4, <2>5 DEF BoundsOf, K, St
  <2> QED  BY <1>3, <2>6 DEF K, St
<1> QED  BY <1>2, <1>3

LEMMA SegmentFields ==
  ASSUME NEW res, NEW d
  PROVE  /\ Segment(res, d).last <=> (d >= 0 /\ ~(Cardinality(res) > N))
         /\ Segment(res, d).min = BoundsOf(res, d).min /\ Segment(res, d).max = BoundsOf(res, d).max
BY Zenon DEF Segment

(* postprocess_fetch and make_list.  The messages to be shown come, in the *)
(* query's order, out of a set that has all the stable ones not yet seen   *)
(* (going forward), or that comes before them (going back).                *)
LEMMA ForwardKeeps ==
  ASSUME Typed, NEW d \in {0, 1}, NEW S, S \subseteq Msgs, NEW old, old \subseteq Msgs,
         NEW all, all \subseteq Msgs,
         \A m \in all \ old : m \in S /\ \A x \in old : ~Precedes(m, x)
  PROVE  LET res == FirstOf(N + 1, S, d)
             new == old \cup Stored(res, d)
             sg  == Segment(res, d)
         IN /\ \A m \in all \ new : \A x \in new : ~Precedes(m, x)
            /\ sg.last => all \subseteq new
            /\ IF sg.min = NoBound THEN all \subseteq new
               ELSE \E a, b \in Msgs : /\ sg.min = Key(a) /\ sg.max = Key(b)
                                       /\ \A m \in all \ new : Precedes(a, m) /\ Precedes(b, m)
<1> DEFINE res == FirstOf(N + 1, S, d)
           St  == Stored(res, d)
           new == old \cup St
           sg  == Segment(res, d)
<1>1. d \in {-1, 0, 1} /\ N \in Nat \ {0} /\ N + 1 \in Nat \ {0} /\ d >= 0
  BY PagingAssumption DEF Typed
<1>2. res \subseteq S /\ res \subseteq Msgs /\ St \subseteq res
  BY DEF FirstOf, Stored
<1>3. \A x \in St, m \in S \ St : Precedes(x, m)
  BY <1>1, StoredComeFirst DEF Stored, FetchedFirst
<1>4. \A m \in all \ new : m \in S \ St
  OBVIOUS
<1>5. \A m \in all \ new : \A x \in new : ~Precedes(m, x)
  <2> SUFFICES ASSUME NEW m \in all \ new, NEW x \in St PROVE ~Precedes(m, x)
    OBVIOUS
  <2>1. Precedes(x, m) /\ m \in Msgs /\ x \in Msgs
    BY <1>2, <1>3, <1>4
  <2>2. FetchedFirst(1, x, m) => ~FetchedFirst(1, m, x)
    BY <2>1, FetchIsOrder
  <2> QED  BY <2>1, <2>2 DEF FetchedFirst
<1>6. St = {} => S = {}
  <2>1. res = {} => S = {}
    BY <1>1, FirstIsSome
  <2>2. St = {} => res = {}
    BY <1>1, <1>2, FirstIsSome DEF Stored
  <2> QED  BY <2>1, <2>2
<1>7. sg.min = BoundsOf(res, d).min /\ sg.max = BoundsOf(res, d).max
  BY SegmentFields
<1>8. sg.last => Cardinality(res) <= N
  BY <1>1, <1>2, BeforeIsFinite, SegmentFields
<1>9. sg.last => all \subseteq new
  <2>1. Cardinality(res) <= N => St = S
    BY <1>1, NoMoreMeansAll DEF Stored
  <2> QED  BY <1>4, <1>8, <2>1
<1>10. IF sg.min = NoBound THEN all \subseteq new
       ELSE \E a, b \in Msgs : /\ sg.min = Key(a) /\ sg.max = Key(b)
                               /\ \A m \in all \ new : Precedes(a, m) /\ Precedes(b, m)
  <2>1. CASE St = {}
    BY <1>1, <1>2, <1>4, <1>6, <1>7, <2>1, BoundsAreKeys
  <2>2. CASE St # {}
    <3>1. PICK a \in St, b \in St : sg.min = Key(a) /\ sg.max = Key(b)
      BY <1>1, <1>2, <1>7, <2>2, BoundsAreKeys
    <3>2. sg.min # NoBound /\ a \in Msgs /\ b \in Msgs
      BY <1>2, <3>1, KeysAreNumbers
    <3>3. \A m \in all \ new : Precedes(a, m) /\ Precedes(b, m)
      BY <1>3, <1>4, <3>1
    <3> QED  BY <3>1, <3>2, <3>3
  <2> QED  BY <2>1, <2>2
<1> QED  BY <1>5, <1>9, <1>10

LEMMA BackKeeps ==
  ASSUME Typed, NEW S, S \subseteq Msgs, NEW old, old \subseteq Msgs, NEW all, all \subseteq Msgs,
         FirstOf(N + 1, S, -1) # {},
         \A m \in all \ old : /\ \A x \in S : Precedes(x, m)
                             /\ \A x \in old : ~Precedes(m, x)
  PROVE  LET res == FirstOf(N + 1, S, -1)
             new == old \cup Stored(res, -1)
             sg  == Segment(res, -1)
         IN /\ \A m \in all \ new : \A x \in new : ~Precedes(m, x)
            /\ ~sg.last
            /\ sg.min # NoBound
            /\ \E a, b \in Msgs : /\ sg.min = Key(a) /\ sg.max = Key(b)
                                  /\ \A m \in all \ new : Precedes(a, m) /\ Precedes(b, m)
<1> DEFINE res == FirstOf(N + 1, S, -1)
           St  == Stored(res, -1)
           new == old \cup St
           sg  == Segment(res, -1)
<1>1. N \in Nat \ {0} /\ res \subseteq S /\ res \subseteq Msgs /\ St \subseteq res
  BY PagingAssumption DEF Typed, FirstOf, Stored
<1>2. St # {}
  BY <1>1, FirstIsSome DEF Stored
<1>3. \A m \in all \ new : \A x \in new : ~Precedes(m, x)
  <2> SUFFICES ASSUME NEW m \in all \ new, NEW x \in St PROVE ~Precedes(m, x)
    OBVIOUS
  <2>1. Precedes(x, m) /\ m \in Msgs /\ x \in Msgs
    BY <1>1
  <2>2. FetchedFirst(1, x, m) => ~FetchedFirst(1, m, x)
    BY <2>1, FetchIsOrder
  <2> QED  BY <2>1, <2>2 DEF FetchedFirst
<1>4. PICK a \in St, b \in St : sg.min = Key(a) /\ sg.max = Key(b)
  <2>1. sg.min = BoundsOf(res, -1).min /\ sg.max = BoundsOf(res, -1).max
    BY SegmentFields
  <2> QED  BY <1>1, <1>2, <2>1, BoundsAreKeys
<1>5. sg.min # NoBound /\ a \in Msgs /\ b \in Msgs
  BY <1>1, <1>4, KeysAreNumbers
<1>6. ~sg.last
  BY SegmentFields
<1> QED  BY <1>1, <1>3, <1>4, <1>5, <1>6

-----------------------------------------------------------------------------
LEMMA SegmentInit ==
  ASSUME Init
  PROVE  SegmentInv
<1>1. Typed /\ seen = {} /\ seg.last = FALSE /\ seg.valid = FALSE
  BY DEF Init, Typed
<1> QED  BY <1>1 DEF SegmentInv, BeginningIsSeen, EndIsSeen

(* The order is that of the dates, which do not change.                    *)
LEMMA SameOrder ==
  ASSUME date' = date, order' = order
  PROVE  \A a, b : Key(a)' = Key(a) /\ (Precedes(a, b)' <=> Precedes(a, b))
BY DEF Key, Precedes

LEMMA TypedKept ==
  ASSUME Typed, [Next]_vars
  PROVE  Typed' /\ date' = date /\ order' = order /\ N' = N
<1>1. CASE open
  BY <1>1 DEF open, rows, Typed, Stored, FirstOf
<1>2. ASSUME NEW d \in {-1, 1}, fetch_segment(d) PROVE Typed' /\ date' = date /\ order' = order /\ N' = N
  <2>1. \A res \in Results(d) : Stored(res, d) \subseteq Msgs
    BY DEF Results, Query, Bounded, Stored, FirstOf, Typed
  <2> QED  BY <1>2, <2>1 DEF fetch_segment, Show, rows, Typed
<1>3. CASE sel_refresh
  <2>1. \A n, k : FirstOf(n, FirstOf(k, db, 0), 0) \subseteq Msgs
    BY DEF FirstOf, Typed
  <2> QED  BY <1>3, <2>1 DEF sel_refresh, Show, rows, Typed
<1>4. CASE check_new_mail
  BY <1>4 DEF check_new_mail, rows, Typed
<1>5. ASSUME NEW m \in Msgs, Comes(m) \/ Goes(m) \/ remove_msg(m)
      PROVE  Typed' /\ date' = date /\ order' = order /\ N' = N
  BY <1>5 DEF Comes, Goes, remove_msg, Typed
<1>6. CASE UNCHANGED vars
  BY <1>6 DEF vars, rows, Typed
<1> QED  BY <1>1, <1>2, <1>3, <1>4, <1>5, <1>6 DEF Next

(* What every step has to show, in terms of the same order of messages.    *)
LEMMA Shows ==
  ASSUME Typed', date' = date, order' = order,
         ~emptied' => /\ \A m \in stable' \ seen' : \A x \in seen' : ~Precedes(m, x)
                      /\ seg'.last => stable' \subseteq seen'
                      /\ seg'.valid =>
                           IF seg'.min = NoBound THEN stable' \subseteq seen'
                           ELSE \E a, b \in Msgs :
                                  /\ seg'.min = Key(a) /\ seg'.max = Key(b)
                                  /\ \A m \in stable' \ seen' : Precedes(a, m) /\ Precedes(b, m)
  PROVE  SegmentInv'
<1>1. ~emptied' => BeginningIsSeen'
  BY SameOrder DEF BeginningIsSeen
<1>2. ~emptied' => EndIsSeen'
  BY DEF EndIsSeen
<1>3. ~emptied' /\ seg'.valid => BoundsAgree'
  BY SameOrder DEF BoundsAgree, NoBound
<1> QED  BY <1>1, <1>2, <1>3 DEF SegmentInv

(* A step that shows no message and leaves the segment keeps the rest, if  *)
(* no message becomes stable.                                              *)
LEMMA SameSegment ==
  ASSUME SegmentInv, Typed', date' = date, order' = order,
         stable' \subseteq stable, seen' = seen, seg' = seg, emptied' = emptied
  PROVE  SegmentInv'
BY Shows DEF SegmentInv, BeginningIsSeen, EndIsSeen, BoundsAgree

LEMMA OpenKeeps ==
  ASSUME SegmentInv, Faults = {}, open, Typed', date' = date, order' = order
  PROVE  SegmentInv'
<1> DEFINE res == FirstOf(N + 1, db, 0)
<1>1. seg' = Segment(res, 0) /\ seen' = Stored(res, 0) /\ stable' = db
  BY DEF open
<1>2. Typed /\ db \subseteq Msgs /\ 0 \in {0, 1}
  BY DEF SegmentInv, Typed
<1>3. \A m \in db \ {} : m \in db /\ \A x \in {} : ~Precedes(m, x)
  OBVIOUS
<1>4. LET new == {} \cup Stored(res, 0)
          sg  == Segment(res, 0)
      IN /\ \A m \in db \ new : \A x \in new : ~Precedes(m, x)
         /\ sg.last => db \subseteq new
         /\ IF sg.min = NoBound THEN db \subseteq new
            ELSE \E a, b \in Msgs : /\ sg.min = Key(a) /\ sg.max = Key(b)
                                    /\ \A m \in db \ new : Precedes(a, m) /\ Precedes(b, m)
  BY <1>2, <1>3, ForwardKeeps
<1>5. {} \cup Stored(res, 0) = Stored(res, 0)
  OBVIOUS
<1> HIDE DEF res
<1> QED  BY <1>1, <1>4, <1>5, Shows

(* What a fetch of the next or the previous segment does without faults.   *)
LEMMA FetchStep ==
  ASSUME Faults = {}, NEW d \in {-1, 1}, fetch_segment(d)
  PROVE  LET res == FirstOf(N + 1, Bounded(d), d)
         IN /\ seg.valid /\ seg' = Segment(res, d)
            /\ seen' = seen \cup Stored(res, d) /\ stable' = stable
            /\ ~emptied' => ~emptied /\ (d < 0 => res # {})
<1>1. Results(d) = {FirstOf(N + 1, Bounded(d), d)}
  BY DEF Results, Query
<1> QED  BY <1>1 DEF fetch_segment, Show

(* The two bounds of a segment, and the order they give, either way round. *)
LEMMA BoundsOfDirection ==
  ASSUME Typed, NEW a \in Msgs, NEW b \in Msgs, seg.valid, seg.min = Key(a), seg.max = Key(b),
         NEW d \in {-1, 1}
  PROVE  \E e \in {a, b} : Bounded(d) = {m \in db : IF d > 0 THEN Precedes(e, m) ELSE Precedes(m, e)}
<1>1. CASE order = 1
  BY <1>1 DEF Bounded, Precedes
<1>2. CASE order = -1
  BY <1>2 DEF Bounded, Precedes
<1> QED  BY <1>1, <1>2 DEF Typed

(* Going forward: what has not been seen is after the segment.             *)
LEMMA NextKeeps ==
  ASSUME SegmentInv, Faults = {}, fetch_segment(1), Typed', date' = date, order' = order
  PROVE  SegmentInv'
<1> DEFINE S   == Bounded(1)
           res == FirstOf(N + 1, S, 1)
<1>1. /\ seg.valid /\ seg' = Segment(res, 1)
      /\ seen' = seen \cup Stored(res, 1) /\ stable' = stable
      /\ ~emptied' => ~emptied
  BY FetchStep
<1>2. SUFFICES ASSUME ~emptied PROVE SegmentInv'
  BY <1>1, Shows
<1>3. BeginningIsSeen /\ BoundsAgree /\ Typed
  BY <1>1, <1>2 DEF SegmentInv
<1>4. S \subseteq Msgs /\ seen \subseteq Msgs /\ stable \subseteq Msgs /\ stable \subseteq db
  BY <1>3 DEF Bounded, Typed
<1>5. \A m \in stable \ seen : m \in S
  <2>1. CASE seg.min = NoBound
    BY <1>3, <2>1 DEF BoundsAgree
  <2>2. CASE seg.min # NoBound
    <3>1. PICK a, b \in Msgs :
            /\ seg.min = Key(a) /\ seg.max = Key(b)
            /\ \A m \in stable \ seen : Precedes(a, m) /\ Precedes(b, m)
      BY <1>3, <2>2 DEF BoundsAgree
    <3>2. \E e \in {a, b} : S = {m \in db : Precedes(e, m)}
      BY <1>1, <1>3, <3>1, BoundsOfDirection
    <3> QED  BY <1>4, <3>1, <3>2
  <2> QED  BY <2>1, <2>2
<1>6. \A m \in stable \ seen : m \in S /\ \A x \in seen : ~Precedes(m, x)
  BY <1>3, <1>5 DEF BeginningIsSeen
<1> HIDE DEF S
<1>7. LET new == seen \cup Stored(res, 1)
          sg  == Segment(res, 1)
      IN /\ \A m \in stable \ new : \A x \in new : ~Precedes(m, x)
         /\ sg.last => stable \subseteq new
         /\ IF sg.min = NoBound THEN stable \subseteq new
            ELSE \E a, b \in Msgs : /\ sg.min = Key(a) /\ sg.max = Key(b)
                                    /\ \A m \in stable \ new : Precedes(a, m) /\ Precedes(b, m)
  BY <1>3, <1>4, <1>6, ForwardKeeps
<1> HIDE DEF res
<1> QED  BY <1>1, <1>7, Shows

(* Going back: what the query finds is before the segment, and so before   *)
(* what has not been seen.                                                 *)
LEMMA PreviousKeeps ==
  ASSUME SegmentInv, Faults = {}, fetch_segment(-1), Typed', date' = date, order' = order
  PROVE  SegmentInv'
<1> DEFINE S   == Bounded(-1)
           res == FirstOf(N + 1, S, -1)
<1>1. /\ seg.valid /\ seg' = Segment(res, -1)
      /\ seen' = seen \cup Stored(res, -1) /\ stable' = stable
      /\ ~emptied' => ~emptied /\ res # {}
  BY FetchStep
<1>2. SUFFICES ASSUME ~emptied, res # {} PROVE SegmentInv'
  BY <1>1, Shows
<1>3. BeginningIsSeen /\ BoundsAgree /\ Typed
  BY <1>1, <1>2 DEF SegmentInv
<1>4. S \subseteq Msgs /\ seen \subseteq Msgs /\ stable \subseteq Msgs /\ stable \subseteq db
  BY <1>3 DEF Bounded, Typed
<1>5. \A m \in stable \ seen : \A x \in S : Precedes(x, m)
  <2>1. CASE seg.min = NoBound
    BY <1>3, <2>1 DEF BoundsAgree
  <2>2. CASE seg.min # NoBound
    <3>1. PICK a, b \in Msgs :
            /\ seg.min = Key(a) /\ seg.max = Key(b)
            /\ \A m \in stable \ seen : Precedes(a, m) /\ Precedes(b, m)
      BY <1>3, <2>2 DEF BoundsAgree
    <3>2. PICK e \in {a, b} : S = {m \in db : Precedes(m, e)}
      BY <1>1, <1>3, <3>1, BoundsOfDirection
    <3>3. SUFFICES ASSUME NEW m \in stable \ seen, NEW x \in S PROVE Precedes(x, m)
      OBVIOUS
    <3>4. Precedes(x, e) /\ Precedes(e, m) /\ x \in Msgs /\ e \in Msgs /\ m \in Msgs
      BY <1>4, <3>1, <3>2
    <3> QED  BY <1>3, <3>4, FetchIsOrder DEF FetchedFirst
  <2> QED  BY <2>1, <2>2
<1>6. \A m \in stable \ seen : /\ \A x \in S : Precedes(x, m)
                               /\ \A x \in seen : ~Precedes(m, x)
  BY <1>3, <1>5 DEF BeginningIsSeen
<1> HIDE DEF S
<1>7. LET new == seen \cup Stored(res, -1)
          sg  == Segment(res, -1)
      IN /\ \A m \in stable \ new : \A x \in new : ~Precedes(m, x)
         /\ ~sg.last
         /\ sg.min # NoBound
         /\ \E a, b \in Msgs : /\ sg.min = Key(a) /\ sg.max = Key(b)
                               /\ \A m \in stable \ new : Precedes(a, m) /\ Precedes(b, m)
  BY <1>2, <1>3, <1>4, <1>6, BackKeeps
<1> HIDE DEF res
<1> QED  BY <1>1, <1>7, Shows

(* A refresh adds a beginning of what is in the database.                  *)
LEMMA RefreshKeeps ==
  ASSUME SegmentInv, sel_refresh, Typed', date' = date, order' = order
  PROVE  SegmentInv'
<1> DEFINE P == FirstOf(N - 1, FirstOf(N + 1, db, 0), 0)
<1>1. /\ seen' = seen \cup (shown \cup P) /\ seg' = seg /\ stable' = stable
      /\ emptied' = emptied /\ seg.valid
  BY DEF sel_refresh, Show
<1>2. SUFFICES ASSUME ~emptied PROVE SegmentInv'
  BY <1>1, Shows
<1>3. BeginningIsSeen /\ EndIsSeen /\ BoundsAgree /\ Typed
  BY <1>1, <1>2 DEF SegmentInv
<1>4. N - 1 \in Nat /\ N + 1 \in Nat /\ 0 \in {-1, 0, 1} /\ db \subseteq Msgs /\ stable \subseteq db
  BY <1>3, PagingAssumption DEF Typed
<1>5. seen' = seen \cup P
  BY <1>1, <1>3 DEF Typed
<1>6. \A m \in stable \ seen' : \A x \in P : ~Precedes(m, x)
  <2> SUFFICES ASSUME NEW m \in stable \ (seen \cup P), NEW x \in P PROVE ~Precedes(m, x)
    BY <1>1, <1>5
  <2>1. m \in db \ P /\ m \in Msgs /\ x \in Msgs
    BY <1>4 DEF FirstOf
  <2>2. FetchedFirst(0, x, m)
    BY <1>3, <1>4, <2>1, StoredComeFirst
  <2>3. ~FetchedFirst(0, m, x)
    BY <1>3, <1>4, <2>1, <2>2, FetchIsOrder
  <2> QED  BY <2>3 DEF FetchedFirst
<1> HIDE DEF P
<1>7. \A m \in stable' \ seen' : \A x \in seen' : ~Precedes(m, x)
  BY <1>1, <1>3, <1>5, <1>6 DEF BeginningIsSeen
<1>8. seg'.last => stable' \subseteq seen'
  BY <1>1, <1>3, <1>5 DEF EndIsSeen
<1>9. IF seg'.min = NoBound THEN stable' \subseteq seen'
      ELSE \E a, b \in Msgs : /\ seg'.min = Key(a) /\ seg'.max = Key(b)
                              /\ \A m \in stable' \ seen' : Precedes(a, m) /\ Precedes(b, m)
  BY <1>1, <1>3, <1>5 DEF BoundsAgree
<1> QED  BY <1>7, <1>8, <1>9, Shows

LEMMA SegmentStep ==
  ASSUME SegmentInv, Faults = {}, [Next]_vars
  PROVE  SegmentInv'
<1>1. Typed' /\ date' = date /\ order' = order
  BY TypedKept DEF SegmentInv
<1>2. CASE open
  BY <1>1, <1>2, OpenKeeps
<1>3. ASSUME NEW d \in {-1, 1}, fetch_segment(d) PROVE SegmentInv'
  <2>1. CASE d = 1
    BY <1>1, <1>3, <2>1, NextKeeps
  <2>2. CASE d = -1
    BY <1>1, <1>3, <2>2, PreviousKeeps
  <2> QED  BY <2>1, <2>2
<1>4. CASE sel_refresh
  BY <1>1, <1>4, RefreshKeeps
<1>5. CASE check_new_mail
  BY <1>1, <1>5, SameSegment DEF check_new_mail
<1>6. ASSUME NEW m \in Msgs, Comes(m) \/ Goes(m) \/ remove_msg(m) PROVE SegmentInv'
  BY <1>1, <1>6, SameSegment DEF Comes, Goes, remove_msg
<1>7. CASE UNCHANGED vars
  BY <1>1, <1>7, SameSegment DEF vars
<1> QED  BY <1>2, <1>3, <1>4, <1>5, <1>6, <1>7 DEF Next

-----------------------------------------------------------------------------
(* A segment is typed, whatever was fetched.                               *)
LEMMA SegmentTyped ==
  ASSUME Typed, NEW d \in {-1, 0, 1}, NEW res, res \subseteq Msgs
  PROVE  Segment(res, d) \in [first : BOOLEAN, last : BOOLEAN, min : Keys, max : Keys,
                              valid : BOOLEAN]
<1>1. NoBound \in Keys /\ \A m \in Msgs : Key(m) \in Keys
  BY DEF NoBound, Key, Keys, Typed
<1>2. Stored(res, d) \subseteq Msgs
  BY DEF Stored, FirstOf
<1>3. BoundsOf(res, d).min \in Keys /\ BoundsOf(res, d).max \in Keys
  <2>1. CASE Stored(res, d) = {}
    <3>1. BoundsOf(res, d) = [min |-> NoBound, max |-> NoBound]
      BY <2>1, BoundsAreKeys
    <3> QED  BY <1>1, <3>1
  <2>2. CASE Stored(res, d) # {}
    <3>1. PICK a \in Stored(res, d), b \in Stored(res, d) :
            BoundsOf(res, d) = [min |-> Key(a), max |-> Key(b)]
      BY <2>2, BoundsAreKeys
    <3> QED  BY <1>1, <1>2, <3>1
  <2> QED  BY <2>1, <2>2
<1> HIDE DEF Keys
<1> QED  BY <1>3 DEF Segment

(* Every variable has its type: the bounds are keys or none, the changes   *)
(* within their bound, what is shown has been seen, and the stable         *)
(* messages are among those that match, whatever fails.                    *)
THEOREM TypeCorrect == Spec => []TypeOK
<1>1. TypeOK => Typed
  BY DEF TypeOK, Typed
<1>2. Init => TypeOK
  <2> SUFFICES ASSUME Init PROVE TypeOK
    OBVIOUS
  <2>1. NoBound \in Keys
    BY DEF NoBound, Keys
  <2>2. seg \in [first : BOOLEAN, last : BOOLEAN, min : Keys, max : Keys, valid : BOOLEAN]
    BY <2>1 DEF Init
  <2>3. 0 \in 0..MaxChanges
    BY PagingAssumption
  <2> QED  BY <2>2, <2>3 DEF Init, TypeOK
<1>3. TypeOK /\ [Next]_vars => TypeOK'
  <2> SUFFICES ASSUME TypeOK, [Next]_vars PROVE TypeOK'
    OBVIOUS
  <2> DEFINE Segments == [first : BOOLEAN, last : BOOLEAN, min : Keys, max : Keys, valid : BOOLEAN]
             Said == {"", "No new mail.", "New mail is available."}
  <2>1. Typed /\ Typed' /\ 0 \in 0..MaxChanges
    BY <1>1, TypedKept, PagingAssumption
  <2>2. /\ seg \in Segments /\ dir \in {-1, 0, 1} /\ emptied \in BOOLEAN /\ news \in Said
        /\ changes \in 0..MaxChanges
    BY DEF TypeOK
  <2> DEFINE Good == /\ seg' \in Segments /\ dir' \in {-1, 0, 1} /\ emptied' \in BOOLEAN
                     /\ news' \in Said /\ changes' \in 0..MaxChanges
  <2>3. SUFFICES Good
    BY <2>1 DEF Typed, TypeOK, Keys
  <2>4. \A d \in {-1, 0, 1} : \A res \in SUBSET Msgs : Segment(res, d) \in Segments
    BY <2>1, SegmentTyped
  <2> HIDE DEF Segments
  <2>5. CASE open
    <3>1. FirstOf(N + 1, db, 0) \in SUBSET Msgs /\ {} \in SUBSET Msgs
      BY <2>1 DEF FirstOf, Typed
    <3>2. seg' \in Segments
      BY <2>4, <2>5, <3>1 DEF open
    <3> QED  BY <2>1, <2>5, <3>2 DEF open
  <2>6. ASSUME NEW d \in {-1, 1}, fetch_segment(d) PROVE Good
    <3>1. \A res \in Results(d) : res \in SUBSET Msgs
      BY <2>1 DEF Results, Query, Bounded, FirstOf, Typed
    <3>2. seg' \in Segments
      BY <2>4, <2>6, <3>1 DEF fetch_segment
    <3> QED  BY <2>2, <2>6, <3>2 DEF fetch_segment
  <2>7. CASE sel_refresh
    BY <2>2, <2>7 DEF sel_refresh
  <2>8. CASE check_new_mail
    BY <2>2, <2>8 DEF check_new_mail
  <2>9. ASSUME NEW m \in Msgs, Comes(m) \/ Goes(m) \/ remove_msg(m) PROVE Good
    <3>1. changes' \in 0..MaxChanges
      <4>1. changes < MaxChanges /\ changes' = changes + 1
        BY <2>9 DEF Comes, Goes, remove_msg, Change
      <4>2. MaxChanges \in Nat /\ changes \in 0..MaxChanges
        BY <2>2, PagingAssumption
      <4> QED  BY <4>1, <4>2
    <3> QED  BY <2>2, <2>9, <3>1 DEF Comes, Goes, remove_msg
  <2>10. CASE UNCHANGED vars
    BY <2>2, <2>10 DEF vars
  <2> QED  BY <2>5, <2>6, <2>7, <2>8, <2>9, <2>10 DEF Next
<1> QED  BY <1>2, <1>3, PTL DEF Spec

(* While no query fails, going through the segments, in any way and        *)
(* whatever comes and goes meanwhile, never jumps over a message that has  *)
(* matched all along, until the previous segment is asked for when all of  *)
(* it has gone (msgs_filter::build_query, store_results,                   *)
(* postprocess_fetch).                                                     *)
THEOREM Paging ==
  ASSUME Faults = {}
  PROVE  Spec => []NothingSkipped
<1>1. Init => SegmentInv
  BY SegmentInit
<1>2. SegmentInv /\ [Next]_vars => SegmentInv'
  BY SegmentStep
<1>3. SegmentInv => NothingSkipped
  BY DEF SegmentInv, NothingSkipped
<1> QED  BY <1>1, <1>2, <1>3, PTL DEF Spec

(* And with the same exception, a segment that says it is the last has     *)
(* brought every message that has matched all along.                       *)
THEOREM LastSegment ==
  ASSUME Faults = {}
  PROVE  Spec => []EndMeansAll
<1>1. Init => SegmentInv
  BY SegmentInit
<1>2. SegmentInv /\ [Next]_vars => SegmentInv'
  BY SegmentStep
<1>3. SegmentInv => EndMeansAll
  BY DEF SegmentInv, EndMeansAll
<1> QED  BY <1>1, <1>2, <1>3, PTL DEF Spec

-----------------------------------------------------------------------------
(* While nothing changes, the segments are the pages the sorted list is    *)
(* cut into.  A message's rank in it says in which one it is.              *)
Rank(m)      == Cardinality(Before(db, 1, m))
Ranked(i, j) == {m \in db : i <= Rank(m) /\ Rank(m) < j}
Size         == Cardinality(db)

LEMMA RankTyped ==
  ASSUME Typed
  PROVE  /\ IsFiniteSet(db) /\ Size \in Nat /\ N \in Nat \ {0}
         /\ \A m \in db : Rank(m) \in Nat /\ Rank(m) < Size
<1>1. IsFiniteSet(db) /\ Size \in Nat /\ N \in Nat \ {0} /\ db \subseteq Msgs
  BY BeforeIsFinite, PagingAssumption DEF Typed, Size
<1>2. ASSUME NEW m \in db PROVE Rank(m) \in Nat /\ Rank(m) < Size
  <2>1. Before(db, 1, m) \in SUBSET db /\ Before(db, 1, m) # db
    BY <1>1, <1>2, FetchIsOrder DEF Before
  <2>2. Rank(m) \in Nat
    BY <1>1, BeforeIsFinite DEF Rank
  <2> QED  BY <1>1, <2>1, <2>2, FS_Subset DEF Rank, Size
<1> QED  BY <1>1, <1>2

LEMMA RankFollows ==
  ASSUME Typed, NEW x \in db, NEW y \in db
  PROVE  /\ Precedes(x, y) <=> Rank(x) < Rank(y)
         /\ Rank(x) = Rank(y) => x = y
<1>1. db \subseteq Msgs
  BY DEF Typed
<1>2. \A a, b \in db : Precedes(a, b) => Rank(a) < Rank(b)
  <2> SUFFICES ASSUME NEW a \in db, NEW b \in db, Precedes(a, b) PROVE Rank(a) < Rank(b)
    OBVIOUS
  <2>1. FetchedFirst(1, a, b)
    BY DEF FetchedFirst
  <2>2. Before(db, 1, a) \in SUBSET Before(db, 1, b)
    BY <1>1, <2>1, FetchIsOrder DEF Before
  <2>3. Before(db, 1, a) # Before(db, 1, b)
    BY <1>1, <2>1, FetchIsOrder DEF Before
  <2>4. IsFiniteSet(Before(db, 1, b)) /\ Rank(a) \in Nat /\ Rank(b) \in Nat
    BY <1>1, BeforeIsFinite DEF Rank
  <2>5. Rank(a) <= Rank(b) /\ Rank(a) # Rank(b)
    BY <2>2, <2>3, <2>4, FS_Subset DEF Rank
  <2> QED  BY <2>4, <2>5
<1>3. Rank(x) \in Nat /\ Rank(y) \in Nat
  BY RankTyped
<1>4. x = y \/ Precedes(x, y) \/ Precedes(y, x)
  BY <1>1, FetchIsOrder DEF FetchedFirst
<1>5. CASE x = y
  BY <1>1, <1>3, <1>5, FetchIsOrder DEF FetchedFirst
<1>6. CASE Precedes(x, y)
  BY <1>2, <1>3, <1>6
<1>7. CASE Precedes(y, x)
  <2>1. ~Precedes(x, y)
    BY <1>1, <1>7, FetchIsOrder DEF FetchedFirst
  <2> QED  BY <1>2, <1>3, <1>7, <2>1
<1> QED  BY <1>4, <1>5, <1>6, <1>7

(* Some message has each rank, as they are as many as the messages.        *)
LEMMA RankOnto ==
  ASSUME Typed, NEW i \in 0..(Size - 1)
  PROVE  \E m \in db : Rank(m) = i
<1> DEFINE places == 0..(Size - 1)
           f == [m \in db |-> Rank(m)]
<1>1. Size \in Nat /\ \A m \in db : Rank(m) \in places
  BY RankTyped
<1>2. IsFiniteSet(places) /\ Cardinality(places) = Size
  <2>1. 0 \in Int /\ Size - 1 \in Int
    BY <1>1
  <2>2. IF 0 > Size - 1 THEN 0 = Size ELSE Size - 1 - 0 + 1 = Size
    BY <1>1
  <2> QED  BY <2>1, <2>2, FS_Interval
<1> HIDE DEF places
<1>3. f \in [db -> places]
  BY <1>1
<1>4. \A a, b \in db : f[a] = f[b] => a = b
  BY RankFollows
<1> HIDE DEF f
<1>5. f \in Injection(db, places)
  BY <1>3, <1>4 DEF Injection, IsInjective
<1>6. f \in Surjection(db, places)
  BY <1>2, <1>5, FS_Injection DEF Size
<1>7. \E m \in db : f[m] = i
  BY <1>6 DEF Surjection, places
<1> QED  BY <1>7 DEF f

(* So the first ones are as many as their ranks.                           *)
LEMMA FirstRanked ==
  ASSUME Typed, NEW c \in 0..Size
  PROVE  Cardinality(Ranked(0, c)) = c
<1>1. Size \in Nat /\ c \in Nat /\ \A m \in db : Rank(m) \in Nat /\ Rank(m) < Size
  BY RankTyped
<1>2. CASE c = Size
  <2>1. Ranked(0, c) = db
    BY <1>1, <1>2 DEF Ranked
  <2> QED  BY <1>2, <2>1 DEF Size
<1>3. CASE c # Size
  <2>1. c \in 0..(Size - 1)
    BY <1>1, <1>3
  <2>2. PICK y \in db : Rank(y) = c
    BY <2>1, RankOnto
  <2>3. \A x \in db : FetchedFirst(1, x, y) <=> Rank(x) < c
    BY <2>2, RankFollows DEF FetchedFirst
  <2>4. Ranked(0, c) = Before(db, 1, y)
    BY <1>1, <2>3 DEF Ranked, Before
  <2> QED  BY <2>2, <2>4 DEF Rank
<1> QED  BY <1>2, <1>3

(* The ranks of a message among those from a place on, and among those     *)
(* before a place the other way round.                                     *)
LEMMA RankFrom ==
  ASSUME Typed, NEW c \in 0..Size, NEW m \in db, c <= Rank(m), NEW d \in {0, 1}
  PROVE  Cardinality(Before(Ranked(c, Size), d, m)) = Rank(m) - c
<1>1. Size \in Nat /\ IsFiniteSet(db) /\ c \in Nat /\ \A x \in db : Rank(x) \in Nat /\ Rank(x) < Size
  BY RankTyped
<1> DEFINE A == Ranked(0, c)
           B == Before(Ranked(c, Size), d, m)
<1>2. \A x \in db : FetchedFirst(d, x, m) <=> Rank(x) < Rank(m)
  BY RankFollows DEF FetchedFirst
<1>3. Ranked(0, Rank(m)) = A \cup B
  BY <1>1, <1>2 DEF Ranked, Before
<1>4. A \cap B = {}
  BY <1>1 DEF Ranked, Before
<1>5. A \subseteq db /\ B \subseteq db
  BY DEF Ranked, Before
<1>6. Cardinality(Ranked(0, Rank(m))) = Rank(m) /\ Cardinality(A) = c
  BY <1>1, FirstRanked
<1> HIDE DEF A, B
<1>7. IsFiniteSet(A) /\ IsFiniteSet(B) /\ Cardinality(B) \in Nat
  BY <1>1, <1>5, FS_Subset, FS_CardinalityType
<1>8. Cardinality(A \cup B) = Cardinality(A) + Cardinality(B) - Cardinality(A \cap B)
  BY <1>7, FS_Union
<1>9. Cardinality(A \cap B) = 0
  BY <1>4, FS_EmptySet
<1>10. PICK b \in Nat : b = Cardinality(B)
  BY <1>7
<1>11. Cardinality(A \cup B) = c + b - 0
  BY <1>6, <1>8, <1>9, <1>10
<1>12. Rank(m) = c + b - 0
  BY <1>3, <1>6, <1>11
<1>13. b = Rank(m) - c
  BY <1>1, <1>12
<1> QED  BY <1>10, <1>13 DEF B

LEMMA RankBack ==
  ASSUME Typed, NEW c \in 0..Size, NEW m \in db, Rank(m) < c
  PROVE  Cardinality(Before(Ranked(0, c), -1, m)) = c - 1 - Rank(m)
<1>1. Size \in Nat /\ IsFiniteSet(db) /\ c \in Nat /\ \A x \in db : Rank(x) \in Nat /\ Rank(x) < Size
  BY RankTyped
<1> DEFINE A == Ranked(0, Rank(m) + 1)
           B == Before(Ranked(0, c), -1, m)
<1>2. \A x \in db : FetchedFirst(-1, x, m) <=> Rank(m) < Rank(x)
  BY RankFollows DEF FetchedFirst
<1>3. Ranked(0, c) = A \cup B
  BY <1>1, <1>2 DEF Ranked, Before
<1>4. A \cap B = {}
  BY <1>1, <1>2 DEF Ranked, Before
<1>5. A \subseteq db /\ B \subseteq db
  BY DEF Ranked, Before
<1>6. Cardinality(Ranked(0, c)) = c /\ Cardinality(A) = Rank(m) + 1
  BY <1>1, FirstRanked
<1> HIDE DEF A, B
<1>7. IsFiniteSet(A) /\ IsFiniteSet(B) /\ Cardinality(B) \in Nat
  BY <1>1, <1>5, FS_Subset, FS_CardinalityType
<1>8. Cardinality(A \cup B) = Cardinality(A) + Cardinality(B) - Cardinality(A \cap B)
  BY <1>7, FS_Union
<1>9. Cardinality(A \cap B) = 0
  BY <1>4, FS_EmptySet
<1>10. PICK b \in Nat : b = Cardinality(B)
  BY <1>7
<1>11. Cardinality(A \cup B) = (Rank(m) + 1) + b - 0
  BY <1>6, <1>8, <1>9, <1>10
<1>12. c = (Rank(m) + 1) + b - 0
  BY <1>3, <1>6, <1>11
<1>13. b = c - 1 - Rank(m)
  BY <1>1, <1>12
<1> QED  BY <1>10, <1>13 DEF B

(* What a query gets, by the ranks.                                        *)
LEMMA FirstFrom ==
  ASSUME Typed, NEW c \in 0..Size, NEW d \in {0, 1}, NEW j \in Nat
  PROVE  FirstOf(j, Ranked(c, Size), d) = Ranked(c, c + j)
<1>1. Size \in Nat /\ c \in Nat /\ \A x \in db : Rank(x) \in Nat /\ Rank(x) < Size
  BY RankTyped
<1>2. ASSUME NEW m \in db
      PROVE  m \in FirstOf(j, Ranked(c, Size), d) <=> m \in Ranked(c, c + j)
  <2>1. m \in Ranked(c, Size) <=> c <= Rank(m)
    BY <1>1, <1>2 DEF Ranked
  <2>2. c <= Rank(m) => Cardinality(Before(Ranked(c, Size), d, m)) = Rank(m) - c
    BY <1>2, RankFrom
  <2> QED  BY <1>1, <1>2, <2>1, <2>2, FirstOfIsBefore DEF Ranked
<1>3. FirstOf(j, Ranked(c, Size), d) \subseteq db /\ Ranked(c, c + j) \subseteq db
  BY DEF FirstOf, Ranked
<1> QED  BY <1>2, <1>3

LEMMA FirstBack ==
  ASSUME Typed, NEW c \in 0..Size, NEW j \in Nat
  PROVE  FirstOf(j, Ranked(0, c), -1) = Ranked(c - j, c)
<1>1. Size \in Nat /\ c \in Nat /\ \A x \in db : Rank(x) \in Nat /\ Rank(x) < Size
  BY RankTyped
<1>2. ASSUME NEW m \in db
      PROVE  m \in FirstOf(j, Ranked(0, c), -1) <=> m \in Ranked(c - j, c)
  <2>1. m \in Ranked(0, c) <=> Rank(m) < c
    BY <1>1, <1>2 DEF Ranked
  <2>2. Rank(m) < c => Cardinality(Before(Ranked(0, c), -1, m)) = c - 1 - Rank(m)
    BY <1>2, RankBack
  <2> QED  BY <1>1, <1>2, <2>1, <2>2, FirstOfIsBefore DEF Ranked
<1>3. FirstOf(j, Ranked(0, c), -1) \subseteq db /\ Ranked(c - j, c) \subseteq db
  BY DEF FirstOf, Ranked
<1> QED  BY <1>2, <1>3

(* What is stored of what was fetched: the first of the first.             *)
LEMMA FirstOfFirst ==
  ASSUME Typed, NEW d \in {-1, 0, 1}, NEW n \in Nat, NEW S, S \subseteq Msgs
  PROVE  FirstOf(n, FirstOf(n + 1, S, d), d) = FirstOf(n, S, d)
<1> DEFINE res == FirstOf(n + 1, S, d)
<1>1. res \subseteq S
  BY DEF FirstOf
<1>2. ASSUME NEW m \in res PROVE Before(res, d, m) = Before(S, d, m)
  <2>1. m \in S /\ Cardinality(Before(S, d, m)) < n + 1
    BY <1>2, FirstOfIsBefore
  <2>2. ASSUME NEW x \in Before(S, d, m) PROVE x \in res
    <3>1. x \in S /\ FetchedFirst(d, x, m)
      BY <2>2 DEF Before
    <3>2. Before(S, d, x) \in SUBSET Before(S, d, m)
      BY <2>1, <3>1, FetchIsOrder DEF Before
    <3>3. Cardinality(Before(S, d, x)) <= Cardinality(Before(S, d, m))
      BY <3>2, BeforeIsFinite, FS_Subset
    <3>4. Cardinality(Before(S, d, x)) < n + 1
      BY <2>1, <3>3, BeforeIsFinite
    <3> QED  BY <3>1, <3>4, FirstOfIsBefore
  <2> QED  BY <1>1, <2>2 DEF Before
<1>3. ASSUME NEW m \in S, Cardinality(Before(S, d, m)) < n PROVE m \in res
  <2>1. PICK b \in Nat : b = Cardinality(Before(S, d, m))
    BY BeforeIsFinite
  <2>2. b < n + 1
    BY <1>3, <2>1
  <2> QED  BY <1>3, <2>1, <2>2, FirstOfIsBefore
<1> HIDE DEF res
<1>4. \A m : m \in FirstOf(n, res, d) <=> m \in FirstOf(n, S, d)
  BY <1>1, <1>2, <1>3, FirstOfIsBefore
<1> QED  BY <1>4 DEF res

LEMMA LastRanked ==
  ASSUME Typed, NEW c \in 0..Size
  PROVE  Cardinality(Ranked(c, Size)) = Size - c
<1> DEFINE A == Ranked(0, c)
           B == Ranked(c, Size)
<1>1. Size \in Nat /\ IsFiniteSet(db) /\ c \in Nat /\ \A x \in db : Rank(x) \in Nat /\ Rank(x) < Size
  BY RankTyped
<1>2. db = A \cup B /\ A \cap B = {} /\ A \subseteq db /\ B \subseteq db
  BY <1>1 DEF Ranked
<1>3. Cardinality(A) = c
  BY FirstRanked
<1> HIDE DEF A, B
<1>4. IsFiniteSet(A) /\ IsFiniteSet(B) /\ Cardinality(B) \in Nat
  BY <1>1, <1>2, FS_Subset, FS_CardinalityType
<1>5. Cardinality(A \cup B) = Cardinality(A) + Cardinality(B) - Cardinality(A \cap B)
  BY <1>4, FS_Union
<1>6. Cardinality(A \cap B) = 0
  BY <1>2, FS_EmptySet
<1>7. PICK b \in Nat : b = Cardinality(B)
  BY <1>4
<1>8. Cardinality(A \cup B) = c + b - 0
  BY <1>3, <1>5, <1>6, <1>7
<1>9. Size = c + b - 0
  BY <1>2, <1>8 DEF Size
<1>10. b = Size - c
  BY <1>1, <1>9
<1> QED  BY <1>7, <1>10 DEF B

(* The next segment starts where this one ends, and there is one row more  *)
(* if and only if there is a segment after it.                             *)
LEMMA ForwardCut ==
  ASSUME Typed, NEW c \in 0..Size, NEW d \in {0, 1}
  PROVE  LET res == FirstOf(N + 1, Ranked(c, Size), d)
         IN /\ Stored(res, d) = Ranked(c, c + N)
            /\ Cardinality(res) > N <=> Ranked(c + N, (c + N) + N) # {}
<1> DEFINE S == Ranked(c, Size)
           res == FirstOf(N + 1, S, d)
<1>1. /\ Size \in Nat /\ N \in Nat \ {0} /\ c \in Nat /\ db \subseteq Msgs /\ d \in {-1, 0, 1}
      /\ \A x \in db : Rank(x) \in Nat /\ Rank(x) < Size
  BY RankTyped DEF Typed
<1>2. S \subseteq Msgs /\ res \subseteq S
  BY <1>1 DEF Ranked, FirstOf
<1>3. Stored(res, d) = Ranked(c, c + N)
  <2>1. FirstOf(N, res, d) = FirstOf(N, S, d)
    BY <1>1, <1>2, FirstOfFirst
  <2>2. FirstOf(N, S, d) = Ranked(c, c + N)
    BY <1>1, FirstFrom
  <2> QED  BY <2>1, <2>2 DEF Stored
<1>4. IsFiniteSet(S) /\ IsFiniteSet(res) /\ Cardinality(res) \in Nat /\ Cardinality(res) <= Size - c
  <2>1. IsFiniteSet(S) /\ IsFiniteSet(res) /\ Cardinality(res) \in Nat
    BY <1>2, BeforeIsFinite
  <2>2. Cardinality(res) <= Cardinality(S)
    BY <1>2, <2>1, FS_Subset
  <2>3. Cardinality(S) = Size - c
    BY LastRanked
  <2> QED  BY <2>1, <2>2, <2>3
<1>5. ASSUME Ranked(c + N, (c + N) + N) # {} PROVE Cardinality(res) > N
  <2>1. SUFFICES ASSUME Cardinality(res) <= N PROVE FALSE
    BY <1>1, <1>4
  <2>2. Stored(res, d) = S
    BY <1>1, <1>2, <2>1, NoMoreMeansAll DEF Stored
  <2>3. PICK m \in db : c + N <= Rank(m)
    BY <1>5 DEF Ranked
  <2>4. m \in S /\ m \notin Ranked(c, c + N)
    BY <1>1, <2>3 DEF Ranked
  <2> QED  BY <1>3, <2>2, <2>4
<1>6. ASSUME Ranked(c + N, (c + N) + N) = {} PROVE ~(Cardinality(res) > N)
  <2>1. Size <= c + N
    <3>1. SUFFICES ASSUME c + N \in 0..(Size - 1) PROVE FALSE
      BY <1>1
    <3>2. PICK m \in db : Rank(m) = c + N
      BY <3>1, RankOnto
    <3>3. m \in Ranked(c + N, (c + N) + N)
      BY <1>1, <3>2 DEF Ranked
    <3> QED  BY <1>6, <3>3
  <2>2. PICK r \in Nat : r = Cardinality(res)
    BY <1>4
  <2>3. r <= Size - c
    BY <1>4, <2>2
  <2>4. ~(r > N)
    BY <1>1, <2>1, <2>3
  <2> QED  BY <2>2, <2>4
<1> QED  BY <1>3, <1>5, <1>6

LEMMA BackCut ==
  ASSUME Typed, NEW c \in 0..Size, N <= c
  PROVE  LET res == FirstOf(N + 1, Ranked(0, c), -1)
         IN /\ Stored(res, -1) = Ranked(c - N, c)
            /\ Cardinality(res) > N <=> c # N
<1> DEFINE S == Ranked(0, c)
           res == FirstOf(N + 1, S, -1)
<1>1. /\ Size \in Nat /\ N \in Nat \ {0} /\ c \in Nat /\ db \subseteq Msgs
      /\ \A x \in db : Rank(x) \in Nat /\ Rank(x) < Size
  BY RankTyped DEF Typed
<1>2. S \subseteq Msgs /\ res \subseteq S
  BY <1>1 DEF Ranked, FirstOf
<1>3. Stored(res, -1) = Ranked(c - N, c)
  <2>1. FirstOf(N, res, -1) = FirstOf(N, S, -1)
    BY <1>1, <1>2, FirstOfFirst
  <2>2. FirstOf(N, S, -1) = Ranked(c - N, c)
    BY <1>1, FirstBack
  <2> QED  BY <2>1, <2>2 DEF Stored
<1>4. IsFiniteSet(res) /\ Cardinality(res) \in Nat /\ Cardinality(res) <= c
  <2>1. IsFiniteSet(S) /\ IsFiniteSet(res) /\ Cardinality(res) \in Nat
    BY <1>2, BeforeIsFinite
  <2>2. Cardinality(res) <= Cardinality(S)
    BY <1>2, <2>1, FS_Subset
  <2>3. Cardinality(S) = c
    BY FirstRanked
  <2> QED  BY <2>1, <2>2, <2>3
<1>5. ASSUME c # N PROVE Cardinality(res) > N
  <2>1. SUFFICES ASSUME Cardinality(res) <= N PROVE FALSE
    BY <1>1, <1>4
  <2>2. Stored(res, -1) = S
    BY <1>1, <1>2, <2>1, NoMoreMeansAll DEF Stored
  <2>3. 0 \in 0..(Size - 1)
    BY <1>1
  <2>4. PICK m \in db : Rank(m) = 0
    BY <2>3, RankOnto
  <2>5. m \in S /\ m \notin Ranked(c - N, c)
    BY <1>1, <1>5, <2>4 DEF Ranked
  <2> QED  BY <1>3, <2>2, <2>5
<1>6. ASSUME c = N PROVE ~(Cardinality(res) > N)
  BY <1>1, <1>4, <1>6
<1> QED  BY <1>3, <1>5, <1>6

(* Both bounds are those of the segment stored.                            *)
LEMMA BoundsAreExtremes ==
  ASSUME Typed, NEW d \in {-1, 0, 1}, NEW res, res \subseteq Msgs, Stored(res, d) # {}
  PROVE  \E a, b \in Stored(res, d) :
           /\ BoundsOf(res, d) = [min |-> Key(a), max |-> Key(b)]
           /\ \A x \in Stored(res, d) : ~Less(Key(x), Key(a)) /\ ~Less(Key(b), Key(x))
<1> DEFINE St == Stored(res, d)
           K == {Key(m) : m \in St}
           least == CHOOSE k \in K : \A x \in K : ~Less(x, k)
           most  == CHOOSE k \in K : \A x \in K : ~Less(k, x)
<1>1. St \subseteq Msgs /\ St # {}
  BY DEF Stored, FirstOf
<1>2. PICK y \in St, z \in St : Before(St, 1, y) = {} /\ Before(St, -1, z) = {}
  BY <1>1, SomeFirst
<1>3. \A x \in St : ~Precedes(x, y) /\ ~Precedes(z, x)
  BY <1>2 DEF Before, FetchedFirst
<1>4. /\ \E a \in St : \A x \in St : ~Less(Key(x), Key(a))
      /\ \E b \in St : \A x \in St : ~Less(Key(b), Key(x))
  <2>1. CASE order = 1
    BY <1>3, <2>1 DEF Precedes
  <2>2. CASE order = -1
    BY <1>3, <2>2 DEF Precedes
  <2> QED  BY <2>1, <2>2 DEF Typed
<1> HIDE DEF St
<1>5. (\E k \in K : \A x \in K : ~Less(x, k)) /\ (\E k \in K : \A x \in K : ~Less(k, x))
  BY <1>4
<1>6. /\ least \in K /\ \A x \in K : ~Less(x, least)
      /\ most \in K /\ \A x \in K : ~Less(most, x)
  BY <1>5
<1>7. K # {}
  BY <1>5
<1>8. BoundsOf(res, d) = [min |-> least, max |-> most]
  BY <1>7 DEF BoundsOf, St
<1> HIDE DEF least, most
<1>9. PICK a \in St, b \in St : least = Key(a) /\ most = Key(b)
  BY <1>6
<1>10. \A x \in St : Key(x) \in K
  OBVIOUS
<1> HIDE DEF K
<1>11. \A x \in St : ~Less(Key(x), Key(a)) /\ ~Less(Key(b), Key(x))
  BY <1>6, <1>9, <1>10
<1> QED  BY <1>8, <1>9, <1>11 DEF St

-----------------------------------------------------------------------------
(* The pages, by the ranks of what is in them.                             *)
LEMMA SliceIsRanked ==
  ASSUME Typed, NEW k \in Nat \ {0}
  PROVE  /\ (k - 1) * N \in Nat /\ k * N = (k - 1) * N + N
         /\ Slice(k) = Ranked((k - 1) * N, (k - 1) * N + N)
<1>1. N \in Nat \ {0} /\ \A x \in db : Rank(x) \in Nat
  BY RankTyped
<1>2. (k - 1) * N \in Nat /\ k * N = (k - 1) * N + N
  BY <1>1
<1>3. PICK c \in Nat : c = (k - 1) * N /\ k * N = c + N
  BY <1>2
<1>4. \A m : Before(db, 1, m) = {x \in db : Precedes(x, m)}
  BY DEF Before, FetchedFirst
<1>5. \A m : Cardinality({x \in db : Precedes(x, m)}) = Rank(m)
  BY <1>4 DEF Rank
<1>6. \A m \in db : m \in Slice(k) <=> Rank(m) \in ((k - 1) * N)..(k * N - 1)
  BY <1>5 DEF Slice
<1>7. ((k - 1) * N)..(k * N - 1) = c..(c + N - 1)
  BY <1>1, <1>3
<1>8. \A m \in db : Rank(m) \in c..(c + N - 1) <=> c <= Rank(m) /\ Rank(m) < c + N
  BY <1>1, <1>3
<1>9. Slice(k) \subseteq db
  BY DEF Slice
<1>10. Slice(k) = Ranked(c, c + N)
  BY <1>6, <1>7, <1>8, <1>9 DEF Ranked
<1> QED  BY <1>2, <1>3, <1>10

LEMMA SlicesAre ==
  ASSUME Typed, NEW k \in Nat \ {0}
  PROVE  k \in Slices <=> k = 1 \/ Slice(k) # {}
<1>1. IsFiniteSet(Msgs) /\ Cardinality(Msgs) \in Nat /\ Size <= Cardinality(Msgs)
  BY PagingAssumption, FS_CardinalityType, FS_Subset DEF Typed, Size
<1>2. ASSUME Slice(k) # {} PROVE k <= Cardinality(Msgs) + 1
  <2>1. PICK m \in db : (k - 1) * N <= Rank(m)
    BY <1>2, SliceIsRanked DEF Ranked
  <2>2. Rank(m) \in Nat /\ Rank(m) < Size /\ N \in Nat \ {0} /\ Size \in Nat
    BY RankTyped
  <2>3. k - 1 <= (k - 1) * N
    BY <2>2
  <2>4. (k - 1) * N \in Nat
    BY <2>2
  <2> QED  BY <1>1, <2>1, <2>2, <2>3, <2>4
<1>3. k = 1 => k <= Cardinality(Msgs) + 1
  BY <1>1
<1>4. k \in 1..(Cardinality(Msgs) + 1) <=> k <= Cardinality(Msgs) + 1
  BY <1>1
<1> QED  BY <1>2, <1>3, <1>4 DEF Slices

(* A page of the list, a segment that is this page, and a list that shows  *)
(* it and nothing else, except messages of the first page: a refresh adds  *)
(* these.                                                                  *)
Extremes(k, sg) ==
  \E a, b \in Slice(k) :
    /\ sg.min = Key(a) /\ sg.max = Key(b)
    /\ \A m \in Slice(k) : ~Less(Key(m), Key(a)) /\ ~Less(Key(b), Key(m))
Cut(k, sg, sh) ==
  /\ k \in Slices /\ sg.first = (k = 1) /\ sg.last = (k + 1 \notin Slices)
  /\ Slice(k) \subseteq sh /\ sh \subseteq Slice(k) \cup Slice(1)
  /\ Slice(k) # {} => Extremes(k, sg)

AlignedInv == /\ Typed /\ changes \in Nat
              /\ changes = 0 /\ seg.valid => \E k \in Slices : Cut(k, seg, shown)

LEMMA SomeSlice ==
  ASSUME Typed, NEW k \in Slices
  PROVE  k \in Nat \ {0}
<1>1. Cardinality(Msgs) \in Nat
  BY PagingAssumption, FS_CardinalityType
<1> QED  BY <1>1 DEF Slices

(* What a fetch stores is a page: the segment is this page.                *)
LEMMA SegmentIsCut ==
  ASSUME Typed, NEW k \in Slices, NEW d \in {-1, 0, 1}, NEW res, res \subseteq Msgs,
         Stored(res, d) = Slice(k),
         Segment(res, d).first = (k = 1), Segment(res, d).last = (k + 1 \notin Slices)
  PROVE  Cut(k, Segment(res, d), Stored(res, d))
<1>1. ASSUME Slice(k) # {} PROVE Extremes(k, Segment(res, d))
  <2>1. PICK a, b \in Stored(res, d) :
          /\ BoundsOf(res, d) = [min |-> Key(a), max |-> Key(b)]
          /\ \A x \in Stored(res, d) : ~Less(Key(x), Key(a)) /\ ~Less(Key(b), Key(x))
    BY <1>1, BoundsAreExtremes
  <2>2. Segment(res, d).min = Key(a) /\ Segment(res, d).max = Key(b)
    BY <2>1, SegmentFields
  <2> QED  BY <2>1, <2>2 DEF Extremes
<1> QED  BY <1>1 DEF Cut

LEMMA SegmentFlags ==
  ASSUME NEW res, NEW d \in {-1, 0, 1}
  PROVE  /\ Segment(res, d).first = (d = 0 \/ (d = -1 /\ ~(Cardinality(res) > N)))
         /\ Segment(res, d).last  = (d # -1 /\ ~(Cardinality(res) > N))
<1>1. (d < 0 <=> d = -1) /\ (d >= 0 <=> d # -1)
  OBVIOUS
<1>2. /\ Segment(res, d).first = IF d = 0 THEN TRUE ELSE d < 0 /\ ~(Cardinality(res) > N)
      /\ Segment(res, d).last = (d >= 0 /\ ~(Cardinality(res) > N))
  BY Zenon DEF Segment
<1> QED  BY <1>1, <1>2, Zenon

(* What is beyond the bounds, in a direction.                              *)
LEMMA Beyond ==
  ASSUME Typed, seg.valid, NEW k, Extremes(k, seg), NEW d \in {-1, 1}
  PROVE  \E e \in Slice(k) : /\ Bounded(d) = {m \in db : FetchedFirst(d, e, m)}
                             /\ \A x \in Slice(k) : ~FetchedFirst(d, e, x)
<1>1. PICK a, b \in Slice(k) :
        /\ seg.min = Key(a) /\ seg.max = Key(b)
        /\ \A m \in Slice(k) : ~Less(Key(m), Key(a)) /\ ~Less(Key(b), Key(m))
  BY DEF Extremes
<1>2. CASE d * order = 1
  <2>1. Bounded(d) = {m \in db : Less(Key(b), Key(m))}
    BY <1>1, <1>2 DEF Bounded
  <2>2. \A m : FetchedFirst(d, b, m) <=> Less(Key(b), Key(m))
    BY <1>2 DEF FetchedFirst, Precedes, Typed
  <2> QED  BY <1>1, <2>1, <2>2
<1>3. CASE d * order = -1
  <2>1. Bounded(d) = {m \in db : Less(Key(m), Key(a))}
    BY <1>1, <1>3 DEF Bounded
  <2>2. \A m : FetchedFirst(d, a, m) <=> Less(Key(m), Key(a))
    BY <1>3 DEF FetchedFirst, Precedes, Typed
  <2> QED  BY <1>1, <2>1, <2>2
<1> QED  BY <1>2, <1>3 DEF Typed

(* After a whole page, the query finds what ranks after it.                *)
LEMMA AfterPage ==
  ASSUME Typed, NEW i \in Nat, NEW j \in Nat, i < j, j <= Size, NEW e \in Ranked(i, j),
         \A x \in Ranked(i, j) : ~FetchedFirst(1, e, x)
  PROVE  {m \in db : FetchedFirst(1, e, m)} = Ranked(j, Size)
<1>1. Size \in Nat /\ e \in db /\ \A x \in db : Rank(x) \in Nat /\ Rank(x) < Size
  BY RankTyped DEF Ranked
<1>2. \A x \in db : FetchedFirst(1, e, x) <=> Rank(e) < Rank(x)
  BY <1>1, RankFollows DEF FetchedFirst
<1>3. PICK y \in db : Rank(y) = j - 1
  <2>1. j - 1 \in 0..(Size - 1)
    BY <1>1
  <2> QED  BY <2>1, RankOnto
<1>4. y \in Ranked(i, j) /\ Rank(e) < j
  BY <1>3 DEF Ranked
<1>5. ~(Rank(e) < j - 1)
  BY <1>2, <1>3, <1>4
<1>6. Rank(e) = j - 1
  BY <1>1, <1>4, <1>5
<1>7. \A x \in db : Rank(e) < Rank(x) <=> j <= Rank(x)
  BY <1>1, <1>6
<1> QED  BY <1>1, <1>2, <1>7 DEF Ranked

(* And before it, what ranks before.                                       *)
LEMMA BeforePage ==
  ASSUME Typed, NEW i \in Nat, NEW j \in Nat, NEW e \in Ranked(i, j),
         \A x \in Ranked(i, j) : ~FetchedFirst(-1, e, x)
  PROVE  i < Size /\ {m \in db : FetchedFirst(-1, e, m)} = Ranked(0, i)
<1>1. Size \in Nat /\ e \in db /\ \A x \in db : Rank(x) \in Nat /\ Rank(x) < Size
  BY RankTyped DEF Ranked
<1>2. \A x \in db : FetchedFirst(-1, e, x) <=> Rank(x) < Rank(e)
  BY <1>1, RankFollows DEF FetchedFirst
<1>3. i <= Rank(e) /\ Rank(e) < j
  BY DEF Ranked
<1>4. i < Size
  BY <1>1, <1>3
<1>5. PICK y \in db : Rank(y) = i
  BY <1>1, <1>4, RankOnto
<1>6. y \in Ranked(i, j)
  BY <1>1, <1>3, <1>5 DEF Ranked
<1>7. ~(i < Rank(e))
  BY <1>2, <1>5, <1>6
<1>8. Rank(e) = i
  BY <1>1, <1>3, <1>7
<1> QED  BY <1>1, <1>2, <1>4, <1>8 DEF Ranked

-----------------------------------------------------------------------------
(* The fetches keep to the pages.                                          *)
LEMMA OpenCuts ==
  ASSUME Typed
  PROVE  LET res == FirstOf(N + 1, db, 0) IN Cut(1, Segment(res, 0), Stored(res, 0))
<1> DEFINE res == FirstOf(N + 1, db, 0)
<1>1. /\ Size \in Nat /\ N \in Nat \ {0} /\ db \subseteq Msgs
      /\ \A x \in db : Rank(x) \in Nat /\ Rank(x) < Size
  BY RankTyped DEF Typed
<1>2. db = Ranked(0, Size)
  BY <1>1 DEF Ranked
<1>3. /\ Stored(res, 0) = Ranked(0, 0 + N)
      /\ Cardinality(res) > N <=> Ranked(0 + N, (0 + N) + N) # {}
  BY <1>1, <1>2, ForwardCut
<1>4. Slice(1) = Ranked(0, 0 + N)
  BY <1>1, SliceIsRanked
<1>5. Slice(2) = Ranked(0 + N, (0 + N) + N)
  BY <1>1, SliceIsRanked
<1>6. 1 \in Slices /\ (2 \in Slices <=> Slice(2) # {})
  BY SlicesAre
<1>7. res \subseteq Msgs
  BY <1>1 DEF FirstOf
<1>8. Segment(res, 0).first = (1 = 1)
  BY SegmentFlags
<1>9. Segment(res, 0).last = (1 + 1 \notin Slices)
  BY <1>3, <1>5, <1>6, SegmentFlags
<1> HIDE DEF res
<1>10. Cut(1, Segment(res, 0), Stored(res, 0))
  BY <1>3, <1>4, <1>6, <1>7, <1>8, <1>9, SegmentIsCut
<1> QED  BY <1>10 DEF res

LEMMA NextCuts ==
  ASSUME Typed, seg.valid, ~seg.last, NEW k \in Slices, Cut(k, seg, shown)
  PROVE  LET res == FirstOf(N + 1, Bounded(1), 1)
         IN k + 1 \in Slices /\ Cut(k + 1, Segment(res, 1), Stored(res, 1))
<1> DEFINE res == FirstOf(N + 1, Bounded(1), 1)
<1>1. /\ Size \in Nat /\ N \in Nat \ {0} /\ db \subseteq Msgs
      /\ \A x \in db : Rank(x) \in Nat /\ Rank(x) < Size
  BY RankTyped DEF Typed
<1>2. k \in Nat \ {0} /\ k + 1 \in Nat \ {0} /\ k + 2 \in Nat \ {0}
  BY SomeSlice
<1>3. PICK i \in Nat : i = (k - 1) * N /\ Slice(k) = Ranked(i, i + N) /\ k * N = i + N
  BY <1>2, SliceIsRanked
<1>4. PICK j \in Nat : j = i + N
  BY <1>1
<1>5. Slice(k + 1) = Ranked(j, j + N) /\ (k + 1) * N = j + N
  <2>1. k + 1 - 1 = k
    BY <1>2
  <2> QED  BY <1>2, <1>3, <1>4, <2>1, SliceIsRanked
<1>6. Slice(k + 2) = Ranked(j + N, (j + N) + N)
  <2>1. k + 2 - 1 = k + 1
    BY <1>2
  <2> QED  BY <1>2, <1>5, <2>1, SliceIsRanked
<1>7. k + 1 \in Slices /\ k + 1 # 1
  <2>1. k + 1 \in Slices
    BY Zenon DEF Cut
  <2> QED  BY <1>2, <2>1
<1>8. PICK y \in db : j <= Rank(y)
  BY <1>2, <1>5, <1>7, SlicesAre DEF Ranked
<1>9. j \in 0..Size /\ i \in 0..(Size - 1) /\ i < j
  BY <1>1, <1>4, <1>8
<1>10. Slice(k) # {}
  <2>1. PICK x \in db : Rank(x) = i
    BY <1>9, RankOnto
  <2> QED  BY <1>3, <1>4, <1>9, <2>1 DEF Ranked
<1>11. Extremes(k, seg)
  BY <1>10 DEF Cut
<1>12. 1 \in {-1, 1}
  OBVIOUS
<1>13. PICK e \in Slice(k) : /\ Bounded(1) = {m \in db : FetchedFirst(1, e, m)}
                             /\ \A x \in Slice(k) : ~FetchedFirst(1, e, x)
  BY <1>11, <1>12, Beyond
<1>14. Bounded(1) = Ranked(j, Size)
  <2>1. i < j /\ j <= Size /\ e \in Ranked(i, j) /\ \A x \in Ranked(i, j) : ~FetchedFirst(1, e, x)
    BY <1>1, <1>3, <1>4, <1>9, <1>13
  <2>2. {m \in db : FetchedFirst(1, e, m)} = Ranked(j, Size)
    BY <2>1, AfterPage
  <2> QED  BY <1>13, <2>2
<1>15. /\ Stored(res, 1) = Ranked(j, j + N)
       /\ Cardinality(res) > N <=> Ranked(j + N, (j + N) + N) # {}
  BY <1>9, <1>14, ForwardCut
<1>16. k + 2 \in Slices <=> Slice(k + 2) # {}
  BY <1>2, SlicesAre
<1>17. res \subseteq Msgs
  BY <1>1 DEF FirstOf, Bounded
<1>18. Segment(res, 1).first = (k + 1 = 1)
  BY <1>7, SegmentFlags
<1>19. Segment(res, 1).last = ((k + 1) + 1 \notin Slices)
  <2>1. (k + 1) + 1 = k + 2
    BY <1>2
  <2> QED  BY <1>6, <1>15, <1>16, <2>1, SegmentFlags
<1> HIDE DEF res
<1>20. Cut(k + 1, Segment(res, 1), Stored(res, 1))
  BY <1>5, <1>7, <1>15, <1>17, <1>18, <1>19, SegmentIsCut
<1> QED  BY <1>7, <1>20 DEF res

LEMMA PreviousCuts ==
  ASSUME Typed, seg.valid, ~seg.first, NEW k \in Slices, Cut(k, seg, shown)
  PROVE  LET res == FirstOf(N + 1, Bounded(-1), -1)
         IN k - 1 \in Slices /\ Cut(k - 1, Segment(res, -1), Stored(res, -1))
<1> DEFINE res == FirstOf(N + 1, Bounded(-1), -1)
<1>1. /\ Size \in Nat /\ N \in Nat \ {0} /\ db \subseteq Msgs
      /\ \A x \in db : Rank(x) \in Nat /\ Rank(x) < Size
  BY RankTyped DEF Typed
<1>2. k \in Nat \ {0} /\ k # 1 /\ k - 1 \in Nat \ {0}
  <2>1. k \in Nat \ {0}
    BY SomeSlice
  <2>2. k # 1
    BY DEF Cut
  <2> QED  BY <2>1, <2>2
<1>3. PICK h \in Nat : h = (k - 2) * N /\ Slice(k - 1) = Ranked(h, h + N) /\ (k - 1) * N = h + N
  <2>1. k - 1 - 1 = k - 2
    BY <1>2
  <2> QED  BY <1>2, <2>1, SliceIsRanked
<1>4. PICK i \in Nat : i = h + N
  BY <1>1
<1>5. Slice(k) = Ranked(i, i + N)
  BY <1>2, <1>3, <1>4, SliceIsRanked
<1>6. Slice(k) # {}
  BY <1>2, SlicesAre
<1>7. Extremes(k, seg)
  BY <1>6 DEF Cut
<1>8. -1 \in {-1, 1}
  OBVIOUS
<1>9. PICK e \in Slice(k) : /\ Bounded(-1) = {m \in db : FetchedFirst(-1, e, m)}
                            /\ \A x \in Slice(k) : ~FetchedFirst(-1, e, x)
  BY <1>7, <1>8, Beyond
<1>10. i < Size /\ Bounded(-1) = Ranked(0, i)
  <2>1. i + N \in Nat
    BY <1>1
  <2>2. e \in Ranked(i, i + N) /\ \A x \in Ranked(i, i + N) : ~FetchedFirst(-1, e, x)
    BY <1>5, <1>9
  <2>3. i < Size /\ {m \in db : FetchedFirst(-1, e, m)} = Ranked(0, i)
    BY <2>1, <2>2, BeforePage
  <2> QED  BY <1>9, <2>3
<1>11. i \in 0..Size /\ N <= i /\ i - N = h
  BY <1>1, <1>3, <1>4, <1>10
<1>12. Stored(res, -1) = Ranked(h, i) /\ (Cardinality(res) > N <=> i # N)
  BY <1>10, <1>11, BackCut
<1>13. Slice(k - 1) # {} /\ k - 1 \in Slices
  <2>1. h \in 0..(Size - 1)
    BY <1>1, <1>4, <1>10
  <2>2. PICK x \in db : Rank(x) = h
    BY <2>1, RankOnto
  <2>3. x \in Slice(k - 1)
    BY <1>1, <1>3, <2>2 DEF Ranked
  <2> QED  BY <1>2, <2>3, SlicesAre
<1>14. i = N <=> k - 1 = 1
  <2>1. CASE k = 2
    BY <1>1, <1>3, <1>4, <2>1
  <2>2. CASE k # 2
    <3>1. (k - 2) * N > 0
      BY <1>1, <1>2, <2>2
    <3> QED  BY <1>1, <1>2, <1>3, <1>4, <2>2, <3>1
  <2> QED  BY <2>1, <2>2
<1>15. res \subseteq Msgs
  BY <1>1 DEF FirstOf, Bounded
<1>16. Segment(res, -1).first = (k - 1 = 1)
  BY <1>12, <1>14, SegmentFlags
<1>17. Segment(res, -1).last = ((k - 1) + 1 \notin Slices)
  <2>1. (k - 1) + 1 = k
    BY <1>2
  <2> QED  BY <2>1, SegmentFlags
<1> HIDE DEF res
<1>18. Cut(k - 1, Segment(res, -1), Stored(res, -1))
  BY <1>3, <1>4, <1>12, <1>13, <1>15, <1>16, <1>17, SegmentIsCut
<1> QED  BY <1>13, <1>18 DEF res

(* A refresh adds messages of the first page.                              *)
LEMMA RefreshCuts ==
  ASSUME Typed, NEW k \in Slices, Cut(k, seg, shown)
  PROVE  Cut(k, seg, shown \cup FirstOf(N - 1, FirstOf(N + 1, db, 0), 0))
<1> DEFINE q == FirstOf(N + 1, db, 0)
<1>1. /\ Size \in Nat /\ N \in Nat \ {0} /\ db \subseteq Msgs
      /\ \A x \in db : Rank(x) \in Nat /\ Rank(x) < Size
  BY RankTyped DEF Typed
<1>2. db = Ranked(0, Size) /\ Slice(1) = Ranked(0, 0 + N)
  BY <1>1, SliceIsRanked DEF Ranked
<1>3. FirstOf(N, q, 0) = Slice(1)
  BY <1>1, <1>2, ForwardCut DEF Stored
<1>4. q \subseteq Msgs
  BY <1>1 DEF FirstOf
<1> HIDE DEF q
<1>5. ASSUME NEW m \in FirstOf(N - 1, q, 0) PROVE m \in FirstOf(N, q, 0)
  <2>1. m \in q /\ Cardinality(Before(q, 0, m)) < N - 1
    BY <1>5, FirstOfIsBefore
  <2>2. Cardinality(Before(q, 0, m)) \in Nat
    BY <1>4, BeforeIsFinite
  <2>3. Cardinality(Before(q, 0, m)) < N
    BY <1>1, <2>1, <2>2
  <2> QED  BY <2>1, <2>3, FirstOfIsBefore
<1>6. FirstOf(N - 1, q, 0) \subseteq Slice(1)
  BY <1>3, <1>5
<1> QED  BY <1>6 DEF Cut, q

-----------------------------------------------------------------------------
(* The pages are those of the rows, which do not change meanwhile.         *)
LEMMA SamePages ==
  ASSUME UNCHANGED rows, NEW k, NEW sg, NEW sh, Cut(k, sg, sh)
  PROVE  k \in Slices' /\ \A s, t : s = sg /\ t = sh => Cut(k, s, t)'
<1>1. date' = date /\ order' = order /\ N' = N /\ db' = db
  BY DEF rows
<1>2. \A a, b : Key(a)' = Key(a) /\ (Precedes(a, b)' <=> Precedes(a, b))
  BY <1>1 DEF Key, Precedes
<1>3. \A i : Slice(i)' = Slice(i)
  BY <1>1, <1>2 DEF Slice
<1>4. Slices' = Slices
  BY <1>3 DEF Slices
<1> QED  BY <1>2, <1>3, <1>4 DEF Cut, Extremes, Less

LEMMA PagesKept ==
  ASSUME AlignedInv, Faults = {}, [Next]_vars
  PROVE  AlignedInv'
<1>1. Typed /\ changes \in Nat /\ Typed'
  BY TypedKept DEF AlignedInv
<1>2. ASSUME UNCHANGED rows, changes' = 0, NEW k, Cut(k, seg', shown') PROVE AlignedInv'
  <2>1. k \in Slices' /\ Cut(k, seg, shown)'
    BY <1>2, SamePages
  <2> QED  BY <1>1, <1>2, <2>1 DEF AlignedInv
<1>3. CASE open
  <2>1. UNCHANGED rows /\ changes' = 0
    BY <1>3 DEF open
  <2> DEFINE res == FirstOf(N + 1, db, 0)
  <2>2. seg' = Segment(res, 0) /\ shown' = Stored(res, 0)
    BY <1>3 DEF open
  <2>3. Cut(1, Segment(res, 0), Stored(res, 0))
    BY <1>1, OpenCuts
  <2> HIDE DEF res
  <2> QED  BY <1>2, <2>1, <2>2, <2>3
<1>4. ASSUME NEW d \in {-1, 1}, fetch_segment(d) PROVE AlignedInv'
  <2>1. UNCHANGED rows /\ changes' = changes /\ seg.valid /\ (d > 0 => ~seg.last) /\ (d < 0 => ~seg.first)
    BY <1>4 DEF fetch_segment
  <2>2. SUFFICES ASSUME changes = 0 PROVE AlignedInv'
    BY <1>1, <2>1 DEF AlignedInv
  <2> DEFINE res == FirstOf(N + 1, Bounded(d), d)
  <2>3. Results(d) = {res}
    BY DEF Results, Query
  <2>4. seg' = Segment(res, d) /\ shown' = Stored(res, d)
    BY <1>4, <2>3 DEF fetch_segment, Show
  <2>5. PICK k \in Slices : Cut(k, seg, shown)
    BY <2>1, <2>2 DEF AlignedInv
  <2>6. \E j : Cut(j, Segment(res, d), Stored(res, d))
    <3>1. CASE d = 1
      BY <1>1, <2>1, <2>5, <3>1, NextCuts
    <3>2. CASE d = -1
      BY <1>1, <2>1, <2>5, <3>2, PreviousCuts
    <3> QED  BY <3>1, <3>2
  <2> HIDE DEF res
  <2> QED  BY <1>2, <2>1, <2>2, <2>4, <2>6
<1>5. CASE sel_refresh
  <2> DEFINE P == FirstOf(N - 1, FirstOf(N + 1, db, 0), 0)
  <2>1. UNCHANGED rows /\ changes' = changes /\ seg.valid /\ seg' = seg /\ shown' = shown \cup P
    BY <1>5 DEF sel_refresh, Show
  <2>2. SUFFICES ASSUME changes = 0 PROVE AlignedInv'
    BY <1>1, <2>1 DEF AlignedInv
  <2>3. PICK k \in Slices : Cut(k, seg, shown)
    BY <2>1, <2>2 DEF AlignedInv
  <2>4. Cut(k, seg, shown \cup P)
    BY <1>1, <2>3, RefreshCuts
  <2> HIDE DEF P
  <2> QED  BY <1>2, <2>1, <2>2, <2>4
<1>6. CASE check_new_mail \/ UNCHANGED vars
  <2>1. UNCHANGED rows /\ changes' = changes /\ seg' = seg /\ shown' = shown
    BY <1>6 DEF check_new_mail, vars
  <2>2. CASE changes = 0 /\ seg.valid
    <3>1. PICK k \in Slices : Cut(k, seg, shown)
      BY <2>2 DEF AlignedInv
    <3> QED  BY <1>2, <2>1, <2>2, <3>1
  <2>3. CASE ~(changes = 0 /\ seg.valid)
    BY <1>1, <2>1, <2>3 DEF AlignedInv
  <2> QED  BY <2>2, <2>3
<1>7. ASSUME NEW m \in Msgs, Comes(m) \/ Goes(m) \/ remove_msg(m) PROVE AlignedInv'
  <2>1. changes' = changes + 1
    BY <1>7 DEF Comes, Goes, remove_msg, Change
  <2>2. changes' \in Nat /\ changes' # 0
    BY <1>1, <2>1
  <2> QED  BY <1>1, <2>2 DEF AlignedInv
<1> QED  BY <1>3, <1>4, <1>5, <1>6, <1>7 DEF Next

(* While no query fails and no message comes or goes, whatever way the     *)
(* user took through the segments, the list shows exactly one of the pages *)
(* the sorted selection is cut into (and what a refresh added of the first *)
(* one), and the commands for the previous and the next segment are        *)
(* offered exactly when there is one (msgs_filter::build_query,            *)
(* store_results, postprocess_fetch).                                      *)
THEOREM PagesAreExact ==
  ASSUME Faults = {}
  PROVE  Spec => []Aligned
<1>1. Init => AlignedInv
  <2> SUFFICES ASSUME Init PROVE AlignedInv
    OBVIOUS
  <2>1. Typed /\ seg.valid = FALSE
    BY DEF Init, Typed
  <2>2. changes = 0
    BY DEF Init
  <2> QED  BY <2>1, <2>2 DEF AlignedInv
<1>2. AlignedInv /\ [Next]_vars => AlignedInv'
  BY PagesKept
<1>3. AlignedInv => Aligned
  <2> SUFFICES ASSUME AlignedInv, changes = 0, seg.valid, NEW k \in Slices, Cut(k, seg, shown)
               PROVE  Aligned
    BY DEF AlignedInv, Aligned
  <2>1. Slice(k) # {} => \A m \in Slice(k) : ~Less(Key(m), seg.min) /\ ~Less(seg.max, Key(m))
    BY DEF Cut, Extremes
  <2> QED  BY <2>1 DEF Aligned, Cut
<1> QED  BY <1>1, <1>2, <1>3, PTL DEF Spec
=============================================================================
