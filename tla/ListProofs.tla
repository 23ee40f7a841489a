------------------------------ MODULE ListProofs ------------------------------
(***************************************************************************)
(* However many pages a list window keeps: its pointers follow the current *)
(* page, whatever adds a page while a query runs for another one; what was *)
(* disabled for a query or a download is enabled again by its end and by   *)
(* nothing else; and results go to the page whose filter asked for them,   *)
(* with queries that are refused, fail or are aborted.                     *)
(***************************************************************************)
EXTENDS ListWindow, SequenceTheorems, FiniteSetTheorems, TLAPS

PagesInv == limit \in Limits /\ pages \in Seq(Ids) /\ PointersAgree

Distinct(s) == \A i, j \in 1..Len(s) : s[i] = s[j] => i = j
Among(s, t) == \A i \in 1..Len(s) : \E j \in 1..Len(t) : s[i] = t[j]

-----------------------------------------------------------------------------
(* The current page has a place in the list.                               *)
LEMMA PlaceOfCurrent ==
  ASSUME PagesInv
  PROVE  /\ Place(cur) \in 1..Len(pages) /\ pages[Place(cur)] = cur
         /\ Len(pages) \in Nat /\ limit \in Nat /\ limit > 1 /\ Len(pages) <= limit
<1>1. \E i \in 1..Len(pages) : pages[i] = cur
  BY DEF PagesInv, PointersAgree, Listed
<1>2. Place(cur) \in 1..Len(pages) /\ pages[Place(cur)] = cur
  BY <1>1 DEF Place
<1> QED  BY <1>2, WindowAssumption DEF PagesInv, PointersAgree

(* cut_pages keeps the pages up to the current one.                        *)
LEMMA CutKeeps ==
  ASSUME PagesInv
  PROVE  /\ CutPages \in Seq(Ids) /\ CutPages # <<>> /\ Len(CutPages) <= limit
         /\ Distinct(CutPages) /\ Among(CutPages, pages)
<1> DEFINE n == Place(cur)
<1>1. n \in 1..Len(pages) /\ Len(pages) \in Nat /\ Len(pages) <= limit /\ limit \in Nat
  BY PlaceOfCurrent
<1>2. pages \in Seq(Ids) /\ Distinct(pages)
  BY DEF PagesInv, PointersAgree, Distinct
<1>3. CASE ~HasNext
  <2>1. CutPages = pages
    BY <1>3 DEF CutPages
  <2> QED  BY <1>1, <1>2, <2>1 DEF Among
<1>4. CASE HasNext
  <2>1. CutPages = SubSeq(pages, 1, n)
    BY <1>4 DEF CutPages
  <2> HIDE DEF n
  <2>2. \A i \in 1..n : pages[i] \in Ids
    BY <1>1, <1>2, ElementOfSeq
  <2>3. /\ SubSeq(pages, 1, n) \in Seq(Ids) /\ Len(SubSeq(pages, 1, n)) = n
        /\ \A i \in 1..n : SubSeq(pages, 1, n)[i] = pages[i]
    BY <1>1, <2>2, SubSeqProperties
  <2> QED  BY <1>1, <1>2, <2>1, <2>3 DEF Distinct, Among
<1> QED  BY <1>3, <1>4

(* free_msgs_page leaves room for one page.                                *)
LEMMA FreeKeeps ==
  ASSUME PagesInv
  PROVE  /\ FreePage \in Seq(Ids) /\ Len(FreePage) < limit
         /\ Distinct(FreePage) /\ Among(FreePage, pages)
<1>1. /\ CutPages \in Seq(Ids) /\ CutPages # <<>> /\ Len(CutPages) <= limit
      /\ Distinct(CutPages) /\ Among(CutPages, pages) /\ limit \in Nat /\ Len(CutPages) \in Nat
  BY CutKeeps, PlaceOfCurrent
<1>2. CASE Len(CutPages) < limit
  <2>1. FreePage = CutPages
    BY <1>1, <1>2 DEF FreePage
  <2> QED  BY <1>1, <1>2, <2>1
<1>3. CASE Len(CutPages) = limit
  <2>1. FreePage = Tail(CutPages)
    BY <1>1, <1>3 DEF FreePage
  <2>2. /\ Tail(CutPages) \in Seq(Ids) /\ Len(Tail(CutPages)) = Len(CutPages) - 1
        /\ \A i \in 1..Len(Tail(CutPages)) : Tail(CutPages)[i] = CutPages[i + 1]
    BY <1>1, HeadTailProperties
  <2>3. \A i \in 1..Len(FreePage) : i + 1 \in 1..Len(CutPages) /\ FreePage[i] = CutPages[i + 1]
    BY <1>1, <2>1, <2>2
  <2> QED  BY <1>1, <1>3, <2>1, <2>2, <2>3 DEF Distinct, Among
<1> QED  BY <1>1, <1>2, <1>3

(* There are widgets that no page has, for a page more.                    *)
LEMMA SomeUnused ==
  ASSUME PagesInv
  PROVE  Unused # {}
<1>1. Len(pages) \in Nat /\ limit \in Nat /\ Len(pages) <= limit /\ win = cur
      /\ \E i \in 1..Len(pages) : pages[i] = cur
  BY PlaceOfCurrent DEF PagesInv, PointersAgree
<1>2. 1..(limit + 1) \subseteq Ids
  BY WindowAssumption DEF PagesInv
<1>3. SUFFICES ASSUME Unused = {} PROVE FALSE
  OBVIOUS
<1>4. \A p \in 1..(limit + 1) : \E i \in 1..Len(pages) : pages[i] = p
  BY <1>1, <1>2, <1>3 DEF Unused
<1> DEFINE f == [p \in 1..(limit + 1) |-> CHOOSE i \in 1..Len(pages) : pages[i] = p]
<1>5. f \in [1..(limit + 1) -> 1..Len(pages)] /\ \A p \in 1..(limit + 1) : pages[f[p]] = p
  BY <1>4
<1> HIDE DEF f
<1> DEFINE ids == 1..(limit + 1)
           places == 1..Len(pages)
<1>6. IsFiniteSet(ids) /\ Cardinality(ids) = limit + 1
  <2>1. 1 \in Int /\ limit + 1 \in Int /\ ~(1 > limit + 1) /\ limit + 1 - 1 + 1 = limit + 1
    BY <1>1
  <2> QED  BY <2>1, FS_Interval
<1>7. IsFiniteSet(places) /\ Cardinality(places) = Len(pages)
  <2>1. 1 \in Int /\ Len(pages) \in Int
    BY <1>1
  <2>2. IF 1 > Len(pages) THEN 0 = Len(pages) ELSE Len(pages) - 1 + 1 = Len(pages)
    BY <1>1
  <2> QED  BY <2>1, <2>2, FS_Interval
<1>8. Cardinality(places) < Cardinality(ids) /\ f \in [ids -> places]
  BY <1>1, <1>5, <1>6, <1>7
<1> HIDE DEF ids, places
<1>9. \E p, q \in ids : p # q /\ f[p] = f[q]
  BY <1>6, <1>7, <1>8, FS_PigeonHole
<1> QED  BY <1>5, <1>9 DEF ids

-----------------------------------------------------------------------------
(* add_msgs_page.                                                          *)
LEMMA AddPageKeeps ==
  ASSUME PagesInv, NEW ws, NEW w, limit' = limit,
         pages' = AddPage(ws, w).pages, cur' = AddPage(ws, w).cur, win' = AddPage(ws, w).win
  PROVE  PagesInv'
<1> DEFINE new == CHOOSE i \in Unused : TRUE
<1>1. new \in Unused
  BY SomeUnused
<1>2. /\ FreePage \in Seq(Ids) /\ Len(FreePage) < limit /\ limit \in Nat /\ Len(FreePage) \in Nat
      /\ Distinct(FreePage) /\ Among(FreePage, pages)
  BY FreeKeeps, PlaceOfCurrent
<1>3. pages' = Append(FreePage, new) /\ cur' = new /\ win' = new
  BY <1>2 DEF AddPage
<1> HIDE DEF new
<1>4. new \in Ids /\ \A i \in 1..Len(FreePage) : FreePage[i] # new
  BY <1>1, <1>2 DEF Unused, Among
<1>5. /\ pages' \in Seq(Ids) /\ Len(pages') = Len(FreePage) + 1 /\ pages'[Len(pages')] = new
      /\ \A i \in 1..Len(FreePage) : pages'[i] = FreePage[i]
  BY <1>2, <1>3, <1>4, AppendProperties
<1>6. Listed(cur)'
  BY <1>2, <1>3, <1>5 DEF Listed
<1>7. \A i, j \in 1..Len(pages') : pages'[i] = pages'[j] => i = j
  BY <1>2, <1>4, <1>5 DEF Distinct
<1> QED  BY <1>2, <1>3, <1>5, <1>6, <1>7 DEF PagesInv, PointersAgree

LEMMA SamePages ==
  ASSUME PagesInv, limit' = limit, pages' = pages, cur' = cur, win' = win
  PROVE  PagesInv'
BY DEF PagesInv, PointersAgree, Listed

(* change_page to one of the list.                                         *)
LEMMA ChangeKeeps ==
  ASSUME PagesInv, NEW i \in 1..Len(pages), change_page(pages[i])
  PROVE  PagesInv'
BY DEF PagesInv, PointersAgree, Listed, change_page

(* timer_func: the results go to a page of their own, or to the current.   *)
LEMMA CollectKeeps ==
  ASSUME PagesInv, Collect
  PROVE  PagesInv'
<1>1. PICK ws : \E d \in Delivered(ws) : pages' = d.pages /\ cur' = d.cur /\ win' = d.win
  BY DEF Collect
<1>2. PICK d \in Delivered(ws) : pages' = d.pages /\ cur' = d.cur /\ win' = d.win
  BY <1>1
<1>3. (\E ws2 : d = Same(ws2)) \/ (\E w : d = AddPage(ws, w))
  BY <1>2 DEF Delivered
<1>4. limit' = limit
  BY DEF Collect
<1>5. CASE \E ws2 : d = Same(ws2)
  BY <1>2, <1>4, <1>5, SamePages DEF Same
<1>6. CASE \E w : d = AddPage(ws, w)
  BY <1>2, <1>4, <1>6, AddPageKeeps
<1> QED  BY <1>3, <1>5, <1>6

-----------------------------------------------------------------------------
LEMMA PagesInit ==
  ASSUME Init
  PROVE  PagesInv
<1>1. limit \in Limits /\ pages = <<1>> /\ cur = 1 /\ win = 1
  BY Zenon DEF Init
<1>2. limit \in Nat /\ limit > 1 /\ 1..(limit + 1) \subseteq Ids
  BY <1>1, WindowAssumption
<1>3. 1 \in Ids
  BY <1>2
<1>4. pages \in Seq(Ids) /\ Len(pages) = 1 /\ pages[1] = 1
  BY <1>1, <1>3
<1>5. Listed(cur) /\ \A i, j \in 1..Len(pages) : pages[i] = pages[j] => i = j
  BY <1>1, <1>4 DEF Listed
<1> QED  BY <1>1, <1>2, <1>4, <1>5 DEF PagesInv, PointersAgree

LEMMA PagesStep ==
  ASSUME NEW l, Limits = {l}, PagesInv, [Next]_vars
  PROVE  PagesInv'
<1>1. CASE \E q \in Queries, bar \in Bars : sel_filter(q, bar)
  BY <1>1, SamePages DEF sel_filter
<1>2. CASE \E dir \in {-1, 1} : fetch_segment(dir)
  BY <1>2, SamePages DEF fetch_segment
<1>3. CASE fetch_more
  BY <1>3, SamePages DEF fetch_more
<1>4. CASE ThreadRuns
  BY <1>4, SamePages DEF ThreadRuns, view
<1>5. CASE abort_operation
  BY <1>5, SamePages DEF abort_operation, view
<1>6. CASE timer_func
  <2>1. CASE Collect
    BY <2>1, CollectKeeps
  <2>2. CASE UNCHANGED view
    BY <2>2, SamePages DEF view
  <2> QED  BY <1>6, <2>1, <2>2 DEF timer_func
<1>7. CASE \E q \in Queries : open_page(q)
  BY <1>7, AddPageKeeps DEF open_page, Opened
<1>8. CASE \E q \in Queries : fill_fetch(q)
  BY <1>8, SamePages DEF fill_fetch
<1>9. CASE \E q \in Queries : fill_fetch_new_page(q)
  BY <1>9, AddPageKeeps DEF fill_fetch_new_page, Opened
<1>10. CASE move_backward
  <2>1. Place(cur) - 1 \in 1..Len(pages)
    BY <1>10, PlaceOfCurrent DEF move_backward, HasPrev
  <2> QED  BY <1>10, <2>1, ChangeKeeps DEF move_backward
<1>11. CASE move_forward
  <2>1. Place(cur) + 1 \in 1..Len(pages)
    BY <1>11, PlaceOfCurrent DEF move_forward, HasNext
  <2> QED  BY <1>11, <2>1, ChangeKeeps DEF move_forward
<1>12. CASE StartDownload
  BY <1>12, SamePages DEF StartDownload
<1>13. CASE EndDownload
  BY <1>13, SamePages DEF EndDownload
<1>14. CASE preferences
  <2>1. limit' = limit
    BY <1>14 DEF preferences, PagesInv
  <2> QED  BY <1>14, <2>1, SamePages DEF preferences
<1>15. CASE UNCHANGED vars
  BY <1>15, SamePages DEF vars, view
<1> QED
  BY <1>1, <1>2, <1>3, <1>4, <1>5, <1>6, <1>7, <1>8, <1>9, <1>10, <1>11, <1>12, <1>13, <1>14, <1>15
  DEF Next, Ended

(* msgs_page_list::add_msgs_page moves the window's pointers before it     *)
(* knows whether there is room for the page, and pages are added while a   *)
(* query runs: the list that is shown is nevertheless that of the current  *)
(* page, in the list of pages once, and these are no more than the setting *)
(* allows, which stays what it is.                                         *)
THEOREM Pointers ==
  ASSUME NEW l, Limits = {l}
  PROVE  Spec => []PointersAgree
<1>1. Init => PagesInv
  BY PagesInit
<1>2. PagesInv /\ [Next]_vars => PagesInv'
  BY PagesStep
<1>3. PagesInv => PointersAgree
  BY DEF PagesInv
<1> QED  BY <1>1, <1>2, <1>3, PTL DEF Spec

-----------------------------------------------------------------------------
(* Where it holds: no selection dialog delivers results on its own, no     *)
(* progress bar delays what is restored, no session is lost, and the       *)
(* setting of the number of pages stays.  Queries may be refused, fail or  *)
(* be aborted.                                                             *)
Orderly ==
  /\ Dialogs = FALSE /\ Bars = {FALSE} /\ Faults \subseteq {"build", "query", "abort"}
  /\ \E l : Limits = {l}

Names  == Queries \cup {"none"}
Page   == [filter : Names, list : Names, first : BOOLEAN, last : BOOLEAN,
           sel : SUBSET Segments, on : BOOLEAN]
Asked  == [query : Names, dir : {-1, 0, 1}, bar : {FALSE}]
Thread == [st : {"new", "running", "done"}, query : Names, ok : BOOLEAN, cnx : {"none", "ok"}]

(* Every page shows what its filter selects, and can be used.              *)
Good(ws, ps) ==
  /\ ws \in [Ids -> Page]
  /\ \A i \in 1..Len(ps) :
       ps[i] \in Ids /\ ws[ps[i]].list = ws[ps[i]].filter /\ ws[ps[i]].on

(* The pages are so but for the list of the current one, which is usable   *)
(* when the rest of the window is.                                         *)
PagesGood ==
  /\ widgets \in [Ids -> Page] /\ on \in BOOLEAN /\ widgets[win].on = on
  /\ Good([widgets EXCEPT ![win].on = TRUE], pages)

SavedRight == saved = IF on THEN <<>> ELSE <<[rest |-> TRUE, list |-> TRUE]>>

(* While a thread works or its results wait, the window is disabled, for   *)
(* nothing else; the results are those the page they will go to asked for. *)
FetchRight ==
  /\ thread \in Thread /\ loading \in {None} \cup Asked
  /\ download \in BOOLEAN /\ (download => ~on)
  /\ on \/ download => loading = None
  /\ thread.st = "running" \/ (waiting /\ thread.st = "done") =>
       /\ ~on /\ ~download
       /\ dest = "new_page" /\ loading # None => loading.query = thread.query
       /\ dest \in {"replace_current_page", "extend_current_page"} =>
            thread.query = widgets[win].filter /\ (loading # None => loading.query = thread.query)

WindowInv == PagesInv /\ alive /\ PagesGood /\ SavedRight /\ FetchRight /\ dest \in Kinds

-----------------------------------------------------------------------------
LEMMA CurrentListed ==
  ASSUME PagesInv
  PROVE  /\ win = cur /\ win \in Ids /\ (\E i \in 1..Len(pages) : pages[i] = win)
         /\ \A i \in 1..Len(pages) : pages[i] \in Ids
<1>1. pages \in Seq(Ids) /\ win = cur /\ \E i \in 1..Len(pages) : pages[i] = win
  BY DEF PagesInv, PointersAgree, Listed
<1>2. \A i \in 1..Len(pages) : pages[i] \in Ids
  BY <1>1, ElementOfSeq
<1> QED  BY <1>1, <1>2

(* add_msgs_page gives the new page its widgets and leaves those of the    *)
(* pages that stay.                                                        *)
LEMMA AddPageWidgets ==
  ASSUME PagesInv, NEW ws, NEW w
  PROVE  LET d == AddPage(ws, w)
         IN /\ d.win \in Ids
            /\ d.widgets = [i \in Ids |-> d.widgets[i]] /\ d.widgets[d.win] = w
            /\ \A i \in Ids : d.widgets[i] \in {w, Freed, ws[i]}
            /\ \A i \in 1..Len(d.pages) :
                 d.pages[i] = d.win
                   \/ /\ \E j \in 1..Len(pages) : d.pages[i] = pages[j]
                      /\ d.widgets[d.pages[i]] = ws[d.pages[i]]
<1> DEFINE new == CHOOSE i \in Unused : TRUE
           gone == {pages[i] : i \in 1..Len(pages)} \ {FreePage[i] : i \in 1..Len(FreePage)}
           here == [i \in Ids |-> IF i = new THEN w ELSE IF i \in gone THEN Freed ELSE ws[i]]
           d == AddPage(ws, w)
<1>1. new \in Unused
  BY SomeUnused
<1>2. /\ FreePage \in Seq(Ids) /\ Len(FreePage) < limit /\ Len(FreePage) \in Nat
      /\ Among(FreePage, pages)
  BY FreeKeeps, PlaceOfCurrent
<1>3. d.pages = Append(FreePage, new) /\ d.win = new /\ d.widgets = here
  BY <1>2, Zenon DEF AddPage
<1>4. new \in Ids /\ \A i \in 1..Len(FreePage) : FreePage[i] # new /\ FreePage[i] \in Ids
  BY <1>1, <1>2, ElementOfSeq DEF Unused, Among
<1> HIDE DEF new
<1>5. /\ Len(d.pages) = Len(FreePage) + 1 /\ d.pages[Len(d.pages)] = new
      /\ \A i \in 1..Len(FreePage) : d.pages[i] = FreePage[i]
  BY <1>2, <1>3, <1>4, AppendProperties
<1>6. \A i \in 1..Len(FreePage) : (\E j \in 1..Len(pages) : FreePage[i] = pages[j])
                                  /\ FreePage[i] \notin gone
  BY <1>2 DEF Among
<1>7. \A i \in 1..Len(FreePage) : here[FreePage[i]] = ws[FreePage[i]]
  BY <1>4, <1>6
<1> HIDE DEF gone, d
<1>8. \A i \in 1..Len(d.pages) : i = Len(d.pages) \/ i \in 1..Len(FreePage)
  BY <1>2, <1>5
<1>9. \A i \in 1..Len(d.pages) :
        d.pages[i] = d.win
          \/ /\ \E j \in 1..Len(pages) : d.pages[i] = pages[j]
             /\ d.widgets[d.pages[i]] = ws[d.pages[i]]
  BY <1>3, <1>5, <1>6, <1>7, <1>8
<1>10. here = [i \in Ids |-> here[i]] /\ here[new] = w /\ \A i \in Ids : here[i] \in {w, Freed, ws[i]}
  BY <1>4
<1> QED  BY <1>3, <1>4, <1>9, <1>10 DEF d

LEMMA AddPageGood ==
  ASSUME PagesInv, NEW ws, Good(ws, pages), NEW w \in Page, w.list = w.filter, w.on
  PROVE  LET d == AddPage(ws, w)
         IN d.win \in Ids /\ Good(d.widgets, d.pages)
<1> DEFINE d == AddPage(ws, w)
<1>1. Freed \in Page
  BY DEF Freed, Widgets, Page, Names
<1>2. /\ d.win \in Ids /\ d.widgets = [i \in Ids |-> d.widgets[i]] /\ d.widgets[d.win] = w
      /\ \A i \in Ids : d.widgets[i] \in {w, Freed, ws[i]}
      /\ \A i \in 1..Len(d.pages) :
           d.pages[i] = d.win
             \/ /\ \E j \in 1..Len(pages) : d.pages[i] = pages[j]
                /\ d.widgets[d.pages[i]] = ws[d.pages[i]]
  BY AddPageWidgets
<1> HIDE DEF d
<1>3. \A i \in Ids : d.widgets[i] \in Page
  BY <1>1, <1>2 DEF Good
<1>4. d.widgets \in [Ids -> Page]
  BY <1>2, <1>3
<1> QED  BY <1>2, <1>4 DEF Good, d

(* add_segments changes neither a filter nor a list.                       *)
LEMMA SegmentsGood ==
  ASSUME NEW ws, NEW ps, Good(ws, ps), NEW i \in Ids
  PROVE  Good(AddSegments(ws, i), ps) /\ AddSegments(ws, i)[i].on = ws[i].on
<1> DEFINE as == AddSegments(ws, i)
           more == [ws[i] EXCEPT !.sel = @ \cup SegmentsOf(ws[i])]
<1>1. ws \in [Ids -> Page] /\ as = [ws EXCEPT ![i] = more]
  BY DEF Good, AddSegments
<1>2. /\ more \in Page /\ more.list = ws[i].list /\ more.filter = ws[i].filter
      /\ more.on = ws[i].on
  BY <1>1 DEF Page, SegmentsOf, Segments
<1> HIDE DEF more, as
<1>3. as \in [Ids -> Page] /\ as[i] = more /\ \A j \in Ids : j # i => as[j] = ws[j]
  BY <1>1, <1>2
<1>4. \A j \in Ids : as[j].list = ws[j].list /\ as[j].filter = ws[j].filter /\ as[j].on = ws[j].on
  BY <1>2, <1>3
<1> QED  BY <1>3, <1>4 DEF Good, as

-----------------------------------------------------------------------------
(* enable_interaction(false), and what a fetch then does.                  *)
LEMMA DisableKeeps ==
  ASSUME WindowInv, on, Disable, pages' = pages, win' = win
  PROVE  PagesGood' /\ SavedRight' /\ on' = FALSE
         /\ widgets'[win].filter = widgets[win].filter
<1>1. win \in Ids /\ widgets \in [Ids -> Page] /\ widgets[win].on = TRUE
      /\ Good([widgets EXCEPT ![win].on = TRUE], pages)
  BY CurrentListed DEF WindowInv, PagesGood
<1>2. on' = FALSE /\ saved' = <<[rest |-> on, list |-> widgets[win].on]>>
      /\ widgets' = [widgets EXCEPT ![win].on = FALSE]
  BY DEF Disable
<1>3. /\ widgets' \in [Ids -> Page] /\ widgets'[win].on = FALSE
      /\ widgets'[win].filter = widgets[win].filter
      /\ [widgets' EXCEPT ![win].on = TRUE] = [widgets EXCEPT ![win].on = TRUE]
  BY <1>1, <1>2 DEF Page
<1>4. PagesGood'
  <2>1. Good([widgets' EXCEPT ![win'].on = TRUE], pages')
    BY <1>1, <1>3
  <2>2. widgets' \in [Ids -> Page] /\ on' \in BOOLEAN /\ widgets'[win'].on = on'
    BY <1>2, <1>3
  <2> QED  BY <2>1, <2>2 DEF PagesGood
<1>5. SavedRight'
  BY <1>1, <1>2 DEF SavedRight
<1> QED  BY <1>2, <1>3, <1>4, <1>5

(* enable_interaction(true) in the widgets of the current page.            *)
LEMMA RestoreGood ==
  ASSUME WindowInv, saved # <<>>
  PROVE  /\ on = FALSE /\ Head(saved) = [rest |-> TRUE, list |-> TRUE]
         /\ Good(RestoredIn(widgets, win), pages)
         /\ RestoredIn(widgets, win)[win].filter = widgets[win].filter
<1>1. on \in BOOLEAN /\ saved = (IF on THEN <<>> ELSE <<[rest |-> TRUE, list |-> TRUE]>>)
      /\ widgets \in [Ids -> Page] /\ win \in Ids
  BY CurrentListed DEF WindowInv, PagesGood, SavedRight
<1>2. on = FALSE /\ Head(saved) = [rest |-> TRUE, list |-> TRUE]
  BY <1>1
<1>3. RestoredIn(widgets, win) = [widgets EXCEPT ![win].on = TRUE]
  <2>1. Head(saved).list = TRUE
    BY <1>2
  <2>2. RestoredIn(widgets, win) = [widgets EXCEPT ![win].on = Head(saved).list]
    BY Zenon DEF RestoredIn
  <2> QED  BY <2>1, <2>2
<1> QED  BY <1>1, <1>2, <1>3 DEF WindowInv, PagesGood, Page

(* Of a window that is usable, the whole is.                               *)
LEMMA UsableIsOn ==
  ASSUME WindowInv
  PROVE  /\ on \in BOOLEAN /\ widgets[win].on = on
         /\ Usable => on
         /\ on => saved = <<>> /\ ~download /\ Good(widgets, pages)
<1>1. widgets \in [Ids -> Page] /\ on \in BOOLEAN /\ widgets[win].on = on /\ win \in Ids
      /\ Good([widgets EXCEPT ![win].on = TRUE], pages)
  BY CurrentListed DEF WindowInv, PagesGood
<1>2. on => [widgets EXCEPT ![win].on = TRUE] = widgets
  BY <1>1 DEF Page
<1> QED  BY <1>1, <1>2 DEF WindowInv, Usable, SavedRight, FetchRight

-----------------------------------------------------------------------------
(* asynchronous_fetch, unless it refuses and leaves the thread alone.      *)
LEMMA FetchStarts ==
  ASSUME Orderly, WindowInv, on, NEW q \in Names, Fetch(q), ~FetchRefused
  PROVE  /\ waiting' = TRUE /\ thread' \in Thread
         /\ thread'.st = "running" /\ thread'.query = q
<1>2. thread \in Thread /\ thread.st # "running"
  BY DEF WindowInv, FetchRight
<1>3. waiting' = TRUE /\ thread' = [st |-> "running", query |-> q, ok |-> TRUE,
                                    cnx |-> IF thread.cnx = "none" THEN "ok" ELSE thread.cnx]
  BY <1>2, Zenon DEF Fetch, FetchStarted
<1>4. (IF thread.cnx = "none" THEN "ok" ELSE thread.cnx) \in {"none", "ok"}
  BY <1>2 DEF Thread
<1> QED  BY <1>3, <1>4 DEF Thread

(* sel_filter, fetch_segment and fetch_more.                               *)
LEMMA FetchKeeps ==
  ASSUME Orderly, WindowInv, PagesInv', on, Disable, NEW q \in Names, Fetch(q),
         pages' = pages, win' = win, alive' = alive, download' = download,
         dest' \in Kinds, loading' \in {None} \cup Asked,
         dest' \in {"new_page", "replace_current_page"} /\ loading' # None => loading'.query = q,
         dest' \in {"replace_current_page", "extend_current_page"} => q = widgets[win].filter,
         dest' = "extend_current_page" => loading' = None
  PROVE  WindowInv'
<1>1. PagesGood' /\ SavedRight' /\ on' = FALSE /\ widgets'[win].filter = widgets[win].filter
  BY DisableKeeps
<1>2. download' = FALSE
  BY UsableIsOn DEF WindowInv, FetchRight
<1>3. CASE FetchRefused
  <2>1. thread' = thread /\ waiting' = waiting
    BY <1>3 DEF FetchRefused, Orderly
  <2>2. thread \in Thread /\ thread.st # "running" /\ ~(waiting /\ thread.st = "done")
    BY DEF WindowInv, FetchRight
  <2>3. FetchRight'
    BY <1>1, <1>2, <2>1, <2>2 DEF FetchRight, None
  <2> QED  BY <1>1, <2>3 DEF WindowInv
<1>4. CASE ~FetchRefused
  <2>1. waiting' = TRUE /\ thread' \in Thread /\ thread'.st = "running" /\ thread'.query = q
    BY <1>4, FetchStarts
  <2>2. FetchRight'
    BY <1>1, <1>2, <2>1 DEF FetchRight, None
  <2> QED  BY <1>1, <2>2 DEF WindowInv
<1> QED  BY <1>3, <1>4

LEMMA WindowInit ==
  ASSUME Orderly, Init
  PROVE  WindowInv
<1>1. /\ pages = <<1>> /\ win = 1 /\ loading = None /\ dest \in Kinds
      /\ thread = [st |-> "new", query |-> "none", ok |-> TRUE, cnx |-> "none"]
      /\ on = TRUE /\ saved = <<>> /\ download = FALSE /\ alive = TRUE
  BY Zenon DEF Init
<1>2. PagesInv /\ 1 \in Ids
  <2>1. PagesInv
    BY PagesInit
  <2> QED  BY <1>1, <2>1, CurrentListed
<1>3. PICK q \in Queries, last \in BOOLEAN :
        widgets = [i \in Ids |-> IF i # 1 THEN Freed
                                 ELSE Widgets(q, q, [first |-> TRUE, last |-> last])]
  BY Zenon DEF Init
<1> DEFINE w == Widgets(q, q, [first |-> TRUE, last |-> last])
<1>4. Freed \in Page /\ w \in Page /\ w.list = w.filter /\ w.on = TRUE
  BY DEF Freed, Widgets, Page, Names
<1> HIDE DEF w
<1>5. widgets \in [Ids -> Page] /\ widgets[1] = w
  BY <1>2, <1>3, <1>4 DEF w
<1>6. Good(widgets, pages)
  BY <1>1, <1>2, <1>4, <1>5 DEF Good
<1>7. [widgets EXCEPT ![1].on = TRUE] = widgets
  BY <1>2, <1>4, <1>5 DEF Page
<1>8. PagesGood
  BY <1>1, <1>4, <1>5, <1>6, <1>7 DEF PagesGood
<1>9. SavedRight /\ FetchRight
  BY <1>1 DEF SavedRight, FetchRight, Thread, Names
<1> QED  BY <1>1, <1>2, <1>8, <1>9 DEF WindowInv

LEMMA SelFilterKeeps ==
  ASSUME Orderly, WindowInv, PagesInv', NEW q \in Queries, NEW bar \in Bars, sel_filter(q, bar)
  PROVE  WindowInv'
<1>1. /\ Usable /\ Disable /\ Fetch(q) /\ pages' = pages /\ win' = win /\ alive' = alive
      /\ download' = download /\ dest' \in {"new_page", "new_window"}
      /\ loading' = [query |-> q, dir |-> 0, bar |-> bar]
  BY DEF sel_filter
<1>2. loading' \in Asked /\ loading'.query = q /\ q \in Names
  BY <1>1 DEF Asked, Names, Orderly
<1>3. dest' \in Kinds /\ dest' # "extend_current_page" /\ dest' # "replace_current_page"
  BY <1>1 DEF Kinds
<1>4. on
  BY <1>1, UsableIsOn
<1> QED  BY <1>1, <1>2, <1>3, <1>4, FetchKeeps

LEMMA FetchSegmentKeeps ==
  ASSUME Orderly, WindowInv, PagesInv', NEW dir \in {-1, 1}, fetch_segment(dir)
  PROVE  WindowInv'
<1> DEFINE q == widgets[win].filter
<1>1. /\ Usable /\ Disable /\ Fetch(q) /\ pages' = pages /\ win' = win /\ alive' = alive
      /\ download' = download /\ dest' = "replace_current_page"
      /\ loading' = [query |-> q, dir |-> dir, bar |-> FALSE]
  BY DEF fetch_segment
<1>2. q \in Names
  BY CurrentListed DEF WindowInv, PagesGood, Page
<1>3. loading' \in Asked /\ loading'.query = q /\ dest' \in Kinds
  BY <1>1, <1>2 DEF Asked, Kinds
<1>4. on
  BY <1>1, UsableIsOn
<1> QED  BY <1>1, <1>2, <1>3, <1>4, FetchKeeps

LEMMA FetchMoreKeeps ==
  ASSUME Orderly, WindowInv, PagesInv', fetch_more
  PROVE  WindowInv'
<1> DEFINE q == widgets[win].filter
<1>1. /\ Usable /\ Disable /\ Fetch(q) /\ pages' = pages /\ win' = win /\ alive' = alive
      /\ download' = download /\ dest' = dest /\ loading' = loading
  BY DEF fetch_more
<1>2. q \in Names
  BY CurrentListed DEF WindowInv, PagesGood, Page
<1>3. on
  BY <1>1, UsableIsOn
<1>4. loading' = None /\ dest' \in Kinds
  BY <1>1, <1>3 DEF WindowInv, FetchRight
<1> QED  BY <1>1, <1>2, <1>3, <1>4, FetchKeeps

LEMMA ThreadRunsKeeps ==
  ASSUME Orderly, WindowInv, PagesInv', ThreadRuns
  PROVE  WindowInv'
<1>1. thread \in Thread /\ thread.st = "running"
  BY DEF ThreadRuns, WindowInv, FetchRight
<1>2. thread.cnx # "bad" /\ "lost" \notin Faults
  BY <1>1 DEF Thread, Orderly
<1>3. PICK ok \in BOOLEAN : thread' = [thread EXCEPT !.st = "done", !.ok = ok]
  BY <1>2 DEF ThreadRuns
<1>4. alive' = alive /\ UNCHANGED <<view, loading, dest, waiting, inter, download>>
  BY <1>2 DEF ThreadRuns
<1>5. thread' \in Thread /\ thread'.st = "done" /\ thread'.query = thread.query
  BY <1>1, <1>3 DEF Thread
<1>6. FetchRight'
  BY <1>1, <1>4, <1>5 DEF WindowInv, FetchRight, view, inter, None
<1> QED  BY <1>4, <1>6 DEF WindowInv, PagesGood, SavedRight, view, inter

(* A window that is enabled has no page that is not.                       *)
LEMMA GoodWhenOn ==
  ASSUME PagesInv', on' = TRUE, Good(widgets', pages')
  PROVE  PagesGood'
<1>1. PICK i \in 1..Len(pages') : pages'[i] = win'
  BY DEF PagesInv, PointersAgree, Listed
<1>2. win' \in Ids /\ widgets' \in [Ids -> Page] /\ widgets'[win'].on
  BY <1>1 DEF Good
<1>3. widgets'[win'].on = TRUE
  BY <1>2 DEF Page
<1>4. [widgets' EXCEPT ![win'].on = TRUE] = widgets'
  BY <1>2, <1>3 DEF Page
<1> QED  BY <1>2, <1>3, <1>4 DEF PagesGood

-----------------------------------------------------------------------------
(* timer_func: wherever the results go, they are those the page asked for. *)
LEMMA DeliveredGood ==
  ASSUME Orderly, WindowInv, waiting, thread.st = "done",
         NEW ws, Good(ws, pages), ws[win].filter = widgets[win].filter, NEW d \in Delivered(ws)
  PROVE  d.win \in Ids /\ Good(d.widgets, d.pages)
<1>1. /\ PagesInv /\ thread \in Thread /\ loading \in {None} \cup Asked /\ dest \in Kinds
      /\ dest = "new_page" /\ loading # None => loading.query = thread.query
      /\ dest \in {"replace_current_page", "extend_current_page"} =>
           thread.query = ws[win].filter /\ (loading # None => loading.query = thread.query)
  BY DEF WindowInv, FetchRight
<1>2. win \in Ids /\ ws \in [Ids -> Page] /\ thread.query \in Names
  BY <1>1, CurrentListed DEF Good, Thread
<1>3. CASE d = Same(ws)
  BY <1>2, <1>3 DEF Same
<1>4. CASE dest = "extend_current_page"
  <2>1. PICK b \in Bounds(1) :
          d = Same([ws EXCEPT ![win].first = b.first, ![win].last = b.last,
                              ![win].list = thread.query])
    BY <1>4, Zenon DEF Delivered
  <2> DEFINE ns == [ws EXCEPT ![win].first = b.first, ![win].last = b.last,
                              ![win].list = thread.query]
  <2>2. b.first \in BOOLEAN /\ b.last \in BOOLEAN
    BY DEF Bounds
  <2>3. Good(ns, pages)
    <3> DEFINE w == [ws[win] EXCEPT !.first = b.first, !.last = b.last, !.list = thread.query]
    <3>1. thread.query = ws[win].filter /\ ws[win] \in Page
      BY <1>1, <1>2, <1>4
    <3>2. w \in Page /\ w.list = w.filter /\ w.on = ws[win].on
      BY <1>2, <2>2, <3>1 DEF Page
    <3>3. ns = [ws EXCEPT ![win] = w]
      BY <1>2
    <3> HIDE DEF w, ns
    <3> QED  BY <1>2, <3>2, <3>3 DEF Good
  <2>4. d.win = win /\ d.widgets = ns /\ d.pages = pages
    BY <2>1 DEF Same
  <2> QED  BY <1>2, <2>3, <2>4
<1>5. CASE dest \notin {"extend_current_page", "new_window"} /\ loading # None
  <2> DEFINE W(b) == Widgets(loading.query, thread.query, b)
  <2>1. PICK b \in Bounds(loading.dir) :
          d = IF dest = "replace_current_page"
              THEN Same([ws EXCEPT ![win] = [W(b) EXCEPT !.on = ws[win].on]])
              ELSE AddPage(ws, W(b))
    BY <1>5, Zenon DEF Delivered
  <2>2. b.first \in BOOLEAN /\ b.last \in BOOLEAN
    BY DEF Bounds
  <2>3. loading.query = thread.query /\ dest \in {"replace_current_page", "new_page"}
    BY <1>1, <1>5 DEF Kinds
  <2>4. W(b) \in Page /\ W(b).list = W(b).filter /\ W(b).on = TRUE
    BY <1>2, <2>2, <2>3 DEF Widgets, Page
  <2> HIDE DEF W
  <2>5. CASE dest = "replace_current_page"
    <3> DEFINE w  == [W(b) EXCEPT !.on = ws[win].on]
               ns == [ws EXCEPT ![win] = w]
    <3>1. w \in Page /\ w.list = w.filter /\ w.on = ws[win].on
      BY <1>2, <2>4 DEF Page
    <3>2. d = Same(ns)
      BY <2>1, <2>5
    <3> HIDE DEF w
    <3>3. Good(ns, pages)
      BY <1>2, <3>1 DEF Good
    <3> QED  BY <1>2, <3>2, <3>3 DEF Same
  <2>6. CASE dest = "new_page"
    <3>1. d = AddPage(ws, W(b))
      BY <2>1, <2>6
    <3> QED  BY <1>1, <2>4, <3>1, AddPageGood
  <2> QED  BY <2>3, <2>5, <2>6
<1> QED  BY <1>3, <1>4, <1>5, Zenon DEF Delivered

LEMMA TimerKeeps ==
  ASSUME Orderly, WindowInv, PagesInv', timer_func
  PROVE  WindowInv'
<1>1. /\ waiting /\ thread.st = "done" /\ waiting' = FALSE /\ loading' = None
      /\ thread' = [st |-> "done", query |-> "none", ok |-> TRUE, cnx |-> "none"]
      /\ dest' = dest /\ download' = download
  BY DEF timer_func
<1>2. on = FALSE /\ ~download /\ saved # <<>>
  BY <1>1 DEF WindowInv, FetchRight, SavedRight, PagesGood
<1>3. Collect /\ alive' = alive
  BY <1>2 DEF timer_func
<1>4. /\ Head(saved) = [rest |-> TRUE, list |-> TRUE]
      /\ Good(RestoredIn(widgets, win), pages)
      /\ RestoredIn(widgets, win)[win].filter = widgets[win].filter
  BY <1>2, RestoreGood
<1>5. ~HasBar
  BY DEF HasBar, WindowInv, FetchRight, Asked
<1>6. PICK d \in Delivered(RestoredIn(widgets, win)) :
        /\ pages' = d.pages /\ win' = d.win /\ widgets' = AddSegments(d.widgets, d.win)
  BY <1>3, <1>5 DEF Collect
<1>7. d.win \in Ids /\ Good(d.widgets, d.pages)
  BY <1>1, <1>4, DeliveredGood
<1>8. Good(widgets', pages') /\ win' \in Ids
  BY <1>6, <1>7, SegmentsGood
<1>9. on' = TRUE /\ saved' = <<>>
  BY <1>3, <1>4 DEF Collect, Restored
<1>10. PagesGood'
  BY <1>8, <1>9, GoodWhenOn
<1>11. SavedRight' /\ FetchRight'
  <2>1. thread' \in Thread /\ thread'.st = "done"
    BY <1>1 DEF Thread, Names
  <2>2. SavedRight'
    BY <1>9 DEF SavedRight
  <2>3. download' = FALSE
    BY <1>1, <1>2 DEF WindowInv, FetchRight
  <2>4. FetchRight'
    BY <1>1, <1>9, <2>1, <2>3 DEF FetchRight, None
  <2> QED  BY <2>2, <2>4
<1> QED  BY <1>1, <1>3, <1>10, <1>11 DEF WindowInv

-----------------------------------------------------------------------------
LEMMA OpenPageKeeps ==
  ASSUME WindowInv, PagesInv', NEW q \in Queries, open_page(q)
  PROVE  WindowInv'
<1>1. on /\ Good(widgets, pages) /\ PagesInv
  BY UsableIsOn DEF open_page, WindowInv
<1>2. PICK last \in BOOLEAN :
        LET d == AddPage(widgets, Widgets(q, q, [first |-> TRUE, last |-> last]))
        IN Opened(d) /\ widgets' = d.widgets
  BY DEF open_page
<1> DEFINE w == Widgets(q, q, [first |-> TRUE, last |-> last])
           d == AddPage(widgets, w)
<1>3. w \in Page /\ w.list = w.filter /\ w.on
  BY DEF Widgets, Page, Names
<1> HIDE DEF w
<1>4. Good(d.widgets, d.pages)
  BY <1>1, <1>3, AddPageGood
<1>5. pages' = d.pages /\ widgets' = d.widgets
  BY <1>2 DEF Opened, w
<1> HIDE DEF d
<1>6. UNCHANGED <<loading, dest, waiting, thread, inter, download, alive>>
  BY DEF open_page
<1>7. on' = on /\ on = TRUE
  BY <1>1, <1>6, UsableIsOn DEF inter
<1>8. PagesGood'
  BY <1>4, <1>5, <1>7, GoodWhenOn
<1>9. SavedRight' /\ FetchRight'
  BY <1>6, <1>7 DEF WindowInv, SavedRight, FetchRight, inter, None
<1> QED  BY <1>6, <1>8, <1>9 DEF WindowInv

LEMMA MoveKeeps ==
  ASSUME WindowInv, PagesInv', Usable, NEW p, change_page(p)
  PROVE  WindowInv'
<1>1. on = TRUE /\ Good(widgets, pages)
  BY UsableIsOn
<1>2. /\ pages' = pages /\ widgets' = widgets
      /\ UNCHANGED <<loading, dest, waiting, thread, inter, download, alive>>
  BY DEF change_page
<1>3. PagesGood'
  BY <1>1, <1>2, GoodWhenOn DEF inter
<1>4. SavedRight' /\ FetchRight'
  BY <1>1, <1>2 DEF WindowInv, SavedRight, FetchRight, inter, None
<1> QED  BY <1>2, <1>3, <1>4 DEF WindowInv

LEMMA StartDownloadKeeps ==
  ASSUME WindowInv, PagesInv', StartDownload
  PROVE  WindowInv'
<1>1. /\ Usable /\ Disable /\ download' = TRUE /\ pages' = pages /\ win' = win
      /\ UNCHANGED <<loading, dest, waiting, thread, alive>>
  BY DEF StartDownload
<1>2. on
  BY <1>1, UsableIsOn
<1>3. PagesGood' /\ SavedRight' /\ on' = FALSE
  BY <1>1, <1>2, DisableKeeps
<1>4. /\ thread \in Thread /\ loading = None
      /\ thread.st # "running" /\ ~(waiting /\ thread.st = "done")
  BY <1>2 DEF WindowInv, FetchRight
<1>5. thread' \in Thread /\ loading' = None
      /\ thread'.st # "running" /\ ~(waiting' /\ thread'.st = "done")
  BY <1>1, <1>4 DEF None
<1>6. FetchRight'
  BY <1>1, <1>3, <1>5 DEF FetchRight, None
<1> QED  BY <1>1, <1>3, <1>6 DEF WindowInv

LEMMA EndDownloadKeeps ==
  ASSUME WindowInv, PagesInv', EndDownload
  PROVE  WindowInv'
<1>1. download /\ download' = FALSE /\ pages' = pages /\ win' = win
      /\ UNCHANGED <<loading, dest, waiting, thread>>
  BY DEF EndDownload
<1>2. ~on /\ saved # <<>>
  BY <1>1 DEF WindowInv, FetchRight, SavedRight
<1>3. /\ Head(saved) = [rest |-> TRUE, list |-> TRUE]
      /\ Good(RestoredIn(widgets, win), pages)
  BY <1>2, RestoreGood
<1>4. Restored /\ widgets' = RestoredIn(widgets, win) /\ alive' = alive
  BY <1>2 DEF EndDownload
<1>5. on' = TRUE /\ saved' = <<>>
  BY <1>3, <1>4 DEF Restored
<1>6. PagesGood'
  BY <1>1, <1>3, <1>4, <1>5, GoodWhenOn
<1>7. /\ thread \in Thread /\ loading = None
      /\ thread.st # "running" /\ ~(waiting /\ thread.st = "done")
  BY <1>1 DEF WindowInv, FetchRight
<1>8. thread' \in Thread /\ loading' = None
      /\ thread'.st # "running" /\ ~(waiting' /\ thread'.st = "done")
  BY <1>1, <1>7 DEF None
<1>9. SavedRight' /\ FetchRight'
  BY <1>1, <1>5, <1>8 DEF SavedRight, FetchRight, None
<1> QED  BY <1>1, <1>4, <1>6, <1>9 DEF WindowInv

(* What changes none of the variables the invariant is about.              *)
LEMMA NothingMoves ==
  ASSUME WindowInv, PagesInv', pages' = pages, win' = win, widgets' = widgets,
         UNCHANGED <<loading, dest, waiting, thread, on, saved, download, alive>>
  PROVE  WindowInv'
<1>1. PagesGood' /\ SavedRight'
  BY DEF WindowInv, PagesGood, SavedRight
<1>2. FetchRight'
  BY DEF WindowInv, FetchRight, None
<1> QED  BY <1>1, <1>2 DEF WindowInv

LEMMA WindowStep ==
  ASSUME Orderly, WindowInv, [Next]_vars
  PROVE  WindowInv'
<1>1. PagesInv'
  BY PagesStep DEF WindowInv, Orderly
<1>2. CASE \E q \in Queries, bar \in Bars : sel_filter(q, bar)
  BY <1>1, <1>2, SelFilterKeeps
<1>3. CASE \E dir \in {-1, 1} : fetch_segment(dir)
  BY <1>1, <1>3, FetchSegmentKeeps
<1>4. CASE fetch_more
  BY <1>1, <1>4, FetchMoreKeeps
<1>5. CASE ThreadRuns
  BY <1>1, <1>5, ThreadRunsKeeps
<1>6. CASE abort_operation
  BY <1>1, <1>6, NothingMoves DEF abort_operation, view, inter
<1>7. CASE timer_func
  BY <1>1, <1>7, TimerKeeps
<1>8. CASE \E q \in Queries : open_page(q)
  BY <1>1, <1>8, OpenPageKeeps
<1>9. CASE \E q \in Queries : fill_fetch(q) \/ fill_fetch_new_page(q)
  BY <1>9 DEF fill_fetch, fill_fetch_new_page, Orderly
<1>10. CASE move_backward \/ move_forward
  BY <1>1, <1>10, MoveKeeps DEF move_backward, move_forward
<1>11. CASE StartDownload
  BY <1>1, <1>11, StartDownloadKeeps
<1>12. CASE EndDownload
  BY <1>1, <1>12, EndDownloadKeeps
<1>13. CASE preferences
  BY <1>1, <1>13, NothingMoves DEF preferences, inter
<1>14. CASE UNCHANGED vars
  BY <1>1, <1>14, NothingMoves DEF vars, view, inter
<1> QED
  BY <1>2, <1>3, <1>4, <1>5, <1>6, <1>7, <1>8, <1>9, <1>10, <1>11, <1>12, <1>13, <1>14
  DEF Next, Ended

LEMMA AlwaysWindow ==
  ASSUME Orderly
  PROVE  Spec => []WindowInv
<1>1. Init => WindowInv
  BY WindowInit
<1>2. WindowInv /\ [Next]_vars => WindowInv'
  BY WindowStep
<1> QED  BY <1>1, <1>2, PTL DEF Spec

-----------------------------------------------------------------------------
(* However many pages there are and whatever is done while a query runs,   *)
(* its results go to the page whose filter asked for them, and every page  *)
(* shows what its own filter selects (msg_list_window::timer_func, which   *)
(* goes by what m_fetch_command and m_loading_filter are by then).         *)
THEOREM ResultsFindTheirPage ==
  ASSUME Orderly
  PROVE  Spec => []ShownMatchesFilter
<1>1. WindowInv => ShownMatchesFilter
  <2> SUFFICES ASSUME WindowInv, NEW i \in 1..Len(pages)
               PROVE  widgets[pages[i]].list = widgets[pages[i]].filter
    BY DEF ShownMatchesFilter
  <2> DEFINE ws == [widgets EXCEPT ![win].on = TRUE]
  <2>1. win \in Ids /\ widgets \in [Ids -> Page] /\ pages[i] \in Ids
        /\ ws[pages[i]].list = ws[pages[i]].filter
    BY CurrentListed DEF WindowInv, PagesGood, Good
  <2> QED  BY <2>1 DEF Page
<1> QED  BY <1>1, AlwaysWindow, PTL

(* The calls of enable_interaction come in pairs: what is recorded is      *)
(* never a disabled state, and nothing is taken from an empty list.        *)
THEOREM Paired ==
  ASSUME Orderly
  PROVE  Spec => []InteractionPaired
<1>1. WindowInv => InteractionPaired
  <2> SUFFICES ASSUME WindowInv PROVE InteractionPaired
    OBVIOUS
  <2>1. on \in BOOLEAN /\ saved = (IF on THEN <<>> ELSE <<[rest |-> TRUE, list |-> TRUE]>>)
    BY DEF WindowInv, PagesGood, SavedRight
  <2>2. (saved = <<>> <=> on) /\ (saved # <<>> => Head(saved) = [rest |-> TRUE, list |-> TRUE])
    BY <2>1
  <2> QED  BY <2>2 DEF WindowInv, InteractionPaired
<1> QED  BY <1>1, AlwaysWindow, PTL

(* Whatever pages were added, left and freed, none of those in the list    *)
(* is left disabled.                                                       *)
THEOREM NoListStaysDead ==
  ASSUME Orderly
  PROVE  Spec => []ListsUsable
<1>1. WindowInv => ListsUsable
  BY UsableIsOn DEF ListsUsable, Good
<1> QED  BY <1>1, AlwaysWindow, PTL
-----------------------------------------------------------------------------
(* The types, when dialogs deliver results, the progress bar delays what   *)
(* is restored and sessions are lost as well: what the widgets of a page   *)
(* that is listed name is never the placeholder of an unused page.         *)
Requests == [query : Queries, dir : {-1, 0, 1}, bar : BOOLEAN]
States   == [rest : BOOLEAN, list : BOOLEAN]
Fetches  == [st : {"new", "running", "done"}, query : Names, ok : BOOLEAN, cnx : {"none", "ok", "bad"}]

Filled(ws, ps) ==
  /\ ws \in [Ids -> Page]
  /\ \A i \in 1..Len(ps) : ps[i] \in Ids /\ ws[ps[i]].filter \in Queries /\ ws[ps[i]].list \in Queries

FetchTyped ==
  /\ thread \in Fetches /\ waiting \in BOOLEAN
  /\ thread.st = "running" \/ (waiting /\ thread.st = "done") => thread.query \in Queries

RequestTyped == loading \in {None} \cup Requests /\ dest \in Kinds

SharedTyped ==
  /\ on \in BOOLEAN /\ saved \in {<<>>} \cup {<<s>> : s \in States}
  /\ abort \in BOOLEAN /\ download \in BOOLEAN /\ alive \in BOOLEAN

SaidTyped == cancelled \in BOOLEAN /\ aborted \in BOOLEAN /\ said \in {"", "executed", "cancelled"}

TypesInv ==
  /\ PagesInv /\ Filled(widgets, pages) /\ nav \subseteq Segments
  /\ FetchTyped /\ RequestTyped /\ SharedTyped /\ SaidTyped

LEMMA AddPageFilled ==
  ASSUME PagesInv, NEW ws, Filled(ws, pages), NEW w \in Page, w.filter \in Queries, w.list \in Queries
  PROVE  AddPage(ws, w).win \in Ids /\ Filled(AddPage(ws, w).widgets, AddPage(ws, w).pages)
<1> DEFINE d == AddPage(ws, w)
<1>1. Freed \in Page
  BY DEF Freed, Widgets, Page, Names
<1>2. /\ d.win \in Ids /\ d.widgets = [i \in Ids |-> d.widgets[i]] /\ d.widgets[d.win] = w
      /\ \A i \in Ids : d.widgets[i] \in {w, Freed, ws[i]}
      /\ \A i \in 1..Len(d.pages) :
           d.pages[i] = d.win
             \/ /\ \E j \in 1..Len(pages) : d.pages[i] = pages[j]
                /\ d.widgets[d.pages[i]] = ws[d.pages[i]]
  BY AddPageWidgets
<1> HIDE DEF d
<1>3. \A i \in Ids : d.widgets[i] \in Page
  BY <1>1, <1>2 DEF Filled
<1>4. d.widgets \in [Ids -> Page]
  BY <1>2, <1>3
<1> QED  BY <1>2, <1>4 DEF Filled, d

LEMMA SegmentsFilled ==
  ASSUME NEW ws, NEW ps, Filled(ws, ps), NEW i \in Ids
  PROVE  Filled(AddSegments(ws, i), ps)
<1> DEFINE as == AddSegments(ws, i)
           more == [ws[i] EXCEPT !.sel = @ \cup SegmentsOf(ws[i])]
<1>1. ws \in [Ids -> Page] /\ as = [ws EXCEPT ![i] = more]
  BY DEF Filled, AddSegments
<1>2. more \in Page /\ more.list = ws[i].list /\ more.filter = ws[i].filter
  BY <1>1 DEF Page, SegmentsOf, Segments
<1> HIDE DEF more, as
<1>3. as \in [Ids -> Page] /\ as[i] = more /\ \A j \in Ids : j # i => as[j] = ws[j]
  BY <1>1, <1>2
<1> QED  BY <1>2, <1>3 DEF Filled, as

(* Enabling or disabling a list, as enable_interaction does.               *)
LEMMA EnabledFilled ==
  ASSUME NEW ws, NEW ps, Filled(ws, ps), NEW i \in Ids, NEW b \in BOOLEAN
  PROVE  Filled([ws EXCEPT ![i].on = b], ps)
<1> DEFINE w  == [ws[i] EXCEPT !.on = b]
           ns == [ws EXCEPT ![i].on = b]
<1>1. ws \in [Ids -> Page] /\ ns = [ws EXCEPT ![i] = w]
  BY DEF Filled
<1>2. w \in Page /\ w.list = ws[i].list /\ w.filter = ws[i].filter
  BY <1>1 DEF Page
<1> HIDE DEF w, ns
<1>3. ns \in [Ids -> Page] /\ ns[i] = w /\ \A j \in Ids : j # i => ns[j] = ws[j]
  BY <1>1, <1>2
<1> QED  BY <1>2, <1>3 DEF Filled, ns

LEMMA CurrentFilled ==
  ASSUME TypesInv
  PROVE  /\ win \in Ids /\ widgets \in [Ids -> Page] /\ widgets[win] \in Page
         /\ widgets[win].filter \in Queries /\ widgets[win].list \in Queries
         /\ widgets[win].on \in BOOLEAN
<1>1. win \in Ids /\ \E i \in 1..Len(pages) : pages[i] = win
  BY CurrentListed DEF TypesInv
<1> QED  BY <1>1 DEF TypesInv, Filled, Page

LEMMA SavedTyped ==
  ASSUME SharedTyped, saved # <<>>
  PROVE  Head(saved) \in States /\ Head(saved).rest \in BOOLEAN /\ Head(saved).list \in BOOLEAN
BY DEF SharedTyped, States

LEMMA DisableTyped ==
  ASSUME TypesInv, Disable
  PROVE  Filled(widgets', pages) /\ on' \in BOOLEAN /\ saved' \in {<<>>} \cup {<<s>> : s \in States}
<1>1. Filled(widgets', pages)
  BY CurrentFilled, EnabledFilled DEF Disable, TypesInv
<1>2. widgets[win].on \in BOOLEAN /\ on \in BOOLEAN
  BY CurrentFilled DEF TypesInv, SharedTyped
<1>3. [rest |-> on, list |-> widgets[win].on] \in States
  BY <1>2 DEF States
<1> QED  BY <1>1, <1>3 DEF Disable

LEMMA FetchTypes ==
  ASSUME FetchTyped, NEW q \in Queries, Fetch(q), aborted \in BOOLEAN
  PROVE  FetchTyped' /\ aborted' \in BOOLEAN
<1>1. thread \in Fetches /\ waiting \in BOOLEAN
  BY DEF FetchTyped
<1>2. CASE FetchRefused /\ thread' = thread
  BY <1>1, <1>2 DEF FetchRefused, FetchTyped
<1>3. CASE FetchRefused /\ thread' = [thread EXCEPT !.cnx = "bad"]
  <2>1. thread' \in Fetches /\ thread'.st = thread.st /\ thread'.query = thread.query
    BY <1>1, <1>3 DEF Fetches
  <2> QED  BY <1>1, <1>3, <2>1 DEF FetchRefused, FetchTyped
<1>4. CASE FetchStarted(q)
  <2>1. waiting' = TRUE /\ aborted' = FALSE /\ q \in Names
    BY <1>4 DEF FetchStarted, Names
  <2>2. CASE thread.st = "running"
    <3>1. PICK text \in {q, thread.query} : thread' = [thread EXCEPT !.query = text]
      BY <1>4, <2>2 DEF FetchStarted
    <3>2. text \in Queries /\ text \in Names
      BY <2>2 DEF FetchTyped, Names
    <3>3. thread' \in Fetches /\ thread'.query = text
      BY <1>1, <3>1, <3>2 DEF Fetches
    <3> QED  BY <2>1, <3>2, <3>3 DEF FetchTyped
  <2>3. CASE thread.st # "running"
    <3>1. PICK c : /\ c = IF thread.cnx = "none" THEN "ok" ELSE thread.cnx
                   /\ thread' = [st |-> "running", query |-> q, ok |-> TRUE, cnx |-> c]
      BY <1>4, <2>3, Zenon DEF FetchStarted
    <3>2. c \in {"none", "ok", "bad"}
      BY <1>1, <3>1 DEF Fetches
    <3>3. thread' \in Fetches /\ thread'.query = q
      BY <2>1, <3>1, <3>2 DEF Fetches
    <3> QED  BY <2>1, <3>3 DEF FetchTyped
  <2> QED  BY <2>2, <2>3
<1> QED  BY <1>2, <1>3, <1>4 DEF Fetch, FetchRefused

(* timer_func: whatever page is current by now, what is put in it has a    *)
(* query, since a thread that has finished has one.                        *)
LEMMA DeliveredFilled ==
  ASSUME TypesInv, waiting, thread.st = "done", NEW ws, Filled(ws, pages), NEW d \in Delivered(ws)
  PROVE  d.win \in Ids /\ Filled(d.widgets, d.pages)
<1>1. /\ PagesInv /\ thread.query \in Queries /\ thread.query \in Names /\ dest \in Kinds
      /\ loading \in {None} \cup Requests /\ win \in Ids /\ ws \in [Ids -> Page]
  BY CurrentFilled DEF TypesInv, FetchTyped, RequestTyped, Filled, Names
<1>2. CASE d = Same(ws)
  BY <1>1, <1>2 DEF Same
<1>3. CASE dest = "extend_current_page"
  <2> DEFINE NS(b) == [ws EXCEPT ![win].first = b.first, ![win].last = b.last,
                                 ![win].list = thread.query]
  <2>1. PICK b \in Bounds(1) : d = Same(NS(b))
    BY <1>3, Zenon DEF Delivered
  <2>2. b.first \in BOOLEAN /\ b.last \in BOOLEAN
    BY DEF Bounds
  <2> DEFINE w == [ws[win] EXCEPT !.first = b.first, !.last = b.last, !.list = thread.query]
  <2>3. w \in Page /\ w.list = thread.query /\ w.filter = ws[win].filter
    BY <1>1, <2>2 DEF Page
  <2>4. NS(b) = [ws EXCEPT ![win] = w]
    BY <1>1
  <2> HIDE DEF w, NS
  <2>5. Filled(NS(b), pages)
    BY <1>1, <2>3, <2>4 DEF Filled
  <2> QED  BY <1>1, <2>1, <2>5 DEF Same
<1>4. CASE dest \notin {"extend_current_page", "new_window"} /\ loading # None
  <2> DEFINE W(b) == Widgets(loading.query, thread.query, b)
  <2>1. PICK b \in Bounds(loading.dir) :
          d = IF dest = "replace_current_page"
              THEN Same([ws EXCEPT ![win] = [W(b) EXCEPT !.on = ws[win].on]])
              ELSE AddPage(ws, W(b))
    BY <1>4, Zenon DEF Delivered
  <2>2. b \in [first : BOOLEAN, last : BOOLEAN]
    BY DEF Bounds
  <2>3. loading.query \in Queries /\ loading.query \in Names
    BY <1>1, <1>4 DEF Requests, Names
  <2>4. W(b) \in Page /\ W(b).list \in Queries /\ W(b).filter \in Queries
    BY <1>1, <2>2, <2>3 DEF Widgets, Page
  <2> HIDE DEF W
  <2>5. CASE dest = "replace_current_page"
    <3> DEFINE w  == [W(b) EXCEPT !.on = ws[win].on]
               ns == [ws EXCEPT ![win] = w]
    <3>1. w \in Page /\ w.list \in Queries /\ w.filter \in Queries
      BY <1>1, <2>4 DEF Page
    <3>2. d = Same(ns)
      BY <2>1, <2>5
    <3> HIDE DEF w
    <3>3. Filled(ns, pages)
      BY <1>1, <3>1 DEF Filled
    <3> QED  BY <1>1, <3>2, <3>3 DEF Same
  <2>6. CASE dest # "replace_current_page"
    <3>1. d = AddPage(ws, W(b))
      BY <2>1, <2>6
    <3> QED  BY <1>1, <2>4, <3>1, AddPageFilled
  <2> QED  BY <2>5, <2>6
<1> QED  BY <1>2, <1>3, <1>4, Zenon DEF Delivered

LEMMA CollectTyped ==
  ASSUME TypesInv, waiting, thread.st = "done", saved # <<>>, Collect
  PROVE  Filled(widgets', pages') /\ nav' \subseteq Segments /\ on' \in BOOLEAN /\ saved' = <<>>
         /\ abort' = FALSE
<1>1. Head(saved) \in States /\ Head(saved).rest \in BOOLEAN /\ Head(saved).list \in BOOLEAN
  BY SavedTyped DEF TypesInv
<1>2. PICK ws : /\ ws \in {widgets, RestoredIn(widgets, win)}
                /\ \E d \in Delivered(ws) :
                     /\ pages' = d.pages /\ nav' = SegmentsOf(d.widgets[d.win])
                     /\ \/ widgets' = AddSegments(d.widgets, d.win)
                        \/ widgets' = AddSegments(RestoredIn(d.widgets, d.win), d.win)
  BY Zenon DEF Collect
<1>3. win \in Ids /\ Filled(widgets, pages)
  BY CurrentFilled DEF TypesInv
<1>4. Filled(RestoredIn(widgets, win), pages)
  BY <1>1, <1>3, EnabledFilled DEF RestoredIn
<1>5. Filled(ws, pages)
  BY <1>2, <1>3, <1>4
<1>6. PICK d \in Delivered(ws) :
        /\ pages' = d.pages /\ nav' = SegmentsOf(d.widgets[d.win])
        /\ \/ widgets' = AddSegments(d.widgets, d.win)
           \/ widgets' = AddSegments(RestoredIn(d.widgets, d.win), d.win)
  BY <1>2
<1>7. d.win \in Ids /\ Filled(d.widgets, d.pages)
  BY <1>5, DeliveredFilled
<1>8. Filled(RestoredIn(d.widgets, d.win), d.pages)
  BY <1>1, <1>7, EnabledFilled DEF RestoredIn
<1>9. Filled(widgets', pages')
  BY <1>6, <1>7, <1>8, SegmentsFilled
<1>10. nav' \subseteq Segments
  BY <1>6 DEF SegmentsOf, Segments
<1> QED  BY <1>1, <1>9, <1>10 DEF Collect, Restored

(* Of the other actions, those that start a fetch, those that show a page, *)
(* and those that leave the pages alone.                                   *)
LEMMA StartTyped ==
  ASSUME TypesInv, PagesInv', NEW q \in Queries, Disable, Fetch(q),
         UNCHANGED <<pages, nav, cancelled, download, alive, said>>,
         abort' \in BOOLEAN, RequestTyped'
  PROVE  TypesInv'
<1>1. Filled(widgets', pages) /\ on' \in BOOLEAN /\ saved' \in {<<>>} \cup {<<s>> : s \in States}
  BY DisableTyped
<1>2. FetchTyped' /\ aborted' \in BOOLEAN
  BY FetchTypes DEF TypesInv, SaidTyped
<1>3. SharedTyped'
  BY <1>1 DEF TypesInv, SharedTyped
<1>4. SaidTyped'
  BY <1>2 DEF TypesInv, SaidTyped
<1> QED  BY <1>1, <1>2, <1>3, <1>4 DEF TypesInv

LEMMA ShowTyped ==
  ASSUME TypesInv, PagesInv', Filled(widgets', pages'), nav' \subseteq Segments,
         UNCHANGED <<loading, dest, waiting, thread, cancelled, inter, download, alive, said, aborted>>
  PROVE  TypesInv'
<1>1. FetchTyped'
  BY DEF TypesInv, FetchTyped
<1>2. RequestTyped'
  BY DEF TypesInv, RequestTyped, None
<1>3. SharedTyped' /\ SaidTyped'
  BY DEF TypesInv, SharedTyped, SaidTyped, inter
<1> QED  BY <1>1, <1>2, <1>3 DEF TypesInv

LEMMA StayTyped ==
  ASSUME TypesInv, PagesInv', UNCHANGED <<pages, nav>>, Filled(widgets', pages),
         UNCHANGED <<loading, dest, waiting, cancelled, said, aborted>>, FetchTyped', SharedTyped'
  PROVE  TypesInv'
<1>1. RequestTyped' /\ SaidTyped'
  BY DEF TypesInv, RequestTyped, SaidTyped, None
<1> QED  BY <1>1 DEF TypesInv

LEMMA OpenedTyped ==
  ASSUME TypesInv, NEW q \in Queries, NEW last \in BOOLEAN
  PROVE  LET d == AddPage(widgets, Widgets(q, q, [first |-> TRUE, last |-> last]))
         IN Filled(d.widgets, d.pages) /\ d.win \in Ids /\ d.nav \subseteq Segments
<1> DEFINE b == [first |-> TRUE, last |-> last]
           w == Widgets(q, q, b)
           d == AddPage(widgets, w)
<1>1. b \in [first : BOOLEAN, last : BOOLEAN] /\ q \in Names
  BY DEF Names
<1>2. w \in Page /\ w.filter \in Queries /\ w.list \in Queries
  BY <1>1 DEF Widgets, Page
<1>3. d.nav \in {SegmentsOf(w), nav}
  BY Zenon DEF AddPage
<1>4. SegmentsOf(w) \subseteq Segments
  BY DEF SegmentsOf, Segments
<1> HIDE DEF w
<1>5. Filled(d.widgets, d.pages) /\ d.win \in Ids
  BY <1>2, AddPageFilled DEF TypesInv
<1> QED  BY <1>3, <1>4, <1>5 DEF TypesInv, w

-----------------------------------------------------------------------------
LEMMA TypesInit ==
  ASSUME Init
  PROVE  TypesInv
<1>1. /\ pages = <<1>> /\ win = 1 /\ loading = None /\ dest \in Kinds /\ waiting = TRUE
      /\ thread = [st |-> "new", query |-> "none", ok |-> TRUE, cnx |-> "none"]
      /\ on = TRUE /\ saved = <<>> /\ download = FALSE /\ alive = TRUE /\ abort = FALSE
      /\ cancelled = FALSE /\ said = "" /\ aborted = FALSE /\ nav = SegmentsOf(widgets[1])
  BY Zenon DEF Init
<1>2. PagesInv /\ 1 \in Ids
  <2>1. PagesInv
    BY PagesInit
  <2> QED  BY <1>1, <2>1, CurrentListed
<1>3. PICK q \in Queries, last \in BOOLEAN :
        widgets = [i \in Ids |-> IF i # 1 THEN Freed
                                 ELSE Widgets(q, q, [first |-> TRUE, last |-> last])]
  BY Zenon DEF Init
<1> DEFINE w == Widgets(q, q, [first |-> TRUE, last |-> last])
<1>4. Freed \in Page /\ w \in Page /\ w.list \in Queries /\ w.filter \in Queries
  BY DEF Freed, Widgets, Page, Names
<1> HIDE DEF w
<1>5. widgets \in [Ids -> Page] /\ widgets[1] = w
  BY <1>2, <1>3, <1>4 DEF w
<1>6. Filled(widgets, pages)
  <2>1. Len(pages) = 1 /\ pages[1] = 1
    BY <1>1
  <2>2. \A i \in 1..Len(pages) : pages[i] = 1
    BY <2>1
  <2> QED  BY <1>2, <1>4, <1>5, <2>2 DEF Filled
<1>7. FetchTyped /\ RequestTyped
  BY <1>1 DEF FetchTyped, RequestTyped, Fetches, Names
<1>8. SharedTyped /\ SaidTyped /\ nav \subseteq Segments
  BY <1>1 DEF SharedTyped, SaidTyped, SegmentsOf, Segments
<1> QED  BY <1>2, <1>6, <1>7, <1>8 DEF TypesInv

LEMMA TypesStep ==
  ASSUME NEW l, Limits = {l}, TypesInv, [Next]_vars
  PROVE  TypesInv'
<1>1. PagesInv'
  BY PagesStep DEF TypesInv
<1>2. CASE \E q \in Queries, bar \in Bars : sel_filter(q, bar)
  <2>1. PICK q \in Queries, bar \in Bars : sel_filter(q, bar)
    BY <1>2
  <2>2. RequestTyped'
    BY <2>1, WindowAssumption DEF sel_filter, RequestTyped, Requests, Kinds
  <2>3. abort' \in BOOLEAN /\ Disable /\ Fetch(q)
        /\ UNCHANGED <<pages, nav, cancelled, download, alive, said>>
    BY <2>1 DEF sel_filter
  <2> QED  BY <1>1, <2>2, <2>3, StartTyped
<1>3. CASE \E dir \in {-1, 1} : fetch_segment(dir)
  <2>1. PICK dir \in {-1, 1} : fetch_segment(dir)
    BY <1>3
  <2>2. PICK q \in Queries : q = widgets[win].filter
    BY CurrentFilled
  <2>3. RequestTyped'
    BY <2>1, <2>2 DEF fetch_segment, RequestTyped, Requests, Kinds
  <2>4. abort' \in BOOLEAN /\ Disable /\ Fetch(q)
        /\ UNCHANGED <<pages, nav, cancelled, download, alive, said>>
    BY <2>1, <2>2 DEF fetch_segment, TypesInv, SharedTyped
  <2> QED  BY <1>1, <2>3, <2>4, StartTyped
<1>4. CASE fetch_more
  <2>1. PICK q \in Queries : q = widgets[win].filter
    BY CurrentFilled
  <2>2. RequestTyped'
    BY <1>4 DEF fetch_more, TypesInv, RequestTyped, None
  <2>3. abort' \in BOOLEAN /\ Disable /\ Fetch(q)
        /\ UNCHANGED <<pages, nav, cancelled, download, alive, said>>
    BY <1>4, <2>1 DEF fetch_more
  <2> QED  BY <1>1, <2>2, <2>3, StartTyped
<1>5. CASE ThreadRuns
  <2>1. thread' = thread \/ \E ok \in BOOLEAN : thread' = [thread EXCEPT !.st = "done", !.ok = ok]
    BY <1>5 DEF ThreadRuns
  <2>2. waiting' = waiting /\ thread.st = "running"
    BY <1>5 DEF ThreadRuns
  <2>3. FetchTyped'
    BY <2>1, <2>2 DEF TypesInv, FetchTyped, Fetches
  <2>4. SharedTyped'
    BY <1>5 DEF ThreadRuns, TypesInv, SharedTyped, inter
  <2>5. UNCHANGED <<pages, nav, widgets, loading, dest, cancelled, said, aborted>>
    BY <1>5 DEF ThreadRuns, view
  <2> QED  BY <1>1, <2>2, <2>3, <2>4, <2>5, StayTyped DEF TypesInv
<1>6. CASE abort_operation
  <2>1. UNCHANGED <<view, loading, dest, waiting, thread, inter, download, alive, said>>
    BY <1>6 DEF abort_operation
  <2>2. cancelled' \in BOOLEAN /\ aborted' \in BOOLEAN
    BY <1>6 DEF abort_operation, TypesInv, SaidTyped
  <2>3. FetchTyped' /\ RequestTyped'
    BY <2>1 DEF TypesInv, FetchTyped, RequestTyped, None
  <2>4. SharedTyped' /\ SaidTyped'
    BY <2>1, <2>2 DEF TypesInv, SharedTyped, SaidTyped, inter
  <2> QED  BY <1>1, <2>1, <2>3, <2>4 DEF TypesInv, view
<1>7. CASE timer_func
  <2>1. /\ waiting /\ thread.st = "done" /\ waiting' = FALSE /\ loading' = None
        /\ thread' = [st |-> "done", query |-> "none", ok |-> TRUE, cnx |-> "none"]
        /\ said' \in {"", "executed", "cancelled"} /\ UNCHANGED <<dest, cancelled, download, aborted>>
    BY <1>7 DEF timer_func
  <2>2. FetchTyped' /\ RequestTyped' /\ SaidTyped'
    BY <2>1 DEF FetchTyped, Fetches, Names, TypesInv, RequestTyped, SaidTyped
  <2>3. CASE saved # <<>> /\ Collect /\ UNCHANGED alive
    <3>1. Filled(widgets', pages') /\ nav' \subseteq Segments /\ on' \in BOOLEAN /\ saved' = <<>>
          /\ abort' = FALSE
      BY <2>1, <2>3, CollectTyped
    <3>2. SharedTyped'
      BY <2>1, <2>3, <3>1 DEF TypesInv, SharedTyped
    <3> QED  BY <1>1, <2>2, <3>1, <3>2 DEF TypesInv
  <2>4. CASE saved = <<>> /\ alive' = FALSE /\ UNCHANGED <<view, inter>>
    <3>1. SharedTyped'
      BY <2>1, <2>4 DEF TypesInv, SharedTyped, inter
    <3> QED  BY <1>1, <2>2, <2>4, <3>1 DEF TypesInv, view
  <2> QED  BY <1>7, <2>3, <2>4 DEF timer_func
<1>8. CASE \E q \in Queries : open_page(q)
  <2>1. PICK q \in Queries, last \in BOOLEAN :
          LET d == AddPage(widgets, Widgets(q, q, [first |-> TRUE, last |-> last]))
          IN Opened(d) /\ widgets' = d.widgets
    BY <1>8 DEF open_page
  <2>2. Filled(widgets', pages') /\ nav' \subseteq Segments
    BY <2>1, OpenedTyped DEF Opened
  <2> QED  BY <1>1, <1>8, <2>2, ShowTyped DEF open_page
<1>9. CASE \E q \in Queries : fill_fetch(q)
  <2>1. PICK q \in Queries, last \in BOOLEAN :
          widgets' = [widgets EXCEPT ![win] = [Widgets(q, q, [first |-> TRUE, last |-> last])
                                                EXCEPT !.on = widgets[win].on]]
    BY <1>9 DEF fill_fetch
  <2>2. PICK w : /\ w = [Widgets(q, q, [first |-> TRUE, last |-> last]) EXCEPT !.on = widgets[win].on]
                 /\ widgets' = [widgets EXCEPT ![win] = w]
    BY <2>1
  <2>3. w \in Page /\ w.filter \in Queries /\ w.list \in Queries
    BY <2>2, CurrentFilled DEF Widgets, Page, Names
  <2>4. Filled(widgets', pages)
    BY <2>2, <2>3, CurrentFilled DEF TypesInv, Filled
  <2>5. /\ UNCHANGED <<pages, nav>>
        /\ UNCHANGED <<loading, dest, waiting, thread, cancelled, inter, download, alive, said, aborted>>
    BY <1>9 DEF fill_fetch
  <2> QED  BY <1>1, <2>4, <2>5, ShowTyped DEF TypesInv
<1>10. CASE \E q \in Queries : fill_fetch_new_page(q)
  <2>1. PICK q \in Queries, last \in BOOLEAN :
          LET d == AddPage(widgets, Widgets(q, q, [first |-> TRUE, last |-> last]))
          IN Opened(d) /\ widgets' = AddSegments(d.widgets, d.win)
    BY <1>10 DEF fill_fetch_new_page
  <2>2. Filled(widgets', pages') /\ nav' \subseteq Segments
    BY <2>1, OpenedTyped, SegmentsFilled DEF Opened
  <2> QED  BY <1>1, <1>10, <2>2, ShowTyped DEF fill_fetch_new_page
<1>11. CASE move_backward \/ move_forward
  <2>1. PICK p : change_page(p)
    BY <1>11 DEF move_backward, move_forward
  <2>2. /\ UNCHANGED <<pages, widgets, nav>>
        /\ UNCHANGED <<loading, dest, waiting, thread, cancelled, inter, download, alive, said, aborted>>
    BY <2>1 DEF change_page
  <2> QED  BY <1>1, <2>2, ShowTyped DEF TypesInv
<1>12. CASE StartDownload
  <2>1. /\ Disable /\ abort' = TRUE /\ download' = TRUE /\ alive' = alive
        /\ UNCHANGED <<pages, nav, loading, dest, waiting, thread, cancelled, said, aborted>>
    BY <1>12 DEF StartDownload
  <2>2. Filled(widgets', pages) /\ on' \in BOOLEAN /\ saved' \in {<<>>} \cup {<<s>> : s \in States}
    BY <2>1, DisableTyped
  <2>3. SharedTyped'
    BY <2>1, <2>2 DEF TypesInv, SharedTyped
  <2>4. FetchTyped'
    BY <2>1 DEF TypesInv, FetchTyped
  <2> QED  BY <1>1, <2>1, <2>2, <2>3, <2>4, StayTyped
<1>13. CASE EndDownload
  <2>1. /\ download' = FALSE /\ abort' = FALSE
        /\ UNCHANGED <<pages, win, nav, loading, dest, waiting, thread, cancelled, said, aborted>>
    BY <1>13 DEF EndDownload
  <2>2. FetchTyped'
    BY <2>1 DEF TypesInv, FetchTyped
  <2>3. CASE saved = <<>>
    <3>1. alive' = FALSE /\ UNCHANGED <<widgets, on, saved>>
      BY <1>13, <2>3 DEF EndDownload
    <3>2. SharedTyped'
      BY <2>1, <3>1 DEF TypesInv, SharedTyped
    <3> QED  BY <1>1, <2>1, <2>2, <3>1, <3>2, StayTyped DEF TypesInv
  <2>4. CASE saved # <<>>
    <3>1. Restored /\ widgets' = RestoredIn(widgets, win) /\ UNCHANGED alive
      BY <1>13, <2>4 DEF EndDownload
    <3>2. Head(saved) \in States /\ Head(saved).rest \in BOOLEAN /\ Head(saved).list \in BOOLEAN
      BY <2>4, SavedTyped DEF TypesInv
    <3>3. Filled(widgets', pages)
      BY <3>1, <3>2, CurrentFilled, EnabledFilled DEF RestoredIn, TypesInv
    <3>4. SharedTyped'
      BY <2>1, <3>1, <3>2 DEF TypesInv, SharedTyped, Restored
    <3> QED  BY <1>1, <2>1, <2>2, <3>3, <3>4, StayTyped
  <2> QED  BY <2>3, <2>4
<1>14. CASE preferences
  <2>1. /\ UNCHANGED <<pages, widgets, nav>>
        /\ UNCHANGED <<loading, dest, waiting, thread, cancelled, inter, download, alive, said, aborted>>
    BY <1>14 DEF preferences
  <2> QED  BY <1>1, <2>1, ShowTyped DEF TypesInv
<1>15. CASE UNCHANGED vars
  <2>1. /\ UNCHANGED <<pages, widgets, nav>>
        /\ UNCHANGED <<loading, dest, waiting, thread, cancelled, inter, download, alive, said, aborted>>
    BY <1>15 DEF vars, view
  <2> QED  BY <1>1, <2>1, ShowTyped DEF TypesInv
<1> QED
  BY <1>2, <1>3, <1>4, <1>5, <1>6, <1>7, <1>8, <1>9, <1>10, <1>11, <1>12, <1>13, <1>14, <1>15
  DEF Next, Ended

(* Whatever happens in the window, dialogs, progress bars and lost         *)
(* sessions included, all state has its type; and no page in the list has  *)
(* the widgets of a page that was freed: whenever timer_func delivers      *)
(* results it has a query to show, though it forgets the thread's query    *)
(* each time it has.                                                       *)
THEOREM TypesKept ==
  ASSUME NEW l, Limits = {l}, "none" \notin Queries
  PROVE  Spec => []TypeOK
<1>1. Init => TypesInv
  BY TypesInit
<1>2. TypesInv /\ [Next]_vars => TypesInv'
  BY TypesStep
<1>3. TypesInv => TypeOK
  <2> SUFFICES ASSUME TypesInv PROVE TypeOK
    OBVIOUS
  <2>1. /\ limit \in Limits /\ pages \in Seq(Ids) /\ cur \in Ids /\ win \in Ids
        /\ nav \subseteq Segments /\ dest \in Kinds
    BY CurrentFilled, CurrentListed DEF TypesInv, PagesInv, RequestTyped
  <2>2. \A i \in 1..Len(pages) : "none" \notin {widgets[pages[i]].filter, widgets[pages[i]].list}
    BY DEF TypesInv, Filled
  <2>3. widgets \in [Ids -> [filter : Queries \cup {"none"}, list : Queries \cup {"none"},
                             first : BOOLEAN, last : BOOLEAN, sel : SUBSET Segments, on : BOOLEAN]]
    BY DEF TypesInv, Filled, Page, Names
  <2>4. /\ loading \in {None} \cup [query : Queries, dir : {-1, 0, 1}, bar : BOOLEAN]
        /\ thread \in [st : {"new", "running", "done"}, query : Queries \cup {"none"}, ok : BOOLEAN,
                       cnx : {"none", "ok", "bad"}]
        /\ waiting \in BOOLEAN
    BY DEF TypesInv, RequestTyped, Requests, FetchTyped, Fetches, Names
  <2>5. /\ on \in BOOLEAN /\ saved \in {<<>>} \cup {<<s>> : s \in [rest : BOOLEAN, list : BOOLEAN]}
        /\ abort \in BOOLEAN /\ download \in BOOLEAN /\ alive \in BOOLEAN
        /\ cancelled \in BOOLEAN /\ aborted \in BOOLEAN /\ said \in {"", "executed", "cancelled"}
    BY DEF TypesInv, SharedTyped, SaidTyped, States
  <2> QED  BY <2>1, <2>2, <2>3, <2>4, <2>5 DEF TypeOK
<1> QED  BY <1>1, <1>2, <1>3, PTL DEF Spec
=============================================================================
