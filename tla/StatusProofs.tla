----------------------------- MODULE StatusProofs -----------------------------
(***************************************************************************)
(* What is known of the status of messages, for every number of messages   *)
(* and of pages.  With one window, whose queries are answered, the         *)
(* counters count what the database has, a message selected alone has the  *)
(* database's status, and nothing but msg_untrash takes a bit away.        *)
(***************************************************************************)
EXTENDS StatusTracking, FiniteSetTheorems, TLAPS

(* A world as the code makes it, when its statuses are made of the bits B. *)
Fields == {"mail", "cache", "high", "counted", "branch", "copy", "sel", "doubt"}

Shape(w) ==
  /\ DOMAIN w = Fields /\ DOMAIN w.copy = Pages /\ DOMAIN w.sel = Pages
  /\ w.high \in 0..MaxId

Copies(B) == [now : SUBSET B, orig : SUBSET B]

Typed(w, B) ==
  /\ Shape(w)
  /\ IsMap(w.mail, SUBSET B) /\ IsMap(w.cache, SUBSET B) /\ IsMap(w.counted, SUBSET B)
  /\ \A m \in DOMAIN w.cache : m <= w.high
  /\ w.branch \in BOOLEAN /\ w.doubt \subseteq Ids
  /\ \A p \in Pages : IsMap(w.copy[p], Copies(B)) /\ w.sel[p] \subseteq DOMAIN w.copy[p]

TypeInv(B) ==
  /\ Typed(world, B)
  /\ born \subseteq Ids /\ DOMAIN world.mail \subseteq born /\ pending \in BOOLEAN
  /\ cur \in [Windows -> Pages] /\ \A v \in Windows : Window[cur[v]] = v
  /\ DOMAIN fetching = Windows /\ \A v \in Windows : IsMap(fetching[v].rows, SUBSET B)

-----------------------------------------------------------------------------
(* What is listed is in the database, below the high water mark, and the   *)
(* list may add bits to the status it remembers of the database.           *)
Lists(w) ==
  \A p \in Pages : \A m \in DOMAIN w.copy[p] :
    m \in DOMAIN w.mail /\ m <= w.high /\ w.copy[p][m].orig \subseteq w.copy[p][m].now

Forgotten(w) == DOMAIN w.cache \cup DOMAIN w.counted \subseteq DOMAIN w.mail

(* The cache and the counters agree with the database about m.             *)
RightAt(w, m) ==
  IF m \in DOMAIN w.mail /\ m <= w.high
  THEN /\ m \in DOMAIN w.cache =>
            /\ Unread(w.cache[m]) = Unread(w.mail[m])
            /\ Unprocessed(w.cache[m]) = Unprocessed(w.mail[m])
       /\ m \notin DOMAIN w.cache => ~Current(w.mail[m])
       /\ w.branch => /\ Current(w.mail[m]) <=> m \in DOMAIN w.counted
                      /\ Current(w.mail[m]) => w.counted[m] = w.mail[m]
  ELSE m \notin DOMAIN w.cache \cup DOMAIN w.counted

Right(w) == \A m \in Ids \ w.doubt : RightAt(w, m)

Fresh(w, p) == \A m \in DOMAIN w.mail : w.sel[p] = {m} => w.copy[p][m].orig = w.mail[m]

(* The rows that are on their way are still the database's, since nothing  *)
(* else is done meanwhile.                                                 *)
StillTrue(v) ==
  \A m \in DOMAIN fetching[v].rows :
    m \in DOMAIN world.mail /\ fetching[v].rows[m] = world.mail[m]

Unsent == Bits \ {"sent"}

StatusInv ==
  /\ TypeInv(Unsent) /\ Lists(world) /\ Forgotten(world) /\ Right(world)
  /\ \A v \in Windows : IF Busy(v) THEN StillTrue(v) ELSE Fresh(world, cur[v])

(* One window; a query that fails is asked again; no message was sent from *)
(* here and left in the folder.                                            *)
Sole ==
  /\ \A v, x \in Windows : v = x
  /\ "read" \notin Faults /\ Old \subseteq SUBSET Unsent

-----------------------------------------------------------------------------
(* Maps from messages to statuses.                                         *)

LEMMA JustIs ==
  ASSUME NEW m, NEW s
  PROVE  DOMAIN Just(m, s) = {m} /\ Just(m, s)[m] = s
BY DEF Just

LEMMA WithoutIs ==
  ASSUME NEW f, NEW S
  PROVE  /\ DOMAIN Without(f, S) = DOMAIN f \ S
         /\ \A m \in DOMAIN f \ S : Without(f, S)[m] = f[m]
BY DEF Without, Restrict

LEMMA NothingIs == DOMAIN << >> = {}
OBVIOUS

(* A set of numbers that are not above MaxId has a greatest one: take one  *)
(* with as few as possible above it.                                       *)
LEMMA MaxIs ==
  ASSUME NEW S, S \subseteq 0..MaxId, S # {}
  PROVE  Max(S) \in S /\ \A m \in S : m <= Max(S)
<1> DEFINE Above(y) == {x \in S : x > y}
           T == {Above(y) : y \in S}
           R == StrictSubsetOrdering(0..MaxId)
<1>1. T # {} /\ T \subseteq FiniteSubsetsOf(0..MaxId)
  <2>1. IsFiniteSet(0..MaxId)
    BY StatusAssumption, FS_Interval
  <2>2. \A X \in SUBSET (0..MaxId) : IsFiniteSet(X)
    BY <2>1, FS_Subset
  <2> QED  BY <2>2 DEF FiniteSubsetsOf
<1>2. IsWellFoundedOn(R, FiniteSubsetsOf(0..MaxId))
  BY FS_StrictSubsetOrderingWellFounded
<1> HIDE DEF R, T
<1>3. \E x \in T : \A y \in T : ~(<<y, x>> \in R)
  BY <1>1, <1>2, WFMin
<1>4. PICK y \in S : \A z \in S : ~(<<Above(z), Above(y)>> \in R)
  BY <1>3 DEF T
<1>5. \A z \in S : ~(z > y)
  <2>1. SUFFICES ASSUME NEW z \in S, z > y PROVE FALSE
    OBVIOUS
  <2>2. Above(z) \subseteq Above(y) /\ z \in Above(y) /\ z \notin Above(z)
    <3>1. \A x \in S : x \in Int
      BY StatusAssumption
    <3>2. \A x \in S : x > z => x > y
      BY <2>1, <3>1
    <3>3. z \in Above(y)
      BY <2>1
    <3>4. ~(z > z)
      BY <3>1
    <3> QED  BY <3>2, <3>3, <3>4
  <2>3. Above(z) \in SUBSET (0..MaxId) /\ Above(y) \in SUBSET (0..MaxId)
    OBVIOUS
  <2>4. <<Above(z), Above(y)>> \in R
    BY <2>2, <2>3 DEF R, StrictSubsetOrdering
  <2> QED  BY <1>4, <2>1, <2>4
<1>6. \E x \in S : \A z \in S : x >= z
  BY <1>5, StatusAssumption
<1> QED  BY <1>6, StatusAssumption DEF Max

-----------------------------------------------------------------------------
(* What each operation on a world does.                                    *)

LEMMA UpdateDoes ==
  ASSUME NEW w, Shape(w), NEW st, DOMAIN st \subseteq Ids, NEW x, x = update(w, st)
  PROVE  /\ Shape(x) /\ x.mail = w.mail /\ x.counted = w.counted /\ x.branch = w.branch
         /\ x.copy = w.copy /\ x.sel = w.sel /\ x.doubt = w.doubt
         /\ x.cache = Over(st, w.cache)
         /\ x.high \in {w.high} \cup DOMAIN st
         /\ w.high <= x.high /\ \A m \in DOMAIN st : m <= x.high
<1> DEFINE S == {w.high} \cup DOMAIN st
<1>1. S \subseteq 0..MaxId /\ S # {}
  BY StatusAssumption DEF Shape, Ids
<1>2. Max(S) \in S /\ \A m \in S : m <= Max(S)
  BY <1>1, MaxIs
<1>3. /\ DOMAIN x = Fields /\ x.high = Max(S) /\ x.cache = Over(st, w.cache)
      /\ x.mail = w.mail /\ x.counted = w.counted /\ x.branch = w.branch
      /\ x.copy = w.copy /\ x.sel = w.sel /\ x.doubt = w.doubt
  BY DEF update, Shape, Fields
<1> QED  BY <1>1, <1>2, <1>3 DEF Shape

LEMMA ChangedDoes ==
  ASSUME NEW w, Shape(w), NEW st, DOMAIN st \subseteq Ids, NEW x, x = mail_status_changed(w, st)
  PROVE  /\ Shape(x) /\ x.mail = w.mail /\ x.branch = w.branch
         /\ x.copy = w.copy /\ x.sel = w.sel /\ x.doubt = w.doubt
         /\ x.cache = Over(st, w.cache)
         /\ x.high \in {w.high} \cup DOMAIN st
         /\ w.high <= x.high /\ \A m \in DOMAIN st : m <= x.high
         /\ \A m \in DOMAIN st :
              IF Current(st[m])
              THEN w.branch => m \in DOMAIN x.counted /\ x.counted[m] = st[m]
              ELSE m \notin DOMAIN x.counted
         /\ \A m : m \notin DOMAIN st => (m \in DOMAIN x.counted <=> m \in DOMAIN w.counted)
         /\ \A m \in DOMAIN w.counted \ DOMAIN st : x.counted[m] = w.counted[m]
         /\ DOMAIN x.counted \subseteq DOMAIN w.counted \cup DOMAIN st
         /\ \A m \in DOMAIN x.counted :
              \/ m \in DOMAIN st /\ x.counted[m] = st[m]
              \/ m \in DOMAIN w.counted /\ x.counted[m] = w.counted[m]
<1> DEFINE u == update(w, st)
           now == {m \in DOMAIN st : Current(st[m])}
           come == IF w.branch THEN now ELSE {}
           kept == Without(w.counted, DOMAIN st \ now)
           in == Restrict(st, come)
<1>1. /\ Shape(u) /\ u.mail = w.mail /\ u.branch = w.branch /\ u.counted = w.counted
      /\ u.copy = w.copy /\ u.sel = w.sel /\ u.doubt = w.doubt
      /\ u.cache = Over(st, w.cache)
      /\ u.high \in {w.high} \cup DOMAIN st
      /\ w.high <= u.high /\ \A m \in DOMAIN st : m <= u.high
  BY UpdateDoes
<1> HIDE DEF u
<1>2. x = [u EXCEPT !.counted = Over(in, Without(@, DOMAIN st \ now))]
  BY DEF mail_status_changed, u
<1>3. /\ DOMAIN x = Fields /\ x.counted = Over(in, kept) /\ x.high = u.high /\ x.cache = u.cache
      /\ x.mail = u.mail /\ x.branch = u.branch
      /\ x.copy = u.copy /\ x.sel = u.sel /\ x.doubt = u.doubt
  BY <1>1, <1>2 DEF Shape, Fields
<1>4. /\ DOMAIN in = come /\ \A m \in come : in[m] = st[m]
      /\ come \subseteq DOMAIN st /\ now \subseteq DOMAIN st
  BY DEF Restrict
<1>5. /\ DOMAIN kept = DOMAIN w.counted \ (DOMAIN st \ now)
      /\ \A m \in DOMAIN kept : kept[m] = w.counted[m]
  BY DEF Without, Restrict
<1> HIDE DEF in, kept, come
<1> HIDE DEF now
<1>6. /\ DOMAIN x.counted = come \cup DOMAIN kept
      /\ \A m \in DOMAIN x.counted : x.counted[m] = IF m \in come THEN st[m] ELSE w.counted[m]
  BY <1>3, <1>4, <1>5 DEF Over
<1>7. /\ Shape(x) /\ x.mail = w.mail /\ x.branch = w.branch
      /\ x.copy = w.copy /\ x.sel = w.sel /\ x.doubt = w.doubt
      /\ x.cache = Over(st, w.cache)
      /\ x.high \in {w.high} \cup DOMAIN st
      /\ w.high <= x.high /\ \A m \in DOMAIN st : m <= x.high
  BY <1>1, <1>3 DEF Shape
<1>8. \A m \in DOMAIN st : Current(st[m]) => (w.branch => m \in DOMAIN x.counted /\ x.counted[m] = st[m])
  BY <1>6 DEF come, now
<1>9. \A m \in DOMAIN st : ~Current(st[m]) => m \notin DOMAIN x.counted
  BY <1>4, <1>5, <1>6 DEF come, now
<1>10. \A m : m \notin DOMAIN st => (m \in DOMAIN x.counted <=> m \in DOMAIN w.counted)
  BY <1>4, <1>5, <1>6
<1>11. \A m \in DOMAIN w.counted \ DOMAIN st : x.counted[m] = w.counted[m]
  BY <1>4, <1>5, <1>6
<1>12. /\ DOMAIN x.counted \subseteq DOMAIN w.counted \cup DOMAIN st
       /\ \A m \in DOMAIN x.counted :
            \/ m \in DOMAIN st /\ x.counted[m] = st[m]
            \/ m \in DOMAIN w.counted /\ x.counted[m] = w.counted[m]
  BY <1>4, <1>5, <1>6
<1> QED  BY <1>7, <1>8, <1>9, <1>10, <1>11, <1>12

LEMMA CopyDoes ==
  ASSUME NEW w, Shape(w), NEW p \in Pages, NEW st, NEW x, x = Copy(w, p, st)
  PROVE  /\ Shape(x) /\ x.mail = w.mail /\ x.cache = w.cache /\ x.high = w.high
         /\ x.counted = w.counted /\ x.branch = w.branch /\ x.sel = w.sel /\ x.doubt = w.doubt
         /\ \A q \in Pages \ {p} : x.copy[q] = w.copy[q]
         /\ DOMAIN x.copy[p] = DOMAIN w.copy[p] \cup DOMAIN st
         /\ \A m \in DOMAIN st : x.copy[p][m] = [now |-> st[m], orig |-> st[m]]
         /\ \A m \in DOMAIN w.copy[p] \ DOMAIN st : x.copy[p][m] = w.copy[p][m]
<1> DEFINE of == [m \in DOMAIN st |-> [now |-> st[m], orig |-> st[m]]]
           c  == Put(w.copy, p, Over(of, w.copy[p]))
<1>1. x = [w EXCEPT !.copy = c]
  BY DEF Copy
<1>2. DOMAIN c = Pages /\ c[p] = Over(of, w.copy[p]) /\ \A q \in Pages \ {p} : c[q] = w.copy[q]
  BY DEF Put, Shape
<1>3. /\ DOMAIN c[p] = DOMAIN w.copy[p] \cup DOMAIN st
      /\ \A m \in DOMAIN st : c[p][m] = of[m]
      /\ \A m \in DOMAIN w.copy[p] \ DOMAIN st : c[p][m] = w.copy[p][m]
  BY <1>2 DEF Over
<1>4. \A m \in DOMAIN st : of[m] = [now |-> st[m], orig |-> st[m]]
  OBVIOUS
<1> HIDE DEF c, of
<1> QED  BY <1>1, <1>2, <1>3, <1>4 DEF Shape, Fields

LEMMA SetStatusDoes ==
  ASSUME NEW w, Shape(w), NEW p \in Pages, NEW m \in DOMAIN w.copy[p], NEW s,
         NEW x, x = set_status(w, p, m, s)
  PROVE  /\ Shape(x) /\ x.mail = w.mail /\ x.cache = w.cache /\ x.high = w.high
         /\ x.counted = w.counted /\ x.branch = w.branch /\ x.sel = w.sel /\ x.doubt = w.doubt
         /\ \A q \in Pages \ {p} : x.copy[q] = w.copy[q]
         /\ DOMAIN x.copy[p] = DOMAIN w.copy[p]
         /\ x.copy[p][m] = [now |-> s, orig |-> w.copy[p][m].orig]
         /\ \A n \in DOMAIN w.copy[p] \ {m} : x.copy[p][n] = w.copy[p][n]
<1> DEFINE of == [now |-> s, orig |-> w.copy[p][m].orig]
           c  == Put(w.copy, p, Put(w.copy[p], m, of))
<1>1. x = [w EXCEPT !.copy = c]
  BY DEF set_status
<1>2. DOMAIN c = Pages /\ c[p] = Put(w.copy[p], m, of) /\ \A q \in Pages \ {p} : c[q] = w.copy[q]
  BY DEF Put, Shape
<1>3. /\ DOMAIN c[p] = DOMAIN w.copy[p] /\ c[p][m] = of
      /\ \A n \in DOMAIN w.copy[p] \ {m} : c[p][n] = w.copy[p][n]
  BY <1>2 DEF Put
<1> HIDE DEF c
<1> QED  BY <1>1, <1>2, <1>3 DEF Shape, Fields

LEMMA SelectDoes ==
  ASSUME NEW w, Shape(w), NEW p \in Pages, NEW S, NEW x, x = Select(w, p, S)
  PROVE  /\ Shape(x) /\ x.mail = w.mail /\ x.cache = w.cache /\ x.high = w.high
         /\ x.counted = w.counted /\ x.branch = w.branch /\ x.copy = w.copy /\ x.doubt = w.doubt
         /\ x.sel[p] = S /\ \A q \in Pages \ {p} : x.sel[q] = w.sel[q]
<1>1. x = [w EXCEPT !.sel = Put(w.sel, p, S)]
  BY DEF Select
<1>2. /\ DOMAIN Put(w.sel, p, S) = Pages /\ Put(w.sel, p, S)[p] = S
      /\ \A q \in Pages \ {p} : Put(w.sel, p, S)[q] = w.sel[q]
  BY DEF Put, Shape
<1> QED  BY <1>1, <1>2 DEF Shape, Fields

LEMMA RemoveDoes ==
  ASSUME NEW w, Shape(w), NEW P, NEW S, NEW x, x = remove_msgs(w, P, S)
  PROVE  /\ Shape(x) /\ x.mail = w.mail /\ x.cache = w.cache /\ x.high = w.high
         /\ x.counted = w.counted /\ x.branch = w.branch /\ x.doubt = w.doubt
         /\ \A q \in Pages \ P : x.copy[q] = w.copy[q] /\ x.sel[q] = w.sel[q]
         /\ \A q \in Pages \cap P :
              /\ DOMAIN x.copy[q] = DOMAIN w.copy[q] \ S /\ x.sel[q] = w.sel[q] \ S
              /\ \A m \in DOMAIN x.copy[q] : x.copy[q][m] = w.copy[q][m]
<1> DEFINE c == [q \in Pages |-> IF q \in P THEN Without(w.copy[q], S) ELSE w.copy[q]]
           s == [q \in Pages |-> IF q \in P THEN w.sel[q] \ S ELSE w.sel[q]]
<1>1. x = [w EXCEPT !.copy = c, !.sel = s]
  BY DEF remove_msgs
<1>2. DOMAIN x = Fields /\ x.copy = c /\ x.sel = s /\ x.mail = w.mail /\ x.cache = w.cache
      /\ x.high = w.high /\ x.counted = w.counted /\ x.branch = w.branch /\ x.doubt = w.doubt
  BY <1>1 DEF Shape, Fields
<1>3. \A q \in Pages : /\ DOMAIN Without(w.copy[q], S) = DOMAIN w.copy[q] \ S
                       /\ \A m \in DOMAIN w.copy[q] \ S : Without(w.copy[q], S)[m] = w.copy[q][m]
  BY WithoutIs
<1> QED  BY <1>2, <1>3 DEF Shape

LEMMA MailDoes ==
  ASSUME NEW w, Shape(w), NEW f, NEW x, x = [w EXCEPT !.mail = f]
  PROVE  /\ Shape(x) /\ x.mail = f /\ x.cache = w.cache /\ x.high = w.high /\ x.counted = w.counted
         /\ x.branch = w.branch /\ x.copy = w.copy /\ x.sel = w.sel /\ x.doubt = w.doubt
BY DEF Shape, Fields

LEMMA DoubtDoes ==
  ASSUME NEW w, Shape(w), NEW S, NEW x, x = Doubt(w, S)
  PROVE  /\ Shape(x) /\ x.mail = w.mail /\ x.cache = w.cache /\ x.high = w.high
         /\ x.counted = w.counted /\ x.branch = w.branch /\ x.copy = w.copy /\ x.sel = w.sel
         /\ x.doubt = w.doubt \cup S
BY DEF Doubt, Shape, Fields

LEMMA DeletedDoes ==
  ASSUME NEW w, Shape(w), NEW S, NEW x, x = mail_deleted(w, S)
  PROVE  /\ Shape(x) /\ x.mail = w.mail /\ x.high = w.high /\ x.branch = w.branch
         /\ x.copy = w.copy /\ x.sel = w.sel /\ x.doubt = w.doubt
         /\ x.cache = Without(w.cache, S) /\ x.counted = Without(w.counted, S)
BY DEF mail_deleted, Shape, Fields

LEMMA TagMapDoes ==
  ASSUME NEW w, Shape(w), DOMAIN w.mail \subseteq Ids, NEW x, x = fetch_tag_map(w)
  PROVE  /\ Shape(x) /\ x.mail = w.mail /\ x.copy = w.copy /\ x.sel = w.sel /\ x.doubt = {}
         /\ x.cache = CurrentMail(w) /\ x.counted = CurrentMail(w)
         /\ x.branch = (DOMAIN CurrentMail(w) # {})
         /\ x.high \in {w.high} \cup DOMAIN CurrentMail(w) /\ w.high <= x.high
         /\ \A m \in DOMAIN CurrentMail(w) : m <= x.high
         /\ \A m : m \in DOMAIN CurrentMail(w) <=>
                     m \in DOMAIN w.mail /\ Current(w.mail[m]) /\ "sent" \notin w.mail[m]
         /\ \A m \in DOMAIN CurrentMail(w) : CurrentMail(w)[m] = w.mail[m]
<1> DEFINE c == CurrentMail(w)
           S == {w.high} \cup DOMAIN c
<1>1. /\ \A m : m \in DOMAIN c <=> m \in DOMAIN w.mail /\ Current(w.mail[m]) /\ "sent" \notin w.mail[m]
      /\ \A m \in DOMAIN c : c[m] = w.mail[m]
  BY DEF CurrentMail, Restrict
<1> HIDE DEF c
<1>2. S \subseteq 0..MaxId /\ S # {}
  BY <1>1, StatusAssumption DEF Shape, Ids
<1>3. Max(S) \in S /\ \A m \in S : m <= Max(S)
  BY <1>2, MaxIs
<1>4. x = [w EXCEPT !.cache = c, !.counted = c, !.branch = DOMAIN c # {}, !.high = Max(S), !.doubt = {}]
  BY DEF fetch_tag_map, c
<1>5. /\ DOMAIN x = Fields /\ x.cache = c /\ x.counted = c /\ x.branch = (DOMAIN c # {})
      /\ x.high = Max(S) /\ x.doubt = {} /\ x.mail = w.mail /\ x.copy = w.copy /\ x.sel = w.sel
  BY <1>4 DEF Shape, Fields
<1>6. Shape(x)
  BY <1>2, <1>3, <1>5 DEF Shape
<1> QED  BY <1>1, <1>3, <1>5, <1>6 DEF c

-----------------------------------------------------------------------------
(* Every operation keeps the types.                                        *)

(* x has what w lists, and the same messages.                              *)
Grown(w, x) ==
  /\ x.sel = w.sel /\ DOMAIN x.mail = DOMAIN w.mail
  /\ \A q \in Pages : DOMAIN w.copy[q] \subseteq DOMAIN x.copy[q]

LEMMA UpdateTyped ==
  ASSUME NEW B, NEW w, Typed(w, B), NEW st, IsMap(st, SUBSET B)
  PROVE  Typed(update(w, st), B) /\ Grown(w, update(w, st))
<1> DEFINE x == update(w, st)
<1>1. Shape(w) /\ DOMAIN st \subseteq Ids
  BY DEF Typed, IsMap
<1>2. /\ Shape(x) /\ x.mail = w.mail /\ x.counted = w.counted /\ x.branch = w.branch
      /\ x.copy = w.copy /\ x.sel = w.sel /\ x.doubt = w.doubt
      /\ x.cache = Over(st, w.cache)
      /\ w.high <= x.high /\ \A m \in DOMAIN st : m <= x.high
  BY <1>1, UpdateDoes
<1> HIDE DEF x
<1>3. IsMap(x.cache, SUBSET B) /\ DOMAIN x.cache = DOMAIN st \cup DOMAIN w.cache
  BY <1>2 DEF Typed, IsMap, Over
<1>4. \A m \in DOMAIN x.cache : m <= x.high
  <2>1. SUFFICES ASSUME NEW m \in DOMAIN x.cache PROVE m <= x.high
    OBVIOUS
  <2>2. m \in Int /\ w.high \in Int /\ x.high \in Int
    BY <1>2, <1>3, StatusAssumption DEF Typed, Shape, IsMap, Ids
  <2>3. CASE m \in DOMAIN st
    BY <1>2, <2>3
  <2>4. CASE m \in DOMAIN w.cache
    BY <1>2, <2>2, <2>4 DEF Typed
  <2> QED  BY <1>3, <2>3, <2>4
<1> QED  BY <1>2, <1>3, <1>4 DEF Typed, Grown, x

LEMMA ChangedTyped ==
  ASSUME NEW B, NEW w, Typed(w, B), NEW st, IsMap(st, SUBSET B)
  PROVE  Typed(mail_status_changed(w, st), B) /\ Grown(w, mail_status_changed(w, st))
<1> DEFINE x == mail_status_changed(w, st)
<1>1. Shape(w) /\ DOMAIN st \subseteq Ids
  BY DEF Typed, IsMap
<1>2. /\ Shape(x) /\ x.mail = w.mail /\ x.branch = w.branch
      /\ x.copy = w.copy /\ x.sel = w.sel /\ x.doubt = w.doubt
      /\ x.cache = Over(st, w.cache)
      /\ w.high <= x.high /\ \A m \in DOMAIN st : m <= x.high
  BY <1>1, ChangedDoes
<1>3. /\ DOMAIN x.counted \subseteq DOMAIN w.counted \cup DOMAIN st
      /\ \A m \in DOMAIN x.counted :
           \/ m \in DOMAIN st /\ x.counted[m] = st[m]
           \/ m \in DOMAIN w.counted /\ x.counted[m] = w.counted[m]
  BY <1>1, ChangedDoes
<1> HIDE DEF x
<1>4. IsMap(x.cache, SUBSET B) /\ DOMAIN x.cache = DOMAIN st \cup DOMAIN w.cache
  BY <1>2 DEF Typed, IsMap, Over
<1>5. IsMap(x.counted, SUBSET B)
  BY <1>3 DEF Typed, IsMap
<1>6. \A m \in DOMAIN x.cache : m <= x.high
  <2>1. SUFFICES ASSUME NEW m \in DOMAIN x.cache PROVE m <= x.high
    OBVIOUS
  <2>2. m \in Int /\ w.high \in Int /\ x.high \in Int
    BY <1>2, <1>4, StatusAssumption DEF Typed, Shape, IsMap, Ids
  <2>3. CASE m \in DOMAIN st
    BY <1>2, <2>3
  <2>4. CASE m \in DOMAIN w.cache
    BY <1>2, <2>2, <2>4 DEF Typed
  <2> QED  BY <1>4, <2>3, <2>4
<1> QED  BY <1>2, <1>4, <1>5, <1>6 DEF Typed, Grown, x

LEMMA CopyTyped ==
  ASSUME NEW B, NEW w, Typed(w, B), NEW p \in Pages, NEW st, IsMap(st, SUBSET B)
  PROVE  Typed(Copy(w, p, st), B) /\ Grown(w, Copy(w, p, st))
<1> DEFINE x == Copy(w, p, st)
<1>1. Shape(w)
  BY DEF Typed
<1>2. /\ Shape(x) /\ x.mail = w.mail /\ x.cache = w.cache /\ x.high = w.high
      /\ x.counted = w.counted /\ x.branch = w.branch /\ x.sel = w.sel /\ x.doubt = w.doubt
      /\ \A q \in Pages \ {p} : x.copy[q] = w.copy[q]
      /\ DOMAIN x.copy[p] = DOMAIN w.copy[p] \cup DOMAIN st
      /\ \A m \in DOMAIN st : x.copy[p][m] = [now |-> st[m], orig |-> st[m]]
      /\ \A m \in DOMAIN w.copy[p] \ DOMAIN st : x.copy[p][m] = w.copy[p][m]
  BY <1>1, CopyDoes
<1> HIDE DEF x
<1>3. IsMap(x.copy[p], Copies(B))
  <2>1. \A m \in DOMAIN st : [now |-> st[m], orig |-> st[m]] \in Copies(B)
    BY DEF IsMap, Copies
  <2>2. /\ DOMAIN st \subseteq Ids /\ DOMAIN w.copy[p] \subseteq Ids
        /\ \A m \in DOMAIN w.copy[p] : w.copy[p][m] \in Copies(B)
    BY DEF Typed, IsMap
  <2>3. \A m \in DOMAIN x.copy[p] : x.copy[p][m] \in Copies(B)
    BY <1>2, <2>1, <2>2
  <2> QED  BY <1>2, <2>2, <2>3 DEF IsMap
<1>4. \A q \in Pages : IsMap(x.copy[q], Copies(B)) /\ x.sel[q] \subseteq DOMAIN x.copy[q]
  BY <1>2, <1>3 DEF Typed
<1> QED  BY <1>2, <1>4 DEF Typed, Grown, x

LEMMA SetStatusTyped ==
  ASSUME NEW B, NEW w, Typed(w, B), NEW p \in Pages, NEW m \in DOMAIN w.copy[p],
         NEW s \in SUBSET B
  PROVE  Typed(set_status(w, p, m, s), B) /\ Grown(w, set_status(w, p, m, s))
<1> DEFINE x == set_status(w, p, m, s)
<1>1. Shape(w)
  BY DEF Typed
<1>2. /\ Shape(x) /\ x.mail = w.mail /\ x.cache = w.cache /\ x.high = w.high
      /\ x.counted = w.counted /\ x.branch = w.branch /\ x.sel = w.sel /\ x.doubt = w.doubt
      /\ \A q \in Pages \ {p} : x.copy[q] = w.copy[q]
      /\ DOMAIN x.copy[p] = DOMAIN w.copy[p]
      /\ x.copy[p][m] = [now |-> s, orig |-> w.copy[p][m].orig]
      /\ \A n \in DOMAIN w.copy[p] \ {m} : x.copy[p][n] = w.copy[p][n]
  BY <1>1, SetStatusDoes
<1> HIDE DEF x
<1>3. IsMap(x.copy[p], Copies(B))
  BY <1>2 DEF Typed, IsMap, Copies
<1>4. \A q \in Pages : IsMap(x.copy[q], Copies(B)) /\ x.sel[q] \subseteq DOMAIN x.copy[q]
  BY <1>2, <1>3 DEF Typed
<1> QED  BY <1>2, <1>4 DEF Typed, Grown, x

LEMMA SelectTyped ==
  ASSUME NEW B, NEW w, Typed(w, B), NEW p \in Pages, NEW S \in SUBSET DOMAIN w.copy[p]
  PROVE  Typed(Select(w, p, S), B)
BY SelectDoes DEF Typed

LEMMA RemoveTyped ==
  ASSUME NEW B, NEW w, Typed(w, B), NEW P, NEW S
  PROVE  Typed(remove_msgs(w, P, S), B)
<1> DEFINE x == remove_msgs(w, P, S)
<1>1. Shape(w)
  BY DEF Typed
<1>2. /\ Shape(x) /\ x.mail = w.mail /\ x.cache = w.cache /\ x.high = w.high
      /\ x.counted = w.counted /\ x.branch = w.branch /\ x.doubt = w.doubt
      /\ \A q \in Pages \ P : x.copy[q] = w.copy[q] /\ x.sel[q] = w.sel[q]
      /\ \A q \in Pages \cap P :
           /\ DOMAIN x.copy[q] = DOMAIN w.copy[q] \ S /\ x.sel[q] = w.sel[q] \ S
           /\ \A m \in DOMAIN x.copy[q] : x.copy[q][m] = w.copy[q][m]
  BY <1>1, RemoveDoes
<1> HIDE DEF x
<1>3. \A q \in Pages : IsMap(x.copy[q], Copies(B)) /\ x.sel[q] \subseteq DOMAIN x.copy[q]
  BY <1>2 DEF Typed, IsMap
<1> QED  BY <1>2, <1>3 DEF Typed, x

LEMMA MailTyped ==
  ASSUME NEW B, NEW w, Typed(w, B), NEW f, IsMap(f, SUBSET B)
  PROVE  Typed([w EXCEPT !.mail = f], B)
BY MailDoes DEF Typed

LEMMA DoubtTyped ==
  ASSUME NEW B, NEW w, Typed(w, B), NEW S \in SUBSET Ids
  PROVE  Typed(Doubt(w, S), B) /\ Grown(w, Doubt(w, S))
BY DoubtDoes DEF Typed, Grown

LEMMA DeletedTyped ==
  ASSUME NEW B, NEW w, Typed(w, B), NEW S
  PROVE  Typed(mail_deleted(w, S), B)
<1> DEFINE x == mail_deleted(w, S)
<1>1. /\ Shape(x) /\ x.mail = w.mail /\ x.high = w.high /\ x.branch = w.branch
      /\ x.copy = w.copy /\ x.sel = w.sel /\ x.doubt = w.doubt
      /\ x.cache = Without(w.cache, S) /\ x.counted = Without(w.counted, S)
  BY DeletedDoes DEF Typed
<1> HIDE DEF x
<1>2. /\ IsMap(x.cache, SUBSET B) /\ IsMap(x.counted, SUBSET B)
      /\ DOMAIN x.cache \subseteq DOMAIN w.cache
  BY <1>1 DEF Typed, IsMap, Without, Restrict
<1> QED  BY <1>1, <1>2 DEF Typed, x

LEMMA TagMapTyped ==
  ASSUME NEW B, NEW w, Typed(w, B)
  PROVE  Typed(fetch_tag_map(w), B)
<1> DEFINE x == fetch_tag_map(w)
           c == CurrentMail(w)
<1>1. Shape(w) /\ DOMAIN w.mail \subseteq Ids
  BY DEF Typed, IsMap
<1>2. /\ Shape(x) /\ x.mail = w.mail /\ x.copy = w.copy /\ x.sel = w.sel /\ x.doubt = {}
      /\ x.cache = c /\ x.counted = c /\ x.branch \in BOOLEAN
      /\ \A m \in DOMAIN c : m <= x.high
      /\ \A m \in DOMAIN c : m \in DOMAIN w.mail /\ c[m] = w.mail[m]
  BY <1>1, TagMapDoes
<1> HIDE DEF x, c
<1>3. IsMap(c, SUBSET B)
  BY <1>2 DEF Typed, IsMap
<1> QED  BY <1>2, <1>3 DEF Typed, x

-----------------------------------------------------------------------------
(* The same of what they are put together to do, whatever may fail.        *)

LEMMA JustTyped ==
  ASSUME NEW m \in Ids, NEW T, NEW s \in T
  PROVE  IsMap(Just(m, s), T)
BY DEF Just, IsMap

LEMMA CopyFields ==
  ASSUME NEW B, NEW w, Typed(w, B), NEW p \in Pages, NEW m \in DOMAIN w.copy[p]
  PROVE  /\ m \in Ids /\ w.copy[p][m].now \in SUBSET B /\ w.copy[p][m].orig \in SUBSET B
BY DEF Typed, IsMap, Copies

LEMMA ToldTyped ==
  ASSUME NEW B, NEW w, Typed(w, B), NEW st, IsMap(st, SUBSET B)
  PROVE  Typed(propagate_status(w, st), B) /\ Grown(w, propagate_status(w, st))
BY ChangedTyped DEF propagate_status

LEMMA RefreshTyped ==
  ASSUME NEW B, NEW w, Typed(w, B), NEW p \in Pages, NEW m \in DOMAIN w.copy[p]
  PROVE  Typed(refresh(w, p, m), B) /\ Grown(w, refresh(w, p, m))
<1>1. CASE m \notin DOMAIN w.mail
  BY <1>1 DEF refresh, Grown
<1>2. CASE m \in DOMAIN w.mail
  <2> DEFINE st == Just(m, w.mail[m])
             c  == Copy(w, p, st)
             x  == update(c, st)
  <2>1. refresh(w, p, m) = x
    BY <1>2 DEF refresh
  <2>2. IsMap(st, SUBSET B)
    BY <1>2, JustTyped DEF Typed, IsMap
  <2>3. Typed(c, B) /\ Shape(w) /\ Shape(c) /\ DOMAIN st \subseteq Ids
    BY <2>2, CopyTyped DEF Typed, IsMap
  <2> HIDE DEF st
  <2>4. /\ c.sel = w.sel /\ c.mail = w.mail /\ DOMAIN c.copy[p] = DOMAIN w.copy[p] \cup DOMAIN st
        /\ \A q \in Pages \ {p} : c.copy[q] = w.copy[q]
    BY <2>3, CopyDoes
  <2> HIDE DEF c
  <2>5. Typed(x, B) /\ x.sel = c.sel /\ x.mail = c.mail /\ x.copy = c.copy
    BY <2>2, <2>3, UpdateTyped, UpdateDoes
  <2> HIDE DEF x
  <2> QED  BY <2>1, <2>4, <2>5 DEF Grown
<1> QED  BY <1>1, <1>2

LEMMA WrittenTyped ==
  ASSUME NEW B, NEW w, Typed(w, B), NEW p \in Pages, NEW m \in DOMAIN w.copy[p]
  PROVE  Typed(Written(w, p, m), B) /\ Grown(w, Written(w, p, m))
<1> DEFINE s  == w.copy[p][m].now
           st == Just(m, s)
           c  == Copy(w, p, st)
           v  == update(c, st)
           x  == [v EXCEPT !.mail = Put(@, m, s)]
<1>1. CASE w.copy[p][m].orig = s
  <2>1. Written(w, p, m) = w
    BY <1>1 DEF Written
  <2> QED  BY <2>1 DEF Grown
<1>2. CASE w.copy[p][m].orig # s
  <2>1. Written(w, p, m) = IF m \in DOMAIN w.mail THEN x ELSE v
    BY <1>2 DEF Written
  <2>2. IsMap(st, SUBSET B) /\ m \in Ids /\ s \in SUBSET B
    BY CopyFields, JustTyped
  <2>3. Typed(c, B) /\ Shape(w) /\ Shape(c) /\ DOMAIN st \subseteq Ids
    BY <2>2, CopyTyped DEF Typed, IsMap
  <2> HIDE DEF st, s
  <2>4. /\ c.sel = w.sel /\ c.mail = w.mail /\ DOMAIN c.copy[p] = DOMAIN w.copy[p] \cup DOMAIN st
        /\ \A q \in Pages \ {p} : c.copy[q] = w.copy[q]
    BY <2>3, CopyDoes
  <2> HIDE DEF c
  <2>5. Typed(v, B) /\ v.sel = c.sel /\ v.mail = c.mail /\ v.copy = c.copy
    BY <2>2, <2>3, UpdateTyped, UpdateDoes
  <2> HIDE DEF v
  <2>6. Grown(w, v)
    BY <2>4, <2>5 DEF Grown
  <2>7. ASSUME m \in DOMAIN w.mail PROVE Typed(x, B) /\ Grown(w, x)
    <3> DEFINE f == Put(v.mail, m, s)
    <3>1. x = [v EXCEPT !.mail = f]
      OBVIOUS
    <3>2. IsMap(f, SUBSET B) /\ DOMAIN f = DOMAIN w.mail
      BY <2>2, <2>4, <2>5, <2>7 DEF Put, Typed, IsMap
    <3> HIDE DEF f, x
    <3>3. x.mail = f /\ x.sel = v.sel /\ x.copy = v.copy
      BY <2>5, <3>1, MailDoes DEF Typed
    <3>4. Typed(x, B)
      BY <2>5, <3>1, <3>2, MailTyped
    <3> QED  BY <2>5, <2>6, <3>2, <3>3, <3>4 DEF Grown
  <2> QED  BY <2>1, <2>5, <2>6, <2>7
<1> QED  BY <1>1, <1>2

LEMMA OnlyIs ==
  ASSUME NEW S, S \subseteq Ids, Cardinality(S) = 1
  PROVE  Only(S) \in S /\ S = {Only(S)}
<1>1. IsFiniteSet(S)
  <2>1. IsFiniteSet(Ids)
    BY StatusAssumption, FS_Interval DEF Ids
  <2> QED  BY <2>1, FS_Subset
<1>2. \E m : S = {m}
  BY <1>1, FS_Singleton
<1> QED  BY <1>2 DEF Only

LEMMA SelectedTyped ==
  ASSUME NEW B, "read" \in B, NEW w, Typed(w, B), NEW p \in Pages, NEW m \in DOMAIN w.copy[p],
         NEW x \in mail_selected(w, p, m)
  PROVE  Typed(x, B) /\ Grown(w, x)
<1> DEFINE Read(v)  == set_status(v, p, m, v.copy[p][m].now \cup {"read"})
           Shown(v) == propagate_status(v, Just(m, v.copy[p][m].now))
<1>1. PICK v \in {refresh(w, p, m), Doubt(w, {m})} :
        \/ x = Written(v, p, m) \/ x = v
        \/ x = Shown(Written(Read(v), p, m)) \/ x = Doubt(Shown(Read(v)), {m})
  BY DEF mail_selected
<1>2. Typed(v, B) /\ Grown(w, v)
  <2>1. CASE v = refresh(w, p, m)
    BY <2>1, RefreshTyped
  <2>2. CASE v = Doubt(w, {m})
    <3>1. m \in Ids /\ Shape(w)
      BY CopyFields DEF Typed
    <3> QED  BY <2>2, <3>1, DoubtTyped, DoubtDoes DEF Grown
  <2> QED  BY <1>1, <2>1, <2>2
<1>3. \A u : Typed(u, B) /\ Grown(w, u) =>
        m \in Ids /\ m \in DOMAIN u.copy[p] /\ u.copy[p][m].now \in SUBSET B
  BY CopyFields DEF Grown
<1>4. \A u : Typed(u, B) /\ Grown(w, u) => Typed(Written(u, p, m), B) /\ Grown(w, Written(u, p, m))
  BY <1>3, WrittenTyped DEF Grown
<1>5. \A u : Typed(u, B) /\ Grown(w, u) => Typed(Read(u), B) /\ Grown(w, Read(u))
  <2>1. SUFFICES ASSUME NEW u, Typed(u, B), Grown(w, u) PROVE Typed(Read(u), B) /\ Grown(w, Read(u))
    OBVIOUS
  <2> DEFINE s == u.copy[p][m].now \cup {"read"}
  <2>2. m \in DOMAIN u.copy[p] /\ s \in SUBSET B
    BY <1>3, <2>1
  <2> HIDE DEF s
  <2>3. Shape(u)
    BY <2>1 DEF Typed
  <2>4. Typed(set_status(u, p, m, s), B) /\ Grown(u, set_status(u, p, m, s))
    BY <2>1, <2>2, <2>3, SetStatusTyped
  <2> QED  BY <2>1, <2>4 DEF Grown, s
<1>6. \A u : Typed(u, B) /\ Grown(w, u) => Typed(Shown(u), B) /\ Grown(w, Shown(u))
  <2>1. SUFFICES ASSUME NEW u, Typed(u, B), Grown(w, u) PROVE Typed(Shown(u), B) /\ Grown(w, Shown(u))
    OBVIOUS
  <2> DEFINE st == Just(m, u.copy[p][m].now)
  <2>2. IsMap(st, SUBSET B)
    BY <1>3, <2>1, JustTyped
  <2> HIDE DEF st
  <2>3. Typed(propagate_status(u, st), B) /\ Grown(u, propagate_status(u, st))
    BY <2>1, <2>2, ToldTyped
  <2> QED  BY <2>1, <2>3 DEF st, Grown
<1> HIDE DEF Read, Shown
<1>7. CASE x = Written(v, p, m) \/ x = v
  BY <1>2, <1>4, <1>7
<1>8. CASE x = Shown(Written(Read(v), p, m))
  BY <1>2, <1>4, <1>5, <1>6, <1>8
<1>9. CASE x = Doubt(Shown(Read(v)), {m})
  <2>1. Typed(Shown(Read(v)), B) /\ Grown(w, Shown(Read(v)))
    BY <1>2, <1>5, <1>6
  <2>2. m \in Ids
    BY <1>2, <1>3
  <2>3. Shape(Shown(Read(v)))
    BY <2>1 DEF Typed
  <2> QED  BY <1>9, <2>1, <2>2, <2>3, DoubtTyped, DoubtDoes DEF Grown
<1> QED  BY <1>1, <1>7, <1>8, <1>9

LEMMA AllSelectedTyped ==
  ASSUME NEW B, "read" \in B, NEW w, Typed(w, B), NEW p \in Pages, NEW x \in mails_selected(w, p)
  PROVE  Typed(x, B) /\ Grown(w, x)
<1>1. w.sel[p] \subseteq DOMAIN w.copy[p] /\ w.sel[p] \subseteq Ids
  BY DEF Typed, IsMap
<1>2. CASE Cardinality(w.sel[p]) = 1
  <2>1. Only(w.sel[p]) \in DOMAIN w.copy[p]
    BY <1>1, <1>2, OnlyIs
  <2> QED  BY <1>2, <2>1, SelectedTyped DEF mails_selected
<1>3. CASE Cardinality(w.sel[p]) # 1
  BY <1>3 DEF mails_selected, Grown
<1> QED  BY <1>2, <1>3

LEMMA RemovalTyped ==
  ASSUME NEW B, "read" \in B, NEW w, Typed(w, B), NEW p \in Pages, NEW x \in AfterRemoval(w, p)
  PROVE  Typed(x, B) /\ DOMAIN x.mail = DOMAIN w.mail
<1>1. PICK S \in {w.sel[p]} \cup {{n} : n \in DOMAIN w.copy[p]} : x \in mails_selected(Select(w, p, S), p)
  BY DEF AfterRemoval
<1>2. S \in SUBSET DOMAIN w.copy[p] /\ Shape(w)
  BY DEF Typed
<1>3. Typed(Select(w, p, S), B)
  BY <1>2, SelectTyped
<1>4. Select(w, p, S).mail = w.mail
  BY <1>2, SelectDoes
<1> QED  BY <1>1, <1>3, <1>4, AllSelectedTyped DEF Grown

-----------------------------------------------------------------------------
(* Every step keeps the types.                                             *)

Set(B) == {"read", "archived", "trashed"} \subseteq B

(* The world after a step that leaves the rest alone.                      *)
WorldTyped(B) == Typed(world', B) /\ DOMAIN world'.mail \subseteq DOMAIN world.mail

LEMMA PageOf ==
  ASSUME NEW B, TypeInv(B), NEW v \in Windows
  PROVE  /\ cur[v] \in Pages /\ Shape(world) /\ Typed(world, B)
         /\ world.sel[cur[v]] \subseteq DOMAIN world.copy[cur[v]]
         /\ DOMAIN world.copy[cur[v]] \subseteq Ids
BY DEF TypeInv, Typed, IsMap

LEMMA SelectStep ==
  ASSUME NEW B, Set(B), TypeInv(B), NEW v \in Windows, select(v)
  PROVE  WorldTyped(B)
<1>1. PICK S \in SUBSET DOMAIN world.copy[cur[v]] :
        world' \in mails_selected(Select(world, cur[v], S), cur[v])
  BY DEF select
<1>2. Typed(Select(world, cur[v], S), B) /\ Select(world, cur[v], S).mail = world.mail
  BY PageOf, SelectTyped, SelectDoes
<1>3. "read" \in B
  BY DEF Set
<1> QED  BY <1>1, <1>2, <1>3, PageOf, AllSelectedTyped DEF WorldTyped, Grown

LEMMA PageStep ==
  ASSUME NEW B, Set(B), TypeInv(B), NEW v \in Windows, change_page(v)
  PROVE  WorldTyped(B)
BY AllSelectedTyped DEF change_page, TypeInv, Set, WorldTyped, Grown

LEMMA ArchiveStep ==
  ASSUME NEW B, Set(B), TypeInv(B), NEW v \in Windows, archive(v)
  PROVE  WorldTyped(B)
<1> DEFINE p == cur[v]
           m == Only(world.sel[p])
           s == world.copy[p][m].now \cup {"archived", "read"}
           w == set_status(world, p, m, s)
<1>1. /\ Cardinality(world.sel[p]) = 1
      /\ \/ \E x : /\ \/ x = Written(w, p, m)
                      \/ \E n \in DOMAIN world.copy[p] : x \in mails_selected(Select(Written(w, p, m), p, {n}), p)
                   /\ world' = propagate_status(x, Just(m, s))
         \/ world' = w
  BY DEF archive
<1>2. p \in Pages /\ Typed(world, B) /\ Shape(world) /\ m \in DOMAIN world.copy[p] /\ m \in Ids
  BY <1>1, PageOf, OnlyIs
<1> HIDE DEF p, m
<1>3. s \in SUBSET B /\ "read" \in B
  BY <1>2, CopyFields DEF Set
<1> HIDE DEF s
<1>4. Typed(w, B) /\ Grown(world, w)
  BY <1>2, <1>3, SetStatusTyped
<1> HIDE DEF w
<1>5. m \in DOMAIN w.copy[p]
  BY <1>2, <1>4 DEF Grown
<1>6. Typed(Written(w, p, m), B) /\ Grown(world, Written(w, p, m))
  BY <1>2, <1>4, <1>5, WrittenTyped DEF Grown
<1>7. ASSUME NEW n \in DOMAIN world.copy[p], NEW x \in mails_selected(Select(Written(w, p, m), p, {n}), p)
      PROVE  Typed(x, B) /\ DOMAIN x.mail = DOMAIN world.mail
  <2> DEFINE u == Written(w, p, m)
  <2>1. {n} \in SUBSET DOMAIN u.copy[p] /\ Shape(u)
    BY <1>2, <1>6, <1>7 DEF Grown, Typed
  <2> HIDE DEF u
  <2>2. Typed(Select(u, p, {n}), B) /\ Select(u, p, {n}).mail = u.mail
    BY <1>2, <1>6, <2>1, SelectTyped, SelectDoes DEF u
  <2> QED  BY <1>2, <1>3, <1>6, <1>7, <2>2, AllSelectedTyped DEF Grown, u
<1>8. ASSUME NEW x, Typed(x, B), DOMAIN x.mail = DOMAIN world.mail, world' = propagate_status(x, Just(m, s))
      PROVE  WorldTyped(B)
  <2>1. IsMap(Just(m, s), SUBSET B)
    BY <1>2, <1>3, JustTyped
  <2> QED  BY <1>8, <2>1, ToldTyped DEF WorldTyped, Grown
<1> QED  BY <1>1, <1>4, <1>6, <1>7, <1>8 DEF WorldTyped, Grown

(* What a page shows of what it lists are statuses.                        *)
LEMMA ListedTyped ==
  ASSUME NEW B, NEW w, Typed(w, B), NEW p \in Pages, NEW S \in SUBSET DOMAIN w.copy[p]
  PROVE  IsMap(Listed(w, p, S), SUBSET B) /\ DOMAIN Listed(w, p, S) = S
<1>1. \A m \in S : m \in Ids /\ w.copy[p][m].now \in SUBSET B
  BY CopyFields
<1> QED  BY <1>1 DEF Listed, IsMap

LEMMA AddTyped ==
  ASSUME NEW B, NEW f, IsMap(f, SUBSET B), NEW S, NEW b \in SUBSET B
  PROVE  /\ IsMap(Add(f, S, b), SUBSET B) /\ DOMAIN Add(f, S, b) = DOMAIN f
         /\ IsMap(Clear(f, S, b), SUBSET B) /\ DOMAIN Clear(f, S, b) = DOMAIN f
BY DEF Add, Clear, IsMap

LEMMA ArchiveMultiStep ==
  ASSUME NEW B, Set(B), TypeInv(B), NEW v \in Windows, archive_multi(v)
  PROVE  WorldTyped(B)
<1> DEFINE p  == cur[v]
           S  == world.sel[p]
           b  == {"archived", "read"}
           l  == Listed(world, p, S)
           st == Add(l, S, b)
           f  == Add(world.mail, S, b)
           w  == [world EXCEPT !.mail = f]
<1>1. \/ world' = propagate_status(Copy(w, p, st), st)
      \/ world' = Doubt(propagate_status(world, l), S)
  BY DEF archive_multi
<1>2. p \in Pages /\ Typed(world, B) /\ Shape(world) /\ S \in SUBSET DOMAIN world.copy[p] /\ S \in SUBSET Ids
  BY PageOf
<1>3. b \in SUBSET B
  BY DEF Set
<1> HIDE DEF p, S, b
<1>4. IsMap(l, SUBSET B) /\ IsMap(world.mail, SUBSET B)
  BY <1>2, ListedTyped DEF Typed
<1> HIDE DEF l
<1>5. IsMap(st, SUBSET B) /\ IsMap(f, SUBSET B) /\ DOMAIN f = DOMAIN world.mail
  <2>1. IsMap(st, SUBSET B)
    BY <1>3, <1>4, AddTyped
  <2>2. IsMap(f, SUBSET B) /\ DOMAIN f = DOMAIN world.mail
    BY <1>3, <1>4, AddTyped
  <2> QED  BY <2>1, <2>2
<1> HIDE DEF st, f
<1>6. Typed(w, B) /\ w.mail = f
  BY <1>2, <1>5, MailTyped, MailDoes
<1> HIDE DEF w
<1>7. Typed(Copy(w, p, st), B) /\ Grown(w, Copy(w, p, st))
  BY <1>2, <1>5, <1>6, CopyTyped
<1>8. CASE world' = propagate_status(Copy(w, p, st), st)
  <2> DEFINE u == Copy(w, p, st)
  <2>1. Typed(u, B) /\ DOMAIN u.mail = DOMAIN world.mail
    BY <1>5, <1>6, <1>7 DEF Grown
  <2> HIDE DEF u
  <2>2. Typed(propagate_status(u, st), B) /\ Grown(u, propagate_status(u, st))
    BY <1>5, <2>1, ToldTyped
  <2> QED  BY <1>8, <2>1, <2>2 DEF WorldTyped, Grown, u
<1>9. CASE world' = Doubt(propagate_status(world, l), S)
  <2> DEFINE u == propagate_status(world, l)
  <2>1. Typed(u, B) /\ Grown(world, u)
    BY <1>2, <1>4, ToldTyped
  <2> HIDE DEF u
  <2>2. Typed(Doubt(u, S), B) /\ Grown(u, Doubt(u, S))
    BY <1>2, <2>1, DoubtTyped
  <2> QED  BY <1>9, <2>1, <2>2 DEF WorldTyped, Grown, u
<1> QED  BY <1>1, <1>8, <1>9

(* What is told of messages that leave a page's list.                      *)
LEMMA OffTyped ==
  ASSUME NEW B, NEW w, Typed(w, B), NEW st, IsMap(st, SUBSET B), NEW P, NEW S
  PROVE  /\ Typed(remove_msgs(propagate_status(w, st), P, S), B)
         /\ DOMAIN remove_msgs(propagate_status(w, st), P, S).mail = DOMAIN w.mail
<1> DEFINE u == propagate_status(w, st)
           x == remove_msgs(u, P, S)
<1>1. Typed(u, B) /\ Grown(w, u)
  BY ToldTyped
<1> HIDE DEF u
<1>2. Typed(x, B) /\ Shape(u)
  BY <1>1, RemoveTyped DEF Typed
<1>3. x.mail = u.mail
  BY <1>2, RemoveDoes
<1> QED  BY <1>1, <1>2, <1>3 DEF u, Grown

LEMMA TrashStep ==
  ASSUME NEW B, Set(B), TypeInv(B), NEW v \in Windows, msg_trash(v)
  PROVE  WorldTyped(B)
<1> DEFINE p == cur[v]
           S == world.sel[p]
           b == {"trashed"}
           f(T) == Add(world.mail, T, b)
           Bit(T) == [world EXCEPT !.mail = f(T)]
           Said(T) == [m \in T |-> IF m \in DOMAIN world.mail THEN Bit(T).mail[m] ELSE {}]
           Off(w, st) == remove_msgs(propagate_status(w, st), {p}, DOMAIN st)
           l == Listed(world, p, S)
<1>1. \/ \E T \in SUBSET S : world' \in AfterRemoval(Off(Bit(T), Said(T)), p)
      \/ world' \in AfterRemoval(Off(Bit(S), Add(l, S, b)), p)
      \/ world' \in AfterRemoval(Doubt(Off(world, l), S), p)
  BY DEF msg_trash
<1>2. p \in Pages /\ Typed(world, B) /\ Shape(world) /\ S \in SUBSET DOMAIN world.copy[p] /\ S \in SUBSET Ids
  BY PageOf
<1>3. b \in SUBSET B /\ "read" \in B
  BY DEF Set
<1> HIDE DEF p, S, b
<1>4. IsMap(l, SUBSET B) /\ IsMap(world.mail, SUBSET B)
  BY <1>2, ListedTyped DEF Typed
<1> HIDE DEF l
<1>5. \A T : IsMap(f(T), SUBSET B) /\ DOMAIN f(T) = DOMAIN world.mail
  BY <1>3, <1>4, AddTyped
<1>6. IsMap(Add(l, S, b), SUBSET B)
  BY <1>3, <1>4, AddTyped
<1> HIDE DEF f
<1>7. \A T : Typed(Bit(T), B) /\ Bit(T).mail = f(T)
  BY <1>2, <1>5, MailTyped, MailDoes
<1> HIDE DEF Bit
<1>8. \A T \in SUBSET S : IsMap(Said(T), SUBSET B)
  BY <1>2, <1>5, <1>7 DEF IsMap
<1> HIDE DEF Said
<1>9. \A w, st : Typed(w, B) /\ IsMap(st, SUBSET B) =>
        Typed(Off(w, st), B) /\ DOMAIN Off(w, st).mail = DOMAIN w.mail
  BY OffTyped
<1> HIDE DEF Off
<1>10. ASSUME NEW w, Typed(w, B), DOMAIN w.mail = DOMAIN world.mail, world' \in AfterRemoval(w, p)
       PROVE  WorldTyped(B)
  BY <1>2, <1>3, <1>10, RemovalTyped DEF WorldTyped
<1>11. CASE \E T \in SUBSET S : world' \in AfterRemoval(Off(Bit(T), Said(T)), p)
  BY <1>5, <1>7, <1>8, <1>9, <1>10, <1>11
<1>12. CASE world' \in AfterRemoval(Off(Bit(S), Add(l, S, b)), p)
  BY <1>5, <1>6, <1>7, <1>9, <1>10, <1>12
<1>13. CASE world' \in AfterRemoval(Doubt(Off(world, l), S), p)
  <2>1. Typed(Off(world, l), B) /\ DOMAIN Off(world, l).mail = DOMAIN world.mail
    BY <1>2, <1>4, <1>9
  <2>2. Typed(Doubt(Off(world, l), S), B) /\ Grown(Off(world, l), Doubt(Off(world, l), S))
    BY <1>2, <2>1, DoubtTyped
  <2> QED  BY <1>10, <1>13, <2>1, <2>2 DEF Grown
<1> QED  BY <1>1, <1>11, <1>12, <1>13

LEMMA DeleteStep ==
  ASSUME NEW B, Set(B), TypeInv(B), NEW v \in Windows, msg_delete(v)
  PROVE  WorldTyped(B)
<1> DEFINE p == cur[v]
           S == world.sel[p]
           w(T) == [world EXCEPT !.mail = Without(world.mail, T)]
           d(T) == mail_deleted(w(T), T)
           e(T) == remove_msgs(d(T), Pages \ {p}, T)
           Off(T) == remove_msgs(e(T), {p}, T)
<1>1. PICK T \in SUBSET S : world' \in AfterRemoval(Off(T), p)
  BY DEF msg_delete, propagate_deleted
<1>2. p \in Pages /\ Typed(world, B) /\ Shape(world)
  BY PageOf
<1> HIDE DEF p, S
<1>3. IsMap(Without(world.mail, T), SUBSET B) /\ DOMAIN Without(world.mail, T) \subseteq DOMAIN world.mail
  BY <1>2 DEF Typed, IsMap, Without, Restrict
<1>4. Typed(w(T), B) /\ w(T).mail = Without(world.mail, T)
  BY <1>2, <1>3, MailTyped, MailDoes
<1> HIDE DEF w
<1>5. Typed(d(T), B) /\ d(T).mail = w(T).mail
  <2>1. Shape(w(T))
    BY <1>4 DEF Typed
  <2> QED  BY <1>4, <2>1, DeletedTyped, DeletedDoes
<1> HIDE DEF d
<1>6. Typed(e(T), B) /\ e(T).mail = d(T).mail
  <2>1. Shape(d(T))
    BY <1>5 DEF Typed
  <2> QED  BY <1>5, <2>1, RemoveTyped, RemoveDoes
<1> HIDE DEF e
<1>7. Typed(Off(T), B) /\ Off(T).mail = e(T).mail
  <2>1. Shape(e(T))
    BY <1>6 DEF Typed
  <2> QED  BY <1>6, <2>1, RemoveTyped, RemoveDoes
<1> HIDE DEF Off
<1>8. "read" \in B
  BY DEF Set
<1>9. Typed(world', B) /\ DOMAIN world'.mail = DOMAIN Off(T).mail
  BY <1>1, <1>2, <1>7, <1>8, RemovalTyped
<1> QED  BY <1>3, <1>4, <1>5, <1>6, <1>7, <1>9 DEF WorldTyped

LEMMA UntrashStep ==
  ASSUME NEW B, Set(B), TypeInv(B), NEW v \in Windows, msg_untrash(v)
  PROVE  WorldTyped(B)
<1> DEFINE p == cur[v]
           S == {m \in world.sel[p] : "trashed" \in world.copy[p][m].now}
           b == {"trashed"}
           f(T) == Clear(world.mail, T, b)
           Bit(T) == [world EXCEPT !.mail = f(T)]
           Said(T) == [m \in T |-> IF m \in DOMAIN world.mail THEN Bit(T).mail[m] ELSE {}]
           Shown(w, T) == propagate_status(Copy(w, p, Said(T)), Said(T))
<1>1. \/ world' = Shown(Bit(S), S)
      \/ \E T \in SUBSET S : world' = Doubt(Shown(world, T), T)
  BY DEF msg_untrash
<1>2. p \in Pages /\ Typed(world, B) /\ Shape(world) /\ S \in SUBSET Ids
  BY PageOf
<1>3. b \in SUBSET B
  BY DEF Set
<1> HIDE DEF p, S, b
<1>4. IsMap(world.mail, SUBSET B)
  BY <1>2 DEF Typed
<1>5. \A T : IsMap(f(T), SUBSET B) /\ DOMAIN f(T) = DOMAIN world.mail
  BY <1>4 DEF Clear, IsMap
<1> HIDE DEF f
<1>6. \A T : Typed(Bit(T), B) /\ Bit(T).mail = f(T)
  BY <1>2, <1>5, MailTyped, MailDoes
<1> HIDE DEF Bit
<1>7. \A T \in SUBSET S : IsMap(Said(T), SUBSET B)
  BY <1>2, <1>5, <1>6 DEF IsMap
<1> HIDE DEF Said
<1>8. ASSUME NEW w, Typed(w, B), NEW T \in SUBSET S
      PROVE  Typed(Shown(w, T), B) /\ DOMAIN Shown(w, T).mail = DOMAIN w.mail
  <2> DEFINE c == Copy(w, p, Said(T))
             u == propagate_status(c, Said(T))
  <2>1. Typed(c, B) /\ Grown(w, c)
    BY <1>2, <1>7, <1>8, CopyTyped
  <2> HIDE DEF c
  <2>2. Typed(u, B) /\ Grown(c, u)
    BY <1>7, <1>8, <2>1, ToldTyped
  <2> HIDE DEF u
  <2>3. Typed(u, B) /\ DOMAIN u.mail = DOMAIN w.mail
    BY <2>1, <2>2 DEF Grown
  <2> QED  BY <2>3 DEF u, c
<1> HIDE DEF Shown
<1>9. CASE world' = Shown(Bit(S), S)
  BY <1>5, <1>6, <1>8, <1>9 DEF WorldTyped
<1>10. CASE \E T \in SUBSET S : world' = Doubt(Shown(world, T), T)
  <2>1. PICK T \in SUBSET S : world' = Doubt(Shown(world, T), T)
    BY <1>10
  <2>2. Typed(Shown(world, T), B) /\ DOMAIN Shown(world, T).mail = DOMAIN world.mail
    BY <1>2, <1>8
  <2>3. Typed(Doubt(Shown(world, T), T), B) /\ Grown(Shown(world, T), Doubt(Shown(world, T), T))
    BY <1>2, <2>2, DoubtTyped
  <2> QED  BY <2>1, <2>2, <2>3 DEF WorldTyped, Grown
<1> QED  BY <1>1, <1>9, <1>10

LEMMA RefreshStep ==
  ASSUME NEW B, TypeInv(B), refresh_quick_selection
  PROVE  WorldTyped(B)
<1>1. Typed(world, B) /\ Shape(world) /\ DOMAIN world.mail \subseteq Ids
  BY DEF TypeInv, Typed, IsMap
<1>2. CASE world' = fetch_tag_map(world)
  BY <1>1, <1>2, TagMapTyped, TagMapDoes DEF WorldTyped
<1>3. CASE world' = [world EXCEPT !.cache = << >>, !.counted = << >>, !.branch = FALSE, !.doubt = Ids]
  <2>1. /\ DOMAIN world' = Fields /\ world'.cache = << >> /\ world'.counted = << >>
        /\ world'.branch = FALSE /\ world'.doubt = Ids /\ world'.mail = world.mail
        /\ world'.copy = world.copy /\ world'.sel = world.sel /\ world'.high = world.high
    BY <1>1, <1>3 DEF Shape, Fields
  <2>2. DOMAIN world'.cache = {} /\ DOMAIN world'.counted = {}
    BY <2>1
  <2> HIDE <1>3
  <2>3. Shape(world') /\ IsMap(world'.cache, SUBSET B) /\ IsMap(world'.counted, SUBSET B)
    BY <1>1, <2>1, <2>2 DEF Shape, IsMap
  <2> QED  BY <1>1, <2>1, <2>2, <2>3 DEF Typed, WorldTyped
<1> QED  BY <1>2, <1>3 DEF refresh_quick_selection

LEMMA ResultsStep ==
  ASSUME NEW B, TypeInv(B), NEW v \in Windows, results(v)
  PROVE  /\ WorldTyped(B) /\ cur' \in [Windows -> Pages] /\ \A x \in Windows : Window[cur'[x]] = x
         /\ DOMAIN fetching' = Windows /\ \A x \in Windows : IsMap(fetching'[x].rows, SUBSET B)
<1> DEFINE rows == fetching[v].rows
           w == update(world, rows)
           N == {m \in DOMAIN world.mail : m > world.high /\ m <= w.high}
<1>1. PICK p \in Pages :
        /\ Window[p] = v /\ cur' = [cur EXCEPT ![v] = p]
        /\ world' = Doubt(Copy(remove_msgs(w, {p}, DOMAIN w.copy[p]), p, rows), N)
  BY DEF results
<1>2. Typed(world, B) /\ IsMap(rows, SUBSET B) /\ N \in SUBSET Ids
  BY DEF TypeInv, Typed, IsMap
<1> HIDE DEF rows, N
<1>3. Typed(w, B) /\ Grown(world, w)
  BY <1>2, UpdateTyped
<1> HIDE DEF w
<1> DEFINE r == remove_msgs(w, {p}, DOMAIN w.copy[p])
           c == Copy(r, p, rows)
           x == Doubt(c, N)
<1>4. Typed(r, B) /\ r.mail = w.mail
  <2>1. Shape(w)
    BY <1>3 DEF Typed
  <2> QED  BY <1>3, <2>1, RemoveTyped, RemoveDoes
<1> HIDE DEF r
<1>5. Typed(c, B) /\ Grown(r, c)
  BY <1>2, <1>4, CopyTyped
<1> HIDE DEF c
<1>6. Typed(x, B) /\ Grown(c, x)
  BY <1>2, <1>5, DoubtTyped
<1>7. world' = x
  BY <1>1 DEF c, r
<1> HIDE DEF x
<1>8. WorldTyped(B)
  BY <1>3, <1>4, <1>5, <1>6, <1>7 DEF WorldTyped, Grown
<1>9. cur' \in [Windows -> Pages] /\ \A y \in Windows : Window[cur'[y]] = y
  BY <1>1 DEF TypeInv
<1>10. DOMAIN fetching' = Windows /\ \A y \in Windows : IsMap(fetching'[y].rows, SUBSET B)
  <2>1. fetching' = [fetching EXCEPT ![v] = Idle]
    BY DEF results
  <2>2. Idle.rows = << >> /\ DOMAIN << >> = {}
    BY NothingIs DEF Idle
  <2>3. IsMap(Idle.rows, SUBSET B)
    BY <2>2 DEF IsMap
  <2> QED  BY <2>1, <2>3 DEF TypeInv
<1> QED  BY <1>8, <1>9, <1>10

LEMMA NewsStep ==
  ASSUME NEW B, TypeInv(B), db_new_mail_notif
  PROVE  WorldTyped(B)
<1> DEFINE rows == {m \in DOMAIN world.mail : m > world.high /\ "archived" \notin world.mail[m]}
           st == Restrict(world.mail, rows)
<1>1. world' = mail_status_changed(world, st) \/ world' = world
  BY DEF db_new_mail_notif
<1>2. Typed(world, B) /\ IsMap(st, SUBSET B)
  BY DEF TypeInv, Typed, IsMap, Restrict
<1> HIDE DEF st
<1>3. Typed(mail_status_changed(world, st), B) /\ Grown(world, mail_status_changed(world, st))
  BY <1>2, ChangedTyped
<1>4. CASE world' = mail_status_changed(world, st)
  BY <1>3, <1>4 DEF WorldTyped, Grown
<1>5. CASE world' = world
  BY <1>2, <1>5 DEF WorldTyped
<1> QED  BY <1>1, <1>4, <1>5

LEMMA NewStep ==
  ASSUME NEW B, TypeInv(B), NEW m \in Ids, new_message(m)
  PROVE  Typed(world', B) /\ DOMAIN world'.mail \subseteq DOMAIN world.mail \cup {m}
<1> DEFINE f == Put(world.mail, m, {})
           d == IF m <= world.high THEN world.doubt \cup {m} ELSE world.doubt
           w == [world EXCEPT !.mail = f]
<1>1. world' = [world EXCEPT !.mail = f, !.doubt = d]
  BY DEF new_message
<1>2. Typed(world, B) /\ Shape(world) /\ IsMap(f, SUBSET B) /\ DOMAIN f = DOMAIN world.mail \cup {m} /\ d \subseteq Ids
  BY DEF TypeInv, Typed, IsMap, Put
<1> HIDE DEF f, d
<1>3. /\ DOMAIN world' = Fields /\ world'.mail = f /\ world'.doubt = d /\ world'.cache = world.cache
      /\ world'.counted = world.counted /\ world'.branch = world.branch /\ world'.high = world.high
      /\ world'.copy = world.copy /\ world'.sel = world.sel
  BY <1>1, <1>2 DEF Shape, Fields
<1> QED  BY <1>2, <1>3 DEF Typed, Shape

LEMMA InitTyped ==
  ASSUME NEW B, Old \subseteq SUBSET B, Init
  PROVE  TypeInv(B)
<1>1. PICK f \in [1..NOld -> Old] : world = fetch_tag_map(
        [mail |-> f, cache |-> << >>, high |-> 0, counted |-> << >>, branch |-> FALSE,
         copy |-> [p \in Pages |-> << >>], sel |-> [p \in Pages |-> {}], doubt |-> {}])
  BY DEF Init
<1>2. IsMap(f, SUBSET B) /\ DOMAIN f = 1..NOld /\ 1..NOld \subseteq Ids
  BY StatusAssumption DEF IsMap, Ids
<1>3. IsMap(<< >>, SUBSET B) /\ IsMap(<< >>, Copies(B))
  BY NothingIs DEF IsMap
<1>4. PICK w : /\ world = fetch_tag_map(w) /\ DOMAIN w = Fields
               /\ w.mail = f /\ w.cache = << >> /\ w.high = 0 /\ w.counted = << >> /\ w.branch = FALSE
               /\ w.copy = [p \in Pages |-> << >>] /\ w.sel = [p \in Pages |-> {}] /\ w.doubt = {}
  <2> DEFINE u == [mail |-> f, cache |-> << >>, high |-> 0, counted |-> << >>, branch |-> FALSE,
                   copy |-> [p \in Pages |-> << >>], sel |-> [p \in Pages |-> {}], doubt |-> {}]
  <2>1. /\ DOMAIN u = Fields /\ u.mail = f /\ u.cache = << >> /\ u.high = 0 /\ u.counted = << >>
        /\ u.branch = FALSE /\ u.copy = [p \in Pages |-> << >>] /\ u.sel = [p \in Pages |-> {}]
        /\ u.doubt = {}
    BY DEF Fields
  <2>2. world = fetch_tag_map(u)
    BY <1>1
  <2> HIDE DEF u
  <2> QED  BY <2>1, <2>2
<1>5. Typed(w, B)
  <2>1. Shape(w)
    BY <1>4, StatusAssumption DEF Shape
  <2>2. \A p \in Pages : w.copy[p] = << >> /\ w.sel[p] = {}
    BY <1>4
  <2>3. \A p \in Pages : IsMap(w.copy[p], Copies(B)) /\ w.sel[p] \subseteq DOMAIN w.copy[p]
    BY <1>3, <2>2
  <2>4. DOMAIN w.cache = {}
    BY <1>4, NothingIs
  <2>5. IsMap(w.mail, SUBSET B) /\ IsMap(w.cache, SUBSET B) /\ IsMap(w.counted, SUBSET B)
    BY <1>2, <1>3, <1>4
  <2> QED  BY <1>4, <2>1, <2>3, <2>4, <2>5 DEF Typed
<1>6. Typed(world, B) /\ world.mail = f
  <2>1. Shape(w) /\ DOMAIN w.mail \subseteq Ids
    BY <1>2, <1>4, <1>5 DEF Typed
  <2>2. world.mail = w.mail
    BY <1>4, <2>1, TagMapDoes
  <2>3. Typed(world, B)
    BY <1>4, <1>5, TagMapTyped
  <2> QED  BY <1>4, <2>2, <2>3
<1>7. \A v \in Windows : IsMap(fetching[v].rows, SUBSET B)
  BY <1>3 DEF Init, Idle
<1> QED  BY <1>2, <1>6, <1>7 DEF Init, TypeInv

LEMMA StepTyped ==
  ASSUME NEW B, Set(B), TypeInv(B), [Next]_vars
  PROVE  TypeInv(B)'
<1>1. ASSUME NEW v \in Windows,
             select(v) \/ archive(v) \/ archive_multi(v) \/ msg_trash(v) \/ msg_delete(v) \/ msg_untrash(v)
      PROVE  TypeInv(B)'
  <2>1. WorldTyped(B)
    BY <1>1, SelectStep, ArchiveStep, ArchiveMultiStep, TrashStep, DeleteStep, UntrashStep
  <2>2. UNCHANGED <<born, pending, cur, fetching>>
    BY <1>1 DEF select, archive, archive_multi, msg_trash, msg_delete, msg_untrash, Elsewhere
  <2> QED  BY <2>1, <2>2 DEF TypeInv, WorldTyped
<1>2. ASSUME NEW v \in Windows, change_page(v) PROVE TypeInv(B)'
  <2>1. WorldTyped(B)
    BY <1>2, PageStep
  <2> QED  BY <1>2, <2>1 DEF change_page, TypeInv, WorldTyped
<1>3. ASSUME NEW v \in Windows, fetch(v) PROVE TypeInv(B)'
  <2>1. PICK f \in Filters :
          fetching' = [fetching EXCEPT ![v] = [on |-> TRUE, rows |-> Selected(f, world.mail)]]
    BY <1>3 DEF fetch
  <2>2. IsMap(Selected(f, world.mail), SUBSET B)
    BY DEF TypeInv, Typed, IsMap, Selected, Restrict
  <2> HIDE DEF Selected
  <2>3. DOMAIN fetching' = Windows /\ \A x \in Windows : IsMap(fetching'[x].rows, SUBSET B)
    BY <2>1, <2>2 DEF TypeInv
  <2> QED  BY <1>3, <2>3 DEF fetch, TypeInv
<1>4. ASSUME NEW v \in Windows, results(v) PROVE TypeInv(B)'
  <2>1. UNCHANGED <<born, pending>>
    BY <1>4 DEF results
  <2> QED  BY <1>4, <2>1, ResultsStep DEF TypeInv, WorldTyped
<1>5. ASSUME refresh_quick_selection PROVE TypeInv(B)'
  BY <1>5, RefreshStep DEF refresh_quick_selection, Elsewhere, TypeInv, WorldTyped
<1>6. ASSUME db_new_mail_notif PROVE TypeInv(B)'
  BY <1>6, NewsStep DEF db_new_mail_notif, TypeInv, WorldTyped
<1>7. ASSUME NEW m \in Ids, new_message(m) PROVE TypeInv(B)'
  BY <1>7, NewStep DEF new_message, TypeInv
<1>8. CASE UNCHANGED vars
  BY <1>8 DEF vars, TypeInv
<1> QED  BY <1>1, <1>2, <1>3, <1>4, <1>5, <1>6, <1>7, <1>8 DEF Next

(* TypeOK: whatever the windows and the faults are, a page selects what it *)
(* lists, and the status cache knows no message above its high water mark, *)
(* which is why a notification can ask for those above it.                 *)
THEOREM TypesKept == Spec => []TypeOK
<1>1. Init => TypeInv(Bits)
  BY StatusAssumption, InitTyped
<1>2. TypeInv(Bits) /\ [Next]_vars => TypeInv(Bits)'
  BY StepTyped DEF Set, Bits
<1>3. TypeInv(Bits) => TypeOK
  <2>1. SUFFICES ASSUME TypeInv(Bits) PROVE TypeOK
    OBVIOUS
  <2>2. DOMAIN world.cache \subseteq 1..world.high
    BY <2>1, StatusAssumption DEF TypeInv, Typed, Shape, IsMap, Ids
  <2> QED  BY <2>1, <2>2 DEF TypeInv, Typed, Shape, TypeOK, Statuses, Copies
<1> QED  BY <1>1, <1>2, <1>3, PTL DEF Spec

-----------------------------------------------------------------------------
(* What the operations do to one message, and that they do nothing else.   *)

SameAt(w, x, k) ==
  /\ k \in DOMAIN x.mail <=> k \in DOMAIN w.mail
  /\ k \in DOMAIN w.mail => x.mail[k] = w.mail[k]
  /\ k \in DOMAIN x.cache <=> k \in DOMAIN w.cache
  /\ k \in DOMAIN w.cache => x.cache[k] = w.cache[k]
  /\ k \in DOMAIN x.counted <=> k \in DOMAIN w.counted
  /\ k \in DOMAIN w.counted => x.counted[k] = w.counted[k]

(* The operation works on message m, in page p.                            *)
Touches(w, x, p, m) ==
  /\ Shape(x) /\ x.high = w.high /\ x.branch = w.branch /\ x.sel = w.sel
  /\ DOMAIN x.mail = DOMAIN w.mail
  /\ \A k : k # m => SameAt(w, x, k)
  /\ \A q \in Pages \ {p} : x.copy[q] = w.copy[q]
  /\ DOMAIN x.copy[p] = DOMAIN w.copy[p]
  /\ \A n \in DOMAIN w.copy[p] \ {m} : x.copy[p][n] = w.copy[p][n]

(* The cache has s for m, and the counters count it so.                    *)
CachedAs(x, m, s)  == m \in DOMAIN x.cache /\ x.cache[m] = s
CountedAs(x, m, s) ==
  IF Current(s) THEN x.branch => m \in DOMAIN x.counted /\ x.counted[m] = s
  ELSE m \notin DOMAIN x.counted

LEMMA SameIsRight ==
  ASSUME NEW w, NEW x, NEW k, SameAt(w, x, k), x.high = w.high, x.branch = w.branch
  PROVE  RightAt(w, k) => RightAt(x, k)
BY DEF SameAt, RightAt

LEMMA TouchesAgain ==
  ASSUME NEW w, NEW x, NEW y, NEW p, NEW m, Touches(w, x, p, m), Touches(x, y, p, m)
  PROVE  Touches(w, y, p, m)
<1>1. \A k : k # m => SameAt(w, y, k)
  BY DEF Touches, SameAt
<1> QED  BY <1>1 DEF Touches

LEMMA HighStays ==
  ASSUME NEW w, Shape(w), NEW m \in Ids, m <= w.high, NEW h \in {w.high, m}, w.high <= h
  PROVE  h = w.high
BY StatusAssumption DEF Shape, Ids

LEMMA CopyAt ==
  ASSUME NEW w, Shape(w), NEW p \in Pages, NEW m \in DOMAIN w.copy[p], NEW s,
         NEW x, x = Copy(w, p, Just(m, s))
  PROVE  /\ Touches(w, x, p, m) /\ x.mail = w.mail /\ x.cache = w.cache /\ x.counted = w.counted
         /\ x.doubt = w.doubt /\ x.copy[p][m] = [now |-> s, orig |-> s]
<1> DEFINE st == Just(m, s)
<1>1. DOMAIN st = {m} /\ st[m] = s
  BY JustIs
<1>2. x = Copy(w, p, st)
  OBVIOUS
<1> HIDE DEF st
<1>3. /\ Shape(x) /\ x.mail = w.mail /\ x.cache = w.cache /\ x.high = w.high
      /\ x.counted = w.counted /\ x.branch = w.branch /\ x.sel = w.sel /\ x.doubt = w.doubt
      /\ \A q \in Pages \ {p} : x.copy[q] = w.copy[q]
      /\ DOMAIN x.copy[p] = DOMAIN w.copy[p] \cup DOMAIN st
      /\ \A n \in DOMAIN st : x.copy[p][n] = [now |-> st[n], orig |-> st[n]]
      /\ \A n \in DOMAIN w.copy[p] \ DOMAIN st : x.copy[p][n] = w.copy[p][n]
  BY <1>2, CopyDoes
<1>4. DOMAIN x.copy[p] = DOMAIN w.copy[p] /\ x.copy[p][m] = [now |-> s, orig |-> s]
  BY <1>1, <1>3
<1>5. \A n \in DOMAIN w.copy[p] \ {m} : x.copy[p][n] = w.copy[p][n]
  BY <1>1, <1>3
<1> QED  BY <1>3, <1>4, <1>5 DEF Touches, SameAt

LEMMA UpdateAt ==
  ASSUME NEW w, Shape(w), NEW p \in Pages, NEW m \in Ids, m <= w.high, NEW s,
         NEW x, x = update(w, Just(m, s))
  PROVE  /\ Touches(w, x, p, m) /\ x.mail = w.mail /\ x.counted = w.counted /\ x.copy = w.copy
         /\ x.doubt = w.doubt /\ CachedAs(x, m, s)
<1> DEFINE st == Just(m, s)
<1>1. DOMAIN st = {m} /\ st[m] = s /\ DOMAIN st \subseteq Ids
  BY DEF Just
<1>2. x = update(w, st)
  OBVIOUS
<1> HIDE DEF st
<1>3. /\ Shape(x) /\ x.mail = w.mail /\ x.counted = w.counted /\ x.branch = w.branch
      /\ x.copy = w.copy /\ x.sel = w.sel /\ x.doubt = w.doubt
      /\ x.cache = Over(st, w.cache)
      /\ x.high \in {w.high} \cup DOMAIN st
      /\ w.high <= x.high /\ \A n \in DOMAIN st : n <= x.high
  BY <1>1, <1>2, UpdateDoes
<1>4. x.high = w.high
  BY <1>1, <1>3, HighStays
<1>5. /\ DOMAIN x.cache = DOMAIN w.cache \cup {m} /\ x.cache[m] = s
      /\ \A k \in DOMAIN w.cache \ {m} : x.cache[k] = w.cache[k]
  BY <1>1, <1>3 DEF Over
<1> QED  BY <1>3, <1>4, <1>5 DEF Touches, SameAt, CachedAs

LEMMA ToldAt ==
  ASSUME NEW w, Shape(w), NEW p \in Pages, NEW m \in Ids, m <= w.high, NEW s,
         NEW x, x = propagate_status(w, Just(m, s))
  PROVE  /\ Touches(w, x, p, m) /\ x.mail = w.mail /\ x.copy = w.copy
         /\ x.doubt = w.doubt /\ CachedAs(x, m, s) /\ CountedAs(x, m, s)
<1> DEFINE st == Just(m, s)
<1>1. DOMAIN st = {m} /\ st[m] = s /\ DOMAIN st \subseteq Ids
  BY DEF Just
<1>2. x = mail_status_changed(w, st)
  BY DEF propagate_status
<1> HIDE DEF st
<1>3. /\ Shape(x) /\ x.mail = w.mail /\ x.branch = w.branch
      /\ x.copy = w.copy /\ x.sel = w.sel /\ x.doubt = w.doubt
      /\ x.cache = Over(st, w.cache)
      /\ x.high \in {w.high} \cup DOMAIN st
      /\ w.high <= x.high /\ \A n \in DOMAIN st : n <= x.high
      /\ \A n \in DOMAIN st :
           IF Current(st[n])
           THEN w.branch => n \in DOMAIN x.counted /\ x.counted[n] = st[n]
           ELSE n \notin DOMAIN x.counted
      /\ \A n : n \notin DOMAIN st => (n \in DOMAIN x.counted <=> n \in DOMAIN w.counted)
      /\ \A n \in DOMAIN w.counted \ DOMAIN st : x.counted[n] = w.counted[n]
  BY <1>1, <1>2, ChangedDoes
<1>4. x.high = w.high
  BY <1>1, <1>3, HighStays
<1>5. /\ DOMAIN x.cache = DOMAIN w.cache \cup {m} /\ x.cache[m] = s
      /\ \A k \in DOMAIN w.cache \ {m} : x.cache[k] = w.cache[k]
  BY <1>1, <1>3 DEF Over
<1>6. CountedAs(x, m, s)
  BY <1>1, <1>3 DEF CountedAs
<1>7. \A k : k # m => SameAt(w, x, k)
  BY <1>1, <1>3, <1>5 DEF SameAt
<1> QED  BY <1>3, <1>4, <1>5, <1>6, <1>7 DEF Touches, CachedAs

LEMMA SetStatusAt ==
  ASSUME NEW w, Shape(w), NEW p \in Pages, NEW m \in DOMAIN w.copy[p], NEW s,
         NEW x, x = set_status(w, p, m, s)
  PROVE  /\ Touches(w, x, p, m) /\ x.mail = w.mail /\ x.cache = w.cache /\ x.counted = w.counted
         /\ x.doubt = w.doubt /\ x.copy[p][m] = [now |-> s, orig |-> w.copy[p][m].orig]
<1>1. /\ Shape(x) /\ x.mail = w.mail /\ x.cache = w.cache /\ x.high = w.high
      /\ x.counted = w.counted /\ x.branch = w.branch /\ x.sel = w.sel /\ x.doubt = w.doubt
      /\ \A q \in Pages \ {p} : x.copy[q] = w.copy[q]
      /\ DOMAIN x.copy[p] = DOMAIN w.copy[p]
      /\ x.copy[p][m] = [now |-> s, orig |-> w.copy[p][m].orig]
      /\ \A n \in DOMAIN w.copy[p] \ {m} : x.copy[p][n] = w.copy[p][n]
  BY SetStatusDoes
<1> QED  BY <1>1 DEF Touches, SameAt

LEMMA RefreshAt ==
  ASSUME NEW w, Shape(w), NEW p \in Pages, NEW m \in DOMAIN w.copy[p],
         m \in Ids, m <= w.high, m \in DOMAIN w.mail
  PROVE  LET x == refresh(w, p, m) IN
         /\ Touches(w, x, p, m) /\ x.mail = w.mail /\ x.counted = w.counted /\ x.doubt = w.doubt
         /\ CachedAs(x, m, w.mail[m]) /\ x.copy[p][m] = [now |-> w.mail[m], orig |-> w.mail[m]]
<1> DEFINE s == w.mail[m]
<1>1. PICK c : c = Copy(w, p, Just(m, s))
  OBVIOUS
<1>2. PICK x : x = update(c, Just(m, s))
  OBVIOUS
<1>3. refresh(w, p, m) = x
  BY <1>1, <1>2 DEF refresh
<1> HIDE DEF s
<1>4. /\ Touches(w, c, p, m) /\ c.mail = w.mail /\ c.cache = w.cache /\ c.counted = w.counted
      /\ c.doubt = w.doubt /\ c.copy[p][m] = [now |-> s, orig |-> s]
  BY <1>1, CopyAt
<1>5. Shape(c) /\ m <= c.high
  BY <1>4 DEF Touches
<1>6. /\ Touches(c, x, p, m) /\ x.mail = c.mail /\ x.counted = c.counted /\ x.copy = c.copy
      /\ x.doubt = c.doubt /\ CachedAs(x, m, s)
  BY <1>2, <1>5, UpdateAt
<1>7. Touches(w, x, p, m)
  BY <1>4, <1>6, TouchesAgain
<1> QED  BY <1>3, <1>4, <1>6, <1>7 DEF s

LEMMA WrittenAt ==
  ASSUME NEW w, Shape(w), NEW p \in Pages, NEW m \in DOMAIN w.copy[p],
         m \in Ids, m <= w.high, m \in DOMAIN w.mail,
         NEW s, w.copy[p][m].now = s, w.copy[p][m].orig # s
  PROVE  LET x == Written(w, p, m) IN
         /\ Touches(w, x, p, m) /\ x.mail[m] = s /\ x.counted = w.counted /\ x.doubt = w.doubt
         /\ CachedAs(x, m, s) /\ x.copy[p][m] = [now |-> s, orig |-> s]
<1>1. PICK c : c = Copy(w, p, Just(m, s))
  OBVIOUS
<1>2. PICK v : v = update(c, Just(m, s))
  OBVIOUS
<1>3. PICK f : f = Put(v.mail, m, s)
  OBVIOUS
<1>4. PICK x : x = [v EXCEPT !.mail = f]
  OBVIOUS
<1>5. Written(w, p, m) = x
  BY <1>1, <1>2, <1>3, <1>4 DEF Written
<1>6. /\ Touches(w, c, p, m) /\ c.mail = w.mail /\ c.cache = w.cache /\ c.counted = w.counted
      /\ c.doubt = w.doubt /\ c.copy[p][m] = [now |-> s, orig |-> s]
  BY <1>1, CopyAt
<1>7. Shape(c) /\ m <= c.high
  BY <1>6 DEF Touches
<1>8. /\ Touches(c, v, p, m) /\ v.mail = c.mail /\ v.counted = c.counted /\ v.copy = c.copy
      /\ v.doubt = c.doubt /\ CachedAs(v, m, s)
  BY <1>2, <1>7, UpdateAt
<1>9. Touches(w, v, p, m) /\ Shape(v)
  <2>1. Touches(w, v, p, m)
    BY <1>6, <1>8, TouchesAgain
  <2> QED  BY <2>1 DEF Touches
<1>10. /\ DOMAIN f = DOMAIN w.mail /\ f[m] = s
       /\ \A n \in DOMAIN w.mail \ {m} : f[n] = w.mail[n]
  BY <1>3, <1>6, <1>8 DEF Put
<1>11. /\ Shape(x) /\ x.mail = f /\ x.cache = v.cache /\ x.high = v.high /\ x.counted = v.counted
       /\ x.branch = v.branch /\ x.copy = v.copy /\ x.sel = v.sel /\ x.doubt = v.doubt
  BY <1>4, <1>9, MailDoes
<1>12. Touches(w, x, p, m)
  BY <1>9, <1>10, <1>11 DEF Touches, SameAt
<1> QED  BY <1>5, <1>6, <1>8, <1>10, <1>11, <1>12 DEF CachedAs

-----------------------------------------------------------------------------
(* A selection, when every query is answered.                              *)

(* What is done to m, in page p, is known to the database: the page's copy *)
(* is the database's, no bit is lost, and the counters are as right as     *)
(* they were, unless the update has failed.                                *)
Honest(w, x, p, m) ==
  /\ Touches(w, x, p, m)
  /\ x.copy[p][m].orig = x.mail[m] /\ x.copy[p][m].orig \subseteq x.copy[p][m].now
  /\ w.mail[m] \subseteq x.mail[m]
  /\ x.doubt \in {w.doubt, w.doubt \cup {m}}
  /\ m \notin x.doubt /\ RightAt(w, m) => RightAt(x, m)
  /\ DOMAIN x.cache \subseteq DOMAIN w.cache \cup {m}
  /\ DOMAIN x.counted \subseteq DOMAIN w.counted \cup {m}

LEMMA CountedIsRight ==
  ASSUME NEW x, NEW m, NEW s, m \in DOMAIN x.mail, m <= x.high, x.mail[m] = s,
         CachedAs(x, m, s), CountedAs(x, m, s)
  PROVE  RightAt(x, m)
BY DEF CachedAs, CountedAs, RightAt

LEMMA TouchesDomains ==
  ASSUME NEW w, NEW x, NEW p, NEW m, Touches(w, x, p, m)
  PROVE  /\ DOMAIN x.cache \subseteq DOMAIN w.cache \cup {m}
         /\ DOMAIN x.counted \subseteq DOMAIN w.counted \cup {m}
BY DEF Touches, SameAt

LEMMA SelectedAt ==
  ASSUME "read" \notin Faults, NEW w, Shape(w), NEW p \in Pages, NEW m \in DOMAIN w.copy[p],
         m \in Ids, m <= w.high, m \in DOMAIN w.mail, NEW x \in mail_selected(w, p, m)
  PROVE  Honest(w, x, p, m)
<1> DEFINE v == refresh(w, p, m)
           s == w.mail[m]
           r == set_status(v, p, m, v.copy[p][m].now \cup {"read"})
           y == Written(r, p, m)
           Shown(u) == propagate_status(u, Just(m, u.copy[p][m].now))
<1>1. IF "read" \in v.copy[p][m].now
      THEN x = Written(v, p, m) \/ x = v
      ELSE x = Shown(y) \/ x = Doubt(Shown(r), {m})
  BY DEF mail_selected
<1>2. /\ Touches(w, v, p, m) /\ v.mail = w.mail /\ v.counted = w.counted /\ v.doubt = w.doubt
      /\ CachedAs(v, m, s) /\ v.copy[p][m] = [now |-> s, orig |-> s]
  BY RefreshAt
<1>3. Written(v, p, m) = v
  BY <1>2 DEF Written
<1>4. /\ Shape(v) /\ m \in DOMAIN v.copy[p] /\ m <= v.high /\ m \in DOMAIN v.mail
      /\ v.high = w.high /\ v.branch = w.branch
  BY <1>2 DEF Touches
<1> DEFINE s1 == s \cup {"read"}
<1> HIDE DEF s, v
<1>5. CASE x = v
  <2>1. RightAt(w, m) => RightAt(v, m)
    BY <1>2, <1>4 DEF RightAt, CachedAs, s
  <2> QED  BY <1>2, <1>5, <2>1, TouchesDomains DEF Honest, s
<1>6. ASSUME "read" \notin v.copy[p][m].now
      PROVE  /\ Touches(w, r, p, m) /\ r.mail = w.mail /\ r.doubt = w.doubt
             /\ r.copy[p][m] = [now |-> s1, orig |-> s] /\ Shape(r)
             /\ m \in DOMAIN r.copy[p] /\ m <= r.high /\ m \in DOMAIN r.mail
  <2>1. r = set_status(v, p, m, s1)
    BY <1>2
  <2> HIDE DEF r, s1
  <2>2. /\ Touches(v, r, p, m) /\ r.mail = v.mail /\ r.cache = v.cache /\ r.counted = v.counted
        /\ r.doubt = v.doubt /\ r.copy[p][m] = [now |-> s1, orig |-> v.copy[p][m].orig]
    BY <1>4, <2>1, SetStatusAt
  <2>3. Touches(w, r, p, m)
    BY <1>2, <2>2, TouchesAgain
  <2> QED  BY <1>2, <1>4, <2>2, <2>3 DEF Touches
<1>7. ASSUME "read" \notin v.copy[p][m].now, x = Shown(y) PROVE Honest(w, x, p, m)
  <2>1. y = Written(r, p, m)
    OBVIOUS
  <2> HIDE DEF r, y
  <2>2. r.copy[p][m].now = s1 /\ r.copy[p][m].orig # s1
    <3>1. "read" \notin s
      BY <1>2, <1>7
    <3>2. r.copy[p][m] = [now |-> s1, orig |-> s]
      BY <1>6, <1>7
    <3> QED  BY <3>1, <3>2
  <2> HIDE DEF s1
  <2>3. /\ Touches(r, y, p, m) /\ y.mail[m] = s1 /\ y.counted = r.counted /\ y.doubt = r.doubt
        /\ CachedAs(y, m, s1) /\ y.copy[p][m] = [now |-> s1, orig |-> s1]
    BY <1>6, <1>7, <2>1, <2>2, WrittenAt
  <2>4. Touches(w, y, p, m)
    BY <1>6, <1>7, <2>3, TouchesAgain
  <2>5. Shape(y) /\ m <= y.high
    BY <1>4, <2>4 DEF Touches
  <2>6. x = propagate_status(y, Just(m, s1))
    BY <1>7, <2>3
  <2>7. /\ Touches(y, x, p, m) /\ x.mail = y.mail /\ x.copy = y.copy
        /\ x.doubt = y.doubt /\ CachedAs(x, m, s1) /\ CountedAs(x, m, s1)
    BY <2>5, <2>6, ToldAt
  <2>8. Touches(w, x, p, m)
    BY <2>4, <2>7, TouchesAgain
  <2>9. m \in DOMAIN x.mail /\ m <= x.high
    BY <1>4, <2>8 DEF Touches
  <2>10. RightAt(x, m)
    BY <2>3, <2>7, <2>9, CountedIsRight
  <2>11. s \subseteq s1
    BY DEF s1
  <2> QED  BY <1>6, <1>7, <2>3, <2>7, <2>8, <2>10, <2>11, TouchesDomains DEF Honest, s
<1>8. ASSUME "read" \notin v.copy[p][m].now, x = Doubt(Shown(r), {m}) PROVE Honest(w, x, p, m)
  <2> HIDE DEF r
  <2>1. PICK z : z = propagate_status(r, Just(m, s1))
    OBVIOUS
  <2>2. x = Doubt(z, {m})
    <3>1. r.copy[p][m].now = s1
      BY <1>6, <1>8
    <3> QED  BY <1>8, <2>1, <3>1
  <2>3. s \subseteq s1
    OBVIOUS
  <2> HIDE DEF s1
  <2>4. /\ Touches(r, z, p, m) /\ z.mail = r.mail /\ z.copy = r.copy
        /\ z.doubt = r.doubt /\ CachedAs(z, m, s1) /\ CountedAs(z, m, s1)
    BY <1>6, <1>8, <2>1, ToldAt
  <2>5. Touches(w, z, p, m)
    BY <1>6, <1>8, <2>4, TouchesAgain
  <2>6. Shape(z)
    BY <2>5 DEF Touches
  <2>7. /\ Shape(x) /\ x.mail = z.mail /\ x.cache = z.cache /\ x.high = z.high
        /\ x.counted = z.counted /\ x.branch = z.branch /\ x.copy = z.copy /\ x.sel = z.sel
        /\ x.doubt = z.doubt \cup {m}
    BY <2>2, <2>6, DoubtDoes
  <2>8. Touches(w, x, p, m)
    BY <2>5, <2>7 DEF Touches, SameAt
  <2>9. /\ x.copy[p][m] = [now |-> s1, orig |-> s] /\ x.mail = w.mail
        /\ x.doubt = w.doubt \cup {m}
    BY <1>6, <1>8, <2>4, <2>7
  <2>10. /\ x.copy[p][m].orig = x.mail[m] /\ x.copy[p][m].orig \subseteq x.copy[p][m].now
         /\ w.mail[m] \subseteq x.mail[m]
    BY <2>3, <2>9 DEF s
  <2> QED  BY <2>8, <2>9, <2>10, TouchesDomains DEF Honest
<1> QED  BY <1>1, <1>3, <1>5, <1>7, <1>8

-----------------------------------------------------------------------------
(* What follows a world in which the lists are right.                      *)

Sound(w) == Typed(w, Unsent) /\ Lists(w) /\ Forgotten(w)

(* No bit of a status is lost.                                             *)
Gains(w, x) == \A m \in DOMAIN w.mail \cap DOMAIN x.mail : w.mail[m] \subseteq x.mail[m]

(* x is as sound as w, and the counters are as right in it, though no more *)
(* than the selected messages of page p have changed.                      *)
Follows(w, x, p) ==
  /\ Sound(x) /\ Gains(w, x) /\ x.sel = w.sel /\ DOMAIN x.mail = DOMAIN w.mail
  /\ x.high = w.high /\ w.doubt \subseteq x.doubt
  /\ \A k \in Ids \ x.doubt : RightAt(w, k) => RightAt(x, k)
  /\ \A k \in DOMAIN w.mail \ w.sel[p] : x.mail[k] = w.mail[k]
  /\ \A q \in Pages : DOMAIN x.copy[q] = DOMAIN w.copy[q]

LEMMA SoundAt ==
  ASSUME NEW w, Sound(w), NEW p \in Pages, NEW m \in DOMAIN w.copy[p]
  PROVE  /\ Shape(w) /\ m \in Ids /\ m <= w.high /\ m \in DOMAIN w.mail
         /\ w.copy[p][m].orig \subseteq w.copy[p][m].now
BY DEF Sound, Typed, IsMap, Lists

(* A change of m that leaves what is listed right.                         *)
LEMMA TouchesIsSound ==
  ASSUME NEW w, Sound(w), NEW p \in Pages, NEW m \in DOMAIN w.copy[p],
         NEW x, Typed(x, Unsent), Touches(w, x, p, m),
         x.copy[p][m].orig \subseteq x.copy[p][m].now
  PROVE  Sound(x)
<1>1. m \in DOMAIN w.mail /\ m <= w.high
  BY SoundAt
<1>2. Lists(x)
  <2>1. SUFFICES ASSUME NEW q \in Pages, NEW n \in DOMAIN x.copy[q]
                 PROVE  n \in DOMAIN x.mail /\ n <= x.high /\ x.copy[q][n].orig \subseteq x.copy[q][n].now
    BY DEF Lists
  <2>2. n \in DOMAIN w.copy[q] /\ x.high = w.high /\ DOMAIN x.mail = DOMAIN w.mail
    BY DEF Touches
  <2>3. n \in DOMAIN w.mail /\ n <= w.high /\ w.copy[q][n].orig \subseteq w.copy[q][n].now
    BY <2>2, SoundAt
  <2>4. CASE q = p /\ n = m
    BY <2>2, <2>3, <2>4
  <2>5. CASE ~(q = p /\ n = m)
    <3>1. x.copy[q][n] = w.copy[q][n]
      BY <2>2, <2>5 DEF Touches
    <3> QED  BY <2>2, <2>3, <3>1
  <2> QED  BY <2>4, <2>5
<1>3. Forgotten(x)
  <2>1. DOMAIN x.cache \subseteq DOMAIN w.cache \cup {m} /\ DOMAIN x.counted \subseteq DOMAIN w.counted \cup {m}
    BY TouchesDomains
  <2>2. DOMAIN x.mail = DOMAIN w.mail
    BY DEF Touches
  <2> QED  BY <1>1, <2>1, <2>2 DEF Sound, Forgotten
<1> QED  BY <1>2, <1>3 DEF Sound

LEMMA TouchesIsRight ==
  ASSUME NEW w, NEW x, NEW p, NEW m, Touches(w, x, p, m), NEW k, k # m
  PROVE  RightAt(w, k) => RightAt(x, k)
BY SameIsRight DEF Touches

LEMMA HonestFollows ==
  ASSUME NEW w, Sound(w), NEW p \in Pages, NEW m \in DOMAIN w.copy[p], m \in w.sel[p],
         NEW x, Typed(x, Unsent), Honest(w, x, p, m)
  PROVE  Follows(w, x, p)
<1>1. Touches(w, x, p, m)
  BY DEF Honest
<1>2. Sound(x)
  BY <1>1, TouchesIsSound DEF Honest
<1>3. \A k \in DOMAIN w.mail : k # m => x.mail[k] = w.mail[k]
  BY <1>1 DEF Touches, SameAt
<1>4. Gains(w, x)
  BY <1>3 DEF Honest, Gains
<1>5. \A k \in Ids \ x.doubt : RightAt(w, k) => RightAt(x, k)
  BY <1>1, TouchesIsRight DEF Honest
<1>6. \A q \in Pages : DOMAIN x.copy[q] = DOMAIN w.copy[q]
  BY <1>1 DEF Touches
<1>7. x.sel = w.sel /\ DOMAIN x.mail = DOMAIN w.mail /\ x.high = w.high
  BY <1>1 DEF Touches
<1>8. w.doubt \subseteq x.doubt
  BY DEF Honest
<1> QED  BY <1>2, <1>3, <1>4, <1>5, <1>6, <1>7, <1>8 DEF Follows

LEMMA SelectedFollows ==
  ASSUME "read" \notin Faults, NEW w, Sound(w), NEW p \in Pages, NEW x \in mails_selected(w, p)
  PROVE  Follows(w, x, p) /\ Fresh(x, p)
<1>1. w.sel[p] \subseteq DOMAIN w.copy[p] /\ w.sel[p] \subseteq Ids /\ Typed(w, Unsent)
  BY DEF Sound, Typed, IsMap
<1>2. CASE Cardinality(w.sel[p]) = 1
  <2>1. PICK m \in w.sel[p] : w.sel[p] = {m} /\ x \in mail_selected(w, p, m)
    BY <1>1, <1>2, OnlyIs DEF mails_selected
  <2>2. m \in DOMAIN w.copy[p] /\ Shape(w) /\ m \in Ids /\ m <= w.high /\ m \in DOMAIN w.mail
    BY <1>1, SoundAt
  <2>3. Honest(w, x, p, m)
    BY <2>1, <2>2, SelectedAt
  <2>4. Typed(x, Unsent)
    BY <1>1, <2>1, <2>2, SelectedTyped DEF Unsent, Bits
  <2>5. Follows(w, x, p)
    BY <2>2, <2>3, <2>4, HonestFollows
  <2>6. x.sel[p] = {m} /\ x.copy[p][m].orig = x.mail[m]
    BY <2>1, <2>3 DEF Honest, Touches
  <2>7. \A n : x.sel[p] = {n} => n = m
    BY <2>6
  <2> QED  BY <2>5, <2>6, <2>7 DEF Fresh
<1>3. CASE Cardinality(w.sel[p]) # 1
  <2>1. x = w
    BY <1>3 DEF mails_selected
  <2>2. \A m : w.sel[p] # {m}
    BY <1>3, FS_Singleton
  <2>3. Follows(w, w, p)
    BY DEF Follows, Gains
  <2> QED  BY <2>1, <2>2, <2>3 DEF Fresh
<1> QED  BY <1>2, <1>3

(* The same when another selection is made first.                          *)
LEMMA ThenSelected ==
  ASSUME "read" \notin Faults, NEW w, Sound(w), NEW p \in Pages, NEW S \in SUBSET DOMAIN w.copy[p],
         NEW x \in mails_selected(Select(w, p, S), p)
  PROVE  /\ Sound(x) /\ Fresh(x, p) /\ Gains(w, x) /\ DOMAIN x.mail = DOMAIN w.mail
         /\ x.high = w.high /\ w.doubt \subseteq x.doubt /\ x.sel[p] = S
         /\ \A k \in Ids \ x.doubt : RightAt(w, k) => RightAt(x, k)
         /\ \A k \in DOMAIN w.mail \ S : x.mail[k] = w.mail[k]
<1>1. PICK u : u = Select(w, p, S)
  OBVIOUS
<1>2. Typed(w, Unsent) /\ Shape(w)
  BY DEF Sound, Typed
<1>3. /\ Shape(u) /\ u.mail = w.mail /\ u.cache = w.cache /\ u.high = w.high
      /\ u.counted = w.counted /\ u.branch = w.branch /\ u.copy = w.copy /\ u.doubt = w.doubt
      /\ u.sel[p] = S /\ \A q \in Pages \ {p} : u.sel[q] = w.sel[q]
  BY <1>1, <1>2, SelectDoes
<1>4. Typed(u, Unsent)
  BY <1>1, <1>2, SelectTyped
<1>5. Sound(u)
  BY <1>3, <1>4 DEF Sound, Lists, Forgotten
<1>6. Follows(u, x, p) /\ Fresh(x, p)
  BY <1>1, <1>5, SelectedFollows
<1>7. \A k \in Ids \ x.doubt : RightAt(w, k) => RightAt(x, k)
  BY <1>3, <1>6 DEF Follows, RightAt
<1> QED  BY <1>3, <1>6, <1>7 DEF Follows, Gains

(* What a command leaves in page p.                                        *)
Leads(w, x, p) ==
  /\ Sound(x) /\ Fresh(x, p) /\ Gains(w, x) /\ DOMAIN x.mail = DOMAIN w.mail
  /\ w.doubt \subseteq x.doubt /\ \A k \in Ids \ x.doubt : RightAt(w, k) => RightAt(x, k)

LEMMA RemovalFollows ==
  ASSUME "read" \notin Faults, NEW w, Sound(w), NEW p \in Pages, NEW x \in AfterRemoval(w, p)
  PROVE  Leads(w, x, p)
<1>1. PICK S \in {w.sel[p]} \cup {{n} : n \in DOMAIN w.copy[p]} : x \in mails_selected(Select(w, p, S), p)
  BY DEF AfterRemoval
<1>2. S \in SUBSET DOMAIN w.copy[p]
  BY DEF Sound, Typed
<1>3. /\ Sound(x) /\ Fresh(x, p) /\ Gains(w, x) /\ DOMAIN x.mail = DOMAIN w.mail
      /\ x.high = w.high /\ w.doubt \subseteq x.doubt /\ x.sel[p] = S
      /\ \A k \in Ids \ x.doubt : RightAt(w, k) => RightAt(x, k)
      /\ \A k \in DOMAIN w.mail \ S : x.mail[k] = w.mail[k]
  BY <1>1, <1>2, ThenSelected
<1> QED  BY <1>3 DEF Leads

-----------------------------------------------------------------------------
(* Several messages at once.                                               *)

(* Counting with s is counting with t.                                     *)
Agrees(s, t) ==
  /\ Unread(s) = Unread(t) /\ Unprocessed(s) = Unprocessed(t) /\ Current(s) = Current(t)
  /\ Current(t) => s = t

LEMMA ToldAll ==
  ASSUME NEW w, Shape(w), NEW st, DOMAIN st \subseteq Ids, \A m \in DOMAIN st : m <= w.high,
         NEW x, x = propagate_status(w, st)
  PROVE  /\ Shape(x) /\ x.mail = w.mail /\ x.high = w.high /\ x.branch = w.branch
         /\ x.copy = w.copy /\ x.sel = w.sel /\ x.doubt = w.doubt
         /\ \A k : k \notin DOMAIN st => SameAt(w, x, k)
         /\ \A k \in DOMAIN st :
              k \in DOMAIN w.mail /\ Agrees(st[k], w.mail[k]) => RightAt(x, k)
         /\ DOMAIN x.cache \subseteq DOMAIN w.cache \cup DOMAIN st
         /\ DOMAIN x.counted \subseteq DOMAIN w.counted \cup DOMAIN st
<1>1. x = mail_status_changed(w, st)
  BY DEF propagate_status
<1>2. /\ Shape(x) /\ x.mail = w.mail /\ x.branch = w.branch
      /\ x.copy = w.copy /\ x.sel = w.sel /\ x.doubt = w.doubt
      /\ x.cache = Over(st, w.cache)
      /\ x.high \in {w.high} \cup DOMAIN st
      /\ w.high <= x.high /\ \A m \in DOMAIN st : m <= x.high
      /\ \A m \in DOMAIN st :
           IF Current(st[m])
           THEN w.branch => m \in DOMAIN x.counted /\ x.counted[m] = st[m]
           ELSE m \notin DOMAIN x.counted
      /\ \A m : m \notin DOMAIN st => (m \in DOMAIN x.counted <=> m \in DOMAIN w.counted)
      /\ \A m \in DOMAIN w.counted \ DOMAIN st : x.counted[m] = w.counted[m]
      /\ DOMAIN x.counted \subseteq DOMAIN w.counted \cup DOMAIN st
  BY <1>1, ChangedDoes
<1>3. x.high = w.high
  BY <1>2, HighStays
<1>4. /\ DOMAIN x.cache = DOMAIN w.cache \cup DOMAIN st
      /\ \A k \in DOMAIN st : x.cache[k] = st[k]
      /\ \A k \in DOMAIN w.cache \ DOMAIN st : x.cache[k] = w.cache[k]
  BY <1>2 DEF Over
<1>5. \A k : k \notin DOMAIN st => SameAt(w, x, k)
  BY <1>2, <1>4 DEF SameAt
<1>6. ASSUME NEW k \in DOMAIN st, k \in DOMAIN w.mail, Agrees(st[k], w.mail[k])
      PROVE  RightAt(x, k)
  BY <1>2, <1>3, <1>4, <1>6 DEF RightAt, Agrees
<1> QED  BY <1>2, <1>3, <1>4, <1>5, <1>6

LEMMA CopyAll ==
  ASSUME NEW w, Shape(w), NEW p \in Pages, NEW st, DOMAIN st \subseteq DOMAIN w.copy[p],
         NEW x, x = Copy(w, p, st)
  PROVE  /\ Shape(x) /\ x.mail = w.mail /\ x.cache = w.cache /\ x.high = w.high
         /\ x.counted = w.counted /\ x.branch = w.branch /\ x.sel = w.sel /\ x.doubt = w.doubt
         /\ \A q \in Pages : DOMAIN x.copy[q] = DOMAIN w.copy[q]
         /\ \A q \in Pages : \A m \in DOMAIN w.copy[q] :
              x.copy[q][m] = IF q = p /\ m \in DOMAIN st THEN [now |-> st[m], orig |-> st[m]]
                             ELSE w.copy[q][m]
<1>1. /\ Shape(x) /\ x.mail = w.mail /\ x.cache = w.cache /\ x.high = w.high
      /\ x.counted = w.counted /\ x.branch = w.branch /\ x.sel = w.sel /\ x.doubt = w.doubt
      /\ \A q \in Pages \ {p} : x.copy[q] = w.copy[q]
      /\ DOMAIN x.copy[p] = DOMAIN w.copy[p] \cup DOMAIN st
      /\ \A m \in DOMAIN st : x.copy[p][m] = [now |-> st[m], orig |-> st[m]]
      /\ \A m \in DOMAIN w.copy[p] \ DOMAIN st : x.copy[p][m] = w.copy[p][m]
  BY CopyDoes
<1>2. \A q \in Pages : DOMAIN x.copy[q] = DOMAIN w.copy[q]
  BY <1>1
<1>3. ASSUME NEW q \in Pages, NEW m \in DOMAIN w.copy[q]
      PROVE  x.copy[q][m] = IF q = p /\ m \in DOMAIN st THEN [now |-> st[m], orig |-> st[m]]
                            ELSE w.copy[q][m]
  BY <1>1
<1> QED  BY <1>1, <1>2, <1>3

-----------------------------------------------------------------------------
(* Every step of a program with one window.                                *)

(* What a command of the user makes of the world.                          *)
Keeps(p) == Lists(world') /\ Forgotten(world') /\ Right(world') /\ Fresh(world', p)

LEMMA Idling ==
  ASSUME StatusInv, NEW v \in Windows, ~Busy(v)
  PROVE  /\ cur[v] \in Pages /\ Sound(world) /\ Shape(world) /\ Fresh(world, cur[v])
         /\ \A k \in Ids \ world.doubt : RightAt(world, k)
         /\ world.sel[cur[v]] \in SUBSET DOMAIN world.copy[cur[v]]
         /\ world.sel[cur[v]] \in SUBSET Ids
BY DEF StatusInv, TypeInv, Sound, Typed, Right, IsMap

LEMMA SelectKeeps ==
  ASSUME "read" \notin Faults, StatusInv, NEW v \in Windows, select(v)
  PROVE  Keeps(cur[v]) /\ Gains(world, world')
<1>1. PICK S \in SUBSET DOMAIN world.copy[cur[v]] :
        world' \in mails_selected(Select(world, cur[v], S), cur[v])
  BY DEF select
<1>2. ~Busy(v)
  BY DEF select
<1>3. cur[v] \in Pages /\ Sound(world) /\ \A k \in Ids \ world.doubt : RightAt(world, k)
  BY <1>2, Idling
<1>4. /\ Sound(world') /\ Fresh(world', cur[v]) /\ Gains(world, world')
      /\ world.doubt \subseteq world'.doubt
      /\ \A k \in Ids \ world'.doubt : RightAt(world, k) => RightAt(world', k)
  BY <1>1, <1>3, ThenSelected
<1> QED  BY <1>3, <1>4 DEF Keeps, Sound, Right

LEMMA PageKeeps ==
  ASSUME "read" \notin Faults, StatusInv, NEW v \in Windows, change_page(v)
  PROVE  Keeps(cur'[v]) /\ Gains(world, world')
<1>1. PICK p \in Pages : cur' = [cur EXCEPT ![v] = p] /\ world' \in mails_selected(world, p)
  BY DEF change_page
<1>2. ~Busy(v) /\ cur'[v] = p
  BY <1>1 DEF change_page, StatusInv, TypeInv
<1>3. Sound(world) /\ \A k \in Ids \ world.doubt : RightAt(world, k)
  BY <1>2, Idling
<1>4. Follows(world, world', p) /\ Fresh(world', p)
  BY <1>1, <1>3, SelectedFollows
<1> QED  BY <1>2, <1>3, <1>4 DEF Follows, Keeps, Sound, Right

LEMMA ArchiveKeeps ==
  ASSUME "read" \notin Faults, StatusInv, NEW v \in Windows, archive(v)
  PROVE  Keeps(cur[v]) /\ Gains(world, world')
<1> DEFINE p == cur[v]
           m == Only(world.sel[p])
           s == world.copy[p][m].now \cup {"archived", "read"}
           w == set_status(world, p, m, s)
           y == Written(w, p, m)
<1>1. /\ ~Busy(v) /\ Cardinality(world.sel[p]) = 1
      /\ \/ \E x : /\ x = y \/ \E n \in DOMAIN world.copy[p] \ {m} : x \in mails_selected(Select(y, p, {n}), p)
                   /\ world' = propagate_status(x, Just(m, s))
         \/ world' = w
  BY DEF archive
<1>2. /\ p \in Pages /\ Sound(world) /\ Shape(world) /\ Fresh(world, p)
      /\ \A k \in Ids \ world.doubt : RightAt(world, k)
  BY <1>1, Idling
<1>3. m \in world.sel[p] /\ world.sel[p] = {m} /\ m \in DOMAIN world.copy[p]
  BY <1>1, Idling, OnlyIs
<1> HIDE DEF p, m
<1>4. /\ m \in Ids /\ m <= world.high /\ m \in DOMAIN world.mail /\ Typed(world, Unsent)
      /\ world.copy[p][m].orig \subseteq world.copy[p][m].now
      /\ world.copy[p][m].orig = world.mail[m]
  BY <1>2, <1>3, SoundAt DEF Fresh, Sound
<1>5. world.mail[m] \subseteq s /\ s \in SUBSET Unsent
  BY <1>2, <1>3, <1>4, CopyFields DEF Unsent, Bits
<1> HIDE DEF s
<1>6. w = set_status(world, p, m, s) /\ y = Written(w, p, m)
  OBVIOUS
<1> HIDE DEF w, y
<1>7. /\ Touches(world, w, p, m) /\ w.mail = world.mail /\ w.cache = world.cache
      /\ w.counted = world.counted /\ w.doubt = world.doubt
      /\ w.copy[p][m] = [now |-> s, orig |-> world.mail[m]]
  BY <1>2, <1>3, <1>4, <1>6, SetStatusAt
<1>8. Typed(w, Unsent)
  BY <1>2, <1>3, <1>4, <1>5, <1>6, SetStatusTyped
<1>9. Sound(w) /\ m \in DOMAIN w.copy[p] /\ Shape(w) /\ m <= w.high /\ m \in DOMAIN w.mail
  <2>1. Sound(w)
    BY <1>2, <1>3, <1>5, <1>7, <1>8, TouchesIsSound
  <2> QED  BY <1>3, <1>4, <1>7, <2>1 DEF Touches
<1>10. /\ Touches(world, y, p, m) /\ y.mail[m] = s /\ y.doubt = world.doubt
       /\ y.copy[p][m] = [now |-> s, orig |-> s]
  <2>1. CASE world.mail[m] = s
    <3>1. y = w
      BY <1>6, <1>7, <2>1 DEF Written
    <3> QED  BY <1>7, <2>1, <3>1
  <2>2. CASE world.mail[m] # s
    <3>1. /\ Touches(w, y, p, m) /\ y.mail[m] = s /\ y.counted = w.counted /\ y.doubt = w.doubt
          /\ CachedAs(y, m, s) /\ y.copy[p][m] = [now |-> s, orig |-> s]
      BY <1>2, <1>4, <1>6, <1>7, <1>9, <2>2, WrittenAt
    <3>2. Touches(world, y, p, m)
      BY <1>7, <3>1, TouchesAgain
    <3> QED  BY <1>7, <3>1, <3>2
  <2> QED  BY <2>1, <2>2
<1>11. Typed(y, Unsent)
  BY <1>2, <1>6, <1>8, <1>9, WrittenTyped
<1>12. Sound(y)
  BY <1>2, <1>3, <1>10, <1>11, TouchesIsSound
<1>13. Gains(world, y) /\ DOMAIN y.mail = DOMAIN world.mail /\ y.high = world.high /\ y.sel = world.sel
  BY <1>5, <1>10 DEF Touches, SameAt, Gains
<1>14. Fresh(y, p)
  BY <1>3, <1>10, <1>13 DEF Fresh
<1>15. \A k \in Ids \ y.doubt : k # m => RightAt(y, k)
  BY <1>2, <1>10, TouchesIsRight
(* When the update has failed, the page only shows what it tried.          *)
<1>16. CASE world' = w
  <2>1. \A k \in Ids \ w.doubt : RightAt(w, k)
    BY <1>2, <1>7 DEF RightAt, Touches
  <2>2. Fresh(w, p) /\ Gains(world, w)
    BY <1>3, <1>7 DEF Fresh, Gains, Touches
  <2> QED  BY <1>9, <1>16, <2>1, <2>2 DEF Keeps, Sound, Right, p
<1>17. ASSUME NEW x, Sound(x), Fresh(x, p), x.mail[m] = s, DOMAIN x.mail = DOMAIN world.mail,
              x.high = world.high, Gains(world, x),
              \A k \in Ids \ x.doubt : k # m => RightAt(x, k),
              world' = propagate_status(x, Just(m, s))
       PROVE  Keeps(p) /\ Gains(world, world')
  <2>1. Shape(x) /\ m <= x.high
    BY <1>4, <1>17 DEF Sound, Typed
  <2>2. /\ Touches(x, world', p, m) /\ world'.mail = x.mail /\ world'.copy = x.copy
        /\ world'.doubt = x.doubt /\ CachedAs(world', m, s) /\ CountedAs(world', m, s)
    BY <1>2, <1>4, <1>17, <2>1, ToldAt
  <2>3. RightAt(world', m)
    BY <1>4, <1>17, <2>1, <2>2, CountedIsRight DEF Touches
  <2>4. \A k \in Ids \ world'.doubt : RightAt(world', k)
    BY <1>17, <2>2, <2>3, TouchesIsRight
  <2>5. Lists(world') /\ Fresh(world', p)
    BY <1>17, <2>2 DEF Sound, Lists, Touches, Fresh
  <2>6. Forgotten(world')
    <3>1. /\ DOMAIN world'.cache \subseteq DOMAIN x.cache \cup {m}
          /\ DOMAIN world'.counted \subseteq DOMAIN x.counted \cup {m}
      BY <2>2, TouchesDomains
    <3> QED  BY <1>4, <1>17, <2>2, <3>1 DEF Sound, Forgotten
  <2> QED  BY <1>17, <2>2, <2>4, <2>5, <2>6 DEF Keeps, Right, Gains
<1>18. ASSUME world' = propagate_status(y, Just(m, s)) PROVE Keeps(p) /\ Gains(world, world')
  BY <1>10, <1>12, <1>13, <1>14, <1>15, <1>17, <1>18
<1>19. ASSUME NEW n \in DOMAIN world.copy[p] \ {m}, NEW x \in mails_selected(Select(y, p, {n}), p),
              world' = propagate_status(x, Just(m, s))
       PROVE  Keeps(p) /\ Gains(world, world')
  <2>1. {n} \in SUBSET DOMAIN y.copy[p]
    BY <1>10 DEF Touches
  <2>2. /\ Sound(x) /\ Fresh(x, p) /\ Gains(y, x) /\ DOMAIN x.mail = DOMAIN y.mail
        /\ x.high = y.high /\ y.doubt \subseteq x.doubt /\ x.sel[p] = {n}
        /\ \A k \in Ids \ x.doubt : RightAt(y, k) => RightAt(x, k)
        /\ \A k \in DOMAIN y.mail \ {n} : x.mail[k] = y.mail[k]
    BY <1>2, <1>12, <2>1, ThenSelected
  <2>3. x.mail[m] = s
    BY <1>4, <1>10, <1>13, <2>2
  <2>4. Gains(world, x)
    BY <1>13, <2>2 DEF Gains
  <2> QED  BY <1>13, <1>15, <1>17, <1>19, <2>2, <2>3, <2>4
<1> QED  BY <1>1, <1>16, <1>18, <1>19 DEF p

-----------------------------------------------------------------------------
(* What commands on several messages are put together from.                *)

(* The same messages and lists, with the same doubts.                      *)
Alike(w, x) ==
  /\ Sound(x) /\ DOMAIN x.mail = DOMAIN w.mail /\ x.high = w.high /\ x.doubt = w.doubt

(* The others are told of st.                                              *)
Told(w, st, x) ==
  /\ Alike(w, x) /\ x.mail = w.mail /\ x.copy = w.copy /\ x.sel = w.sel
  /\ \A k : k \notin DOMAIN st /\ RightAt(w, k) => RightAt(x, k)
  /\ \A k \in DOMAIN st : Agrees(st[k], w.mail[k]) => RightAt(x, k)

LEMMA ToldSound ==
  ASSUME NEW w, Sound(w), NEW st, IsMap(st, SUBSET Unsent),
         \A m \in DOMAIN st : m \in DOMAIN w.mail /\ m <= w.high,
         NEW x, x = propagate_status(w, st)
  PROVE  Told(w, st, x)
<1>1. Shape(w) /\ DOMAIN st \subseteq Ids
  BY DEF Sound, Typed, IsMap
<1>2. /\ Shape(x) /\ x.mail = w.mail /\ x.high = w.high /\ x.branch = w.branch
      /\ x.copy = w.copy /\ x.sel = w.sel /\ x.doubt = w.doubt
      /\ \A k : k \notin DOMAIN st => SameAt(w, x, k)
      /\ \A k \in DOMAIN st :
           k \in DOMAIN w.mail /\ Agrees(st[k], w.mail[k]) => RightAt(x, k)
      /\ DOMAIN x.cache \subseteq DOMAIN w.cache \cup DOMAIN st
      /\ DOMAIN x.counted \subseteq DOMAIN w.counted \cup DOMAIN st
  BY <1>1, ToldAll
<1>3. Typed(x, Unsent)
  BY ToldTyped DEF Sound
<1>4. Lists(x) /\ Forgotten(x)
  BY <1>2 DEF Sound, Lists, Forgotten
<1>5. \A k : k \notin DOMAIN st /\ RightAt(w, k) => RightAt(x, k)
  BY <1>2, SameIsRight
<1> QED  BY <1>2, <1>3, <1>4, <1>5 DEF Alike, Sound, Told

(* The statuses become f in the database.                                  *)
Stored(w, f, x) ==
  /\ Alike(w, x) /\ x.mail = f /\ x.copy = w.copy /\ x.sel = w.sel
  /\ \A k : (k \in DOMAIN f => f[k] = w.mail[k]) /\ RightAt(w, k) => RightAt(x, k)

LEMMA MailSound ==
  ASSUME NEW w, Sound(w), NEW f, IsMap(f, SUBSET Unsent), DOMAIN f = DOMAIN w.mail,
         NEW x, x = [w EXCEPT !.mail = f]
  PROVE  Stored(w, f, x)
<1>1. /\ Shape(x) /\ x.mail = f /\ x.cache = w.cache /\ x.high = w.high /\ x.counted = w.counted
      /\ x.branch = w.branch /\ x.copy = w.copy /\ x.sel = w.sel /\ x.doubt = w.doubt
  BY MailDoes DEF Sound, Typed
<1>2. Typed(x, Unsent)
  BY MailTyped DEF Sound
<1>3. Lists(x) /\ Forgotten(x)
  BY <1>1 DEF Sound, Lists, Forgotten
<1>4. \A k : (k \in DOMAIN f => f[k] = w.mail[k]) /\ RightAt(w, k) => RightAt(x, k)
  BY <1>1 DEF RightAt
<1> QED  BY <1>1, <1>2, <1>3, <1>4 DEF Alike, Sound, Stored

(* The page p has the statuses st of the database.                         *)
Copied(w, p, st, x) ==
  /\ Alike(w, x) /\ x.mail = w.mail /\ x.sel = w.sel
  /\ \A q \in Pages : DOMAIN x.copy[q] = DOMAIN w.copy[q]
  /\ \A m \in DOMAIN st : x.copy[p][m].orig = st[m]
  /\ \A m \in DOMAIN w.copy[p] \ DOMAIN st : x.copy[p][m] = w.copy[p][m]
  /\ \A k : RightAt(w, k) => RightAt(x, k)

LEMMA CopySound ==
  ASSUME NEW w, Sound(w), NEW p \in Pages, NEW st, IsMap(st, SUBSET Unsent),
         DOMAIN st \subseteq DOMAIN w.copy[p], NEW x, x = Copy(w, p, st)
  PROVE  Copied(w, p, st, x)
<1>1. Shape(w) /\ Typed(w, Unsent)
  BY DEF Sound, Typed
<1>2. /\ Shape(x) /\ x.mail = w.mail /\ x.cache = w.cache /\ x.high = w.high
      /\ x.counted = w.counted /\ x.branch = w.branch /\ x.sel = w.sel /\ x.doubt = w.doubt
      /\ \A q \in Pages : DOMAIN x.copy[q] = DOMAIN w.copy[q]
  BY <1>1, CopyAll
<1>3. /\ \A q \in Pages \ {p} : x.copy[q] = w.copy[q]
      /\ DOMAIN x.copy[p] = DOMAIN w.copy[p] \cup DOMAIN st
      /\ \A m \in DOMAIN st : x.copy[p][m] = [now |-> st[m], orig |-> st[m]]
      /\ \A m \in DOMAIN w.copy[p] \ DOMAIN st : x.copy[p][m] = w.copy[p][m]
  BY <1>1, CopyDoes
<1>4. Typed(x, Unsent)
  BY <1>1, CopyTyped
<1>5. Lists(x)
  <2>1. SUFFICES ASSUME NEW q \in Pages, NEW m \in DOMAIN x.copy[q]
                 PROVE  m \in DOMAIN x.mail /\ m <= x.high /\ x.copy[q][m].orig \subseteq x.copy[q][m].now
    BY DEF Lists
  <2>2. /\ m \in DOMAIN w.copy[q] /\ m \in DOMAIN w.mail /\ m <= w.high
        /\ w.copy[q][m].orig \subseteq w.copy[q][m].now
    BY <1>2, <2>1 DEF Sound, Lists
  <2>3. CASE q = p /\ m \in DOMAIN st
    <3>1. x.copy[q][m] = [now |-> st[m], orig |-> st[m]]
      BY <1>3, <2>3
    <3> QED  BY <1>2, <2>2, <3>1
  <2>4. CASE ~(q = p /\ m \in DOMAIN st)
    <3>1. x.copy[q][m] = w.copy[q][m]
      BY <1>3, <2>2, <2>4
    <3> QED  BY <1>2, <2>2, <3>1
  <2> QED  BY <2>3, <2>4
<1>6. Forgotten(x) /\ \A k : RightAt(w, k) => RightAt(x, k)
  BY <1>2 DEF Sound, Forgotten, RightAt
<1>7. /\ \A m \in DOMAIN st : x.copy[p][m].orig = st[m]
      /\ \A m \in DOMAIN w.copy[p] \ DOMAIN st : x.copy[p][m] = w.copy[p][m]
  <2>1. ASSUME NEW m \in DOMAIN st PROVE x.copy[p][m].orig = st[m]
    <3>1. x.copy[p][m] = [now |-> st[m], orig |-> st[m]]
      BY <1>3, <2>1
    <3> QED  BY <3>1
  <2> QED  BY <1>3, <2>1
<1> QED  BY <1>2, <1>4, <1>5, <1>6, <1>7 DEF Alike, Sound, Copied

(* Messages of which nothing is known.                                     *)
Doubted(w, S, x) ==
  /\ Sound(x) /\ x.mail = w.mail /\ x.high = w.high /\ x.copy = w.copy /\ x.sel = w.sel
  /\ x.doubt = w.doubt \cup S /\ \A k : RightAt(w, k) => RightAt(x, k)

LEMMA DoubtSound ==
  ASSUME NEW w, Sound(w), NEW S \in SUBSET Ids, NEW x, x = Doubt(w, S)
  PROVE  Doubted(w, S, x)
<1>1. /\ Shape(x) /\ x.mail = w.mail /\ x.cache = w.cache /\ x.high = w.high
      /\ x.counted = w.counted /\ x.branch = w.branch /\ x.copy = w.copy /\ x.sel = w.sel
      /\ x.doubt = w.doubt \cup S
  BY DoubtDoes DEF Sound, Typed
<1>2. Typed(x, Unsent)
  BY DoubtTyped DEF Sound
<1> QED  BY <1>1, <1>2 DEF Sound, Lists, Forgotten, RightAt, Doubted

(* Messages leave some lists.                                              *)
Removed(w, P, S, x) ==
  /\ Alike(w, x) /\ x.mail = w.mail /\ \A k : RightAt(w, k) => RightAt(x, k)
  /\ \A q \in Pages : DOMAIN x.copy[q] \subseteq DOMAIN w.copy[q]
  /\ \A q \in Pages \cap P : DOMAIN x.copy[q] = DOMAIN w.copy[q] \ S

LEMMA RemoveSound ==
  ASSUME NEW w, Sound(w), NEW P, NEW S, NEW x, x = remove_msgs(w, P, S)
  PROVE  Removed(w, P, S, x)
<1>1. /\ Shape(x) /\ x.mail = w.mail /\ x.cache = w.cache /\ x.high = w.high
      /\ x.counted = w.counted /\ x.branch = w.branch /\ x.doubt = w.doubt
      /\ \A q \in Pages \ P : x.copy[q] = w.copy[q] /\ x.sel[q] = w.sel[q]
      /\ \A q \in Pages \cap P :
           /\ DOMAIN x.copy[q] = DOMAIN w.copy[q] \ S /\ x.sel[q] = w.sel[q] \ S
           /\ \A m \in DOMAIN x.copy[q] : x.copy[q][m] = w.copy[q][m]
  BY RemoveDoes DEF Sound, Typed
<1>2. Typed(x, Unsent)
  BY RemoveTyped DEF Sound
<1>3. \A q \in Pages : DOMAIN x.copy[q] \subseteq DOMAIN w.copy[q]
  BY <1>1
<1>4. Lists(x)
  BY <1>1 DEF Sound, Lists
<1>5. Forgotten(x) /\ \A k : RightAt(w, k) => RightAt(x, k)
  BY <1>1 DEF Sound, Forgotten, RightAt
<1> QED  BY <1>1, <1>2, <1>3, <1>4, <1>5 DEF Alike, Sound, Removed

(* Archived or trashed, what a page remembers is counted like what is.     *)
LEMMA OutAgrees ==
  ASSUME NEW s, NEW t, NEW b, b \cap {"archived", "trashed"} # {}
  PROVE  Agrees(s \cup b, t \cup b)
BY DEF Agrees, Unread, Unprocessed, Current

LEMMA SameAgrees ==
  ASSUME NEW s
  PROVE  Agrees(s, s)
BY DEF Agrees

(* l, what a page shows of S, and st, the same with b.                     *)
Shows(S, l, b, st) ==
  /\ IsMap(l, SUBSET Unsent) /\ DOMAIN l = S
  /\ IsMap(st, SUBSET Unsent) /\ DOMAIN st = S
  /\ \A m \in S : st[m] = l[m] \cup b

LEMMA ListedSound ==
  ASSUME NEW w, Sound(w), NEW p \in Pages, NEW S \in SUBSET DOMAIN w.copy[p],
         NEW l, l = Listed(w, p, S), NEW b \in SUBSET Unsent, NEW st, st = Add(l, S, b)
  PROVE  Shows(S, l, b, st)
<1>1. Typed(w, Unsent)
  BY DEF Sound
<1>2. IsMap(Listed(w, p, S), SUBSET Unsent) /\ DOMAIN Listed(w, p, S) = S
  BY <1>1, ListedTyped
<1>3. IsMap(st, SUBSET Unsent) /\ DOMAIN st = DOMAIN l
  BY <1>2, AddTyped
<1>4. \A m \in S : st[m] = l[m] \cup b
  BY <1>2 DEF Add
<1> QED  BY <1>2, <1>3, <1>4 DEF Shows

(* f, what the database has when the bits b are added to the messages S.   *)
Added(w, S, b, f) ==
  /\ IsMap(f, SUBSET Unsent) /\ DOMAIN f = DOMAIN w.mail
  /\ \A k \in DOMAIN f : w.mail[k] \subseteq f[k]
  /\ \A k \in DOMAIN f \ S : f[k] = w.mail[k]
  /\ \A k \in DOMAIN f \cap S : f[k] = w.mail[k] \cup b

LEMMA AddSound ==
  ASSUME NEW w, Sound(w), NEW S, NEW b \in SUBSET Unsent, NEW f, f = Add(w.mail, S, b)
  PROVE  Added(w, S, b, f)
<1>1. IsMap(w.mail, SUBSET Unsent)
  BY DEF Sound, Typed
<1>2. IsMap(f, SUBSET Unsent) /\ DOMAIN f = DOMAIN w.mail
  BY <1>1, AddTyped
<1>3. \A k \in DOMAIN w.mail : f[k] = IF k \in S THEN w.mail[k] \cup b ELSE w.mail[k]
  BY DEF Add
<1> QED  BY <1>2, <1>3 DEF Added

LEMMA OffFollows ==
  ASSUME "read" \notin Faults, NEW w, Sound(w), NEW p \in Pages,
         NEW f, IsMap(f, SUBSET Unsent), DOMAIN f = DOMAIN w.mail,
         \A k \in DOMAIN f : w.mail[k] \subseteq f[k],
         NEW st, IsMap(st, SUBSET Unsent), DOMAIN st \subseteq DOMAIN w.copy[p],
         \A k \in DOMAIN f \ DOMAIN st : f[k] = w.mail[k],
         \A k \in DOMAIN st : Agrees(st[k], f[k]),
         NEW x \in AfterRemoval(
           remove_msgs(propagate_status([w EXCEPT !.mail = f], st), {p}, DOMAIN st), p)
  PROVE  Leads(w, x, p)
<1>1. PICK a : a = [w EXCEPT !.mail = f]
  OBVIOUS
<1>2. PICK b : b = propagate_status(a, st)
  OBVIOUS
<1>3. PICK c : c = remove_msgs(b, {p}, DOMAIN st)
  OBVIOUS
<1>4. x \in AfterRemoval(c, p)
  BY <1>1, <1>2, <1>3
<1>5. Stored(w, f, a)
  BY <1>1, MailSound
<1>6. Sound(a) /\ \A k \in DOMAIN st : k \in DOMAIN a.mail /\ k <= a.high
  BY <1>5, SoundAt DEF Stored, Alike
<1>7. Told(a, st, b)
  BY <1>2, <1>6, ToldSound
<1>8. Sound(b)
  BY <1>7 DEF Told, Alike
<1>9. Removed(b, {p}, DOMAIN st, c)
  BY <1>3, <1>8, RemoveSound
<1>10. Sound(c)
  BY <1>9 DEF Removed, Alike
<1>11. Leads(c, x, p)
  BY <1>4, <1>10, RemovalFollows
<1>12. c.mail = f /\ c.doubt = w.doubt
  BY <1>5, <1>7, <1>9 DEF Stored, Told, Removed, Alike
<1>13. Gains(w, x)
  BY <1>11, <1>12 DEF Gains, Leads
<1>14. ASSUME NEW k \in Ids \ x.doubt, RightAt(w, k) PROVE RightAt(x, k)
  <2>1. RightAt(b, k)
    <3>1. CASE k \in DOMAIN st
      BY <1>5, <1>7, <3>1 DEF Stored, Told
    <3>2. CASE k \notin DOMAIN st
      BY <1>5, <1>7, <1>14, <3>2 DEF Stored, Told
    <3> QED  BY <3>1, <3>2
  <2>2. RightAt(c, k)
    BY <1>9, <2>1 DEF Removed
  <2> QED  BY <1>11, <1>14, <2>2 DEF Leads
<1> QED  BY <1>11, <1>12, <1>13, <1>14 DEF Leads

-----------------------------------------------------------------------------
(* The commands on several messages.                                       *)

LEMMA ArchiveMultiKeeps ==
  ASSUME StatusInv, NEW v \in Windows, archive_multi(v)
  PROVE  Keeps(cur[v]) /\ Gains(world, world')
<1>1. PICK p, S, bits, l, st, f :
        /\ p = cur[v] /\ S = world.sel[p] /\ bits = {"archived", "read"}
        /\ l = Listed(world, p, S) /\ st = Add(l, S, bits) /\ f = Add(world.mail, S, bits)
  OBVIOUS
<1>2. PICK a : a = [world EXCEPT !.mail = f]
  OBVIOUS
<1>3. PICK c : c = Copy(a, p, st)
  OBVIOUS
<1>4. PICK b : b = propagate_status(world, l)
  OBVIOUS
<1>5. /\ ~Busy(v) /\ Cardinality(S) > 1
      /\ world' = propagate_status(c, st) \/ world' = Doubt(b, S)
  BY <1>1, <1>2, <1>3, <1>4 DEF archive_multi
<1>6. /\ p \in Pages /\ Sound(world) /\ \A k \in Ids \ world.doubt : RightAt(world, k)
      /\ S \in SUBSET DOMAIN world.copy[p] /\ S \in SUBSET Ids
  BY <1>1, <1>5, Idling
<1>7. ASSUME NEW m PROVE world.sel[p] # {m}
  <2>1. Cardinality({m}) = 1
    BY FS_Singleton
  <2>2. S # {m}
    BY <1>5, <2>1
  <2> QED  BY <1>1, <2>2
<1>8. bits \in SUBSET Unsent /\ bits \cap {"archived", "trashed"} # {}
  BY <1>1 DEF Unsent, Bits
<1>9. Shows(S, l, bits, st) /\ Added(world, S, bits, f)
  BY <1>1, <1>6, <1>8, ListedSound, AddSound
<1>10. \A m \in S : m \in DOMAIN world.mail /\ m <= world.high
  BY <1>6, SoundAt
<1>11. CASE world' = propagate_status(c, st)
  <2>1. Stored(world, f, a)
    BY <1>2, <1>6, <1>9, MailSound DEF Added
  <2>2. Sound(a) /\ DOMAIN st \subseteq DOMAIN a.copy[p]
    BY <1>6, <1>9, <2>1 DEF Stored, Alike, Shows
  <2>3. Copied(a, p, st, c)
    BY <1>3, <1>6, <1>9, <2>2, CopySound DEF Shows
  <2>4. Sound(c) /\ \A m \in DOMAIN st : m \in DOMAIN c.mail /\ m <= c.high
    BY <1>9, <1>10, <2>1, <2>3 DEF Stored, Copied, Alike, Shows, Added
  <2>5. Told(c, st, world')
    BY <1>9, <1>11, <2>4, ToldSound DEF Shows
  <2>6. world'.mail = f /\ world'.doubt = world.doubt /\ world'.sel = world.sel
    BY <2>1, <2>3, <2>5 DEF Stored, Copied, Told, Alike
  <2>7. ASSUME NEW k \in Ids \ world'.doubt PROVE RightAt(world', k)
    <3>1. RightAt(world, k)
      BY <1>6, <2>6, <2>7
    <3>2. CASE k \in S
      <4>1. c.mail[k] = world.mail[k] \cup bits
        BY <1>9, <1>10, <2>1, <2>3, <3>2 DEF Stored, Copied, Added
      <4>2. Agrees(l[k] \cup bits, world.mail[k] \cup bits)
        BY <1>8, OutAgrees
      <4> QED  BY <1>9, <2>5, <3>2, <4>1, <4>2 DEF Told, Shows
    <3>3. CASE k \notin S
      <4>1. RightAt(c, k)
        BY <1>9, <2>1, <2>3, <3>1, <3>3 DEF Stored, Copied, Added
      <4> QED  BY <1>9, <2>5, <3>3, <4>1 DEF Told, Shows
    <3> QED  BY <3>2, <3>3
  <2>8. Fresh(world', p)
    BY <1>7, <2>6 DEF Fresh
  <2>9. Gains(world, world')
    BY <1>9, <2>6 DEF Gains, Added
  <2> QED  BY <1>1, <2>5, <2>7, <2>8, <2>9 DEF Keeps, Told, Alike, Sound, Right
<1>12. CASE world' = Doubt(b, S)
  <2>1. Told(world, l, b)
    BY <1>4, <1>6, <1>9, <1>10, ToldSound DEF Shows
  <2>2. Doubted(b, S, world')
    BY <1>6, <1>12, <2>1, DoubtSound DEF Told, Alike
  <2>3. /\ world'.mail = world.mail /\ world'.sel = world.sel
        /\ world'.doubt = world.doubt \cup S
    BY <2>1, <2>2 DEF Told, Alike, Doubted
  <2>4. ASSUME NEW k \in Ids \ world'.doubt PROVE RightAt(world', k)
    <3>1. RightAt(world, k) /\ k \notin S
      BY <1>6, <2>3, <2>4
    <3> QED  BY <1>9, <2>1, <2>2, <3>1 DEF Told, Doubted, Shows
  <2>5. Fresh(world', p) /\ Gains(world, world')
    BY <1>7, <2>3 DEF Fresh, Gains
  <2> QED  BY <1>1, <2>2, <2>4, <2>5 DEF Keeps, Doubted, Sound, Right
<1> QED  BY <1>5, <1>11, <1>12

LEMMA TrashKeeps ==
  ASSUME "read" \notin Faults, StatusInv, NEW v \in Windows, msg_trash(v)
  PROVE  Keeps(cur[v]) /\ Gains(world, world')
<1> DEFINE Bit(T) == [world EXCEPT !.mail = Add(@, T, {"trashed"})]
           Said(T) == [m \in T |-> IF m \in DOMAIN world.mail THEN Bit(T).mail[m] ELSE {}]
           Off(w, st, q) == remove_msgs(propagate_status(w, st), {q}, DOMAIN st)
<1>1. PICK p, S, b, l, st :
        /\ p = cur[v] /\ S = world.sel[p] /\ b = {"trashed"}
        /\ l = Listed(world, p, S) /\ st = Add(l, S, b)
  OBVIOUS
<1>2. \/ \E T \in SUBSET S : world' \in AfterRemoval(Off(Bit(T), Said(T), p), p)
      \/ world' \in AfterRemoval(Off(Bit(S), st, p), p)
      \/ world' \in AfterRemoval(Doubt(Off(world, l, p), S), p)
  BY <1>1 DEF msg_trash
<1>3. ~Busy(v)
  BY DEF msg_trash
<1>4. /\ p \in Pages /\ Sound(world) /\ \A k \in Ids \ world.doubt : RightAt(world, k)
      /\ S \in SUBSET DOMAIN world.copy[p] /\ S \in SUBSET Ids
  BY <1>1, <1>3, Idling
<1>5. b \in SUBSET Unsent /\ b \cap {"archived", "trashed"} # {}
  BY <1>1 DEF Unsent, Bits
<1>6. Shows(S, l, b, st)
  BY <1>1, <1>4, <1>5, ListedSound
<1>7. \A m \in S : m \in DOMAIN world.mail /\ m <= world.high
  BY <1>4, SoundAt
<1>8. ASSUME Leads(world, world', p) PROVE Keeps(cur[v]) /\ Gains(world, world')
  BY <1>1, <1>4, <1>8 DEF Leads, Keeps, Sound, Right
<1>9. ASSUME NEW T \in SUBSET S, NEW f, f = Add(world.mail, T, b),
             NEW to, IsMap(to, SUBSET Unsent), DOMAIN to = T, \A k \in T : Agrees(to[k], f[k]),
             world' \in AfterRemoval(Off(Bit(T), to, p), p)
      PROVE  Keeps(cur[v]) /\ Gains(world, world')
  <2>1. Added(world, T, b, f)
    BY <1>4, <1>5, <1>9, AddSound
  <2>2. /\ IsMap(f, SUBSET Unsent) /\ DOMAIN f = DOMAIN world.mail
        /\ \A k \in DOMAIN f : world.mail[k] \subseteq f[k]
        /\ \A k \in DOMAIN f \ DOMAIN to : f[k] = world.mail[k]
        /\ DOMAIN to \subseteq DOMAIN world.copy[p]
    BY <1>4, <1>9, <2>1 DEF Added
  <2>3. world' \in AfterRemoval(
          remove_msgs(propagate_status([world EXCEPT !.mail = f], to), {p}, DOMAIN to), p)
    BY <1>1, <1>9
  <2>4. Leads(world, world', p)
    BY <1>4, <1>9, <2>2, <2>3, OffFollows
  <2> QED  BY <1>8, <2>4
<1>10. CASE \E T \in SUBSET S : world' \in AfterRemoval(Off(Bit(T), Said(T), p), p)
  <2>1. PICK T \in SUBSET S : world' \in AfterRemoval(Off(Bit(T), Said(T), p), p)
    BY <1>10
  <2>2. PICK f : f = Add(world.mail, T, b)
    OBVIOUS
  <2>3. Bit(T).mail = f
    BY <1>1, <1>4, <2>2, MailDoes DEF Sound, Typed
  <2>4. PICK to : to = Said(T)
    OBVIOUS
  <2>5. DOMAIN to = T /\ \A k \in T : to[k] = f[k]
    BY <1>7, <2>3, <2>4
  <2>6. Added(world, T, b, f)
    BY <1>4, <1>5, <2>2, AddSound
  <2>7. IsMap(to, SUBSET Unsent)
    BY <1>4, <1>7, <2>5, <2>6 DEF Added, IsMap
  <2>8. \A k \in T : Agrees(to[k], f[k])
    BY <2>5, SameAgrees
  <2>9. world' \in AfterRemoval(Off(Bit(T), to, p), p)
    BY <2>1, <2>4
  <2> HIDE DEF Said, Off, Bit
  <2> QED  BY <1>9, <2>2, <2>5, <2>7, <2>8, <2>9
<1>11. CASE world' \in AfterRemoval(Off(Bit(S), st, p), p)
  <2>1. PICK f : f = Add(world.mail, S, b)
    OBVIOUS
  <2>2. Added(world, S, b, f)
    BY <1>4, <1>5, <2>1, AddSound
  <2>3. ASSUME NEW k \in S PROVE Agrees(st[k], f[k])
    <3>1. f[k] = world.mail[k] \cup b /\ st[k] = l[k] \cup b
      BY <1>6, <1>7, <2>2 DEF Added, Shows
    <3>2. Agrees(l[k] \cup b, world.mail[k] \cup b)
      BY <1>5, OutAgrees
    <3> QED  BY <3>1, <3>2
  <2>4. IsMap(st, SUBSET Unsent) /\ DOMAIN st = S
    BY <1>6 DEF Shows
  <2> HIDE DEF Said, Off, Bit
  <2> QED  BY <1>9, <1>11, <2>1, <2>3, <2>4
<1>12. CASE world' \in AfterRemoval(Doubt(Off(world, l, p), S), p)
  <2>1. PICK a : a = propagate_status(world, l)
    OBVIOUS
  <2>2. PICK c : c = remove_msgs(a, {p}, DOMAIN l)
    OBVIOUS
  <2>3. PICK d : d = Doubt(c, S)
    OBVIOUS
  <2>4. world' \in AfterRemoval(d, p)
    BY <1>12, <2>1, <2>2, <2>3
  <2>5. Told(world, l, a)
    BY <1>4, <1>6, <1>7, <2>1, ToldSound DEF Shows
  <2>6. Removed(a, {p}, DOMAIN l, c)
    BY <2>2, <2>5, RemoveSound DEF Told, Alike
  <2>7. Doubted(c, S, d)
    BY <1>4, <2>3, <2>6, DoubtSound DEF Removed, Alike
  <2>8. Leads(d, world', p)
    BY <1>4, <2>4, <2>7, RemovalFollows DEF Doubted
  <2>9. d.mail = world.mail /\ d.doubt = world.doubt \cup S
    BY <2>5, <2>6, <2>7 DEF Told, Removed, Doubted, Alike
  <2>10. ASSUME NEW k \in Ids \ world'.doubt PROVE RightAt(world', k)
    <3>1. k \notin S /\ RightAt(world, k)
      BY <1>4, <2>8, <2>9, <2>10 DEF Leads
    <3>2. RightAt(d, k)
      BY <1>6, <2>5, <2>6, <2>7, <3>1 DEF Told, Removed, Doubted, Shows
    <3> QED  BY <2>8, <2>10, <3>2 DEF Leads
  <2>11. Leads(world, world', p)
    BY <2>8, <2>9, <2>10 DEF Leads, Gains
  <2> QED  BY <1>8, <2>11
<1> QED  BY <1>2, <1>10, <1>11, <1>12

(* Messages leave the lists of the pages P, and nothing else changes.      *)
Cut(w, P, S, x) ==
  /\ Shape(x) /\ x.mail = w.mail /\ x.cache = w.cache /\ x.high = w.high
  /\ x.counted = w.counted /\ x.branch = w.branch /\ x.doubt = w.doubt
  /\ \A q \in Pages : /\ DOMAIN x.copy[q] = IF q \in P THEN DOMAIN w.copy[q] \ S ELSE DOMAIN w.copy[q]
                      /\ \A m \in DOMAIN x.copy[q] : x.copy[q][m] = w.copy[q][m]

LEMMA RemoveCuts ==
  ASSUME NEW w, Shape(w), NEW P, NEW S, NEW x, x = remove_msgs(w, P, S)
  PROVE  Cut(w, P, S, x)
<1>1. /\ Shape(x) /\ x.mail = w.mail /\ x.cache = w.cache /\ x.high = w.high
      /\ x.counted = w.counted /\ x.branch = w.branch /\ x.doubt = w.doubt
      /\ \A q \in Pages \ P : x.copy[q] = w.copy[q] /\ x.sel[q] = w.sel[q]
      /\ \A q \in Pages \cap P :
           /\ DOMAIN x.copy[q] = DOMAIN w.copy[q] \ S /\ x.sel[q] = w.sel[q] \ S
           /\ \A m \in DOMAIN x.copy[q] : x.copy[q][m] = w.copy[q][m]
  BY RemoveDoes
<1>2. ASSUME NEW q \in Pages
      PROVE  /\ DOMAIN x.copy[q] = IF q \in P THEN DOMAIN w.copy[q] \ S ELSE DOMAIN w.copy[q]
             /\ \A m \in DOMAIN x.copy[q] : x.copy[q][m] = w.copy[q][m]
  <2>1. CASE q \in P
    BY <1>1, <2>1
  <2>2. CASE q \notin P
    BY <1>1, <2>2
  <2> QED  BY <2>1, <2>2
<1> QED  BY <1>1, <1>2 DEF Cut

(* The messages are nowhere any more.                                      *)
Gone(w, S, x) ==
  /\ Sound(x) /\ DOMAIN x.mail = DOMAIN w.mail \ S /\ x.doubt = w.doubt
  /\ \A k \in DOMAIN x.mail : x.mail[k] = w.mail[k]
  /\ \A k : RightAt(w, k) => RightAt(x, k)

LEMMA GoneSound ==
  ASSUME NEW w, Sound(w), NEW p \in Pages, NEW S,
         NEW x, x = remove_msgs(propagate_deleted([w EXCEPT !.mail = Without(@, S)], p, S), {p}, S)
  PROVE  Gone(w, S, x)
<1>1. PICK f : f = Without(w.mail, S)
  OBVIOUS
<1>2. PICK a : a = [w EXCEPT !.mail = f]
  OBVIOUS
<1>3. PICK d : d = mail_deleted(a, S)
  OBVIOUS
<1>4. PICK e : e = remove_msgs(d, Pages \ {p}, S)
  OBVIOUS
<1>5. x = remove_msgs(e, {p}, S)
  BY <1>1, <1>2, <1>3, <1>4 DEF propagate_deleted
<1>6. Typed(w, Unsent) /\ Shape(w)
  BY DEF Sound, Typed
<1>7. DOMAIN f = DOMAIN w.mail \ S /\ \A k \in DOMAIN f : f[k] = w.mail[k]
  BY <1>1 DEF Without, Restrict
<1>8. IsMap(f, SUBSET Unsent)
  BY <1>6, <1>7 DEF Typed, IsMap
<1>9. /\ Shape(a) /\ a.mail = f /\ a.cache = w.cache /\ a.high = w.high /\ a.counted = w.counted
      /\ a.branch = w.branch /\ a.copy = w.copy /\ a.sel = w.sel /\ a.doubt = w.doubt
  BY <1>2, <1>6, MailDoes
<1>10. /\ Shape(d) /\ d.mail = a.mail /\ d.high = a.high /\ d.branch = a.branch
       /\ d.copy = a.copy /\ d.sel = a.sel /\ d.doubt = a.doubt
       /\ d.cache = Without(a.cache, S) /\ d.counted = Without(a.counted, S)
  BY <1>3, <1>9, DeletedDoes
<1>11. Cut(d, Pages \ {p}, S, e)
  BY <1>4, <1>10, RemoveCuts
<1>12. Cut(e, {p}, S, x)
  <2>1. Shape(e)
    BY <1>11 DEF Cut
  <2> QED  BY <1>5, <2>1, RemoveCuts
<1>13. Typed(x, Unsent)
  <2>1. Typed(a, Unsent)
    BY <1>2, <1>6, <1>8, MailTyped
  <2>2. Typed(d, Unsent)
    BY <1>3, <2>1, DeletedTyped
  <2>3. Typed(e, Unsent)
    BY <1>4, <2>2, RemoveTyped
  <2> QED  BY <1>5, <2>3, RemoveTyped
<1>14. ASSUME NEW q \in Pages
       PROVE  /\ DOMAIN x.copy[q] = DOMAIN w.copy[q] \ S
              /\ \A m \in DOMAIN x.copy[q] : x.copy[q][m] = w.copy[q][m]
  <2>1. d.copy = w.copy
    BY <1>9, <1>10
  <2>2. /\ DOMAIN e.copy[q] = IF q # p THEN DOMAIN w.copy[q] \ S ELSE DOMAIN w.copy[q]
        /\ \A m \in DOMAIN e.copy[q] : e.copy[q][m] = w.copy[q][m]
    BY <1>11, <2>1 DEF Cut
  <2>3. /\ DOMAIN x.copy[q] = IF q = p THEN DOMAIN e.copy[q] \ S ELSE DOMAIN e.copy[q]
        /\ \A m \in DOMAIN x.copy[q] : x.copy[q][m] = e.copy[q][m]
    BY <1>12 DEF Cut
  <2> QED  BY <2>2, <2>3
<1>15. /\ x.mail = f /\ x.high = w.high /\ x.branch = w.branch /\ x.doubt = w.doubt
       /\ x.cache = Without(w.cache, S) /\ x.counted = Without(w.counted, S)
  BY <1>9, <1>10, <1>11, <1>12 DEF Cut
<1>16. /\ DOMAIN x.cache = DOMAIN w.cache \ S /\ \A m \in DOMAIN x.cache : x.cache[m] = w.cache[m]
       /\ DOMAIN x.counted = DOMAIN w.counted \ S
       /\ \A m \in DOMAIN x.counted : x.counted[m] = w.counted[m]
  <2>1. ASSUME NEW g PROVE /\ DOMAIN Without(g, S) = DOMAIN g \ S
                           /\ \A m \in DOMAIN Without(g, S) : Without(g, S)[m] = g[m]
    BY DEF Without, Restrict
  <2>2. DOMAIN x.cache = DOMAIN w.cache \ S /\ \A m \in DOMAIN x.cache : x.cache[m] = w.cache[m]
    BY <1>15, <2>1
  <2>3. /\ DOMAIN x.counted = DOMAIN w.counted \ S
        /\ \A m \in DOMAIN x.counted : x.counted[m] = w.counted[m]
    BY <1>15, <2>1
  <2> QED  BY <2>2, <2>3
<1>17. Lists(x)
  <2>1. SUFFICES ASSUME NEW q \in Pages, NEW m \in DOMAIN x.copy[q]
                 PROVE  m \in DOMAIN x.mail /\ m <= x.high /\ x.copy[q][m].orig \subseteq x.copy[q][m].now
    BY DEF Lists
  <2>2. m \in DOMAIN w.copy[q] /\ m \notin S /\ x.copy[q][m] = w.copy[q][m]
    BY <1>14, <2>1
  <2>3. m \in DOMAIN w.mail /\ m <= w.high /\ w.copy[q][m].orig \subseteq w.copy[q][m].now
    BY <2>2 DEF Sound, Lists
  <2> QED  BY <1>7, <1>15, <2>2, <2>3
<1>18. Forgotten(x)
  BY <1>7, <1>15, <1>16 DEF Sound, Forgotten
<1>19. ASSUME NEW k, RightAt(w, k) PROVE RightAt(x, k)
  <2>1. CASE k \in S
    BY <1>7, <1>15, <1>16, <2>1 DEF RightAt
  <2>2. CASE k \notin S
    <3>1. SameAt(w, x, k)
      BY <1>7, <1>15, <1>16, <2>2 DEF SameAt
    <3> QED  BY <1>15, <1>19, <3>1, SameIsRight
  <2> QED  BY <2>1, <2>2
<1> QED  BY <1>7, <1>13, <1>15, <1>17, <1>18, <1>19 DEF Gone, Sound

LEMMA DeleteKeeps ==
  ASSUME "read" \notin Faults, StatusInv, NEW v \in Windows, msg_delete(v)
  PROVE  Keeps(cur[v]) /\ Gains(world, world')
<1>1. PICK p, S : p = cur[v] /\ S = world.sel[p]
  OBVIOUS
<1>2. /\ ~Busy(v)
      /\ \E T \in SUBSET S : world' \in AfterRemoval(
           remove_msgs(propagate_deleted([world EXCEPT !.mail = Without(@, T)], p, T), {p}, T), p)
  BY <1>1 DEF msg_delete
<1>3. PICK T \in SUBSET S : world' \in AfterRemoval(
        remove_msgs(propagate_deleted([world EXCEPT !.mail = Without(@, T)], p, T), {p}, T), p)
  BY <1>2
<1>4. PICK x : x = remove_msgs(propagate_deleted([world EXCEPT !.mail = Without(@, T)], p, T), {p}, T)
  OBVIOUS
<1>5. world' \in AfterRemoval(x, p)
  BY <1>3, <1>4
<1>6. p \in Pages /\ Sound(world) /\ \A k \in Ids \ world.doubt : RightAt(world, k)
  BY <1>1, <1>2, Idling
<1>7. Gone(world, T, x)
  BY <1>4, <1>6, GoneSound
<1>8. Leads(x, world', p)
  BY <1>5, <1>6, <1>7, RemovalFollows DEF Gone
<1>9. ASSUME NEW k \in Ids \ world'.doubt PROVE RightAt(world', k)
  BY <1>6, <1>7, <1>8, <1>9 DEF Gone, Leads
<1>10. Gains(world, world')
  BY <1>7, <1>8 DEF Gains, Gone, Leads
<1> QED  BY <1>1, <1>8, <1>9, <1>10 DEF Keeps, Leads, Sound, Right

LEMMA UntrashKeeps ==
  ASSUME StatusInv, NEW v \in Windows, msg_untrash(v)
  PROVE  Keeps(cur[v])
<1> DEFINE Bit(T) == [world EXCEPT !.mail = Clear(@, T, {"trashed"})]
           Said(T) == [m \in T |-> IF m \in DOMAIN world.mail THEN Bit(T).mail[m] ELSE {}]
           Shown(w, T, q) == propagate_status(Copy(w, q, Said(T)), Said(T))
<1>1. PICK p, S : /\ p = cur[v] /\ S = {m \in world.sel[p] : "trashed" \in world.copy[p][m].now}
                  /\ S # {}
                  /\ \/ world' = Shown(Bit(S), S, p)
                     \/ \E T \in SUBSET S : T # S /\ world' = Doubt(Shown(world, T, p), T)
  <2> DEFINE q == cur[v]
             R == {m \in world.sel[q] : "trashed" \in world.copy[q][m].now}
  <2>1. /\ R # {}
        /\ \/ world' = Shown(Bit(R), R, q)
           \/ \E T \in SUBSET R : T # R /\ world' = Doubt(Shown(world, T, q), T)
    BY DEF msg_untrash
  <2>2. q = cur[v] /\ R = {m \in world.sel[q] : "trashed" \in world.copy[q][m].now}
    OBVIOUS
  <2> HIDE DEF q, R, Shown, Bit
  <2> QED  BY <2>1, <2>2
<1>2. ~Busy(v)
  BY DEF msg_untrash
<1>3. /\ p \in Pages /\ Sound(world) /\ Fresh(world, p)
      /\ \A k \in Ids \ world.doubt : RightAt(world, k)
      /\ world.sel[p] \in SUBSET DOMAIN world.copy[p] /\ world.sel[p] \in SUBSET Ids
  BY <1>1, <1>2, Idling
<1>4. /\ S \subseteq DOMAIN world.copy[p] /\ S \subseteq Ids
      /\ \A m \in S : m \in DOMAIN world.mail /\ m <= world.high
  <2>1. S \subseteq DOMAIN world.copy[p] /\ S \subseteq Ids
    BY <1>1, <1>3
  <2> QED  BY <1>3, <2>1, SoundAt
<1>5. ASSUME NEW T \in SUBSET S, NEW f, f = Clear(world.mail, T, {"trashed"})
      PROVE  /\ Bit(T).mail = f /\ IsMap(f, SUBSET Unsent) /\ DOMAIN f = DOMAIN world.mail
             /\ \A k \in DOMAIN f \ T : f[k] = world.mail[k]
  <2>1. Bit(T).mail = f
    BY <1>3, <1>5, MailDoes DEF Sound, Typed
  <2>2. IsMap(world.mail, SUBSET Unsent)
    BY <1>3 DEF Sound, Typed
  <2>3. DOMAIN f = DOMAIN world.mail /\ \A k \in DOMAIN f : f[k] \subseteq world.mail[k]
    BY <1>5 DEF Clear
  <2>4. IsMap(f, SUBSET Unsent)
    BY <2>2, <2>3 DEF IsMap
  <2>5. \A k \in DOMAIN f \ T : f[k] = world.mail[k]
    BY <1>5 DEF Clear
  <2> QED  BY <2>1, <2>3, <2>4, <2>5
<1>6. ASSUME NEW T \in SUBSET S, NEW f, f = Clear(world.mail, T, {"trashed"}),
             NEW st, st = Said(T)
      PROVE  /\ IsMap(st, SUBSET Unsent) /\ DOMAIN st = T /\ \A k \in T : st[k] = f[k]
  <2>1. /\ Bit(T).mail = f /\ IsMap(f, SUBSET Unsent) /\ DOMAIN f = DOMAIN world.mail
    BY <1>5, <1>6
  <2>2. DOMAIN st = T /\ \A k \in T : st[k] = f[k]
    BY <1>4, <1>6, <2>1
  <2> QED  BY <1>4, <2>1, <2>2 DEF IsMap
<1>7. ASSUME NEW w, Sound(w), w.copy = world.copy, DOMAIN w.mail = DOMAIN world.mail, w.high = world.high,
             NEW T \in SUBSET S, NEW st, IsMap(st, SUBSET Unsent), DOMAIN st = T,
             NEW c, c = Copy(w, p, st), NEW x, x = propagate_status(c, st)
      PROVE  Copied(w, p, st, c) /\ Told(c, st, x)
  <2>1. Copied(w, p, st, c)
    BY <1>3, <1>4, <1>7, CopySound
  <2>2. Sound(c) /\ \A m \in DOMAIN st : m \in DOMAIN c.mail /\ m <= c.high
    BY <1>4, <1>7, <2>1 DEF Copied, Alike
  <2> QED  BY <1>7, <2>1, <2>2, ToldSound
<1>8. CASE world' = Shown(Bit(S), S, p)
  <2>1. PICK f, st : f = Clear(world.mail, S, {"trashed"}) /\ st = Said(S)
    OBVIOUS
  <2>2. PICK a : a = [world EXCEPT !.mail = f]
    OBVIOUS
  <2>3. PICK c : c = Copy(a, p, st)
    OBVIOUS
  <2>4. world' = propagate_status(c, st)
    BY <1>8, <2>1, <2>2, <2>3
  <2>5. /\ IsMap(f, SUBSET Unsent) /\ DOMAIN f = DOMAIN world.mail
        /\ \A k \in DOMAIN f \ S : f[k] = world.mail[k]
    BY <1>5, <2>1
  <2>6. IsMap(st, SUBSET Unsent) /\ DOMAIN st = S /\ \A k \in S : st[k] = f[k]
    <3>1. S \in SUBSET S /\ f = Clear(world.mail, S, {"trashed"}) /\ st = Said(S)
      BY <2>1
    <3> HIDE DEF Said
    <3>2. IsMap(st, SUBSET Unsent)
      BY <1>6, <3>1
    <3>3. DOMAIN st = S
      BY <1>6, <3>1
    <3>4. \A k \in S : st[k] = f[k]
      BY <1>6, <3>1
    <3> QED  BY <3>2, <3>3, <3>4
  <2>7. Stored(world, f, a)
    BY <1>3, <2>2, <2>5, MailSound
  <2>8. Sound(a) /\ a.copy = world.copy /\ DOMAIN a.mail = DOMAIN world.mail /\ a.high = world.high
    BY <2>7 DEF Stored, Alike
  <2>9. Copied(a, p, st, c) /\ Told(c, st, world')
    BY <1>7, <2>3, <2>4, <2>6, <2>8
  <2>10. world'.mail = f /\ world'.doubt = world.doubt /\ world'.sel = world.sel /\ world'.copy = c.copy
    BY <2>7, <2>9 DEF Stored, Copied, Told, Alike
  <2>11. ASSUME NEW k \in Ids \ world'.doubt PROVE RightAt(world', k)
    <3>1. CASE k \in S
      <4>1. st[k] = c.mail[k]
        BY <2>6, <2>7, <2>9, <3>1 DEF Stored, Copied
      <4>2. Agrees(st[k], c.mail[k])
        BY <4>1, SameAgrees
      <4> QED  BY <2>6, <2>9, <3>1, <4>2 DEF Told
    <3>2. CASE k \notin S
      <4>1. RightAt(world, k)
        BY <1>3, <2>10, <2>11
      <4>2. RightAt(c, k)
        BY <2>5, <2>7, <2>9, <3>2, <4>1 DEF Stored, Copied
      <4> QED  BY <2>6, <2>9, <3>2, <4>2 DEF Told
    <3> QED  BY <3>1, <3>2
  <2>12. ASSUME NEW m \in DOMAIN world'.mail, world'.sel[p] = {m}
         PROVE  world'.copy[p][m].orig = world'.mail[m]
    <3>1. m \in S
      BY <1>1, <1>2, <2>10, <2>12
    <3> QED  BY <2>6, <2>9, <2>10, <3>1 DEF Copied
  <2> QED  BY <1>1, <2>9, <2>11, <2>12 DEF Keeps, Told, Alike, Sound, Right, Fresh
<1>9. CASE \E T \in SUBSET S : T # S /\ world' = Doubt(Shown(world, T, p), T)
  <2>1. PICK T \in SUBSET S : T # S /\ world' = Doubt(Shown(world, T, p), T)
    BY <1>9
  <2>2. PICK f, st : f = Clear(world.mail, T, {"trashed"}) /\ st = Said(T)
    OBVIOUS
  <2>3. PICK c : c = Copy(world, p, st)
    OBVIOUS
  <2>4. PICK x : x = propagate_status(c, st)
    OBVIOUS
  <2>5. world' = Doubt(x, T)
    BY <2>1, <2>2, <2>3, <2>4
  <2>6. IsMap(st, SUBSET Unsent) /\ DOMAIN st = T
    BY <1>6, <2>2
  <2>7. Copied(world, p, st, c) /\ Told(c, st, x)
    BY <1>3, <1>7, <2>3, <2>4, <2>6
  <2>8. T \in SUBSET Ids
    BY <1>4
  <2>9. Doubted(x, T, world')
    BY <2>5, <2>7, <2>8, DoubtSound DEF Told, Alike
  <2>10. /\ world'.mail = world.mail /\ world'.doubt = world.doubt \cup T
         /\ world'.sel = world.sel /\ world'.copy = c.copy
    BY <2>7, <2>9 DEF Copied, Told, Alike, Doubted
  <2>11. ASSUME NEW k \in Ids \ world'.doubt PROVE RightAt(world', k)
    <3>1. RightAt(world, k) /\ k \notin T
      BY <1>3, <2>10, <2>11
    <3> QED  BY <2>6, <2>7, <2>9, <3>1 DEF Copied, Told, Doubted
  <2>12. ASSUME NEW m \in DOMAIN world'.mail, world'.sel[p] = {m}
         PROVE  world'.copy[p][m].orig = world'.mail[m]
    <3>1. m \notin T
      BY <1>1, <2>1, <2>10, <2>12
    <3>2. c.copy[p][m] = world.copy[p][m]
      BY <1>3, <2>6, <2>7, <2>10, <2>12, <3>1 DEF Copied
    <3> QED  BY <1>3, <2>10, <2>12, <3>2 DEF Fresh
  <2> QED  BY <1>1, <2>9, <2>11, <2>12 DEF Keeps, Doubted, Sound, Right, Fresh
<1> QED  BY <1>1, <1>8, <1>9

-----------------------------------------------------------------------------
(* The other steps.                                                        *)

(* The database, the lists and the selections stay.                        *)
Still == world'.mail = world.mail /\ world'.copy = world.copy /\ world'.sel = world.sel

(* After the quick selection is read again, all is right.                  *)
AllRight(x) == Forgotten(x) /\ \A k \in Ids : RightAt(x, k)

LEMMA TagMapRight ==
  ASSUME NEW w, Shape(w), IsMap(w.mail, SUBSET Unsent), NEW x, x = fetch_tag_map(w)
  PROVE  AllRight(x)
<1>1. DOMAIN w.mail \subseteq Ids
  BY DEF IsMap
<1>2. PICK c : c = CurrentMail(w)
  OBVIOUS
<1>3. /\ Shape(x) /\ x.mail = w.mail /\ x.copy = w.copy /\ x.sel = w.sel /\ x.doubt = {}
      /\ x.cache = CurrentMail(w) /\ x.counted = CurrentMail(w)
      /\ x.branch = (DOMAIN CurrentMail(w) # {})
      /\ x.high \in {w.high} \cup DOMAIN CurrentMail(w) /\ w.high <= x.high
      /\ \A m \in DOMAIN CurrentMail(w) : m <= x.high
      /\ \A m : m \in DOMAIN CurrentMail(w) <=>
                  m \in DOMAIN w.mail /\ Current(w.mail[m]) /\ "sent" \notin w.mail[m]
      /\ \A m \in DOMAIN CurrentMail(w) : CurrentMail(w)[m] = w.mail[m]
  BY <1>1, TagMapDoes
<1>4. ASSUME NEW m \in DOMAIN w.mail PROVE "sent" \notin w.mail[m]
  BY DEF IsMap, Unsent
<1>5. /\ x.mail = w.mail /\ x.cache = c /\ x.counted = c
      /\ \A m \in DOMAIN c : m <= x.high /\ c[m] = w.mail[m]
      /\ \A m : m \in DOMAIN c <=> m \in DOMAIN w.mail /\ Current(w.mail[m])
  BY <1>2, <1>3, <1>4
<1>6. \A k : RightAt(x, k)
  BY <1>5 DEF RightAt
<1>7. Forgotten(x)
  BY <1>5 DEF Forgotten
<1> QED  BY <1>6, <1>7 DEF AllRight

LEMMA RefreshKeeps ==
  ASSUME "read" \notin Faults, StatusInv, refresh_quick_selection
  PROVE  Lists(world') /\ Forgotten(world') /\ Right(world') /\ Still
<1>1. world' = fetch_tag_map(world)
  BY DEF refresh_quick_selection
<1>2. Shape(world) /\ IsMap(world.mail, SUBSET Unsent) /\ DOMAIN world.mail \subseteq Ids
  BY DEF StatusInv, TypeInv, Typed, IsMap
<1>3. AllRight(world')
  BY <1>1, <1>2, TagMapRight
<1>4. /\ Shape(world') /\ world'.mail = world.mail /\ world'.copy = world.copy /\ world'.sel = world.sel
      /\ world'.high \in {world.high} \cup DOMAIN CurrentMail(world) /\ world.high <= world'.high
  BY <1>1, <1>2, TagMapDoes
<1>5. Lists(world')
  <2>1. SUFFICES ASSUME NEW q \in Pages, NEW m \in DOMAIN world'.copy[q]
                 PROVE  /\ m \in DOMAIN world'.mail /\ m <= world'.high
                        /\ world'.copy[q][m].orig \subseteq world'.copy[q][m].now
    BY DEF Lists
  <2>2. /\ m \in DOMAIN world.mail /\ m <= world.high
        /\ world.copy[q][m].orig \subseteq world.copy[q][m].now
    BY <1>4, <2>1 DEF StatusInv, Lists
  <2>3. m \in Int /\ world.high \in Int /\ world'.high \in Int
    BY <1>2, <1>4, <2>2, StatusAssumption DEF Shape, Ids
  <2> QED  BY <1>4, <2>2, <2>3
<1> QED  BY <1>3, <1>4, <1>5 DEF AllRight, Right, Still

LEMMA NewsKeeps ==
  ASSUME "read" \notin Faults, StatusInv, db_new_mail_notif
  PROVE  Lists(world') /\ Forgotten(world') /\ Right(world') /\ Still
<1>1. PICK R : R = {m \in DOMAIN world.mail : m > world.high /\ "archived" \notin world.mail[m]}
  OBVIOUS
<1>2. PICK st : st = Restrict(world.mail, R)
  OBVIOUS
<1>3. world' = mail_status_changed(world, st)
  BY <1>1, <1>2 DEF db_new_mail_notif
<1>4. Shape(world) /\ DOMAIN world.mail \subseteq Ids
  BY DEF StatusInv, TypeInv, Typed, IsMap
<1>5. DOMAIN st = R /\ R \subseteq DOMAIN world.mail /\ R \subseteq Ids /\ \A m \in R : st[m] = world.mail[m]
  BY <1>1, <1>2, <1>4 DEF Restrict
<1>6. /\ Shape(world') /\ world'.mail = world.mail /\ world'.branch = world.branch
      /\ world'.copy = world.copy /\ world'.sel = world.sel /\ world'.doubt = world.doubt
      /\ world'.cache = Over(st, world.cache)
      /\ world'.high \in {world.high} \cup DOMAIN st
      /\ world.high <= world'.high /\ \A m \in DOMAIN st : m <= world'.high
      /\ \A m \in DOMAIN st :
           IF Current(st[m])
           THEN world.branch => m \in DOMAIN world'.counted /\ world'.counted[m] = st[m]
           ELSE m \notin DOMAIN world'.counted
      /\ \A m : m \notin DOMAIN st => (m \in DOMAIN world'.counted <=> m \in DOMAIN world.counted)
      /\ \A m \in DOMAIN world.counted \ DOMAIN st : world'.counted[m] = world.counted[m]
      /\ DOMAIN world'.counted \subseteq DOMAIN world.counted \cup DOMAIN st
      /\ \A m \in DOMAIN world'.counted :
           \/ m \in DOMAIN st /\ world'.counted[m] = st[m]
           \/ m \in DOMAIN world.counted /\ world'.counted[m] = world.counted[m]
  BY <1>3, <1>4, <1>5, ChangedDoes
<1>7. /\ DOMAIN world'.cache = DOMAIN world.cache \cup R
      /\ \A m \in R : world'.cache[m] = world.mail[m]
      /\ \A m \in DOMAIN world.cache \ R : world'.cache[m] = world.cache[m]
  BY <1>5, <1>6 DEF Over
<1>8. world.high \in Int /\ world'.high \in Int /\ \A m \in DOMAIN world.mail : m \in Int
  BY <1>4, <1>6, StatusAssumption DEF Shape, Ids
<1>9. Lists(world')
  <2>1. SUFFICES ASSUME NEW q \in Pages, NEW m \in DOMAIN world'.copy[q]
                 PROVE  /\ m \in DOMAIN world'.mail /\ m <= world'.high
                        /\ world'.copy[q][m].orig \subseteq world'.copy[q][m].now
    BY DEF Lists
  <2>2. /\ m \in DOMAIN world.mail /\ m <= world.high
        /\ world.copy[q][m].orig \subseteq world.copy[q][m].now
    BY <1>6, <2>1 DEF StatusInv, Lists
  <2> QED  BY <1>6, <1>8, <2>2
<1>10. Forgotten(world')
  BY <1>5, <1>6, <1>7 DEF StatusInv, Forgotten
<1>11. ASSUME NEW k \in Ids \ world'.doubt PROVE RightAt(world', k)
  <2>1. CASE k \in R
    <3>1. k \in DOMAIN world'.mail /\ k <= world'.high /\ st[k] = world.mail[k]
      BY <1>5, <1>6, <2>1
    <3>2. /\ Current(world.mail[k]) /\ world.branch => k \in DOMAIN world'.counted /\ world'.counted[k] = world.mail[k]
          /\ ~Current(world.mail[k]) => k \notin DOMAIN world'.counted
      BY <1>5, <1>6, <2>1, <3>1
    <3> QED  BY <1>6, <1>7, <2>1, <3>1, <3>2 DEF RightAt
  <2>2. CASE k \notin R
    <3>1. SameAt(world, world', k)
      BY <1>5, <1>6, <1>7, <2>2 DEF SameAt
    <3>2. RightAt(world, k)
      BY <1>6, <1>11 DEF StatusInv, Right
    <3>3. world'.branch = world.branch
      BY <1>6
    <3>4. CASE k \in DOMAIN world.mail /\ ~(k <= world.high)
      <4>1. ~Current(world.mail[k])
        BY <1>1, <1>8, <2>2, <3>4 DEF Current
      <4>2. k \notin DOMAIN world'.cache \cup DOMAIN world'.counted
        BY <3>1, <3>2, <3>4 DEF SameAt, RightAt
      <4> QED  BY <1>6, <4>1, <4>2 DEF RightAt
    <3>5. CASE k \in DOMAIN world.mail /\ k <= world.high
      <4>1. k <= world'.high
        BY <1>6, <1>8, <3>5
      <4> QED  BY <3>1, <3>2, <3>3, <3>5, <4>1 DEF SameAt, RightAt
    <3>6. CASE k \notin DOMAIN world.mail
      BY <3>1, <3>2, <3>6 DEF SameAt, RightAt
    <3> QED  BY <3>4, <3>5, <3>6
  <2> QED  BY <2>1, <2>2
<1> QED  BY <1>6, <1>9, <1>10, <1>11 DEF Right, Still

LEMMA NewKeeps ==
  ASSUME StatusInv, NEW m \in Ids, new_message(m)
  PROVE  /\ Lists(world') /\ Forgotten(world') /\ Right(world')
         /\ world'.copy = world.copy /\ world'.sel = world.sel
         /\ \A k \in DOMAIN world.mail : k \in DOMAIN world'.mail /\ world'.mail[k] = world.mail[k]
         /\ DOMAIN world'.mail = DOMAIN world.mail \cup {m}
<1>1. PICK f, d : /\ f = Put(world.mail, m, {})
                  /\ d = IF m <= world.high THEN world.doubt \cup {m} ELSE world.doubt
  OBVIOUS
<1>2. world' = [world EXCEPT !.mail = f, !.doubt = d]
  BY <1>1 DEF new_message
<1>3. Shape(world) /\ m \notin DOMAIN world.mail
  BY DEF new_message, StatusInv, TypeInv, Typed
<1>4. /\ world'.mail = f /\ world'.doubt = d /\ world'.cache = world.cache
      /\ world'.counted = world.counted /\ world'.branch = world.branch /\ world'.high = world.high
      /\ world'.copy = world.copy /\ world'.sel = world.sel
  BY <1>2, <1>3 DEF Shape, Fields
<1>5. DOMAIN f = DOMAIN world.mail \cup {m} /\ \A k \in DOMAIN world.mail : f[k] = world.mail[k]
  BY <1>1, <1>3 DEF Put
<1>6. m \notin DOMAIN world.cache \cup DOMAIN world.counted
  BY <1>3 DEF StatusInv, Forgotten
<1>7. ASSUME NEW k \in Ids \ d PROVE RightAt(world', k)
  <2>1. CASE k = m
    <3>1. ~(m <= world.high)
      BY <1>1, <1>7, <2>1
    <3> QED  BY <1>4, <1>6, <2>1, <3>1 DEF RightAt
  <2>2. CASE k # m
    <3>1. SameAt(world, world', k)
      BY <1>4, <1>5, <2>2 DEF SameAt
    <3>2. RightAt(world, k)
      BY <1>1, <1>7 DEF StatusInv, Right
    <3>3. world'.high = world.high /\ world'.branch = world.branch
      BY <1>4
    <3> QED  BY <3>1, <3>2, <3>3, SameIsRight
  <2> QED  BY <2>1, <2>2
<1>8. Lists(world') /\ Forgotten(world')
  BY <1>4, <1>5 DEF StatusInv, Lists, Forgotten
<1> QED  BY <1>4, <1>5, <1>7, <1>8 DEF Right

LEMMA ResultsKeeps ==
  ASSUME StatusInv, NEW v \in Windows, results(v)
  PROVE  Keeps(cur'[v]) /\ world'.mail = world.mail
<1>1. PICK rows : rows = fetching[v].rows
  OBVIOUS
<1>2. PICK w : w = update(world, rows)
  OBVIOUS
<1>3. PICK N : N = {m \in DOMAIN world.mail : m > world.high /\ m <= w.high}
  OBVIOUS
<1>4. PICK p \in Pages :
        /\ Window[p] = v /\ cur' = [cur EXCEPT ![v] = p]
        /\ world' = Doubt(Copy(remove_msgs(w, {p}, DOMAIN w.copy[p]), p, rows), N)
  BY <1>1, <1>2, <1>3 DEF results
<1>5. PICK r : r = remove_msgs(w, {p}, DOMAIN w.copy[p])
  OBVIOUS
<1>6. PICK c : c = Copy(r, p, rows)
  OBVIOUS
<1>7. world' = Doubt(c, N) /\ cur'[v] = p
  BY <1>4, <1>5, <1>6 DEF StatusInv, TypeInv
<1>8. Shape(world) /\ DOMAIN world.mail \subseteq Ids /\ world.sel[p] \subseteq DOMAIN world.copy[p]
  BY DEF StatusInv, TypeInv, Typed, IsMap
<1>9. DOMAIN rows \subseteq DOMAIN world.mail /\ \A m \in DOMAIN rows : rows[m] = world.mail[m]
  BY <1>1 DEF results, StatusInv, StillTrue
<1>10. DOMAIN rows \subseteq Ids /\ N \subseteq Ids
  BY <1>3, <1>8, <1>9
<1>11. /\ Shape(w) /\ w.mail = world.mail /\ w.counted = world.counted /\ w.branch = world.branch
       /\ w.copy = world.copy /\ w.sel = world.sel /\ w.doubt = world.doubt
       /\ w.cache = Over(rows, world.cache)
       /\ w.high \in {world.high} \cup DOMAIN rows
       /\ world.high <= w.high /\ \A m \in DOMAIN rows : m <= w.high
  BY <1>2, <1>8, <1>10, UpdateDoes
<1>12. /\ Shape(r) /\ r.mail = w.mail /\ r.cache = w.cache /\ r.high = w.high
       /\ r.counted = w.counted /\ r.branch = w.branch /\ r.doubt = w.doubt
       /\ \A q \in Pages \ {p} : r.copy[q] = w.copy[q] /\ r.sel[q] = w.sel[q]
       /\ \A q \in Pages \cap {p} :
            /\ DOMAIN r.copy[q] = DOMAIN w.copy[q] \ DOMAIN w.copy[p]
            /\ r.sel[q] = w.sel[q] \ DOMAIN w.copy[p]
            /\ \A m \in DOMAIN r.copy[q] : r.copy[q][m] = w.copy[q][m]
  BY <1>5, <1>11, RemoveDoes
<1>13. /\ Shape(c) /\ c.mail = r.mail /\ c.cache = r.cache /\ c.high = r.high
       /\ c.counted = r.counted /\ c.branch = r.branch /\ c.sel = r.sel /\ c.doubt = r.doubt
       /\ \A q \in Pages \ {p} : c.copy[q] = r.copy[q]
       /\ DOMAIN c.copy[p] = DOMAIN r.copy[p] \cup DOMAIN rows
       /\ \A m \in DOMAIN rows : c.copy[p][m] = [now |-> rows[m], orig |-> rows[m]]
       /\ \A m \in DOMAIN r.copy[p] \ DOMAIN rows : c.copy[p][m] = r.copy[p][m]
  BY <1>6, <1>12, CopyDoes
<1>14. /\ Shape(world') /\ world'.mail = c.mail /\ world'.cache = c.cache /\ world'.high = c.high
       /\ world'.counted = c.counted /\ world'.branch = c.branch /\ world'.copy = c.copy
       /\ world'.sel = c.sel /\ world'.doubt = c.doubt \cup N
  BY <1>7, <1>13, DoubtDoes
<1>15. /\ world'.mail = world.mail /\ world'.counted = world.counted /\ world'.branch = world.branch
       /\ world'.high = w.high /\ world'.cache = Over(rows, world.cache)
       /\ world'.doubt = world.doubt \cup N
  BY <1>11, <1>12, <1>13, <1>14
<1>16. /\ DOMAIN world'.cache = DOMAIN world.cache \cup DOMAIN rows
       /\ \A m \in DOMAIN rows : world'.cache[m] = rows[m]
       /\ \A m \in DOMAIN world.cache \ DOMAIN rows : world'.cache[m] = world.cache[m]
  BY <1>15 DEF Over
<1>17. world.high \in Int /\ w.high \in Int /\ \A m \in DOMAIN world.mail : m \in Int
  BY <1>8, <1>11, StatusAssumption DEF Shape, Ids
<1>18. Lists(world')
  <2>1. SUFFICES ASSUME NEW q \in Pages, NEW m \in DOMAIN world'.copy[q]
                 PROVE  /\ m \in DOMAIN world'.mail /\ m <= world'.high
                        /\ world'.copy[q][m].orig \subseteq world'.copy[q][m].now
    BY DEF Lists
  <2>2. CASE q # p
    <3>1. world'.copy[q] = world.copy[q]
      BY <1>11, <1>12, <1>13, <1>14, <2>2
    <3>2. /\ m \in DOMAIN world.mail /\ m <= world.high
          /\ world.copy[q][m].orig \subseteq world.copy[q][m].now
      BY <2>1, <3>1 DEF StatusInv, Lists
    <3> QED  BY <1>11, <1>15, <1>17, <3>1, <3>2
  <2>3. CASE q = p
    <3>1. DOMAIN r.copy[p] = {}
      BY <1>12
    <3>2. m \in DOMAIN rows
      BY <1>13, <1>14, <2>1, <2>3, <3>1
    <3>3. world'.copy[q][m] = [now |-> rows[m], orig |-> rows[m]]
      BY <1>13, <1>14, <2>3, <3>2
    <3> QED  BY <1>9, <1>11, <1>15, <3>2, <3>3
  <2> QED  BY <2>2, <2>3
<1>19. Forgotten(world')
  BY <1>9, <1>15, <1>16 DEF StatusInv, Forgotten
<1>20. ASSUME NEW k \in Ids \ world'.doubt PROVE RightAt(world', k)
  <2>1. RightAt(world, k) /\ k \notin N
    BY <1>15, <1>20 DEF StatusInv, Right
  <2>2. k \in DOMAIN world.mail /\ k <= w.high => k <= world.high
    BY <1>3, <1>17, <2>1
  <2>3. CASE k \in DOMAIN rows
    BY <1>9, <1>11, <1>15, <1>16, <2>1, <2>2, <2>3 DEF RightAt
  <2>4. CASE k \notin DOMAIN rows
    <3>1. SameAt(world, world', k)
      BY <1>15, <1>16, <2>4 DEF SameAt
    <3>2. k \in DOMAIN world.mail => (k <= w.high <=> k <= world.high)
      BY <1>11, <1>17, <2>2
    <3> QED  BY <1>15, <2>1, <3>1, <3>2 DEF SameAt, RightAt
  <2> QED  BY <2>3, <2>4
<1>21. Fresh(world', p)
  <2>1. world'.sel[p] = {}
    BY <1>8, <1>11, <1>12, <1>13, <1>14
  <2> QED  BY <2>1 DEF Fresh
<1> QED  BY <1>7, <1>15, <1>18, <1>19, <1>20, <1>21 DEF Keeps, Right

LEMMA InitRight ==
  ASSUME Old \subseteq SUBSET Unsent, Init
  PROVE  StatusInv
<1>1. TypeInv(Unsent)
  BY InitTyped
<1>2. PICK f \in [1..NOld -> Old] : world = fetch_tag_map(
        [mail |-> f, cache |-> << >>, high |-> 0, counted |-> << >>, branch |-> FALSE,
         copy |-> [p \in Pages |-> << >>], sel |-> [p \in Pages |-> {}], doubt |-> {}])
  BY DEF Init
<1>3. PICK w : w = [mail |-> f, cache |-> << >>, high |-> 0, counted |-> << >>, branch |-> FALSE,
                    copy |-> [p \in Pages |-> << >>], sel |-> [p \in Pages |-> {}], doubt |-> {}]
  OBVIOUS
<1>4. /\ DOMAIN w = Fields /\ w.mail = f /\ w.high = 0
      /\ w.copy = [p \in Pages |-> << >>] /\ w.sel = [p \in Pages |-> {}]
  BY <1>3 DEF Fields
<1>5. world = fetch_tag_map(w)
  BY <1>2, <1>3
<1>6. DOMAIN f \subseteq Ids /\ IsMap(f, SUBSET Unsent)
  BY StatusAssumption DEF IsMap, Ids
<1>7. Shape(w)
  BY <1>4, StatusAssumption DEF Shape
<1>8. AllRight(world)
  BY <1>4, <1>5, <1>6, <1>7, TagMapRight
<1>9. world.copy = w.copy /\ world.sel = w.sel
  BY <1>4, <1>5, <1>6, <1>7, TagMapDoes
<1>10. \A p \in Pages : world.copy[p] = << >> /\ world.sel[p] = {}
  BY <1>4, <1>9
<1>11. Lists(world)
  BY <1>10, NothingIs DEF Lists
<1>12. \A p \in Pages : Fresh(world, p)
  BY <1>10 DEF Fresh
<1>13. ASSUME NEW v \in Windows PROVE ~Busy(v) /\ cur[v] \in Pages
  BY <1>1 DEF Init, Idle, Busy, TypeInv
<1> QED  BY <1>1, <1>8, <1>11, <1>12, <1>13 DEF StatusInv, AllRight, Right

-----------------------------------------------------------------------------
(* The theorems.                                                           *)

Windowed == \A v \in Windows : IF Busy(v) THEN StillTrue(v) ELSE Fresh(world, cur[v])

LEMMA CommandKeeps ==
  ASSUME Sole, StatusInv, NEW v \in Windows,
         \/ select(v) \/ archive(v) \/ archive_multi(v)
         \/ msg_trash(v) \/ msg_delete(v) \/ msg_untrash(v)
  PROVE  Lists(world') /\ Forgotten(world') /\ Right(world') /\ Windowed'
<1>1. Keeps(cur[v])
  BY SelectKeeps, ArchiveKeeps, ArchiveMultiKeeps, TrashKeeps, DeleteKeeps, UntrashKeeps DEF Sole
<1>2. ~Busy(v) /\ UNCHANGED <<cur, fetching>>
  BY DEF select, archive, archive_multi, msg_trash, msg_delete, msg_untrash, Elsewhere
<1>3. \A x \in Windows : x = v
  BY DEF Sole
<1> QED  BY <1>1, <1>2, <1>3 DEF Keeps, Windowed, Busy

LEMMA OtherKeeps ==
  ASSUME Sole, StatusInv,
         \/ \E v \in Windows : change_page(v) \/ fetch(v) \/ results(v)
         \/ refresh_quick_selection \/ db_new_mail_notif \/ \E m \in Ids : new_message(m)
         \/ UNCHANGED vars
  PROVE  Lists(world') /\ Forgotten(world') /\ Right(world') /\ Windowed'
<1>1. Lists(world) /\ Forgotten(world) /\ Right(world) /\ Windowed /\ "read" \notin Faults
  BY DEF StatusInv, Windowed, Sole
<1>2. ASSUME NEW v \in Windows, change_page(v)
      PROVE  Lists(world') /\ Forgotten(world') /\ Right(world') /\ Windowed'
  <2>1. Keeps(cur'[v])
    BY <1>1, <1>2, PageKeeps
  <2>2. ~Busy(v) /\ UNCHANGED fetching /\ \A x \in Windows : x = v
    BY <1>2 DEF change_page, Sole
  <2> QED  BY <2>1, <2>2 DEF Keeps, Windowed, Busy
<1>3. ASSUME NEW v \in Windows, results(v)
      PROVE  Lists(world') /\ Forgotten(world') /\ Right(world') /\ Windowed'
  <2>1. Keeps(cur'[v])
    BY <1>3, ResultsKeeps
  <2>2. ~fetching'[v].on /\ \A x \in Windows : x = v
    BY <1>3 DEF results, Idle, Sole, StatusInv, TypeInv
  <2> QED  BY <2>1, <2>2 DEF Keeps, Windowed, Busy
<1>4. ASSUME NEW v \in Windows, fetch(v)
      PROVE  Lists(world') /\ Forgotten(world') /\ Right(world') /\ Windowed'
  <2>1. PICK f \in Filters :
          fetching' = [fetching EXCEPT ![v] = [on |-> TRUE, rows |-> Selected(f, world.mail)]]
    BY <1>4 DEF fetch
  <2>2. UNCHANGED <<world, cur>> /\ \A x \in Windows : x = v
    BY <1>4 DEF fetch, Sole
  <2>3. PICK rows : rows = Selected(f, world.mail)
    OBVIOUS
  <2>4. \A m \in DOMAIN rows : m \in DOMAIN world.mail /\ rows[m] = world.mail[m]
    BY <2>3 DEF Selected, Restrict
  <2>5. fetching'[v].on /\ fetching'[v].rows = rows
    BY <2>1, <2>3 DEF StatusInv, TypeInv
  <2>6. (Busy(v) /\ StillTrue(v))'
    BY <2>2, <2>4, <2>5 DEF Busy, StillTrue
  <2> QED  BY <1>1, <2>2, <2>6 DEF Windowed
<1>5. ASSUME refresh_quick_selection \/ db_new_mail_notif
      PROVE  Lists(world') /\ Forgotten(world') /\ Right(world') /\ Windowed'
  <2>1. Lists(world') /\ Forgotten(world') /\ Right(world') /\ Still
    BY <1>1, <1>5, RefreshKeeps, NewsKeeps
  <2>2. UNCHANGED <<cur, fetching>>
    BY <1>5 DEF refresh_quick_selection, db_new_mail_notif, Elsewhere
  <2>3. Windowed'
    BY <1>1, <2>1, <2>2 DEF Windowed, Busy, StillTrue, Fresh, Still
  <2> QED  BY <2>1, <2>3
<1>6. ASSUME NEW m \in Ids, new_message(m)
      PROVE  Lists(world') /\ Forgotten(world') /\ Right(world') /\ Windowed'
  <2>1. /\ Lists(world') /\ Forgotten(world') /\ Right(world')
        /\ world'.copy = world.copy /\ world'.sel = world.sel
        /\ \A k \in DOMAIN world.mail : k \in DOMAIN world'.mail /\ world'.mail[k] = world.mail[k]
        /\ DOMAIN world'.mail = DOMAIN world.mail \cup {m}
    BY <1>6, NewKeeps
  <2>2. UNCHANGED <<cur, fetching>>
    BY <1>6 DEF new_message
  <2>3. ASSUME NEW x \in Windows, ~Busy(x), NEW k \in DOMAIN world'.mail, world'.sel[cur[x]] = {k}
        PROVE  world'.copy[cur[x]][k].orig = world'.mail[k]
    <3>1. cur[x] \in Pages /\ k \in DOMAIN world.copy[cur[x]]
      BY <2>1, <2>3 DEF StatusInv, TypeInv, Typed
    <3>2. k \in DOMAIN world.mail
      BY <1>1, <3>1 DEF Lists
    <3>3. world.copy[cur[x]][k].orig = world.mail[k]
      BY <1>1, <2>1, <2>3, <3>2 DEF Windowed, Fresh
    <3> QED  BY <2>1, <3>2, <3>3
  <2>4. Windowed'
    <3>1. ASSUME NEW x \in Windows, Busy(x) PROVE StillTrue(x)'
      BY <1>1, <2>1, <2>2, <3>1 DEF Windowed, StillTrue
    <3>2. ASSUME NEW x \in Windows, ~Busy(x) PROVE Fresh(world', cur[x])
      BY <2>3, <3>2 DEF Fresh
    <3> QED  BY <2>2, <3>1, <3>2 DEF Windowed, Busy
  <2> QED  BY <2>1, <2>4
<1>7. CASE UNCHANGED vars
  BY <1>1, <1>7 DEF vars, Lists, Forgotten, Right, RightAt, Windowed, Busy, StillTrue, Fresh
<1> QED  BY <1>2, <1>3, <1>4, <1>5, <1>6, <1>7

LEMMA StepKeeps ==
  ASSUME Sole, StatusInv, [Next]_vars
  PROVE  StatusInv'
<1>1. TypeInv(Unsent)'
  BY StepTyped DEF StatusInv, Set, Unsent, Bits
<1>2. Lists(world') /\ Forgotten(world') /\ Right(world') /\ Windowed'
  BY CommandKeeps, OtherKeeps DEF Next
<1> QED  BY <1>1, <1>2 DEF StatusInv, Windowed

(* A step that is not msg_untrash takes no bit away.                       *)
LEMMA StepGains ==
  ASSUME Sole, StatusInv, Next
  PROVE  Gains(world, world') \/ \E v \in Windows : msg_untrash(v)
<1>1. "read" \notin Faults
  BY DEF Sole
<1>2. ASSUME NEW v \in Windows,
             \/ select(v) \/ change_page(v) \/ archive(v) \/ archive_multi(v)
             \/ msg_trash(v) \/ msg_delete(v)
      PROVE  Gains(world, world')
  BY <1>1, <1>2, SelectKeeps, PageKeeps, ArchiveKeeps, ArchiveMultiKeeps, TrashKeeps, DeleteKeeps
<1>3. ASSUME world'.mail = world.mail PROVE Gains(world, world')
  BY <1>3 DEF Gains
<1>4. ASSUME NEW v \in Windows, fetch(v) PROVE Gains(world, world')
  BY <1>3, <1>4 DEF fetch
<1>5. ASSUME NEW v \in Windows, results(v) PROVE Gains(world, world')
  BY <1>3, <1>5, ResultsKeeps
<1>6. ASSUME refresh_quick_selection \/ db_new_mail_notif PROVE Gains(world, world')
  BY <1>1, <1>3, <1>6, RefreshKeeps, NewsKeeps DEF Still
<1>7. ASSUME NEW m \in Ids, new_message(m) PROVE Gains(world, world')
  BY <1>7, NewKeeps DEF Gains
<1> QED  BY <1>2, <1>4, <1>5, <1>6, <1>7 DEF Next

(* The inductive invariant: what is listed is in the database and below    *)
(* the high water mark, what is cached or counted is in the database, the  *)
(* counters agree outside doubt, and what a window has on its way or shows *)
(* selected alone is as the database has it.                               *)
THEOREM StatusKept == Sole => (Spec => []StatusInv)
<1>1. SUFFICES ASSUME Sole PROVE Spec => []StatusInv
  OBVIOUS
<1>2. Init => StatusInv
  BY <1>1, InitRight DEF Sole
<1>3. StatusInv /\ [Next]_vars => StatusInv'
  BY <1>1, StepKeeps
<1> QED  BY <1>2, <1>3, PTL DEF Spec

(* The cached statuses and the counters of the quick selection are those   *)
(* of the database for every message that is not in doubt: the update of a *)
(* list, of the cache and of the counters beside each statement, by hand,  *)
(* add up to what fetch_tag_map would read.                                *)
THEOREM CountersAreRight == Sole => (Spec => []CountedRight)
<1>1. StatusInv => CountedRight
  BY DEF StatusInv, Right, RightAt, CountedRight
<1> QED  BY <1>1, StatusKept, PTL

(* A message selected alone in a list has the status the database has, and *)
(* one that is deleted is neither cached, counted nor listed any more.     *)
THEOREM ListsAreRight == Sole => (Spec => []ListsRight)
<1>1. StatusInv => ListsRight
  <2>1. SUFFICES ASSUME StatusInv PROVE SelectedIsFresh /\ DeletedIsForgotten
    BY DEF ListsRight
  <2>2. SelectedIsFresh
    BY <2>1 DEF StatusInv, Fresh, SelectedIsFresh
  <2>3. DeletedIsForgotten
    BY <2>1 DEF StatusInv, Forgotten, Lists, DeletedIsForgotten
  <2> QED  BY <2>2, <2>3
<1> QED  BY <1>1, StatusKept, PTL

(* Only msg_untrash takes a bit off a message's status in the database:    *)
(* a whole status that update_status writes from a list's copy has what    *)
(* the database has, and the function's bits are added.                    *)
THEOREM NoBitIsLost == Sole => (Spec => NoBitLost)
<1>1. SUFFICES ASSUME Sole PROVE Spec => NoBitLost
  OBVIOUS
<1>2. StatusInv /\ [Next]_vars =>
        [\A m \in DOMAIN world.mail \cap DOMAIN world'.mail :
           world.mail[m] \subseteq world'.mail[m] \/ \E v \in Windows : msg_untrash(v)]_vars
  BY <1>1, StepGains DEF Gains
<1> QED  BY <1>1, <1>2, StatusKept, PTL DEF Spec, NoBitLost
=============================================================================
