------------------------------- MODULE DeskProofs -------------------------------
(***************************************************************************)
(* What holds of the parts of Desk for every value of the constants.  What *)
(* is sent is what was composed.  The text: whatever the formats, the      *)
(* editors and the identities it went through, the last text of the user,  *)
(* with no signature but that of its sender.  The rest: whatever is edited *)
(* before a message is stored, while it is stored and between two          *)
(* attempts, what the window showed when the attempt began.  And what is   *)
(* selected is what the selection dialog shows.                            *)
(***************************************************************************)
EXTENDS Desk, SequenceTheorems, FiniteSetTheorems, TLAPS

(* A behaviour is of one part, and its steps are steps of that part.       *)
LEMMA PartKept == [Next]_vars => part' = part
  BY DEF Next, vars

LEMMA TextMoves ==
  ASSUME part = "text", [Next]_vars
  PROVE  [Text!Next]_textVars
  BY DEF Next, vars

LEMMA SendMoves ==
  ASSUME part = "send", [Next]_vars
  PROVE  [Send!Next]_sendVars
  BY DEF Next, vars

-----------------------------------------------------------------------------
(* Documents that bear no signature but that of the sender; on a page it   *)
(* can only be in the marked paragraph, which a change of identity rewrites.*)
SignedText(t) == t.sig \subseteq Text!Signature(sender)
SignedPage(p) == p.sig = {} /\ (p.mark = Text!NoMark \/ p.mark \subseteq Text!Signature(sender))
SignedFile(e) == IF format = "plain" THEN SignedText(e) /\ e.mark = Text!NoMark ELSE SignedPage(e)

(* The document that has the last edit: the file or the source while one   *)
(* is open, or what is shown.  Only one of the two is open.                *)
Kept ==
  /\ IF format = "plain" THEN SignedText(plain) ELSE SignedPage(html)
  /\ \A s \in source : SignedPage(s) /\ s.v = latest
  /\ \A e \in external : SignedFile(e) /\ e.v = latest
  /\ covered <=> source # {}
  /\ source # {} => format = "html" /\ external = {}
  /\ source = {} /\ external = {} => Text!Shown.v = latest

AtMostOne(S) == S = {} \/ \E p \in Text!Pages : S = {p}

TextTyped ==
  /\ format \in {"plain", "html"} /\ plain \in Text!Texts /\ html \in Text!Pages
  /\ AtMostOne(source) /\ AtMostOne(external)
  /\ modified \subseteq {"plain", "html", "inserted"}
  /\ editable \in BOOLEAN /\ covered \in BOOLEAN /\ slip \in BOOLEAN
  /\ sender \in Identities \cup {Text!Other}
  /\ asking \in {"no", "first", "again"} /\ latest \in 0..MaxEdits
  /\ composed \in [how : {"open", "sent", "closed", "lost"}, sent : SUBSET Text!Texts]

TextInv ==
  /\ TextTyped /\ (~slip => Kept)
  /\ \A t \in composed.sent : ~slip => t.v = latest /\ SignedText(t)

-----------------------------------------------------------------------------
LEMMA AtMostOneIsSmall ==
  ASSUME NEW S, AtMostOne(S)
  PROVE  S \in SUBSET Text!Pages /\ Cardinality(S) <= 1
<1>1. Cardinality({}) = 0 /\ \A p : Cardinality({p}) = 1
  BY FS_EmptySet, FS_Singleton
<1>2. Cardinality(S) <= 1
  BY <1>1 DEF AtMostOne
<1> QED  BY <1>2 DEF AtMostOne

LEMMA SignatureIsOne ==
  \A from : Text!Signature(from) \subseteq Identities
  /\ (Text!Signature(from) = {} \/ Text!Signature(from) = {from})
  BY DEF Text!Signature

(* What the page says, and the text as a page.                             *)
LEMMA Conversions ==
  ASSUME "no mark" \notin Identities
  PROVE  /\ \A p \in Text!Pages : Text!to_plain_text(p) \in Text!Texts /\ Text!to_plain_text(p).v = p.v
                             /\ (SignedPage(p) => SignedText(Text!to_plain_text(p)))
         /\ \A t \in Text!Texts : Text!AsPage(t) \in Text!Pages /\ Text!AsPage(t).v = t.v /\ Text!AsPage(t).mark = Text!NoMark
                             /\ Text!AsPage(t).sig = t.sig /\ Text!to_plain_text(Text!AsPage(t)) = t
<1>1. ASSUME NEW p \in Text!Pages
      PROVE  Text!to_plain_text(p) \in Text!Texts /\ Text!to_plain_text(p).v = p.v
             /\ (SignedPage(p) => SignedText(Text!to_plain_text(p)))
  BY DEF Text!Pages, Text!Texts, Text!to_plain_text, Text!Marked, Text!NoMark, SignedPage, SignedText
<1>2. ASSUME NEW t \in Text!Texts
      PROVE  Text!AsPage(t) \in Text!Pages /\ Text!AsPage(t).v = t.v /\ Text!AsPage(t).mark = Text!NoMark
             /\ Text!AsPage(t).sig = t.sig /\ Text!to_plain_text(Text!AsPage(t)) = t
  BY DEF Text!Pages, Text!Texts, Text!to_plain_text, Text!Marked, Text!AsPage
<1> QED  BY <1>1, <1>2

LEMMA HtmlizedIsSigned ==
  ASSUME NEW t \in Text!Texts, SignedText(t)
  PROVE  Text!Htmlized(t, sender) \in Text!Pages /\ Text!Htmlized(t, sender).v = t.v
         /\ SignedPage(Text!Htmlized(t, sender))
<1>1. Text!Signature(sender) = {} \/ Text!Signature(sender) = {sender}
  BY SignatureIsOne
<1>2. CASE Text!Signature(sender) # {} /\ Text!Signature(sender) \subseteq t.sig
  BY <1>2, SignatureIsOne DEF Text!Htmlized, Text!Texts, Text!Pages, SignedText, SignedPage
<1>3. CASE ~(Text!Signature(sender) # {} /\ Text!Signature(sender) \subseteq t.sig)
  BY <1>1, <1>3 DEF Text!Htmlized, Text!AsPage, Text!Texts, Text!Pages, SignedText, SignedPage
<1> QED  BY <1>2, <1>3

LEMMA HtmlizedIsPage ==
  ASSUME NEW t \in Text!Texts
  PROVE  Text!Htmlized(t, sender) \in Text!Pages
  BY SignatureIsOne DEF Text!Htmlized, Text!AsPage, Text!Texts, Text!Pages

-----------------------------------------------------------------------------
LEMMA NoEdit == ASSUME MaxEdits \in Nat PROVE 0 \in 0..MaxEdits
  OBVIOUS

(* New documents: what a template brings, or the window at the start.      *)
LEMMA NewText ==
  ASSUME NEW n \in 0..MaxEdits, NEW sig \in SUBSET Identities
  PROVE  Text!TextOf(n, sig) \in Text!Texts /\ Text!TextOf(n, sig).v = n /\ Text!TextOf(n, sig).sig = sig
<1>1. {} \in SUBSET {"after"}
  OBVIOUS
<1> QED  BY <1>1 DEF Text!TextOf, Text!Texts

LEMMA NewPage ==
  ASSUME NEW n \in 0..MaxEdits, NEW mark \in {Text!NoMark} \cup SUBSET Identities
  PROVE  /\ Text!PageOf(n, mark) \in Text!Pages /\ Text!PageOf(n, mark).v = n
         /\ Text!PageOf(n, mark).sig = {} /\ Text!PageOf(n, mark).mark = mark
<1>1. {} \in SUBSET {"marked", "after"} /\ {} \in SUBSET Identities
  OBVIOUS
<1> QED  BY <1>1 DEF Text!PageOf, Text!Pages

LEMMA TextInit ==
  ASSUME Text!Init, MaxEdits \in Nat, "no mark" \notin Identities
  PROVE  TextInv
<1>1. Text!Signature(sender) = {sender} /\ sender \in Identities
  BY DEF Text!Init, Text!Signature
<1>2. TextTyped
  <2>1. plain \in Text!Texts /\ html \in Text!Pages
    <3>1. 0 \in 0..MaxEdits /\ {sender} \in SUBSET Identities /\ {} \in SUBSET Identities
      BY <1>1, NoEdit
    <3> DEFINE p == IF format = "plain" THEN {sender} ELSE {}
               m == IF format = "html" THEN {sender} ELSE Text!NoMark
    <3>2. (IF format = "plain" THEN {sender} ELSE {}) \in SUBSET Identities
      BY <3>1
    <3>3. (IF format = "html" THEN {sender} ELSE Text!NoMark) \in {Text!NoMark} \cup SUBSET Identities
      BY <3>1
    <3>4. plain = Text!TextOf(0, p) /\ html = Text!PageOf(0, m) /\ p \in SUBSET Identities
          /\ m \in {Text!NoMark} \cup SUBSET Identities
      BY <3>2, <3>3 DEF Text!Init
    <3> HIDE DEF p, m
    <3> QED  BY <3>1, <3>4, NewText, NewPage
  <2>2. composed \in [how : {"open", "sent", "closed", "lost"}, sent : SUBSET Text!Texts]
    BY DEF Text!Init, Text!Open
  <2>3. format \in {"plain", "html"} /\ modified \subseteq {"plain", "html", "inserted"}
        /\ latest \in 0..MaxEdits
    BY NoEdit DEF Text!Init
  <2>4. /\ AtMostOne(source) /\ AtMostOne(external) /\ editable \in BOOLEAN /\ covered \in BOOLEAN /\ slip \in BOOLEAN
        /\ sender \in Identities \cup {Text!Other} /\ asking \in {"no", "first", "again"}
    BY Zenon DEF Text!Init, AtMostOne
  <2> QED  BY <2>1, <2>2, <2>3, <2>4 DEF TextTyped
<1>3. Kept
  BY <1>1 DEF Text!Init, Kept, SignedText, SignedPage, Text!Shown, Text!to_plain_text, Text!TextOf, Text!PageOf
<1> QED  BY <1>2, <1>3 DEF TextInv, Text!Init, Text!Open

(* An edit of a text or a page keeps its signatures.                       *)
LEMMA EditedText ==
  ASSUME NEW t \in Text!Texts, NEW n \in 0..MaxEdits, NEW u \in Text!Edited(t, Text!InText(t), n)
  PROVE  u \in Text!Texts /\ u.v = n /\ u.sig = t.sig
<1>1. PICK b \in {{}} \cup {{p} : p \in Text!InText(t)} : u = [t EXCEPT !.v = n, !.below = @ \cup b]
  BY DEF Text!Edited
<1>2. b \in SUBSET {"after"}
  BY DEF Text!InText
<1> QED  BY <1>1, <1>2 DEF Text!Texts

LEMMA EditedPage ==
  ASSUME NEW t \in Text!Pages, NEW n \in 0..MaxEdits, NEW u \in Text!Edited(t, Text!InPage(t), n)
  PROVE  u \in Text!Pages /\ u.v = n /\ u.sig = t.sig /\ u.mark = t.mark
<1>1. PICK b \in {{}} \cup {{p} : p \in Text!InPage(t)} : u = [t EXCEPT !.v = n, !.below = @ \cup b]
  BY DEF Text!Edited
<1>2. b \in SUBSET {"marked", "after"}
  BY DEF Text!InPage, Text!InText
<1> QED  BY <1>1, <1>2 DEF Text!Pages

(* One more edit is counted.                                               *)
LEMMA OneMore ==
  ASSUME MaxEdits \in Nat, latest \in 0..MaxEdits, latest < MaxEdits, latest' = latest + 1
  PROVE  latest' \in 0..MaxEdits
  OBVIOUS

(* What is shown is a text.                                                *)
LEMMA ShownIsText ==
  ASSUME TextTyped, "no mark" \notin Identities
  PROVE  Text!Shown \in Text!Texts /\ Text!Shown.v \in 0..MaxEdits
<1>1. Text!Shown \in Text!Texts
  BY Conversions DEF TextTyped, Text!Shown
<1> QED  BY <1>1 DEF Text!Texts

-----------------------------------------------------------------------------
LEMMA TypeInKeeps ==
  ASSUME TextInv, MaxEdits \in Nat, "no mark" \notin Identities, Text!TypeIn, composed = Text!Open
  PROVE  TextInv'
<1>1. latest' \in 0..MaxEdits
      /\ UNCHANGED <<format, covered, external, editable, sender, asking, composed>>
  BY OneMore DEF Text!TypeIn, TextInv, TextTyped
<1>2. CASE /\ format = "plain" /\ external = {}
           /\ plain' \in Text!Edited(plain, Text!InText(plain), latest')
           /\ modified' = modified \cup {"plain"} /\ UNCHANGED <<html, source, slip>>
  <2>1. plain' \in Text!Texts /\ plain'.v = latest' /\ plain'.sig = plain.sig
    BY <1>1, <1>2, EditedText DEF TextInv, TextTyped
  <2>2. TextTyped'
    BY <1>1, <1>2, <2>1 DEF TextInv, TextTyped, AtMostOne
  <2>3. ~slip' => Kept'
    BY <1>1, <1>2, <2>1 DEF TextInv, Kept, SignedText, Text!Shown, SignedPage, SignedFile
  <2> QED  BY <1>1, <2>2, <2>3 DEF TextInv, Text!Open
<1>3. CASE /\ format = "html" /\ ~covered /\ external = {} /\ editable
           /\ html' \in Text!Edited(html, Text!InPage(html), latest')
           /\ modified' = modified \cup {"html"} /\ UNCHANGED <<plain, source, slip>>
  <2>1. html' \in Text!Pages /\ html'.v = latest' /\ html'.sig = html.sig /\ html'.mark = html.mark
    <3>1. html \in Text!Pages
      BY DEF TextInv, TextTyped
    <3> QED  BY <1>1, <1>3, <3>1, EditedPage, Zenon
  <2>2. TextTyped'
    BY <1>1, <1>3, <2>1 DEF TextInv, TextTyped, AtMostOne
  <2>3. Text!Shown'.v = latest'
    BY <1>1, <1>3, <2>1 DEF Text!Shown, Text!to_plain_text
  <2>4. ~slip' => Kept'
    BY <1>1, <1>3, <2>1, <2>3 DEF TextInv, Kept, SignedPage
  <2> QED  BY <1>1, <2>2, <2>4 DEF TextInv, Text!Open
<1>4. CASE /\ format = "html" /\ covered
           /\ \E s \in source : \E t \in Text!Edited(s, Text!InPage(s), latest') : source' = {t}
           /\ slip' = (slip \/ external # {}) /\ UNCHANGED <<plain, html, modified>>
  <2>1. PICK s \in source : \E t \in Text!Edited(s, Text!InPage(s), latest') : source' = {t}
    BY <1>4
  <2>2. PICK t \in Text!Edited(s, Text!InPage(s), latest') : source' = {t}
    BY <2>1
  <2>3. s \in Text!Pages
    BY DEF TextInv, TextTyped, AtMostOne
  <2>4. t \in Text!Pages /\ t.v = latest' /\ t.sig = s.sig /\ t.mark = s.mark
    BY <1>1, <2>2, <2>3, EditedPage
  <2>5. TextTyped'
    BY <1>1, <1>4, <2>2, <2>4 DEF TextInv, TextTyped, AtMostOne
  <2>6. ASSUME ~slip' PROVE Kept'
    <3>1. Kept /\ external = {} /\ source' # {} /\ covered
      BY <1>4, <2>2, <2>6 DEF TextInv
    <3>2. SignedPage(s) /\ SignedPage(html)
      BY <1>4, <3>1 DEF Kept
    <3>3. SignedPage(t)
      BY <2>4, <3>2 DEF SignedPage
    <3> QED  BY <1>1, <1>4, <2>2, <2>4, <3>1, <3>2, <3>3 DEF Kept, SignedPage
  <2> QED  BY <1>1, <2>5, <2>6 DEF TextInv, Text!Open
<1> QED  BY <1>2, <1>3, <1>4 DEF Text!TypeIn

LEMMA InsertKeeps ==
  ASSUME TextInv, MaxEdits \in Nat, "no mark" \notin Identities, Text!insert_file, composed = Text!Open
  PROVE  TextInv'
<1> latest' \in 0..MaxEdits
  BY OneMore DEF Text!insert_file, TextInv, TextTyped
<1>1. /\ source = {} /\ slip' \in BOOLEAN /\ (~slip' => ~slip /\ format # "html" /\ external = {})
      /\ UNCHANGED <<format, html, source, covered, external, editable, sender, asking, composed>>
      /\ plain' \in Text!Edited(plain, Text!InText(plain), latest') /\ modified' = modified \cup {"plain"}
  BY Zenon DEF Text!insert_file, TextInv, TextTyped
<1>2. plain' \in Text!Texts /\ plain'.v = latest' /\ plain'.sig = plain.sig
  <2>1. plain \in Text!Texts
    BY DEF TextInv, TextTyped
  <2> QED  BY <1>1, <2>1, EditedText, Zenon
<1>3. TextTyped'
  BY <1>1, <1>2 DEF TextInv, TextTyped, AtMostOne
<1>4. ASSUME ~slip' PROVE Kept'
  <2>1. Kept /\ format = "plain" /\ external = {} /\ ~slip
    BY <1>1, <1>4 DEF TextInv, TextTyped
  <2> QED  BY <1>1, <1>2, <2>1 DEF Kept, SignedText, Text!Shown
<1> QED  BY <1>1, <1>3, <1>4 DEF TextInv, Text!Open

LEMMA ToPlainKeeps ==
  ASSUME TextInv, "no mark" \notin Identities, Text!to_format_plain_text, composed = Text!Open
  PROVE  TextInv'
<1>1. /\ external = {} /\ format' = "plain" /\ plain' = Text!to_plain_text(html) /\ ~covered'
      /\ modified' = modified \ {"plain"} /\ covered' \in BOOLEAN
      /\ UNCHANGED <<html, editable, source, external, sender, asking, latest, composed>>
  BY DEF Text!to_format_plain_text, Text!SetPlain
<1>2. slip' \in BOOLEAN /\ (~slip' => ~slip /\ source = {} /\ (format = "plain" => plain' = plain))
  BY Zenon DEF Text!to_format_plain_text, TextInv, TextTyped
<1>3. plain' \in Text!Texts /\ plain'.v = html.v /\ (SignedPage(html) => SignedText(plain'))
  BY <1>1, Conversions DEF TextInv, TextTyped
<1>4. TextTyped'
  BY <1>1, <1>2, <1>3 DEF TextInv, TextTyped, AtMostOne
<1>5. ASSUME ~slip' PROVE Kept'
  <2>1. Kept /\ source = {}
    BY <1>2, <1>5 DEF TextInv
  <2>2. plain'.v = latest /\ SignedText(plain')
    <3>1. CASE format = "plain"
      BY <1>1, <1>2, <1>5, <2>1, <3>1 DEF Kept, Text!Shown
    <3>2. CASE format = "html"
      <4>1. html.v = latest /\ SignedPage(html)
        BY <1>1, <2>1, <3>2 DEF Kept, Text!Shown, Text!to_plain_text
      <4> QED  BY <1>3, <4>1
    <3> QED  BY <3>1, <3>2 DEF TextInv, TextTyped
  <2> QED  BY <1>1, <2>1, <2>2 DEF Kept, SignedText, Text!Shown
<1> QED  BY <1>1, <1>4, <1>5 DEF TextInv, Text!Open

LEMMA ToPageKeeps ==
  ASSUME TextInv, "no mark" \notin Identities, Text!to_format_html_text, composed = Text!Open
  PROVE  TextInv'
<1>1. /\ external = {} /\ format' = "html" /\ html' = Text!Htmlized(plain, sender) /\ ~covered'
      /\ modified' = modified \ {"html"} /\ editable' = TRUE /\ covered' \in BOOLEAN
      /\ UNCHANGED <<plain, source, external, sender, asking, latest, composed>>
  BY DEF Text!to_format_html_text, Text!SetPage
<1>2. slip' \in BOOLEAN /\ (~slip' => ~slip /\ source = {} /\ (format = "html" => html' = html))
  BY Zenon DEF Text!to_format_html_text, TextInv, TextTyped
<1>3. html' \in Text!Pages
  BY <1>1, HtmlizedIsPage DEF TextInv, TextTyped
<1>4. TextTyped'
  BY <1>1, <1>2, <1>3 DEF TextInv, TextTyped, AtMostOne
<1>5. ASSUME ~slip' PROVE Kept'
  <2>1. Kept /\ source = {}
    BY <1>2, <1>5 DEF TextInv
  <2>2. html'.v = latest /\ SignedPage(html')
    <3>1. CASE format = "html"
      BY <1>1, <1>2, <1>5, <2>1, <3>1 DEF Kept, Text!Shown, Text!to_plain_text
    <3>2. CASE format = "plain"
      <4>1. plain.v = latest /\ SignedText(plain)
        BY <1>1, <2>1, <3>2 DEF Kept, Text!Shown
      <4> QED  BY <1>1, <4>1, HtmlizedIsSigned DEF TextInv, TextTyped
    <3> QED  BY <3>1, <3>2 DEF TextInv, TextTyped
  <2>3. Text!Shown'.v = latest'
    BY <1>1, <2>2 DEF Text!Shown, Text!to_plain_text
  <2> QED  BY <1>1, <2>1, <2>2, <2>3 DEF Kept, SignedPage
<1> QED  BY <1>1, <1>4, <1>5 DEF TextInv, Text!Open

LEMMA SourceKeeps ==
  ASSUME TextInv, "no mark" \notin Identities, Text!toggle_edit_source, composed = Text!Open
  PROVE  TextInv'
<1>1. format = "html" /\ UNCHANGED <<format, external, sender, asking, latest, composed>>
  BY DEF Text!toggle_edit_source
<1>2. CASE source = {}
  <2>1. /\ source' = {html} /\ covered' = TRUE /\ slip' = (slip \/ external # {})
        /\ UNCHANGED <<plain, html, modified, editable>>
    BY <1>2 DEF Text!toggle_edit_source
  <2>2. TextTyped'
    BY <1>1, <2>1 DEF TextInv, TextTyped, AtMostOne
  <2>3. ASSUME ~slip' PROVE Kept'
    <3>1. Kept /\ external = {}
      BY <2>1, <2>3 DEF TextInv, TextTyped
    <3>2. html.v = latest /\ SignedPage(html)
      BY <1>1, <1>2, <3>1 DEF Kept, Text!Shown, Text!to_plain_text
    <3> QED  BY <1>1, <2>1, <3>1, <3>2 DEF Kept, SignedPage
  <2> QED  BY <1>1, <2>2, <2>3 DEF TextInv, Text!Open
<1>3. CASE source # {}
  <2>1. PICK s \in source : /\ html' = s /\ modified' = modified \ {"html"} /\ editable' = TRUE
                            /\ source' = {} /\ covered' = FALSE /\ UNCHANGED <<plain, slip>>
    BY <1>3 DEF Text!toggle_edit_source, Text!SetPage
  <2>2. TextTyped'
    BY <1>1, <2>1 DEF TextInv, TextTyped, AtMostOne
  <2>3. ASSUME ~slip' PROVE Kept'
    <3>1. Kept /\ external = {} /\ s.v = latest /\ SignedPage(s)
      BY <1>3, <2>1, <2>3 DEF TextInv, Kept
    <3>2. Text!Shown'.v = latest'
      BY <1>1, <2>1, <3>1 DEF Text!Shown, Text!to_plain_text
    <3> QED  BY <1>1, <2>1, <3>1, <3>2 DEF Kept, SignedPage
  <2> QED  BY <1>1, <2>2, <2>3 DEF TextInv, Text!Open
<1> QED  BY <1>2, <1>3

-----------------------------------------------------------------------------
(* In the plain text the signature of the former sender is replaced if it  *)
(* is there, and there is no other one to stay.                            *)
LEMMA ResignedIsSigned ==
  ASSUME NEW t \in Text!Texts, NEW from
  PROVE  LET new == Text!Resigned(t, Text!Signature(sender), Text!Signature(from))
         IN  new \in Text!Texts /\ new.v = t.v /\ (SignedText(t) => new.sig \subseteq Text!Signature(from))
<1>1. /\ Text!Signature(sender) = {} \/ Text!Signature(sender) = {sender}
      /\ Text!Signature(from) \subseteq Identities
  BY SignatureIsOne
<1>2. CASE Text!Signature(sender) \subseteq t.sig
  BY <1>1, <1>2 DEF Text!Resigned, Text!Texts, SignedText
<1>3. CASE ~(Text!Signature(sender) \subseteq t.sig)
  BY <1>1, <1>3 DEF Text!Resigned, Text!Texts, SignedText
<1> QED  BY <1>2, <1>3

(* On a page it takes the place of the marked paragraph.                   *)
LEMMA ReplacedIsPage ==
  ASSUME MaxEdits \in Nat, NEW p \in Text!Pages, NEW from
  PROVE  LET new == Text!replace_paragraph(p, Text!Signature(from))
         IN  new \in Text!Pages /\ new.sig = p.sig /\ new.mark = Text!Signature(from)
<1>1. PICK n : n = IF "marked" \in p.below THEN 0 ELSE p.v
  OBVIOUS
<1>2. n \in 0..MaxEdits
  BY <1>1, NoEdit DEF Text!Pages
<1>3. Text!Signature(from) \in SUBSET Identities /\ p.below \ {"marked"} \in SUBSET {"marked", "after"}
  BY SignatureIsOne DEF Text!Pages
<1>4. Text!replace_paragraph(p, Text!Signature(from))
        = [p EXCEPT !.mark = Text!Signature(from), !.v = n, !.below = @ \ {"marked"}]
  BY <1>1 DEF Text!replace_paragraph
<1> QED  BY <1>2, <1>3, <1>4 DEF Text!Pages

LEMMA IdentityKeeps ==
  ASSUME TextInv, MaxEdits \in Nat, "no mark" \notin Identities, composed = Text!Open,
         NEW from \in Identities \cup {Text!Other}, Text!change_identity(from)
  PROVE  TextInv'
<1>1. /\ sender' = from /\ slip' \in BOOLEAN /\ (~slip' => ~slip /\ source = {} /\ external = {})
      /\ UNCHANGED <<format, source, covered, external, editable, asking, latest, composed>>
  BY Zenon DEF Text!change_identity, TextInv, TextTyped
<1>2. CASE format = "plain"
  <2>1. /\ plain' = Text!Resigned(plain, Text!Signature(sender), Text!Signature(from)) /\ html' = html
        /\ modified' \subseteq {"plain", "html", "inserted"}
    BY <1>2 DEF Text!change_identity, TextInv, TextTyped
  <2>2. plain' \in Text!Texts /\ plain'.v = plain.v
        /\ (SignedText(plain) => plain'.sig \subseteq Text!Signature(from))
    BY <2>1, ResignedIsSigned DEF TextInv, TextTyped
  <2>3. TextTyped'
    BY <1>1, <2>1, <2>2 DEF TextInv, TextTyped, AtMostOne
  <2>4. ASSUME ~slip' PROVE Kept'
    <3>1. SignedText(plain) /\ plain.v = latest /\ source = {} /\ external = {} /\ ~covered
      BY <1>1, <1>2, <2>4 DEF TextInv, Kept, Text!Shown
    <3> QED  BY <1>1, <1>2, <2>2, <3>1 DEF Kept, SignedText, Text!Shown
  <2> QED  BY <1>1, <2>3, <2>4 DEF TextInv, Text!Open
<1>3. CASE format = "html"
  <2>1. /\ html' = IF html.mark = Text!NoMark THEN html
                    ELSE Text!replace_paragraph(html, Text!Signature(from))
        /\ UNCHANGED <<plain, modified>>
    BY <1>3 DEF Text!change_identity
  <2>2. html' \in Text!Pages /\ html'.sig = html.sig
        /\ (html'.mark = Text!NoMark \/ html'.mark = Text!Signature(from))
    BY <2>1, ReplacedIsPage DEF TextInv, TextTyped
  <2>5. ~slip' => html'.v = html.v
    BY <1>3, Zenon DEF Text!change_identity
  <2>3. TextTyped'
    BY <1>1, <2>1, <2>2 DEF TextInv, TextTyped, AtMostOne
  <2>4. ASSUME ~slip' PROVE Kept'
    <3>1. SignedPage(html) /\ html.v = latest /\ source = {} /\ external = {} /\ ~covered
      BY <1>1, <1>3, <2>4 DEF TextInv, Kept, Text!Shown, Text!to_plain_text
    <3>2. Text!Shown'.v = latest'
      BY <1>1, <1>3, <2>2, <2>4, <2>5, <3>1 DEF Text!Shown, Text!to_plain_text
    <3> QED  BY <1>1, <1>3, <2>2, <3>1, <3>2 DEF Kept, SignedPage
  <2> QED  BY <1>1, <2>3, <2>4 DEF TextInv, Text!Open
<1> QED  BY <1>2, <1>3 DEF TextInv, TextTyped

-----------------------------------------------------------------------------
LEMMA LaunchKeeps ==
  ASSUME TextInv, "no mark" \notin Identities, Text!launch_external_editor, composed = Text!Open
  PROVE  TextInv'
<1> DEFINE File == IF format = "plain" THEN Text!AsPage(plain) ELSE html
<1>1. /\ external = {} /\ external' = {File} /\ editable' = FALSE
      /\ slip' \in BOOLEAN /\ (~slip' => ~slip /\ source = {})
      /\ UNCHANGED <<format, plain, html, source, covered, modified, sender, asking, latest, composed>>
  BY Zenon DEF Text!launch_external_editor, TextInv, TextTyped
<1>2. File \in Text!Pages
  BY Conversions DEF TextInv, TextTyped
<1>3. TextTyped'
  BY <1>1, <1>2 DEF TextInv, TextTyped, AtMostOne
<1>4. ASSUME ~slip' PROVE Kept'
  <2>1. Kept /\ source = {}
    BY <1>1, <1>4 DEF TextInv
  <2>2. Text!Shown.v = latest
    BY <1>1, <2>1 DEF Kept
  <2>3. SignedFile(File) /\ File.v = latest
    <3>1. CASE format = "plain"
      BY <2>1, <2>2, <3>1, Conversions DEF TextInv, TextTyped, Kept, Text!Shown, SignedFile, SignedText
    <3>2. CASE format # "plain"
      BY <2>1, <2>2, <3>2 DEF Kept, Text!Shown, SignedFile, Text!to_plain_text
    <3> QED  BY <3>1, <3>2
  <2> HIDE DEF File
  <2> QED  BY <1>1, <2>1, <2>3 DEF Kept, SignedFile, SignedText, SignedPage
<1> QED  BY <1>1, <1>3, <1>4 DEF TextInv, Text!Open

LEMMA FileKeeps ==
  ASSUME TextInv, MaxEdits \in Nat, "no mark" \notin Identities, Text!EditFile, composed = Text!Open
  PROVE  TextInv'
<1> latest' \in 0..MaxEdits
  BY OneMore DEF Text!EditFile, TextInv, TextTyped
<1>1. UNCHANGED <<format, plain, html, source, covered, modified, editable, sender, asking, slip, composed>>
  BY DEF Text!EditFile
<1>2. PICK e \in external : \E f \in Text!Edited(e, Text!InPage(e), latest') : external' = {f}
  BY DEF Text!EditFile
<1>3. PICK f \in Text!Edited(e, Text!InPage(e), latest') : external' = {f}
  BY <1>2
<1>4. e \in Text!Pages
  BY DEF TextInv, TextTyped, AtMostOne
<1>5. f \in Text!Pages /\ f.v = latest' /\ f.sig = e.sig /\ f.mark = e.mark
  BY <1>3, <1>4, EditedPage
<1>6. TextTyped'
  BY <1>1, <1>3, <1>5 DEF TextInv, TextTyped, AtMostOne
<1>7. ASSUME ~slip' PROVE Kept'
  <2>1. Kept /\ source = {} /\ external' # {} /\ SignedFile(e)
    BY <1>1, <1>3, <1>7 DEF TextInv, Kept
  <2>2. SignedFile(f)
    BY <1>5, <2>1 DEF SignedFile, SignedText, SignedPage
  <2> QED  BY <1>1, <1>3, <1>5, <2>1, <2>2 DEF Kept, SignedFile, SignedText, SignedPage
<1> QED  BY <1>1, <1>6, <1>7 DEF TextInv, Text!Open

(* What is imported takes the place of what was shown.                     *)
LEMMA ImportedIsShown ==
  ASSUME TextTyped, "no mark" \notin Identities, NEW e \in Text!Pages, Text!Imported(e),
         UNCHANGED <<format, sender, source, covered, asking, composed>>, external' = {},
         latest' \in 0..MaxEdits, slip' \in BOOLEAN
  PROVE  /\ TextTyped'
         /\ Text!Shown'.v = e.v
         /\ SignedFile(e) => IF format = "plain" THEN SignedText(plain') ELSE SignedPage(html')
<1>1. CASE format = "plain"
  <2>1. /\ plain' = Text!to_plain_text(e) /\ modified' = modified \cup {"plain", "inserted"}
        /\ UNCHANGED <<html, editable>>
    BY <1>1 DEF Text!Imported
  <2>2. plain' \in Text!Texts /\ plain'.v = e.v
    BY <2>1, Conversions
  <2>3. SignedFile(e) => SignedText(plain')
    BY <1>1, <2>1 DEF SignedFile, SignedText, Text!to_plain_text, Text!Marked
  <2>4. TextTyped'
    BY <2>1, <2>2 DEF TextTyped, AtMostOne
  <2> QED  BY <1>1, <2>2, <2>3, <2>4 DEF Text!Shown
<1>2. CASE format # "plain"
  <2>1. /\ html' = e /\ modified' = (modified \ {"html"}) \cup {"inserted"}
        /\ editable' = TRUE /\ UNCHANGED plain
    BY <1>2 DEF Text!Imported
  <2>2. TextTyped'
    BY <2>1 DEF TextTyped, AtMostOne
  <2> QED  BY <1>2, <2>1, <2>2 DEF Text!Shown, Text!to_plain_text, SignedFile
<1> QED  BY <1>1, <1>2

LEMMA FinishedKeeps ==
  ASSUME TextInv, "no mark" \notin Identities, Text!external_editor_finished, composed = Text!Open
  PROVE  TextInv'
<1>1. PICK e \in external : Text!Imported(e)
  BY DEF Text!external_editor_finished
<1>2. /\ e \in Text!Pages /\ external # {} /\ external' = {}
      /\ UNCHANGED <<format, source, covered, sender, asking, latest, slip, composed>>
  BY DEF Text!external_editor_finished, TextInv, TextTyped, AtMostOne
<1>3. latest' \in 0..MaxEdits /\ slip' \in BOOLEAN
  BY <1>2 DEF TextInv, TextTyped
<1>4. TextTyped' /\ Text!Shown'.v = e.v
      /\ (SignedFile(e) => IF format = "plain" THEN SignedText(plain') ELSE SignedPage(html'))
  BY <1>1, <1>2, <1>3, ImportedIsShown DEF TextInv
<1>5. ASSUME ~slip' PROVE Kept'
  <2>1. Kept /\ source = {} /\ SignedFile(e) /\ e.v = latest
    BY <1>2, <1>5 DEF TextInv, Kept
  <2> QED  BY <1>2, <1>4, <2>1 DEF Kept, SignedText, SignedPage
<1> QED  BY <1>2, <1>4, <1>5 DEF TextInv, Text!Open

(* The text under the external editor is well signed as well.              *)
LEMMA AbandonedKeeps ==
  ASSUME TextInv, "no mark" \notin Identities, composed = Text!Open, external # {}, external' = {},
         latest' = Text!Shown.v,
         UNCHANGED <<format, plain, html, source, covered, modified, editable, sender, asking, slip,
                     composed>>
  PROVE  TextInv'
<1>1. latest' \in 0..MaxEdits
  BY ShownIsText DEF TextInv
<1>2. TextTyped'
  BY <1>1 DEF TextInv, TextTyped, AtMostOne
<1>3. ASSUME ~slip' PROVE Kept'
  <2>1. Kept /\ source = {}
    BY <1>3 DEF TextInv, Kept
  <2>2. Text!Shown' = Text!Shown
    BY DEF Text!Shown
  <2> QED  BY <2>1, <2>2 DEF Kept, SignedText, SignedPage
<1> QED  BY <1>2, <1>3 DEF TextInv, Text!Open

LEMMA ErrorKeeps ==
  ASSUME TextInv, MaxEdits \in Nat, "no mark" \notin Identities, Text!external_editor_error,
         composed = Text!Open
  PROVE  TextInv'
<1> DEFINE Nothing == Text!PageOf(0, Text!NoMark)
<1>1. CASE latest' = Text!Shown.v /\ UNCHANGED <<plain, html, modified, editable, slip>>
  BY <1>1, AbandonedKeeps DEF Text!external_editor_error
<1>2. CASE Text!Imported(Nothing) /\ slip' = TRUE /\ UNCHANGED latest
  <2>1. Nothing \in Text!Pages
    BY NoEdit, NewPage
  <2>2. external' = {} /\ UNCHANGED <<format, source, covered, sender, asking, composed>>
    BY DEF Text!external_editor_error
  <2>3. latest' \in 0..MaxEdits
    BY <1>2 DEF TextInv, TextTyped
  <2>4. slip' \in BOOLEAN /\ slip'
    BY <1>2
  <2> HIDE DEF Nothing
  <2>5. TextTyped'
    BY <1>2, <2>1, <2>2, <2>3, <2>4, ImportedIsShown DEF TextInv
  <2> QED  BY <2>2, <2>4, <2>5 DEF TextInv, Text!Open
<1> QED  BY <1>1, <1>2 DEF Text!external_editor_error

-----------------------------------------------------------------------------
LEMMA TemplateKeeps ==
  ASSUME TextInv, MaxEdits \in Nat, "no mark" \notin Identities, Text!load_template, composed = Text!Open
  PROVE  TextInv'
<1> latest' \in 0..MaxEdits
  BY OneMore DEF Text!load_template, TextInv, TextTyped
<1>1. /\ slip' \in BOOLEAN /\ (~slip' => ~slip /\ source = {} /\ external = {})
      /\ ~covered' /\ covered' \in BOOLEAN /\ UNCHANGED <<source, external, sender, asking, composed>>
  BY Zenon DEF Text!load_template, TextInv, TextTyped
<1>2. CASE Text!SetPlain(Text!TextOf(latest', {})) /\ format' = "plain"
  <2>0. {} \in SUBSET Identities
    OBVIOUS
  <2>1. /\ plain' = Text!TextOf(latest', {}) /\ modified' = modified \ {"plain"}
        /\ UNCHANGED <<html, editable>>
    BY <1>2 DEF Text!SetPlain
  <2>2. plain' \in Text!Texts /\ plain'.v = latest' /\ plain'.sig = {}
    BY <2>1, <2>0, NewText, Zenon
  <2>3. TextTyped'
    BY <1>1, <1>2, <2>1, <2>2 DEF TextInv, TextTyped, AtMostOne
  <2>4. ~slip' => Kept'
    BY <1>1, <1>2, <2>2 DEF Kept, SignedText, Text!Shown
  <2> QED  BY <1>1, <2>3, <2>4 DEF TextInv, Text!Open
<1>3. CASE Text!SetPage(Text!PageOf(latest', Text!NoMark)) /\ format' = "html"
  <2>0. Text!NoMark \in {Text!NoMark} \cup SUBSET Identities
    OBVIOUS
  <2>1. /\ html' = Text!PageOf(latest', Text!NoMark) /\ modified' = modified \ {"html"}
        /\ editable' = TRUE /\ UNCHANGED plain
    BY <1>3 DEF Text!SetPage
  <2>2. html' \in Text!Pages /\ html'.v = latest' /\ html'.sig = {} /\ html'.mark = Text!NoMark
    BY <2>1, <2>0, NewPage, Zenon
  <2>3. TextTyped'
    BY <1>1, <1>3, <2>1, <2>2 DEF TextInv, TextTyped, AtMostOne
  <2>4. ~slip' => Kept'
    BY <1>1, <1>3, <2>2 DEF Kept, SignedPage, Text!Shown, Text!to_plain_text
  <2> QED  BY <1>1, <2>3, <2>4 DEF TextInv, Text!Open
<1> QED  BY <1>2, <1>3 DEF Text!load_template

LEMMA SavingKeeps ==
  ASSUME TextInv, Text!save_template, composed = Text!Open
  PROVE  TextInv'
<1>1. /\ asking' \in {"no", "first", "again"}
      /\ UNCHANGED <<format, plain, html, source, covered, external, modified, editable, sender, latest,
                     slip, composed>>
  BY DEF Text!save_template
<1>2. Text!Shown' = Text!Shown
  BY <1>1 DEF Text!Shown
<1> QED  BY <1>1, <1>2 DEF TextInv, TextTyped, AtMostOne, Kept, SignedText, SignedPage, SignedFile, Text!Open

(* The window is closed: what is sent is what is shown.                    *)
LEMMA EndKeeps ==
  ASSUME TextInv, "no mark" \notin Identities, Text!send \/ Text!closeEvent, composed = Text!Open
  PROVE  TextInv'
<1>1. /\ slip' \in BOOLEAN /\ (~slip' => ~slip)
      /\ UNCHANGED <<format, plain, html, source, covered, external, modified, editable, sender, asking,
                     latest>>
  BY Zenon DEF Text!send, Text!closeEvent, TextInv, TextTyped
<1>2. Text!Shown' = Text!Shown
  BY <1>1 DEF Text!Shown
<1>3. ~slip' => Kept'
  BY <1>1, <1>2 DEF TextInv, Kept, SignedText, SignedPage, SignedFile
<1>4. composed' \in [how : {"open", "sent", "closed", "lost"}, sent : SUBSET Text!Texts]
  <2>1. {Text!Shown} \in SUBSET Text!Texts
    BY ShownIsText DEF TextInv
  <2>2. CASE composed' = [how |-> "sent", sent |-> {Text!Shown}]
    BY <2>1, <2>2
  <2>3. ASSUME NEW h \in {"closed", "lost"}, composed' = [how |-> h, sent |-> {}]
        PROVE  composed' \in [how : {"open", "sent", "closed", "lost"}, sent : SUBSET Text!Texts]
    BY <2>3
  <2> QED  BY <2>2, <2>3 DEF Text!send, Text!closeEvent, Text!make_message, Text!Open
<1>5. TextTyped'
  BY <1>1, <1>4 DEF TextInv, TextTyped, AtMostOne
<1>6. CASE Text!send
  <2>1. composed'.sent = {Text!Shown} /\ (~slip' => ~slip /\ source = {} /\ external = {})
    BY <1>6 DEF Text!send, Text!make_message
  <2>2. ASSUME ~slip' PROVE Text!Shown.v = latest' /\ Text!Shown.sig \subseteq Text!Signature(sender')
    <3>1. Kept /\ source = {} /\ external = {}
      BY <2>1, <2>2 DEF TextInv
    <3>2. Text!Shown.v = latest /\ SignedText(Text!Shown)
      BY <3>1, Conversions DEF TextInv, TextTyped, Kept, Text!Shown
    <3> QED  BY <1>1, <3>2 DEF SignedText
  <2> QED  BY <1>3, <1>5, <2>1, <2>2 DEF TextInv, SignedText
<1>7. CASE Text!closeEvent
  <2>1. composed'.sent = {}
    BY <1>7 DEF Text!closeEvent, Text!Open
  <2> QED  BY <1>3, <1>5, <2>1 DEF TextInv
<1> QED  BY <1>6, <1>7

LEMMA TextStep ==
  ASSUME TextInv, MaxEdits \in Nat, "no mark" \notin Identities, [Text!Next]_textVars
  PROVE  TextInv'
<1>1. CASE UNCHANGED textVars
  <2>1. Text!Shown' = Text!Shown
    BY <1>1 DEF textVars, Text!Shown
  <2> QED  BY <1>1, <2>1 DEF textVars, TextInv, TextTyped, AtMostOne, Kept, SignedText, SignedPage, SignedFile
<1>2. CASE Text!Next
  <2>1. composed = Text!Open
    BY <1>2 DEF Text!Next
  <2> QED  BY <1>2, <2>1, TypeInKeeps, InsertKeeps, ToPlainKeeps, ToPageKeeps, SourceKeeps, IdentityKeeps,
              LaunchKeeps, FileKeeps, FinishedKeeps, ErrorKeeps, AbandonedKeeps, TemplateKeeps,
              SavingKeeps, EndKeeps DEF Text!Next, Text!abort_external_editor
<1> QED  BY <1>1, <1>2

-----------------------------------------------------------------------------
(* The message that is sent is the last text of the user, whatever the     *)
(* changes of format, of identity and of editor, the files edited outside  *)
(* and the templates, and it bears no signature but that of its sender,    *)
(* when no editor was left open or aside, the format that was shown was not *)
(* chosen again over an edited text, and no identity was changed with text *)
(* in the marked paragraph; for any identities and number of edits.  And   *)
(* all state keeps its type.  "no mark" is the model's name for a page     *)
(* without a marked paragraph.                                             *)
THEOREM LastTextSent ==
  ASSUME MaxEdits \in Nat, "no mark" \notin Identities
  PROVE  Spec => [](SentAsComposed /\ (part = "text" => Text!TypeOK))
<1> DEFINE Inv == part = "text" => TextInv
<1>1. Init => Inv
  BY TextInit DEF Init
<1>2. Inv /\ [Next]_vars => Inv'
  BY PartKept, TextMoves, TextStep
<1>3. ASSUME TextInv PROVE Text!SentAsComposed /\ Text!TypeOK
  <2>1. Text!SentAsComposed
    BY <1>3 DEF TextInv, Text!SentAsComposed, SignedText
  <2>2. \A S : AtMostOne(S) => S \in SUBSET Text!Pages /\ Cardinality(S) <= 1
    BY AtMostOneIsSmall
  <2>3. \A S : Text!Cardinality(S) = Cardinality(S)
    BY Zenon DEF Text!Cardinality, Cardinality
  <2> QED  BY <1>3, <2>1, <2>2, <2>3 DEF TextInv, TextTyped, Text!TypeOK
<1>4. Inv => SentAsComposed /\ (part = "text" => Text!TypeOK)
  BY <1>3 DEF SentAsComposed
<1> QED  BY <1>1, <1>2, <1>4, PTL DEF Spec

-----------------------------------------------------------------------------
(* The headers, the attachments and the store: ComposerSend.               *)
Editor == [field : Fields, addrs : SUBSET (Addresses \cup {Send!BadAddress})]
Letter == [headers : [Fields -> SUBSET Addresses], files : SUBSET (Files \cup {Send!Image}),
            refs : BOOLEAN, counts : 0..MaxTries]

(* What a message must have of what was asked.                             *)
Answers(m) ==
  /\ \A l \in asked.lines : l.addrs \subseteq m.headers[l.field]
  /\ asked.files \subseteq m.files
  /\ asked.image = "local" => Send!Image \in m.files

(* m_msg answers as long as one store reads it and no other has cleared    *)
(* its list; nothing has arrived before a store succeeds, and after it     *)
(* nothing is sent.  The counters of m_msg change once for each attempt.   *)
SendInv ==
  /\ editors \in Seq(Editor) /\ Len(editors) <= MaxEditors
  /\ attached \subseteq Files /\ image \in {"none", "local", "cid"}
  /\ identity \in {"mine", "other", "unknown"}
  /\ storing \in 0..2 /\ tries \in 0..MaxTries
  /\ msg \in Letter /\ msg.counts = tries
  /\ sendPhase \in {"open", "sent", "freed"}
  /\ IF sendPhase = "sent" THEN storing = 0 /\ arrived = {msg} ELSE arrived = {}
  /\ (storing = 1 /\ sendPhase = "open") \/ sendPhase = "sent" => Answers(msg)

-----------------------------------------------------------------------------
LEMMA SendInit ==
  ASSUME Send!Init, "To" \in Fields, MaxEditors \in Nat \ {0}, MaxTries \in Nat
  PROVE  SendInv
<1>1. PICK to \in SUBSET Addresses :
        /\ editors = <<[field |-> "To", addrs |-> to]>>
        /\ msg = [headers |-> [Send!NoHeaders EXCEPT !["To"] = to], files |-> {}, refs |-> FALSE, counts |-> 0]
  BY DEF Send!Init
<1>2. editors \in Seq(Editor) /\ Len(editors) <= MaxEditors
  BY <1>1 DEF Editor
<1>3. msg \in Letter /\ msg.counts = 0
  <2>1. [Send!NoHeaders EXCEPT !["To"] = to] \in [Fields -> SUBSET Addresses]
    BY DEF Send!NoHeaders
  <2> QED  BY <1>1, <2>1 DEF Letter
<1> QED  BY <1>2, <1>3 DEF Send!Init, SendInv

(* The lines of the window are editors, and those of a valid message hold  *)
(* addresses.                                                              *)
LEMMA LinesAreEditors ==
  ASSUME SendInv
  PROVE  /\ Send!Lines \subseteq Editor
         /\ Send!check_validity => \A l \in Send!Lines : l.addrs \subseteq Addresses
<1>1. \A j \in DOMAIN editors : editors[j] \in Editor
  BY ElementOfSeq DEF SendInv
<1>2. Send!Lines \subseteq Editor
  BY <1>1 DEF Send!Lines
<1> QED  BY <1>2 DEF Send!check_validity, Editor

(* What is collected from lines with addresses has every one of them.      *)
LEMMA CollectedHasAll ==
  ASSUME NEW lines \in SUBSET Editor, \A l \in lines : l.addrs \subseteq Addresses
  PROVE  /\ Send!Collected(lines) \in [Fields -> SUBSET Addresses]
         /\ \A l \in lines : l.addrs \subseteq Send!Collected(lines)[l.field]
  BY DEF Send!Collected, Editor

-----------------------------------------------------------------------------
LEMMA EditKeeps ==
  ASSUME SendInv, "To" \in Fields, MaxEditors \in Nat, Send!EditHeaders
  PROVE  SendInv'
<1>1. Send!Editable /\ UNCHANGED <<attached, image, identity, msg, storing, tries, asked, sendPhase, arrived>>
  BY DEF Send!EditHeaders
<1>2. editors' \in Seq(Editor) /\ Len(editors') <= MaxEditors
  <2> \A i \in DOMAIN editors : editors[i] \in Editor
    BY ElementOfSeq DEF SendInv
  <2>1. ASSUME NEW i \in DOMAIN editors, NEW f \in Fields, editors' = [editors EXCEPT ![i].field = f]
        PROVE  editors' \in Seq(Editor) /\ Len(editors') = Len(editors)
    <3>1. [editors[i] EXCEPT !.field = f] \in Editor
      BY <2>1 DEF Editor
    <3>2. editors' = [editors EXCEPT ![i] = [editors[i] EXCEPT !.field = f]]
      BY <2>1 DEF SendInv
    <3> QED  BY <3>1, <3>2, ExceptSeq DEF SendInv
  <2>2. ASSUME NEW i \in DOMAIN editors, NEW a \in Addresses \cup {Send!BadAddress},
               editors' = [editors EXCEPT ![i].addrs = {a}]
        PROVE  editors' \in Seq(Editor) /\ Len(editors') = Len(editors)
    <3>1. [editors[i] EXCEPT !.addrs = {a}] \in Editor
      BY <2>2 DEF Editor
    <3>2. editors' = [editors EXCEPT ![i] = [editors[i] EXCEPT !.addrs = {a}]]
      BY <2>2 DEF SendInv
    <3> QED  BY <3>1, <3>2, ExceptSeq DEF SendInv
  <2>3. ASSUME NEW i \in DOMAIN editors,
               editors' = SubSeq(editors, 1, i - 1) \o SubSeq(editors, i + 1, Len(editors))
        PROVE  editors' \in Seq(Editor) /\ Len(editors') <= Len(editors)
    <3>1. i \in 1..Len(editors) /\ Len(editors) \in Nat
      BY LenProperties DEF SendInv
    <3>2. SubSeq(editors, 1, i - 1) \in Seq(Editor) /\ Len(SubSeq(editors, 1, i - 1)) = i - 1
      BY <3>1 DEF SendInv
    <3>3. /\ SubSeq(editors, i + 1, Len(editors)) \in Seq(Editor)
          /\ Len(SubSeq(editors, i + 1, Len(editors))) = Len(editors) - i
      BY <3>1 DEF SendInv
    <3> HIDE DEF SendInv
    <3>4. editors' \in Seq(Editor) /\ Len(editors') = (i - 1) + (Len(editors) - i)
      BY <2>3, <3>2, <3>3, ConcatProperties
    <3> QED  BY <3>1, <3>4
  <2>4. ASSUME Len(editors) < MaxEditors,
               editors' = Append(editors, [field |-> "To", addrs |-> msg.headers["To"]])
        PROVE  editors' \in Seq(Editor) /\ Len(editors') = Len(editors) + 1
    <3>1. msg.headers["To"] \subseteq Addresses
      BY DEF SendInv, Letter
    <3>2. [field |-> "To", addrs |-> msg.headers["To"]] \in Editor
      BY <3>1 DEF Editor
    <3> QED  BY <2>4, <3>2, AppendProperties DEF SendInv
  <2>5. Len(editors) \in Nat /\ Len(editors) <= MaxEditors
    BY LenProperties DEF SendInv
  <2>6. CASE editors' \in Seq(Editor) /\ Len(editors') <= Len(editors)
    BY <2>5, <2>6, LenProperties
  <2>7. CASE editors' \in Seq(Editor) /\ Len(editors') = Len(editors) + 1 /\ Len(editors) < MaxEditors
    BY <2>5, <2>7
  <2> QED  BY <2>1, <2>2, <2>3, <2>4, <2>5, <2>6, <2>7 DEF Send!EditHeaders, Send!cb_changed
<1> QED  BY <1>1, <1>2 DEF SendInv, Answers

(* The files, the image and the identity may change during a store: they   *)
(* are not read again.                                                     *)
LEMMA ShownKeeps ==
  ASSUME SendInv, Send!attach_files \/ Send!insert_image \/ Send!other_identity
  PROVE  SendInv'
<1>1. /\ attached' \subseteq Files /\ image' \in {"none", "local", "cid"}
      /\ identity' \in {"mine", "other", "unknown"}
      /\ UNCHANGED <<editors, msg, storing, tries, asked, sendPhase, arrived>>
  BY DEF SendInv, Send!attach_files, Send!insert_image, Send!other_identity
<1> QED  BY <1>1 DEF SendInv, Answers

LEMMA SendKeeps ==
  ASSUME SendInv, MaxTries \in Nat, Send!send
  PROVE  SendInv'
<1>1. /\ sendPhase = "open" /\ storing \in 0..1 /\ tries < MaxTries /\ arrived = {}
      /\ sendPhase' = (IF storing > 0 THEN "freed" ELSE "open")
      /\ UNCHANGED <<editors, attached, identity, arrived>> /\ image' \in {"none", "local", "cid"}
  BY DEF Send!send, Send!Editable, SendInv
<1>2. Send!CollectAttachments \subseteq Files \cup {Send!Image} /\ attached \subseteq Send!CollectAttachments
      /\ (image = "local" => Send!Image \in Send!CollectAttachments)
  BY DEF Send!CollectAttachments, SendInv
<1>3. CASE identity = "unknown"
  <2>1. msg' = [msg EXCEPT !.files = Send!CollectAttachments, !.refs = image # "none"]
        /\ UNCHANGED <<storing, tries, asked>>
    BY <1>3 DEF Send!send
  <2>2. msg' \in Letter /\ msg'.counts = msg.counts
    BY <1>2, <2>1 DEF SendInv, Letter
  <2>3. ~(storing' = 1 /\ sendPhase' = "open") /\ sendPhase' # "sent"
    BY <1>1, <2>1
  <2> QED  BY <1>1, <2>1, <2>2, <2>3 DEF SendInv
<1>4. CASE identity # "unknown"
  <2>1. /\ msg' = [msg EXCEPT !.headers = Send!Collected(Send!Lines), !.files = Send!CollectAttachments,
                              !.refs = image # "none", !.counts = @ + 1]
        /\ storing' = storing + 1 /\ tries' = tries + 1
        /\ asked' = [lines |-> Send!Lines, files |-> attached, image |-> image]
    BY <1>4 DEF Send!send
  <2>2. Send!Collected(Send!Lines) \in [Fields -> SUBSET Addresses]
        /\ \A l \in Send!Lines : l.addrs \subseteq Send!Collected(Send!Lines)[l.field]
    BY LinesAreEditors, CollectedHasAll DEF Send!send
  <2>3. tries \in 0..MaxTries /\ tries' \in 0..MaxTries /\ storing' \in 0..2 /\ msg.counts = tries
    BY <1>1, <2>1 DEF SendInv
  <2>4. /\ msg' \in Letter /\ msg'.counts = tries' /\ msg'.files = Send!CollectAttachments
        /\ msg'.headers = Send!Collected(Send!Lines)
    BY <1>2, <2>1, <2>2, <2>3 DEF SendInv, Letter
  <2>5. Answers(msg)'
    BY <1>2, <2>1, <2>2, <2>4 DEF Answers
  <2> QED  BY <1>1, <2>1, <2>3, <2>4, <2>5 DEF SendInv
<1> QED  BY <1>3, <1>4

LEMMA StoreKeeps ==
  ASSUME SendInv, Send!store
  PROVE  SendInv'
<1>1. storing = 1 /\ storing' = 0 /\ sendPhase = "open" /\ arrived = {}
      /\ UNCHANGED <<editors, attached, image, identity, msg, tries>>
  BY DEF Send!store, SendInv
<1>2. CASE sendPhase' = "sent" /\ arrived' = {msg} /\ UNCHANGED asked
  BY <1>1, <1>2 DEF SendInv, Answers
<1>3. CASE UNCHANGED <<sendPhase, arrived>>
  BY <1>1, <1>3 DEF SendInv
<1> QED  BY <1>2, <1>3 DEF Send!store

LEMMA SendStep ==
  ASSUME SendInv, "To" \in Fields, MaxEditors \in Nat \ {0}, MaxTries \in Nat, [Send!Next]_sendVars
  PROVE  SendInv'
<1>1. CASE UNCHANGED sendVars
  BY <1>1 DEF sendVars, SendInv, Answers
<1> QED  BY <1>1, EditKeeps, ShownKeeps, SendKeeps, StoreKeeps DEF Send!Next

-----------------------------------------------------------------------------
(* The message that arrives goes to the addresses of every line that the   *)
(* window showed when Send was called, and it has the files of the list    *)
(* and the image given since the last attempt, for any addresses, header   *)
(* fields, files and attempts, whatever is edited while mail_msg::store    *)
(* runs the event loop; and all state keeps its type.                      *)
THEOREM StoredAsAsked ==
  ASSUME "To" \in Fields, MaxEditors \in Nat \ {0}, MaxTries \in Nat
  PROVE  Spec => [](StoredIsWhole /\ (part = "send" => Send!TypeOK))
<1> DEFINE Inv == part = "send" => SendInv
<1>1. Init => Inv
  BY SendInit DEF Init
<1>2. Inv /\ [Next]_vars => Inv'
  BY PartKept, SendMoves, SendStep
<1>3. ASSUME SendInv PROVE Send!StoredIsWhole /\ Send!TypeOK
  <2>1. Send!StoredIsWhole
    BY <1>3 DEF SendInv, Answers, Send!StoredIsWhole
  <2>2. Cardinality(arrived) <= 1
    <3>1. arrived = {} \/ arrived = {msg}
      BY <1>3 DEF SendInv
    <3>2. Cardinality({}) = 0 /\ Cardinality({msg}) = 1
      BY FS_EmptySet, FS_Singleton
    <3> QED  BY <3>1, <3>2
  <2>3. Send!Cardinality(arrived) = Cardinality(arrived)
    BY Zenon DEF Send!Cardinality, Cardinality
  <2> QED  BY <1>3, <2>1, <2>2, <2>3 DEF SendInv, Send!TypeOK, Editor, Letter
<1>4. Inv => StoredIsWhole /\ (part = "send" => Send!TypeOK)
  BY <1>3 DEF StoredIsWhole
<1> QED  BY <1>1, <1>2, <1>4, PTL DEF Spec

-----------------------------------------------------------------------------
(* The selection dialog.                                                   *)
LEMMA SelectMoves ==
  ASSUME part = "select", [Next]_vars
  PROVE  [Select!Next]_selectVars
  BY DEF Next, vars

-----------------------------------------------------------------------------
(* What the dialog and its filter are made of.                             *)
IsText(t) == t = [words |-> t.words, excluded |-> t.excluded, substrs |-> t.substrs,
                  ops |-> t.ops, minus |-> t.minus]

IsMask(s, u) == s \subseteq StatusBits /\ u \subseteq StatusBits /\ s \cap u = {}

IsDialog(d) ==
  /\ d = [date |-> d.date, chkmin |-> d.chkmin, chkmax |-> d.chkmax, min |-> d.min, max |-> d.max,
          contains |-> d.contains, conditions |-> d.conditions, trash |-> d.trash,
          set |-> d.set, unset |-> d.unset, limit |-> d.limit]
  /\ d.date \in {"", "today", "range"} /\ d.min \in Nat /\ d.max \in Nat
  /\ d.chkmin \in BOOLEAN /\ d.chkmax \in BOOLEAN /\ d.trash \in BOOLEAN
  /\ IsText(d.contains) /\ IsMask(d.set, d.unset) /\ d.limit \in {"1000", "many"}

IsFilter(f) ==
  /\ f = [exact |-> f.exact, set |-> f.set, unset |-> f.unset, inTrash |-> f.inTrash,
          withTrash |-> f.withTrash, untagged |-> f.untagged, tags |-> f.tags,
          addresses |-> f.addresses, conditions |-> f.conditions, clause |-> f.clause,
          min |-> f.min, max |-> f.max, limit |-> f.limit, fts |-> f.fts]
  /\ f.exact = "any" /\ f.withTrash = FALSE /\ f.untagged = FALSE /\ f.tags = {}
  /\ f.addresses = {} /\ f.limit = "1000" /\ f.clause \in {"", "today", "range"}
  /\ f.min \in Nat \cup {Select!NoDay} /\ f.max \in Nat \cup {Select!NoDay}
  /\ f.inTrash \in BOOLEAN /\ IsText(f.fts) /\ IsMask(f.set, f.unset)

(* What the filter has of the dialog when a query runs: all of it, and what*)
(* an earlier query left, bounds that "today" keeps and operators with a   *)
(* minus sign.                                                             *)
Copied(d, f) ==
  /\ f.conditions = d.conditions /\ f.inTrash = d.trash /\ f.set = d.set /\ f.unset = d.unset
  /\ f.fts = [d.contains EXCEPT !.minus = f.fts.minus] /\ d.contains.minus \subseteq f.fts.minus
  /\ f.clause = d.date
  /\ d.date = "" => f.min = Select!NoDay /\ f.max = Select!NoDay
  /\ d.date = "range" => /\ f.min = (IF d.chkmin THEN d.min ELSE Select!NoDay)
                         /\ f.max = (IF d.chkmax THEN d.max ELSE Select!NoDay)

SelectInv ==
  /\ IsDialog(select_dialog) /\ IsFilter(filter) /\ running \in {"no", "yes"}
  /\ running = "yes" => Copied(select_dialog, filter)

-----------------------------------------------------------------------------
LEMMA NewIsDialog == IsDialog(Select!NewDialog) /\ IsFilter(Select!NewFilter)
<1>1. IsText(Select!NoOptions)
  BY DEF IsText, Select!NoOptions
<1>2. IsMask({}, {})
  BY DEF IsMask
<1> QED  BY <1>1, <1>2 DEF IsDialog, IsFilter, Select!NewDialog, Select!NewFilter, Select!Today, Select!NoDay

(* The signals of the widgets keep the shape of the dialog.                *)
LEMMA SetDateKeeps ==
  ASSUME NEW d, IsDialog(d), NEW e \in {"", "today", "range"}
  PROVE  IsDialog(Select!SetDate(d, e))
<1>1. PICK q : q = [d EXCEPT !.date = e]
  OBVIOUS
<1>2. IsDialog(q)
  BY <1>1 DEF IsDialog
<1>3. IsDialog(Select!date_cb_changed(q))
  <2>1. CASE q.date = "range"
    <3>1. PICK b \in BOOLEAN : b = (q.chkmin \/ ~q.chkmax)
      OBVIOUS
    <3>2. Select!date_cb_changed(q) = [q EXCEPT !.chkmin = q.chkmin \/ ~q.chkmax]
      BY <2>1 DEF Select!date_cb_changed
    <3>3. Select!date_cb_changed(q) = [q EXCEPT !.chkmin = b]
      BY <3>1, <3>2, Zenon
    <3> QED  BY <1>2, <3>3 DEF IsDialog
  <2>2. CASE q.date # "range"
    <3>1. Select!date_cb_changed(q) = [q EXCEPT !.chkmin = FALSE, !.chkmax = FALSE]
      BY <2>2 DEF Select!date_cb_changed
    <3> QED  BY <1>2, <3>1 DEF IsDialog
  <2> QED  BY <2>1, <2>2
<1> QED  BY <1>1, <1>3 DEF Select!SetDate

LEMMA CheckKeeps ==
  ASSUME NEW d, IsDialog(d), NEW on \in BOOLEAN
  PROVE  IsDialog(Select!CheckMin(d, on)) /\ IsDialog(Select!CheckMax(d, on))
<1>1. PICK p, q : p = [d EXCEPT !.chkmin = on] /\ q = [d EXCEPT !.chkmax = on]
  OBVIOUS
<1>2. IsDialog(p)
  BY <1>1 DEF IsDialog
<1>3. IsDialog(q)
  BY <1>1 DEF IsDialog
<1>4. ASSUME NEW r, IsDialog(r) PROVE IsDialog(Select!select_date_range(r, on))
  BY <1>4, SetDateKeeps, Zenon DEF Select!select_date_range
<1>5. /\ Select!CheckMin(d, on) \in {d, Select!select_date_range(p, on)}
      /\ Select!CheckMax(d, on) \in {d, Select!select_date_range(q, on)}
  BY <1>1, Zenon DEF Select!CheckMin, Select!CheckMax
<1> QED  BY <1>2, <1>3, <1>4, <1>5

LEMMA StatusKeeps ==
  ASSUME NEW d, IsDialog(d), NEW bit \in StatusBits, NEW choice
  PROVE  IsDialog(Select!status_changed(d, bit, choice))
<1>1. PICK s, u : /\ s = (IF choice = "yes" THEN d.set \cup {bit} ELSE d.set \ {bit})
                  /\ u = (IF choice = "no" THEN d.unset \cup {bit} ELSE d.unset \ {bit})
  OBVIOUS
<1>2. IsMask(s, u)
  BY <1>1 DEF IsDialog, IsMask
<1>3. Select!status_changed(d, bit, choice) = [d EXCEPT !.set = s, !.unset = u]
  BY <1>1 DEF Select!status_changed
<1> QED  BY <1>2, <1>3 DEF IsDialog

(* A new dialog that shows a filter.                                       *)
LEMMA FieldsAreDialog ==
  ASSUME NEW f, IsFilter(f)
  PROVE  IsDialog(Select!FieldsShown(f))
<1>1. PICK x, y : /\ x = (IF f.min = Select!NoDay THEN Select!Today ELSE f.min)
                  /\ y = (IF f.max = Select!NoDay THEN Select!Today ELSE f.max)
  OBVIOUS
<1>2. x \in Nat /\ y \in Nat
  BY <1>1 DEF IsFilter, Select!Today
<1>3. Select!FieldsShown(f) =
        [Select!NewDialog EXCEPT !.min = x, !.max = y, !.conditions = f.conditions,
           !.trash = f.inTrash, !.limit = f.limit, !.set = f.set, !.unset = f.unset]
  BY <1>1 DEF Select!FieldsShown, Select!NewDialog
<1>4. IsText(Select!NoOptions)
  BY DEF IsText, Select!NoOptions
<1>5. IsMask(f.set, f.unset) /\ f.inTrash \in BOOLEAN /\ f.limit = "1000"
  BY DEF IsFilter
<1> QED  BY <1>2, <1>3, <1>4, <1>5 DEF IsDialog, Select!NewDialog

LEMMA ShownIsDialog ==
  ASSUME NEW f, IsFilter(f)
  PROVE  IsDialog(Select!filter_to_dialog(f))
<1>1. PICK shown : shown = Select!FieldsShown(f)
  OBVIOUS
<1>2. PICK low : low = (IF f.min # Select!NoDay THEN Select!CheckMin(shown, TRUE) ELSE shown)
  OBVIOUS
<1>3. PICK high : high = (IF f.max # Select!NoDay THEN Select!CheckMax(low, TRUE) ELSE low)
  OBVIOUS
<1>4. IsDialog(shown) /\ IsDialog(low) /\ IsDialog(high)
  BY <1>1, <1>2, <1>3, FieldsAreDialog, CheckKeeps
<1>5. Select!filter_to_dialog(f) = Select!SetDate(high, f.clause)
  BY <1>1, <1>2, <1>3, Zenon DEF Select!filter_to_dialog
<1> QED  BY <1>4, <1>5, SetDateKeeps DEF IsFilter

-----------------------------------------------------------------------------
(* What OK copies.                                                         *)
CopiedDates(d, f, g) ==
  /\ g.clause = d.date
  /\ d.date = "" => g.min = Select!NoDay /\ g.max = Select!NoDay
  /\ d.date = "range" => /\ g.min = (IF d.chkmin THEN d.min ELSE Select!NoDay)
                         /\ g.max = (IF d.chkmax THEN d.max ELSE Select!NoDay)
  /\ d.date = "today" => g.min = f.min /\ g.max = f.max

LEMMA DatesCopied ==
  ASSUME NEW d, IsDialog(d), NEW f, IsFilter(f), NEW g, g = Select!ToFilterDates(d, f)
  PROVE  IsFilter(g) /\ g.fts = f.fts /\ CopiedDates(d, f, g)
<1>1. CASE d.date = ""
  <2>1. g = [f EXCEPT !.clause = "", !.min = Select!NoDay, !.max = Select!NoDay]
    BY <1>1 DEF Select!ToFilterDates
  <2> QED  BY <1>1, <2>1 DEF IsFilter, CopiedDates
<1>2. CASE d.date = "range"
  <2>1. PICK x, y : /\ x = (IF d.chkmin THEN d.min ELSE Select!NoDay)
                    /\ y = (IF d.chkmax THEN d.max ELSE Select!NoDay)
    OBVIOUS
  <2>2. x \in Nat \cup {Select!NoDay} /\ y \in Nat \cup {Select!NoDay}
    BY <2>1 DEF IsDialog
  <2>3. g = [f EXCEPT !.clause = "range", !.min = x, !.max = y]
    BY <1>2, <2>1, Zenon DEF Select!ToFilterDates
  <2>4. IsFilter(g) /\ g.clause = "range" /\ g.fts = f.fts /\ g.min = x /\ g.max = y
    BY <2>2, <2>3 DEF IsFilter
  <2> QED  BY <1>2, <2>1, <2>4 DEF CopiedDates
<1>3. CASE d.date = "today"
  <2>1. g = [f EXCEPT !.clause = "today"]
    BY <1>3 DEF Select!ToFilterDates
  <2> QED  BY <1>3, <2>1 DEF IsFilter, CopiedDates
<1> QED  BY <1>1, <1>2, <1>3 DEF IsDialog

LEMMA TextCopied ==
  ASSUME NEW d, IsDialog(d), NEW f, IsFilter(f), NEW t,
         t = [d.contains EXCEPT !.minus = Select!Cleared(f.fts).minus \cup @]
  PROVE  /\ IsText(t) /\ t.minus = f.fts.minus \cup d.contains.minus
         /\ t = [d.contains EXCEPT !.minus = t.minus]
<1>1. Select!Cleared(f.fts).minus = f.fts.minus
  BY DEF Select!Cleared, Select!NoOptions
<1>2. IsText(d.contains)
  BY DEF IsDialog
<1> QED  BY <1>1, <1>2 DEF IsText

LEMMA ToFilterCopies ==
  ASSUME NEW d, IsDialog(d), NEW f, IsFilter(f), NEW h, h = Select!to_filter(d, f)
  PROVE  /\ IsFilter(h) /\ (d.limit # "many" => Copied(d, h))
         /\ d.limit # "many" => h.fts.minus = f.fts.minus \cup d.contains.minus
         /\ d.limit # "many" /\ d.date = "today" => h.min = f.min /\ h.max = f.max
<1>1. PICK g : g = Select!ToFilterDates(d, f)
  OBVIOUS
<1>2. PICK t : t = [d.contains EXCEPT !.minus = Select!Cleared(f.fts).minus \cup @]
  OBVIOUS
<1>3. PICK k : k = [g EXCEPT !.fts = t, !.conditions = d.conditions, !.inTrash = d.trash]
  OBVIOUS
<1>4. Select!ToFilterContents(d, f) = k
  BY <1>1, <1>2, <1>3 DEF Select!ToFilterContents
<1>5. IsFilter(g) /\ IsText(t) /\ d.trash \in BOOLEAN /\ IsMask(d.set, d.unset)
  BY <1>1, <1>2, DatesCopied, TextCopied DEF IsDialog
<1>6. IsFilter(k)
  BY <1>3, <1>5 DEF IsFilter
<1>7. k.fts = t /\ k.conditions = d.conditions /\ k.inTrash = d.trash
      /\ k.clause = g.clause /\ k.min = g.min /\ k.max = g.max
  BY <1>3, <1>5 DEF IsFilter
<1>8. CopiedDates(d, f, g)
  BY <1>1, DatesCopied
<1>9. CASE d.limit = "many"
  <2>1. h = k
    BY <1>4, <1>9 DEF Select!to_filter, Select!Numeric
  <2> QED  BY <1>6, <1>9, <2>1
<1>10. CASE d.limit = "1000"
  <2>1. h = [k EXCEPT !.limit = "1000", !.set = d.set, !.unset = d.unset]
    BY <1>4, <1>10 DEF Select!to_filter, Select!Numeric
  <2>2. IsFilter(h)
    BY <1>5, <1>6, <2>1 DEF IsFilter
  <2>3. h.set = d.set /\ h.unset = d.unset /\ h.fts = k.fts /\ h.conditions = k.conditions
        /\ h.inTrash = k.inTrash /\ h.clause = k.clause /\ h.min = k.min /\ h.max = k.max
    BY <1>6, <2>1 DEF IsFilter
  <2>4. h.fts = [d.contains EXCEPT !.minus = h.fts.minus] /\ d.contains.minus \subseteq h.fts.minus
    BY <1>2, <1>7, <2>3, TextCopied
  <2>5. CopiedDates(d, f, h)
    <3>1. h.clause = g.clause /\ h.min = g.min /\ h.max = g.max
      BY <1>7, <2>3
    <3> QED  BY <1>8, <3>1, Zenon DEF CopiedDates
  <2>6. Copied(d, h)
    BY <1>7, <2>3, <2>4, <2>5, Zenon DEF Copied, CopiedDates
  <2>7. h.fts.minus = f.fts.minus \cup d.contains.minus
    <3>1. t.minus = f.fts.minus \cup d.contains.minus
      BY <1>2, TextCopied
    <3> QED  BY <1>7, <2>3, <3>1
  <2>8. d.date = "today" => h.min = f.min /\ h.max = f.max
    BY <2>5 DEF CopiedDates
  <2> QED  BY <2>2, <2>6, <2>7, <2>8
<1> QED  BY <1>9, <1>10 DEF IsDialog

-----------------------------------------------------------------------------
(* What is selected is what is shown, when nothing is left over.           *)
LEMMA SameSelection ==
  ASSUME NEW m, m.day \in Nat, NEW d, IsDialog(d), NEW f, IsFilter(f), Copied(d, f),
         ~(f.clause = "today" /\ (f.min # Select!NoDay \/ f.max # Select!NoDay)),
         f.fts.minus \subseteq d.contains.minus
  PROVE  Select!InQuery(f, m) <=> Select!Wanted(d, m)
<1>1. f.fts = d.contains
  <2>1. f.fts.minus = d.contains.minus
    BY DEF Copied
  <2> QED  BY <2>1 DEF Copied, IsText, IsDialog
<1>2. /\ Select!WordClauses(f, m) <=> Select!WordClauses([fts |-> d.contains], m)
      /\ Select!process_status_clause(f, m) <=> Select!process_status_clause([fts |-> d.contains], m)
      /\ Select!process_address_clause(f, m) <=> Select!process_address_clause([fts |-> d.contains], m)
      /\ Select!process_tag_clause(f, m) <=> Select!process_tag_clause([fts |-> d.contains], m)
      /\ Select!process_condition_clauses(f, m)
           <=> Select!process_condition_clauses([fts |-> d.contains], m)
  BY <1>1 DEF Select!WordClauses, Select!process_status_clause, Select!process_address_clause,
              Select!process_tag_clause, Select!process_condition_clauses
<1>3. Select!AddressClauses(f, m) /\ f.tags \subseteq m.tags
  BY DEF IsFilter, Select!AddressClauses
<1>4. Select!StatusClauses(f, m) <=> /\ d.set \subseteq m.status /\ d.unset \cap m.status = {}
                                     /\ d.trash <=> "trashed" \in m.status
  <2>1. f.set = d.set /\ f.unset = d.unset /\ f.inTrash = d.trash /\ d.trash \in BOOLEAN
    BY DEF Copied, IsDialog
  <2>2. f.exact = "any" /\ f.withTrash = FALSE /\ f.untagged = FALSE
    BY DEF IsFilter
  <2>3. Select!StatusClauses(f, m) <=> Select!Masks(f, m)
    BY <2>2 DEF Select!StatusClauses
  <2>4. CASE d.trash = TRUE
    <3>1. Select!InTrash(f) /\ ~Select!OutOfTrash(f)
      BY <2>1, <2>2, <2>4 DEF Select!InTrash, Select!OutOfTrash
    <3>2. Select!Masks(f, m) <=> d.set \cup {"trashed"} \subseteq m.status /\ d.unset \cap m.status = {}
      BY <2>1, <3>1 DEF Select!Masks
    <3> QED  BY <2>3, <2>4, <3>2
  <2>5. CASE d.trash = FALSE
    <3>1. ~Select!InTrash(f) /\ Select!OutOfTrash(f)
      BY <2>1, <2>2, <2>5 DEF Select!InTrash, Select!OutOfTrash
    <3>2. Select!Masks(f, m) <=> d.set \subseteq m.status /\ (d.unset \cup {"trashed"}) \cap m.status = {}
      BY <2>1, <3>1 DEF Select!Masks
    <3> QED  BY <2>3, <2>5, <3>2
  <2> QED  BY <2>1, <2>4, <2>5
<1>5. Select!DateClauses(f, m) <=>
        /\ d.date = "today" => m.day = Select!Today
        /\ d.date = "range" => (d.chkmin => m.day >= d.min) /\ (d.chkmax => m.day <= d.max)
        /\ d.date = "" => \A o \in Select!DateOperators :
             Select!process_date_clause(o[2], Select!LastValue(d.contains.ops, o[1]), m)
  <2>1. CASE d.date = ""
    BY <1>1, <2>1 DEF Copied, Select!DateClauses
  <2>2. CASE d.date = "range"
    <3>1. f.clause = "range" /\ d.min \in Nat /\ d.max \in Nat
      BY <2>2 DEF Copied, IsDialog
    <3>2. (f.min # Select!NoDay => m.day >= f.min) <=> (d.chkmin => m.day >= d.min)
      BY <2>2, <3>1 DEF Copied, Select!NoDay
    <3>3. (f.max # Select!NoDay => m.day <= f.max) <=> (d.chkmax => m.day <= d.max)
      BY <2>2, <3>1 DEF Copied, Select!NoDay
    <3> QED  BY <2>2, <3>1, <3>2, <3>3 DEF Select!DateClauses
  <2>3. CASE d.date = "today"
    <3>1. f.clause = "today" /\ f.min = Select!NoDay /\ f.max = Select!NoDay
      BY <2>3 DEF Copied
    <3>2. Select!process_date_clause("equal", "today", m) <=> m.day = Select!Today
      BY DEF Select!process_date_clause, Select!Span, Select!Today
    <3> QED  BY <2>3, <3>1, <3>2 DEF Select!DateClauses
  <2> QED  BY <2>1, <2>2, <2>3 DEF IsDialog
<1> QED  BY <1>1, <1>2, <1>3, <1>4, <1>5 DEF Select!InQuery, Select!Wanted, Copied

-----------------------------------------------------------------------------
(* The signals of the widgets of the dates leave the other widgets alone.  *)
ButDates(d, e) == e = [d EXCEPT !.date = e.date, !.chkmin = e.chkmin, !.chkmax = e.chkmax]

LEMMA SetDateMoves ==
  ASSUME NEW d, IsDialog(d), NEW e \in {"", "today", "range"}, e # d.date, NEW r,
         r = Select!SetDate(d, e)
  PROVE  ButDates(d, r) /\ r.date = e
         /\ (e = "range" => r.chkmax = d.chkmax)
         /\ (e = "range" /\ d.chkmin = TRUE => r.chkmin = TRUE)
         /\ (e = "range" /\ d.chkmin = FALSE /\ d.chkmax = TRUE => r.chkmin = FALSE)
         /\ (e # "range" => r.chkmin = FALSE /\ r.chkmax = FALSE)
<1>1. CASE e = "range"
  <2>1. PICK b \in BOOLEAN : b = (d.chkmin \/ ~d.chkmax)
    OBVIOUS
  <2>2. PICK q : q = [d EXCEPT !.date = e]
    OBVIOUS
  <2>3. q.date = "range" /\ q.chkmin = d.chkmin /\ q.chkmax = d.chkmax
    BY <1>1, <2>2 DEF IsDialog
  <2>4. r = [q EXCEPT !.chkmin = q.chkmin \/ ~q.chkmax]
    BY <2>2, <2>3 DEF Select!SetDate, Select!date_cb_changed
  <2>5. r = [q EXCEPT !.chkmin = b]
    BY <2>1, <2>3, <2>4, Zenon
  <2>6. r.date = e /\ r.chkmin = b /\ r.chkmax = d.chkmax
    BY <2>2, <2>5 DEF IsDialog
  <2>7. ButDates(d, r)
    BY <2>2, <2>5 DEF IsDialog, ButDates
  <2>8. /\ d.chkmin = TRUE => b = TRUE
        /\ d.chkmin = FALSE /\ d.chkmax = TRUE => b = FALSE
    BY <2>1
  <2> QED  BY <1>1, <2>6, <2>7, <2>8
<1>2. CASE e # "range"
  <2>1. r = [[d EXCEPT !.date = e] EXCEPT !.chkmin = FALSE, !.chkmax = FALSE]
    BY <1>2 DEF Select!SetDate, Select!date_cb_changed, IsDialog
  <2>2. r.date = e /\ r.chkmin = FALSE /\ r.chkmax = FALSE
    BY <2>1 DEF IsDialog
  <2>3. ButDates(d, r)
    BY <2>1 DEF IsDialog, ButDates
  <2> QED  BY <1>2, <2>2, <2>3
<1> QED  BY <1>1, <1>2

(* A filter whose bounds are those of its choice is shown with its dates.  *)
OwnBounds(f) ==
  /\ f.clause = "range" => f.min # Select!NoDay \/ f.max # Select!NoDay
  /\ f.clause # "range" => f.min = Select!NoDay /\ f.max = Select!NoDay

LEMMA ShownDates ==
  ASSUME NEW f, IsFilter(f), OwnBounds(f), NEW s, s = Select!FieldsShown(f),
         NEW d, d = Select!filter_to_dialog(f)
  PROVE  /\ ButDates(s, d) /\ d.date = f.clause
         /\ d.chkmin = (f.min # Select!NoDay) /\ d.chkmax = (f.max # Select!NoDay)
<1>1. IsDialog(s) /\ s.date = "" /\ s.chkmin = FALSE /\ s.chkmax = FALSE
  BY FieldsAreDialog DEF Select!FieldsShown, Select!NewDialog
<1>2. CASE f.clause = ""
  <2>1. d = s
    BY <1>1, <1>2 DEF Select!filter_to_dialog, OwnBounds, Select!SetDate
  <2>2. ButDates(s, s)
    BY <1>1 DEF ButDates, IsDialog
  <2> QED  BY <1>1, <1>2, <2>1, <2>2 DEF OwnBounds
<1>3. CASE f.clause = "today"
  <2>1. d = Select!SetDate(s, "today")
    BY <1>3 DEF Select!filter_to_dialog, OwnBounds
  <2> QED  BY <1>1, <1>3, <2>1, SetDateMoves DEF OwnBounds
<1>4. CASE f.clause = "range" /\ f.min # Select!NoDay
  <2>1. PICK p : p = [s EXCEPT !.chkmin = TRUE]
    OBVIOUS
  <2>2. IsDialog(p) /\ p.date = "" /\ p.chkmin = TRUE /\ p.chkmax = FALSE
    BY <1>1, <2>1 DEF IsDialog
  <2>3. PICK low : low = Select!SetDate(p, "range")
    OBVIOUS
  <2>4. Select!CheckMin(s, TRUE) = low
    BY <1>1, <2>1, <2>3 DEF Select!CheckMin, Select!select_date_range
  <2>5. IsDialog(low) /\ low.date = "range" /\ low.chkmin = TRUE /\ low.chkmax = FALSE /\ ButDates(p, low)
    BY <2>2, <2>3, SetDateKeeps, SetDateMoves
  <2>6. ButDates(s, low)
    BY <1>1, <2>1, <2>5 DEF ButDates, IsDialog
  <2>7. CASE f.max = Select!NoDay
    <3>1. d = low
      BY <1>4, <2>4, <2>5, <2>7 DEF Select!filter_to_dialog, Select!SetDate
    <3> QED  BY <1>4, <2>5, <2>6, <2>7, <3>1
  <2>8. CASE f.max # Select!NoDay
    <3>1. PICK high : high = [low EXCEPT !.chkmax = TRUE]
      OBVIOUS
    <3>2. high.date = "range" /\ high.chkmin = TRUE /\ high.chkmax = TRUE
      BY <2>5, <3>1 DEF IsDialog
    <3>3. Select!CheckMax(low, TRUE) = high
      BY <2>5, <3>1, <3>2 DEF Select!CheckMax, Select!select_date_range, Select!SetDate
    <3>4. d = high
      BY <1>4, <2>4, <2>8, <3>2, <3>3 DEF Select!filter_to_dialog, Select!SetDate
    <3>5. ButDates(s, high)
      BY <1>1, <2>5, <2>6, <3>1 DEF ButDates, IsDialog
    <3> QED  BY <1>4, <2>8, <3>2, <3>4, <3>5
  <2> QED  BY <2>7, <2>8
<1>5. CASE f.clause = "range" /\ f.min = Select!NoDay
  <2>1. PICK p : p = [s EXCEPT !.chkmax = TRUE]
    OBVIOUS
  <2>2. IsDialog(p) /\ p.date = "" /\ p.chkmin = FALSE /\ p.chkmax = TRUE
    BY <1>1, <2>1 DEF IsDialog
  <2>3. PICK high : high = Select!SetDate(p, "range")
    OBVIOUS
  <2>4. Select!CheckMax(s, TRUE) = high
    BY <1>1, <2>1, <2>3 DEF Select!CheckMax, Select!select_date_range
  <2>5. IsDialog(high) /\ high.date = "range" /\ high.chkmin = FALSE /\ high.chkmax = TRUE
        /\ ButDates(p, high)
    BY <2>2, <2>3, SetDateKeeps, SetDateMoves
  <2>6. ButDates(s, high)
    BY <1>1, <2>1, <2>5 DEF ButDates, IsDialog
  <2>7. d = high
    BY <1>5, <2>4, <2>5 DEF Select!filter_to_dialog, Select!SetDate, OwnBounds
  <2> QED  BY <1>5, <2>5, <2>6, <2>7 DEF OwnBounds
<1> QED  BY <1>2, <1>3, <1>4, <1>5 DEF IsFilter

(* Opening the dialog on such a filter and pressing OK gives it back.      *)
LEMMA RefinedIsSame ==
  ASSUME NEW f, IsFilter(f), OwnBounds(f), f.fts = Select!NoOptions
  PROVE  Select!to_filter(Select!filter_to_dialog(f), Select!NewFilter) = f
<1>1. PICK s : s = Select!FieldsShown(f)
  OBVIOUS
<1>2. PICK d : d = Select!filter_to_dialog(f)
  OBVIOUS
<1>3. PICK h : h = Select!to_filter(d, Select!NewFilter)
  OBVIOUS
<1>4. /\ IsDialog(s) /\ s.contains = Select!NoOptions /\ s.conditions = f.conditions
      /\ s.trash = f.inTrash /\ s.set = f.set /\ s.unset = f.unset /\ s.limit = "1000"
      /\ (f.min # Select!NoDay => s.min = f.min) /\ (f.max # Select!NoDay => s.max = f.max)
  <2>1. f.limit = "1000"
    BY DEF IsFilter
  <2> QED  BY <1>1, <2>1, FieldsAreDialog DEF Select!FieldsShown, Select!NewDialog
<1>5. /\ IsDialog(d) /\ ButDates(s, d) /\ d.date = f.clause
      /\ d.chkmin = (f.min # Select!NoDay) /\ d.chkmax = (f.max # Select!NoDay)
  BY <1>1, <1>2, ShownDates, ShownIsDialog
<1>6. /\ d.contains = Select!NoOptions /\ d.conditions = f.conditions /\ d.trash = f.inTrash
      /\ d.set = f.set /\ d.unset = f.unset /\ d.limit = "1000"
      /\ (f.min # Select!NoDay => d.min = f.min) /\ (f.max # Select!NoDay => d.max = f.max)
  <2>1. d.contains = s.contains /\ d.conditions = s.conditions /\ d.trash = s.trash /\ d.set = s.set
        /\ d.unset = s.unset /\ d.limit = s.limit /\ d.min = s.min /\ d.max = s.max
    BY <1>4, <1>5 DEF ButDates, IsDialog
  <2> QED  BY <1>4, <2>1
<1>7. /\ IsFilter(h) /\ Copied(d, h)
      /\ h.fts.minus = Select!NewFilter.fts.minus \cup d.contains.minus
      /\ (d.date = "today" => h.min = Select!NewFilter.min /\ h.max = Select!NewFilter.max)
  BY <1>3, <1>5, <1>6, NewIsDialog, ToFilterCopies
<1>8. h.fts = f.fts
  <2>1. h.fts.minus = {}
    BY <1>6, <1>7 DEF Select!NewFilter, Select!NoOptions
  <2>2. h.fts = [Select!NoOptions EXCEPT !.minus = {}]
    BY <1>6, <1>7, <2>1 DEF Copied
  <2> QED  BY <2>2 DEF Select!NoOptions
<1>9. h.min = f.min /\ h.max = f.max
  <2>1. CASE f.clause = "today"
    BY <1>5, <1>7, <2>1 DEF OwnBounds, Select!NewFilter
  <2>2. CASE f.clause = ""
    BY <1>5, <1>7, <2>2 DEF OwnBounds, Copied
  <2>3. CASE f.clause = "range"
    <3>1. /\ h.min = (IF d.chkmin THEN d.min ELSE Select!NoDay)
          /\ h.max = (IF d.chkmax THEN d.max ELSE Select!NoDay)
      BY <1>5, <1>7, <2>3, Zenon DEF Copied
    <3>2. d.chkmin <=> f.min # Select!NoDay
      BY <1>5, Zenon
    <3>3. d.chkmax <=> f.max # Select!NoDay
      BY <1>5, Zenon
    <3> QED  BY <1>6, <3>1, <3>2, <3>3, Zenon
  <2> QED  BY <2>1, <2>2, <2>3 DEF IsFilter
<1>10. h.set = f.set /\ h.unset = f.unset /\ h.inTrash = f.inTrash /\ h.conditions = f.conditions
       /\ h.clause = f.clause
  BY <1>5, <1>6, <1>7 DEF Copied
<1>11. h = f
  BY <1>7, <1>8, <1>9, <1>10 DEF IsFilter
<1> QED  BY <1>2, <1>3, <1>11

-----------------------------------------------------------------------------
LEMMA EditKeepsDialog ==
  ASSUME SelectInv, NEW d, IsDialog(d), Select!Edit(d)
  PROVE  SelectInv'
  BY DEF SelectInv, Select!Edit

LEMMA FillInKeeps ==
  ASSUME SelectInv, \A t \in SelectTexts : IsText(t), Select!FillIn
  PROVE  SelectInv'
<1>1. CASE \E t \in SelectTexts : Select!Edit([select_dialog EXCEPT !.contains = t])
  <2>1. PICK t \in SelectTexts : Select!Edit([select_dialog EXCEPT !.contains = t])
    BY <1>1
  <2>2. PICK q : q = [select_dialog EXCEPT !.contains = t]
    OBVIOUS
  <2>3. IsDialog(q)
    BY <2>2 DEF SelectInv, IsDialog
  <2> QED  BY <2>1, <2>2, <2>3, EditKeepsDialog
<1>2. ASSUME NEW c, Select!Edit([select_dialog EXCEPT !.conditions = c]) PROVE SelectInv'
  <2>1. PICK q : q = [select_dialog EXCEPT !.conditions = c]
    OBVIOUS
  <2>2. IsDialog(q)
    BY <2>1 DEF SelectInv, IsDialog
  <2> QED  BY <1>2, <2>1, <2>2, EditKeepsDialog
<1>3. CASE Select!Edit([select_dialog EXCEPT !.trash = ~@])
  <2>1. PICK q : q = [select_dialog EXCEPT !.trash = ~@]
    OBVIOUS
  <2>2. PICK b \in BOOLEAN : b = ~select_dialog.trash
    OBVIOUS
  <2>3. q = [select_dialog EXCEPT !.trash = b]
    BY <2>1, <2>2, Zenon
  <2>4. IsDialog(q)
    BY <2>3 DEF SelectInv, IsDialog
  <2> QED  BY <1>3, <2>1, <2>4, EditKeepsDialog
<1>4. CASE \E l \in {"1000", "many"} : Select!Edit([select_dialog EXCEPT !.limit = l])
  <2>1. PICK l \in {"1000", "many"} : Select!Edit([select_dialog EXCEPT !.limit = l])
    BY <1>4
  <2>2. PICK q : q = [select_dialog EXCEPT !.limit = l]
    OBVIOUS
  <2>3. IsDialog(q)
    BY <2>2 DEF SelectInv, IsDialog
  <2> QED  BY <2>1, <2>2, <2>3, EditKeepsDialog
<1> QED  BY <1>1, <1>2, <1>3, <1>4 DEF Select!FillIn

LEMMA CheckBoundKeeps ==
  ASSUME SelectInv, Select!CheckBound
  PROVE  SelectInv'
<1>1. PICK p, q : /\ p = [select_dialog EXCEPT !.min = Select!StartDay]
                  /\ q = [select_dialog EXCEPT !.max = Select!EndDay]
  OBVIOUS
<1>2. IsDialog(p)
  BY <1>1 DEF SelectInv, IsDialog, Select!StartDay
<1>3. IsDialog(q)
  BY <1>1 DEF SelectInv, IsDialog, Select!EndDay
<1>4. PICK on \in BOOLEAN : Select!Edit(Select!CheckMin(p, on)) \/ Select!Edit(Select!CheckMax(q, on))
  BY <1>1 DEF Select!CheckBound
<1> QED  BY <1>2, <1>3, <1>4, CheckKeeps, EditKeepsDialog

LEMMA OkKeeps ==
  ASSUME SelectInv, Select!ok
  PROVE  SelectInv'
<1>1. filter' = Select!to_filter(select_dialog, filter) /\ select_dialog' = select_dialog
  BY DEF Select!ok
<1>2. running' \in {"no", "yes"} /\ (running' = "yes" => select_dialog.limit # "many")
  BY DEF Select!ok, Select!Numeric
<1>3. IsFilter(filter') /\ (select_dialog.limit # "many" => Copied(select_dialog, filter'))
  BY <1>1, ToFilterCopies DEF SelectInv
<1> QED  BY <1>1, <1>2, <1>3 DEF SelectInv

LEMMA SelectStep ==
  ASSUME SelectInv, \A t \in SelectTexts : IsText(t), [Select!Next]_selectVars
  PROVE  SelectInv'
<1>1. CASE UNCHANGED selectVars
  BY <1>1 DEF SelectInv, selectVars
<1>2. CASE \E e \in {"", "today", "range"} : Select!ChooseDate(e)
  BY <1>2, SetDateKeeps, EditKeepsDialog DEF Select!ChooseDate, SelectInv
<1>3. CASE \E b \in StatusBits, c \in {"yes", "no", "either"} : Select!more_status(b, c)
  BY <1>3, StatusKeeps, EditKeepsDialog DEF Select!more_status, SelectInv
<1>4. CASE Select!timer_done
  BY <1>4, NewIsDialog, ShownIsDialog DEF Select!timer_done, SelectInv
<1>5. CASE Select!cancel
  BY <1>5, NewIsDialog DEF Select!cancel, SelectInv
<1> QED  BY <1>1, <1>2, <1>3, <1>4, <1>5, FillInKeeps, CheckBoundKeeps, OkKeeps DEF Select!Next

-----------------------------------------------------------------------------
(* A query that OK starts selects what the dialog shows, but for what an   *)
(* earlier query left in the filter; and opening the dialog again on a     *)
(* filter and pressing OK selects the same messages.  For any messages,    *)
(* status bits, further fields and texts, whatever is edited, cancelled    *)
(* and asked again.  The search bar, the other half of SelectsAsAsked, is  *)
(* not in this theorem.                                                    *)
THEOREM DialogSelectsAsShown ==
  ASSUME \A m \in SelectMails : m.day \in Nat, \A t \in SelectTexts : IsText(t)
  PROVE  Spec => [](part # "bar" => SelectsAsAsked /\ (part = "select" => Select!TypeOK))
<1> DEFINE Inv == part = "select" => SelectInv
<1>1. Init => Inv
  BY NewIsDialog DEF Init, Select!Init, SelectInv
<1>2. Inv /\ [Next]_vars => Inv'
  BY PartKept, SelectMoves, SelectStep
<1>3. ASSUME SelectInv PROVE Select!TypeOK
  BY <1>3 DEF SelectInv, IsDialog, IsFilter, IsMask, Select!TypeOK
<1>4. ASSUME SelectInv PROVE Select!SelectsWhatIsShown
  <2> SUFFICES ASSUME running = "yes", ~Select!Leftover
               PROVE  Select!Results = {m \in SelectMails : Select!Wanted(select_dialog, m)}
    BY DEF Select!SelectsWhatIsShown
  <2>1. ASSUME NEW m \in SelectMails
        PROVE  Select!InQuery(filter, m) <=> Select!Wanted(select_dialog, m)
    BY <1>4, SameSelection DEF SelectInv, Select!Leftover
  <2> QED  BY <2>1 DEF Select!Results
<1>5. ASSUME SelectInv PROVE Select!RefineKeepsSelection
  <2> SUFFICES ASSUME running = "yes", filter.fts = Select!NoOptions,
                      ~Select!BoundlessRange(filter), ~Select!Leftover
               PROVE  Select!Refined(filter) = Select!Results
    BY DEF Select!RefineKeepsSelection
  <2>1. IsFilter(filter) /\ Copied(select_dialog, filter)
    BY <1>5 DEF SelectInv
  <2>2. OwnBounds(filter)
    BY <2>1 DEF IsFilter, OwnBounds, Copied, Select!BoundlessRange, Select!Leftover
  <2> QED  BY <2>1, <2>2, RefinedIsSame DEF Select!Refined, Select!Results
<1>6. Inv => (part # "bar" => SelectsAsAsked /\ (part = "select" => Select!TypeOK))
  BY <1>3, <1>4, <1>5 DEF SelectsAsAsked, Select!DialogAgrees
<1> QED  BY <1>1, <1>2, <1>6, PTL DEF Spec
=============================================================================
