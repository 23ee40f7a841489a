------------------------------ MODULE ComposerText ------------------------------
(***************************************************************************)
(* new_mail_widget's text: the plain and the HTML editor, of which one is  *)
(* shown, the source editor that may cover the second, the external editor *)
(* that works on a file, the templates, the signature that follows the     *)
(* identity, and what closing the window asks.  A text is known by the     *)
(* number of the last edit it contains (0 once a part of it is lost), by   *)
(* the signatures in it and by where there is text under them.             *)
(***************************************************************************)
EXTENDS Naturals, FiniteSets

CONSTANTS Identities,    \* the identities of the preferences, each with its signature
          MaxEdits       \* bound on the edits

VARIABLES format,        \* m_edit_mode
          plain,         \* the document of m_bodyw
          html,          \* the page of m_html_edit, with its marked paragraph
          source,        \* m_html_source_editor: {} or the text in it
          covered,       \* m_edit_stack shows the source editor
          external,      \* the file of the external editor: {} or its text
          modified,      \* the documents that report a modification, and "inserted"
          editable,      \* setContentEditable of the page
          sender,        \* m_from
          asking,        \* save_template's dialog: "no", "first", "again"
          latest,        \* history: the last edit
          slip,          \* history: an editor was left aside, or a text lost
          composed       \* history: how the window was closed, and the text sent

composerVars == <<format, plain, html, source, covered, external, modified, editable,
                  sender, asking, latest, slip, composed>>

Other == "other"         \* "Other...": an address without a signature
NoMark == {"no mark"}    \* the page has no paragraph with m_signature_marker
Open == [how |-> "open", sent |-> {}]

Signature(from) == IF from \in Identities THEN {from} ELSE {}
(* below: the user's text under the signature, inside the marked paragraph  *)
(* ("marked") or not ("after").                                             *)
Texts == [v : 0..MaxEdits, sig : SUBSET Identities, below : SUBSET {"after"}]
Pages == [v : 0..MaxEdits, sig : SUBSET Identities, mark : {NoMark} \cup SUBSET Identities,
          below : SUBSET {"marked", "after"}]
TextOf(v, sig) == [v |-> v, sig |-> sig, below |-> {}]
PageOf(v, mark) == [v |-> v, sig |-> {}, mark |-> mark, below |-> {}]

(* What the page says: its own text and the marked signature.               *)
Marked(page) == IF page.mark = NoMark THEN {} ELSE page.mark
to_plain_text(page) == [v |-> page.v, sig |-> page.sig \cup Marked(page),
                        below |-> IF page.below = {} THEN {} ELSE {"after"}]
AsPage(text) == [v |-> text.v, sig |-> text.sig, mark |-> NoMark, below |-> text.below]

(* Edit n of a document: above its signature or at one of the places below. *)
InText(text) == IF text.sig = {} THEN {} ELSE {"after"}
InPage(page) == InText(to_plain_text(page)) \cup IF page.mark = NoMark THEN {} ELSE {"marked"}
Edited(doc, places, n) ==
  {[doc EXCEPT !.v = n, !.below = @ \cup b] : b \in {{}} \cup {{p} : p \in places}}

TypeOK ==
  /\ format \in {"plain", "html"} /\ plain \in Texts /\ html \in Pages
  /\ source \in SUBSET Pages /\ Cardinality(source) <= 1
  /\ external \in SUBSET Pages /\ Cardinality(external) <= 1
  /\ modified \subseteq {"plain", "html", "inserted"}
  /\ editable \in BOOLEAN /\ covered \in BOOLEAN /\ slip \in BOOLEAN
  /\ sender \in Identities \cup {Other}
  /\ asking \in {"no", "first", "again"} /\ latest \in 0..MaxEdits
  /\ composed \in [how : {"open", "sent", "closed", "lost"}, sent : SUBSET Texts]

(* The window on a new message, a reply or a forward: plain or HTML, with   *)
(* the signature of the identity chosen by load_identities.                 *)
Init ==
  /\ sender \in Identities /\ format \in {"plain", "html"}
  /\ plain = TextOf(0, IF format = "plain" THEN {sender} ELSE {})
  /\ html = PageOf(0, IF format = "html" THEN {sender} ELSE NoMark)
  /\ source = {} /\ covered = FALSE /\ external = {} /\ modified = {} /\ editable = TRUE /\ asking = "no"
  /\ latest = 0 /\ slip = FALSE /\ composed = Open

(* setPlainText and setHtml forget the modifications made before.           *)
SetPlain(text) == plain' = text /\ modified' = modified \ {"plain"} /\ UNCHANGED <<html, editable>>
SetPage(page) == html' = page /\ modified' = modified \ {"html"} /\ editable' = TRUE /\ UNCHANGED plain

Shown == IF format = "plain" THEN plain ELSE to_plain_text(html)

-----------------------------------------------------------------------------
(* Typing, in the editor that is shown and enabled.                         *)

TypeIn ==
  /\ latest < MaxEdits /\ latest' = latest + 1
  /\ \/ /\ format = "plain" /\ external = {}
        /\ plain' \in Edited(plain, InText(plain), latest') /\ modified' = modified \cup {"plain"}
        /\ UNCHANGED <<html, source, slip>>
     \/ /\ format = "html" /\ ~covered /\ external = {} /\ editable
        /\ html' \in Edited(html, InPage(html), latest') /\ modified' = modified \cup {"html"}
        /\ UNCHANGED <<plain, source, slip>>
     \/ /\ format = "html" /\ covered
        /\ \E s \in source : \E t \in Edited(s, InPage(s), latest') : source' = {t}
        /\ slip' = (slip \/ external # {}) /\ UNCHANGED <<plain, html, modified>>
  /\ UNCHANGED <<format, covered, external, editable, sender, asking, composed>>

(* insert_file: the text goes to m_bodyw, which may be hidden.              *)
insert_file ==
  /\ source = {} /\ latest < MaxEdits /\ latest' = latest + 1
  /\ plain' \in Edited(plain, InText(plain), latest') /\ modified' = modified \cup {"plain"}
  /\ slip' = (slip \/ format = "html" \/ external # {})
  /\ UNCHANGED <<format, html, source, covered, external, editable, sender, asking, composed>>

-----------------------------------------------------------------------------
(* The formats.                                                             *)

(* The menus are enabled whatever the format: the format that is shown can  *)
(* be chosen again, and the other document, as it was left, takes the place *)
(* of the text.                                                             *)

(* to_format_plain_text, confirmed when the page is modified                *)
to_format_plain_text ==
  /\ external = {}
  /\ SetPlain(to_plain_text(html)) /\ format' = "plain" /\ covered' = FALSE
  /\ slip' = (slip \/ source # {} \/ (format = "plain" /\ plain' # plain))
  /\ UNCHANGED <<source, external, sender, asking, latest, composed>>

(* text_signature_location, and the text as a page: the signature of the    *)
(* sender and all the text under it are put in a paragraph of its own, with *)
(* the marker.                                                              *)
Htmlized(text, from) ==
  IF Signature(from) # {} /\ Signature(from) \subseteq text.sig
  THEN [v |-> text.v, sig |-> text.sig \ Signature(from), mark |-> Signature(from),
        below |-> IF text.below = {} THEN {} ELSE {"marked"}]
  ELSE AsPage(text)
to_format_html_text ==
  /\ external = {}
  /\ SetPage(Htmlized(plain, sender)) /\ format' = "html" /\ covered' = FALSE
  /\ slip' = (slip \/ source # {} \/ (format = "html" /\ html' # html))
  /\ UNCHANGED <<source, external, sender, asking, latest, composed>>

(* toggle_edit_source, from the second toolbar, which the plain format hides *)
toggle_edit_source ==
  /\ format = "html"
  /\ IF source = {}
     THEN /\ source' = {html} /\ covered' = TRUE /\ slip' = (slip \/ external # {})
          /\ UNCHANGED <<plain, html, modified, editable>>
     ELSE /\ source' = {} /\ covered' = FALSE /\ \E s \in source : SetPage(s) /\ UNCHANGED slip
  /\ UNCHANGED <<format, external, sender, asking, latest, composed>>

-----------------------------------------------------------------------------
(* The identities.  An empty signature is found at the end of any text.  On *)
(* a page the marked paragraph is replaced, with the text that is in it.    *)

Resigned(text, old, new) ==
  IF old \subseteq text.sig
  THEN [text EXCEPT !.sig = (@ \ old) \cup new, !.below = IF old = {} THEN {} ELSE @] ELSE text
replace_paragraph(page, new) ==
  [page EXCEPT !.mark = new, !.v = IF "marked" \in page.below THEN 0 ELSE @, !.below = @ \ {"marked"}]

change_identity(from) ==
  /\ from # sender /\ sender' = from
  /\ LET old == Signature(sender)
         new == Signature(from)
     IN IF format = "plain"
        THEN /\ plain' = Resigned(plain, old, new)
             /\ modified' = IF old \subseteq plain.sig THEN modified \ {"plain"} ELSE modified
             /\ UNCHANGED html
        ELSE /\ html' = IF html.mark = NoMark THEN html ELSE replace_paragraph(html, new)
             /\ UNCHANGED <<plain, modified>>
  /\ slip' = (slip \/ source # {} \/ external # {} \/ (format = "html" /\ html'.v # html.v))
  /\ UNCHANGED <<format, source, covered, external, editable, asking, latest, composed>>

-----------------------------------------------------------------------------
(* The external editor.                                                     *)

launch_external_editor ==
  /\ external = {}
  /\ external' = {IF format = "plain" THEN AsPage(plain) ELSE html}
  /\ editable' = FALSE /\ slip' = (slip \/ source # {})
  /\ UNCHANGED <<format, plain, html, source, covered, modified, sender, asking, latest, composed>>

(* The program saves the file.                                              *)
EditFile ==
  /\ external # {} /\ latest < MaxEdits /\ latest' = latest + 1
  /\ \E e \in external : \E f \in Edited(e, InPage(e), latest') : external' = {f}
  /\ UNCHANGED <<format, plain, html, source, covered, modified, editable, sender, asking, slip,
                 composed>>

(* external_editor_finished and external_editor_cleanup                     *)
Imported(page) ==
  IF format = "plain"
  THEN /\ plain' = to_plain_text(page) /\ modified' = modified \cup {"plain", "inserted"}
       /\ UNCHANGED <<html, editable>>
  ELSE /\ html' = page /\ modified' = (modified \ {"html"}) \cup {"inserted"}
       /\ editable' = TRUE /\ UNCHANGED plain

external_editor_finished ==
  /\ external # {} /\ external' = {}
  /\ \E e \in external : Imported(e)
  /\ UNCHANGED <<format, source, covered, sender, asking, latest, slip, composed>>

(* When the program crashes, error() comes first and removes the file:      *)
(* finished() then opens a new one, and imports nothing in place of the     *)
(* text.  A program that does not start reports only the error.             *)
external_editor_error ==
  /\ external # {} /\ external' = {}
  /\ \/ latest' = Shown.v /\ UNCHANGED <<plain, html, modified, editable, slip>>
     \/ Imported(PageOf(0, NoMark)) /\ slip' = TRUE /\ UNCHANGED latest
  /\ UNCHANGED <<format, source, covered, sender, asking, composed>>

(* The text under the external editor is the one before its edits.          *)
abort_external_editor ==
  /\ external # {} /\ external' = {}
  /\ latest' = Shown.v
  /\ UNCHANGED <<format, plain, html, source, covered, modified, editable, sender, asking, slip,
                 composed>>

-----------------------------------------------------------------------------
(* The templates.                                                           *)

load_template ==
  /\ latest < MaxEdits /\ latest' = latest + 1
  /\ \/ SetPlain(TextOf(latest', {})) /\ format' = "plain"
     \/ SetPage(PageOf(latest', NoMark)) /\ format' = "html"
  /\ covered' = FALSE
  /\ slip' = (slip \/ source # {} \/ external # {})
  /\ UNCHANGED <<source, external, sender, asking, composed>>

(* save_template asks for a title.  keep_asking, once set by an empty one,   *)
(* is never reset: only Cancel ends the dialog.                             *)
save_template ==
  /\ \/ asking = "no" /\ asking' = "first"
     \/ asking # "no" /\ asking' = "no"                          \* a title, at first, or Cancel
     \/ asking # "no" /\ asking' = "again"                       \* no title, or a title too late
  /\ UNCHANGED <<format, plain, html, source, covered, external, modified, editable, sender,
                 latest, slip, composed>>

-----------------------------------------------------------------------------
(* The end: make_message sends what is shown.                               *)

(* Mutant: the plain text is sent whatever the format. *)
PlainAlways == plain
make_message == Shown

(* send_later stays enabled while the source editor is open.                *)
send ==
  /\ composed' = [how |-> "sent", sent |-> {make_message}]
  /\ slip' = (slip \/ source # {} \/ external # {})
  /\ UNCHANGED <<format, plain, html, source, covered, external, modified, editable, sender,
                 asking, latest>>

(* closeEvent asks when a document is modified, or a file was imported.     *)
closeEvent ==
  /\ composed' = [Open EXCEPT !.how = IF modified # {} \/ latest = 0 THEN "closed" ELSE "lost"]
  /\ UNCHANGED <<format, plain, html, source, covered, external, modified, editable, sender,
                 asking, latest, slip>>

Next ==
  /\ composed = Open
  /\ IF asking # "no" THEN save_template
     ELSE \/ TypeIn \/ insert_file
          \/ to_format_plain_text \/ to_format_html_text \/ toggle_edit_source
          \/ \E i \in Identities \cup {Other} : change_identity(i)
          \/ launch_external_editor \/ EditFile \/ external_editor_finished
          \/ external_editor_error \/ abort_external_editor
          \/ load_template \/ save_template \/ send \/ closeEvent

Spec == Init /\ [][Next]_composerVars

-----------------------------------------------------------------------------
(* The message that is sent is the last text of the user, whatever the      *)
(* changes of format and editors, and it bears no signature but that of its *)
(* sender, when no editor was left open or aside, the format that was shown *)
(* was not chosen again over an edited text, and no identity was changed    *)
(* with text in the marked paragraph.                                       *)
SentAsComposed ==
  \A t \in composed.sent : ~slip => t.v = latest /\ t.sig \subseteq Signature(sender)

(* The same, whatever the user left open: make_message takes the page as it *)
(* was before the source editor, and m_bodyw what insert_file brings.       *)
AlwaysSentAsComposed == \A t \in composed.sent : t.v = latest

(* Choosing a format keeps the text: no, not when it is the one shown.       *)
FormatKeepsText ==
  [][to_format_plain_text \/ to_format_html_text => Shown'.v = Shown.v]_composerVars

(* Changing the identity keeps the text: no, not what is in the marked       *)
(* paragraph, where a change of format puts all that follows the signature. *)
IdentityKeepsText ==
  [][\A from \in Identities \cup {Other} : change_identity(from) => Shown'.v = Shown.v]_composerVars

(* Closing asks before a text is lost: no, after a change of format or of   *)
(* identity, whose setPlainText or setHtml clears the flag.                 *)
AsksBeforeLosing == composed.how # "lost"

(* Without an external editor the page can be edited: no, when the program  *)
(* was aborted or failed, as only load_finished makes it editable again.    *)
EditableWhenIdle == external = {} => editable
=============================================================================
