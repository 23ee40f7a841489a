------------------------------ MODULE MailingWizard -----------------------------
(***************************************************************************)
(* mailing_wizard and its pages, what launch_mailing stores (mailing_db),  *)
(* and what mailing_viewer makes of the options before the launch and of   *)
(* the rows after it.  The pages keep their fields when the user goes back *)
(* and m_options lives as long as the wizard: every page but the last one  *)
(* may be passed several times, with other choices.                        *)
(***************************************************************************)
EXTENDS TextMerger

CONSTANTS Subjects,        \* templates for the subject
          Bodies,          \* the text and html templates of each of the next three, and of none
          TemplateIds,     \* saved message templates
          MailingIds,      \* the mailings of before
          Paths,           \* files that may be taken for a part of the body
          DataFiles,       \* [names -> their text]
          Lists,           \* the texts that may be pasted
          Addresses,       \* the texts that ExtractAddresses and the syntax check accept
          MaxBacks         \* bound on the uses of the Back button

VARIABLES page,            \* currentId
          sender,          \* the first page: is there an identity, a title, a subject?
          body,            \* the template page: [format, source, item]
          data,            \* the data pages: [from, file, list]
          readable,        \* the files that can be opened
          parsed,          \* the parse page: recipients, errors, checked, ignore, of
          options,         \* m_options
          backs,           \* history: the uses of the Back button
          viewer,          \* mailing_viewer: what is previewed, and at which message
          stored           \* mailing_definition, mailing_run and mailing_data, and a history

wizardVars == <<page, sender, body, data, readable, parsed, options, backs, viewer, stored>>

Formats == {"text_plain", "html_and_text", "html_only"}
Nothing == "nothing"             \* no selection, an empty filename
Pages == {"error_identities", "title", "template", "import_data", "data_file", "paste",
          "parse_data", "final", "closed"}
NoViewer == [shown |-> <<>>, index |-> 0]
FileItems == (Paths \cup {Nothing}) \X (Paths \cup {Nothing})       \* <<text, html>>

TypeOK ==
  /\ page \in Pages /\ readable \subseteq Paths \cup DOMAIN DataFiles
  /\ body.format \in Formats /\ data.from \in {"addresses", "mailmerge", "textarea"}
  /\ parsed.errors \in 0..9 /\ parsed.checked \in BOOLEAN /\ parsed.ignore \in BOOLEAN
  /\ viewer.index \in 0..Len(viewer.shown) /\ Len(stored) <= 1

Init ==
  /\ page \in {"error_identities", "title"} /\ readable = Paths \cup DOMAIN DataFiles
  /\ sender = Nothing
  /\ body = [format |-> "html_and_text", source |-> "files", item |-> <<Nothing, Nothing>>]
  /\ data = [from |-> "addresses", file |-> Nothing, list |-> Nothing]
  /\ parsed = [recipients |-> <<>>, errors |-> 0, checked |-> FALSE, ignore |-> FALSE]
  /\ options = [text |-> Empty, html |-> Empty, header |-> Empty, names |-> <<>>,
                csv |-> <<>>, to |-> <<>>]
  /\ viewer = NoViewer /\ stored = <<>> /\ backs = 0

-----------------------------------------------------------------------------
(* The title page: isComplete needs a title, a sender and a subject         *)
FillTitle ==
  /\ page = "title" /\ \E s \in Subjects : sender' = s
  /\ UNCHANGED <<page, body, data, readable, parsed, options, backs, viewer, stored>>
title_next ==
  /\ page = "title" /\ sender # Nothing /\ page' = "template"
  /\ UNCHANGED <<sender, body, data, readable, parsed, options, backs, viewer, stored>>

(* The template page: a format, a source, and the files or the item of the *)
(* list that the source shows                                               *)
ChooseTemplate ==
  /\ page = "template"
  /\ \/ \E f \in Formats : body' = [body EXCEPT !.format = f]              \* format_chosen
     \/ \E i \in FileItems : body' = [body EXCEPT !.source = "files", !.item = i]
     \/ \E i \in TemplateIds \cup {Nothing} :
          body' = [body EXCEPT !.source = "db_tmpl", !.item = i]
     \/ \E i \in MailingIds \cup {Nothing} :
          body' = [body EXCEPT !.source = "prev_mailing", !.item = i]
  /\ UNCHANGED <<page, sender, data, readable, parsed, options, backs, viewer, stored>>

OpensOrNone(p) == p = Nothing \/ p \in readable
(* check_files and the fields that each format asks for                     *)
FilesValid(text, html) ==
  /\ IF body.format = "text_plain" THEN text # Nothing ELSE html # Nothing
  /\ body.format # "text_plain" => OpensOrNone(html)
  /\ OpensOrNone(text)
TextOf(id) == Bodies[id].text
HtmlOf(id) == Bodies[id].html
PartsValid(id) ==
  /\ id # Nothing
  /\ body.format = "text_plain" => TextOf(id) # Empty
  /\ body.format = "html_only" => HtmlOf(id) # Empty
TemplateValid ==
  CASE body.source = "files" -> FilesValid(body.item[1], body.item[2])
    [] body.source = "db_tmpl" -> PartsValid(body.item)
    [] OTHER -> /\ PartsValid(body.item)
                /\ body.format = "html_and_text" => HtmlOf(body.item) # Empty

(* QWebFrame::toPlainText keeps the words and the placeholders              *)
generate_text_part(html) == html

(* load_templates: it throws on a file that can no longer be opened         *)
LoadFails == body.source = "files" /\ \E i \in 1..2 : ~OpensOrNone(body.item[i])
LoadedParts ==
  LET files == body.source = "files"
      text == TextOf(IF files THEN body.item[1] ELSE body.item)
      html == HtmlOf(IF files THEN body.item[2] ELSE body.item)
      made == /\ body.format = "html_and_text"
              /\ \/ files /\ body.item[1] = Nothing
                 \/ body.source = "prev_mailing" /\ text = Empty
  IN [text |-> IF made THEN generate_text_part(html)
               ELSE IF body.format = "html_only" THEN Empty ELSE text,
      html |-> IF body.format = "text_plain" THEN Empty ELSE html]
load_templates(opt) == [opt EXCEPT !.text = LoadedParts.text, !.html = LoadedParts.html]

template_next ==
  LET cleared == CASE body.source # "files" -> body.item
                   [] body.format = "html_only" -> <<Nothing, body.item[2]>>
                   [] body.format = "text_plain" -> <<body.item[1], Nothing>>
                   [] OTHER -> body.item
  IN /\ page = "template" /\ TemplateValid
     /\ body' = [body EXCEPT !.item = cleared]
     /\ options' = [options EXCEPT !.text = LoadedParts.text, !.html = LoadedParts.html]
     /\ data' = IF extract_variables(options'.text) \cup extract_variables(options'.html)
                     \cup extract_variables(sender) # {}
                THEN [data EXCEPT !.from = "mailmerge"] ELSE data       \* import_data's initializePage
     /\ page' = "import_data"
     /\ UNCHANGED <<sender, readable, parsed, backs, viewer, stored>>

-----------------------------------------------------------------------------
(* The data: the kind, then the file or the area                            *)
ChooseData ==
  /\ \/ page = "import_data" /\ \E f \in {"addresses", "mailmerge", "textarea"} :
          data' = [data EXCEPT !.from = f]
     \/ page = "data_file" /\ \E f \in DOMAIN DataFiles : data' = [data EXCEPT !.file = f]
     \/ page = "paste" /\ \E l \in DOMAIN Lists : data' = [data EXCEPT !.list = l]
  /\ UNCHANGED <<page, sender, body, readable, parsed, options, backs, viewer, stored>>

import_data_next ==
  /\ page = "import_data" /\ page' = IF data.from = "textarea" THEN "paste" ELSE "data_file"
  /\ UNCHANGED <<sender, body, data, readable, parsed, options, backs, viewer, stored>>

(* parse_line: a field may hold several addresses                           *)
parse_line(text) == text # Empty /\ \A i \in DOMAIN Split(text, ",") : Split(text, ",")[i] \in Addresses

LinesOf(text) == SelectSeq(Split(text, NL), LAMBDA l : l # Empty)
check_addresses(text) ==
  [recipients |-> SelectSeq(LinesOf(text), parse_line),
   errors |-> Len(SelectSeq(LinesOf(text), LAMBDA l : ~parse_line(l)))]

HeaderOf(text) == parse_header(Split(text, NL)[1])
AfterHeader(text) == SubSeq(text, Len(Split(text, NL)[1]) + 2, Len(text))
Columns(h) == IF h.err THEN <<>> ELSE h.fields
RowsOf(text, h) == SelectSeq(Records(AfterHeader(text), h.sep), LAMBDA s : ~Blank(s))

Whole(s, columns) == ~s.err /\ Len(s.fields) = nb_columns(columns)
Checked(rows, good, kept, columns) ==
  [recipients |-> [i \in DOMAIN good |-> good[i].fields[1]],
   csv |-> [i \in DOMAIN kept |-> Tail(kept[i].fields)],
   errors |-> Len(rows) - Len(good), names |-> column_names(columns)]
Accepted(rows, columns) == SelectSeq(rows, LAMBDA s : Whole(s, columns) /\ parse_line(s.fields[1]))
(* A mutation of check_rows: the values of the lines refused are kept       *)
ValuesOfAll(rows, columns) ==
  LET good == Accepted(rows, columns)
  IN Checked(rows, good, SelectSeq(rows, LAMBDA s : Whole(s, columns)), columns)
(* check_csv_file: an error in the header is told, but is not counted       *)
check_rows(rows, columns) ==
  LET good == Accepted(rows, columns) IN Checked(rows, good, good, columns)
check_csv_file(text) == LET h == HeaderOf(text) IN check_rows(RowsOf(text, h), Columns(h))

Csv == [f \in DOMAIN DataFiles |-> check_csv_file(DataFiles[f])]
Listed == [f \in DOMAIN DataFiles |-> check_addresses(DataFiles[f])]
Pasted == [l \in DOMAIN Lists |-> check_addresses(Lists[l])]

(* The parse page's initializePage.  A file that cannot be opened leaves   *)
(* the recipients of the last parse, but not the page complete.             *)
parsed_as(c) == parsed' = [parsed EXCEPT !.recipients = c.recipients, !.errors = c.errors, !.checked = TRUE]
with_values(c) == parsed_as(c) /\ options' = [options EXCEPT !.csv = c.csv, !.names = c.names]
initialize_parse(opens) ==
  IF ~opens THEN parsed' = [parsed EXCEPT !.errors = 0, !.checked = FALSE] /\ UNCHANGED options
  ELSE IF data.from = "mailmerge" THEN with_values(Csv[data.file])
  ELSE /\ parsed_as(IF data.from = "textarea" THEN Pasted[data.list] ELSE Listed[data.file])
       /\ UNCHANGED options

data_file_next ==
  /\ page = "data_file" /\ data.file # Nothing /\ data.file \in readable
  /\ \E opens \in BOOLEAN : initialize_parse(opens)      \* it is opened a second time
  /\ page' = "parse_data"
  /\ UNCHANGED <<sender, body, data, readable, backs, viewer, stored>>
paste_next ==
  /\ page = "paste" /\ data.list # Nothing
  /\ initialize_parse(TRUE) /\ page' = "parse_data"
  /\ UNCHANGED <<sender, body, data, readable, backs, viewer, stored>>

ParseComplete == /\ parsed.errors = 0 \/ parsed.ignore
                 /\ parsed.checked /\ parsed.recipients # <<>>

IgnoreErrors ==
  /\ page = "parse_data" /\ parsed.errors > 0 /\ parsed.recipients # <<>>
  /\ parsed' = [parsed EXCEPT !.ignore = ~@]
  /\ UNCHANGED <<page, sender, body, data, readable, options, backs, viewer, stored>>
parse_data_next ==
  /\ page = "parse_data" /\ ParseComplete /\ page' = "final"
  /\ UNCHANGED <<sender, body, data, readable, parsed, options, backs, viewer, stored>>

back ==
  /\ page' = CASE page = "final" -> "parse_data"
               [] page = "parse_data" -> IF data.from = "textarea" THEN "paste" ELSE "data_file"
               [] page \in {"data_file", "paste"} -> "import_data"
               [] page = "import_data" -> "template"
               [] OTHER -> "title"
  /\ page \in Pages \ {"error_identities", "title", "closed"} /\ viewer = NoViewer
  /\ backs < MaxBacks /\ backs' = backs + 1
  /\ UNCHANGED <<sender, body, data, readable, parsed, options, viewer, stored>>

(* Elsewhere: a file is moved while the wizard is open                      *)
FileVanishes ==
  /\ page # "closed" /\ viewer = NoViewer
  /\ \E f \in readable : f \in {data.file} \cup (IF body.source = "files" THEN {body.item[1]} ELSE {}) /\ readable' = readable \ {f}
  /\ UNCHANGED <<page, sender, body, data, parsed, options, backs, viewer, stored>>

-----------------------------------------------------------------------------
(* gather_options: load_templates reads the files again                     *)
HalfLoaded == [options EXCEPT !.header = sender, !.html = Empty,
    !.text = IF OpensOrNone(body.item[1]) THEN TextOf(body.item[1]) ELSE Empty]
gather_options == [load_templates(options) EXCEPT !.header = sender, !.to = parsed.recipients]

(* show_merge: the values are merged when there are any.  csv_data.at is    *)
(* outside of the list when there are fewer values than recipients.         *)
InData(opt, i) == opt.csv = <<>> \/ i \in DOMAIN opt.csv
Unbroken(v) == [i \in DOMAIN v |-> IF v[i] \in {CR, NL} THEN " " ELSE v[i]]
Message(opt, i) ==
  LET values == <<opt.to[i]>> \o opt.csv[i]
      names == IF opt.csv = <<>> THEN <<>> ELSE opt.names
      row == IF opt.csv = <<>> THEN <<>> ELSE values
  IN [to |-> opt.to[i],
      text |-> merge_template(opt.text, names, row),
      html |-> merge_template(opt.html, names, row),
      header |-> merge_template(opt.header, names, [k \in DOMAIN row |-> Unbroken(row[k])])]
Messages(opt) ==
  [i \in DOMAIN opt.to |-> IF InData(opt, i) THEN Message(opt, i) ELSE [to |-> opt.to[i]]]

preview_mailmerge ==
  /\ page = "final" /\ viewer = NoViewer
  /\ \/ LoadFails /\ options' = HalfLoaded /\ UNCHANGED viewer
     \/ /\ ~LoadFails /\ options' = gather_options
        /\ viewer' = [shown |-> Messages(options'), index |-> 1]
  /\ UNCHANGED <<page, sender, body, data, readable, parsed, backs, stored>>

(* next_message, prev_message and goto_message                              *)
Turn ==
  /\ viewer # NoViewer
  /\ \E i \in DOMAIN viewer.shown \ {viewer.index} : viewer' = [viewer EXCEPT !.index = i]
  /\ UNCHANGED <<page, sender, body, data, readable, parsed, options, backs, stored>>
CloseViewer ==
  /\ viewer # NoViewer /\ viewer' = NoViewer
  /\ UNCHANGED <<page, sender, body, data, readable, parsed, options, backs, stored>>

(* mailing_db::create and store_data: the names without the first one, the  *)
(* values of each recipient as one CSV line while there are values left     *)
Definition(opt) == [text |-> opt.text, html |-> opt.html, header |-> opt.header,
                    columns |-> IF opt.names = <<>> THEN Empty ELSE Join(Tail(opt.names), ",")]
store_data(opt) ==
  [i \in DOMAIN opt.to |-> [to |-> opt.to[i],
     line |-> IF i \in DOMAIN opt.csv THEN csv_join(opt.csv[i], ",") ELSE Empty]]

(* launch_mailing: one transaction, whose failure leaves the last page      *)
launch_mailing ==
  /\ page = "final" /\ viewer = NoViewer /\ stored = <<>>
  /\ \/ LoadFails /\ options' = HalfLoaded /\ UNCHANGED <<page, stored>>
     \/ /\ ~LoadFails /\ options' = gather_options
        /\ \/ UNCHANGED <<page, stored>>                             \* a statement fails
           \/ \E now \in BOOLEAN :
                /\ stored' = <<[definition |-> Definition(options'), data |-> store_data(options'),
                                status |-> IF now THEN "running" ELSE "not_started",
                                previewed |-> Messages(options'), from |-> data,
                                of |-> options', format |-> body.format]>>
                /\ page' = "closed"
  /\ UNCHANGED <<sender, body, data, readable, parsed, backs, viewer>>

-----------------------------------------------------------------------------
(* load_definition and load_data: what show_merge_existing builds           *)
load_definition(d) == [text |-> d.text, html |-> d.html, header |-> d.header,
                       names |-> IF d.columns = Empty THEN <<>>
                                 ELSE <<<<"e">>>> \o Split(d.columns, ",")]
load_data(rows) ==
  [i \in DOMAIN rows |-> IF rows[i].line = Empty THEN <<>>
                         ELSE collect_data(rows[i].line, ",").fields]
LoadedWith(m, d) ==
     [text |-> d.text, html |-> d.html, header |-> d.header, names |-> d.names,
      to |-> [i \in DOMAIN m.data |-> m.data[i].to],
      csv |-> SelectSeq(load_data(m.data), LAMBDA v : v # <<>>)]
Loaded(m) == LoadedWith(m, load_definition(m.definition))

show_merge_existing ==
  /\ page = "closed" /\ viewer = NoViewer
  /\ viewer' = [shown |-> Messages(Loaded(stored[1])), index |-> 1]
  /\ UNCHANGED <<page, sender, body, data, readable, parsed, options, backs, stored>>

Next == \/ FillTitle \/ title_next \/ ChooseTemplate \/ template_next \/ ChooseData
        \/ import_data_next \/ data_file_next \/ paste_next \/ IgnoreErrors \/ parse_data_next
        \/ back \/ FileVanishes \/ preview_mailmerge \/ Turn \/ CloseViewer \/ launch_mailing
        \/ show_merge_existing

Spec == Init /\ [][Next]_wizardVars

-----------------------------------------------------------------------------
(* mailing_wizard.cpp:1264: what a mailing stores is what was prepared: its *)
(* recipients are those of the source chosen last, whatever was parsed      *)
(* before, with the values of their own lines, and each message, read back  *)
(* from the database, is the one that the preview shows.  It is said of the *)
(* mailings without values, and of those whose columns begin with the name  *)
(* that load_definition restores.                                           *)
Recipients(from) ==
  CASE from.from = "mailmerge" -> Csv[from.file].recipients
    [] from.from = "addresses" -> Listed[from.file].recipients
    [] OTHER -> Pasted[from.list].recipients
ValuesInFile(f) ==
  {<<s.fields[1], Tail(s.fields)>> : s \in
     {t \in ToSet(RowsOf(DataFiles[f], HeaderOf(DataFiles[f]))) : ~t.err /\ t.fields # <<>>}}
PlainColumns(names) == /\ Len(names) > 1 /\ names[1] = <<"e">>
                       /\ \A i \in DOMAIN names : "," \notin ToSet(names[i])
MailingAsPrepared ==
  \A m \in ToSet(stored) :
     /\ [i \in DOMAIN m.data |-> m.data[i].to] = Recipients(m.from)
     /\ m.from.from = "mailmerge" =>
          \A i \in DOMAIN m.of.to : <<m.of.to[i], m.of.csv[i]>> \in ValuesInFile(m.from.file)
     /\ m.of.csv = <<>> \/ (m.from.from = "mailmerge" /\ PlainColumns(m.of.names))
          => Messages(Loaded(m)) = m.previewed

(* mailing_viewer.cpp:329: View shows the messages that the preview showed  *)
ViewedAsPreviewed == \A m \in ToSet(stored) : Messages(Loaded(m)) = m.previewed

(* mailing_wizard.cpp:546: a list of addresses carries no values            *)
ListsCarryNoValues ==
  \A m \in ToSet(stored) : m.from.from # "mailmerge" => \A i \in DOMAIN m.data : m.data[i].line = Empty

(* mailing_viewer.cpp:169: there are values for the message at data_idx     *)
PreviewHasValues == \A i \in DOMAIN viewer.shown : "text" \in DOMAIN viewer.shown[i]

(* mailing_wizard.cpp:1042: the template has the format the user requested  *)
HasFormatRequested ==
  \A m \in ToSet(stored) : m.format # "text_plain" => m.definition.html # Empty
=============================================================================
