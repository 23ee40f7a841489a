------------------------------- MODULE TextMerger -------------------------------
(***************************************************************************)
(* text_merger: the two CSV parsers as machines folded over characters,    *)
(* the writer of CSV lines, and the merge of a record into a template.     *)
(* A text is a sequence of characters; a template, a sequence of pieces    *)
(* [var, lit], where var is the name of a placeholder or the empty text.   *)
(***************************************************************************)
EXTENDS Naturals, Sequences, FiniteSets, SequencesExt

Quote == "\""    NL == "\n"    CR == "\r"    NoSeparator == "none"
Empty == <<>>

is_separator(c) == c \in {",", ";", "\t"}

(* The parsers' registers: the state, the field being read, those read, the *)
(* separator, what is left of the file, and how the record ended.           *)
Registers(sep, text) == [st |-> "start", field |-> Empty, fields |-> <<>>, sep |-> sep,
                         rest |-> text, done |-> FALSE, err |-> FALSE]
Goto(s, st) == [s EXCEPT !.st = st]
AddChar(s, c, st) == [s EXCEPT !.st = st, !.field = Append(@, c)]
EndField(s) == [s EXCEPT !.st = "start", !.fields = Append(@, s.field), !.field = Empty]
EndRecord(s) == [EndField(s) EXCEPT !.done = TRUE]
Fail(s) == [s EXCEPT !.err = TRUE]

(* One character of the first line, from which the separator is learnt      *)
HeaderChar(s, c) ==
  LET ends == IF s.sep = NoSeparator THEN is_separator(c) ELSE c = s.sep
      sepd == [s EXCEPT !.sep = c]
  IN CASE s.err -> s
       [] s.st = "start" -> IF is_separator(c) \/ ends THEN Fail(s)
                            ELSE IF c = Quote THEN Goto(s, "quoted") ELSE AddChar(s, c, "plain")
       [] s.st = "quoted" -> IF c = Quote THEN Goto(s, "unquoted") ELSE AddChar(s, c, "quoted")
       [] s.st = "unquoted" -> IF ends /\ s.field # Empty THEN EndField(sepd) ELSE Fail(s)
       [] OTHER -> IF c = Quote THEN Fail(s)
                   ELSE IF ends THEN EndField(sepd) ELSE AddChar(s, c, "plain")

HeaderEnd(s) == IF s.st \in {"plain", "unquoted"} /\ ~s.err THEN EndField(s) ELSE s
parse_header(line) == HeaderEnd(FoldLeft(HeaderChar, Registers(NoSeparator, <<>>), line))

(* One character of a data record.  A field in quotes goes on over the ends *)
(* of lines; an error drops the rest of the line it is on.                  *)
DataChar(s, c) ==
  CASE s.done -> [s EXCEPT !.rest = Append(@, c)]
    [] s.err -> IF c = NL THEN [s EXCEPT !.done = TRUE] ELSE s
    [] s.st = "quoted" -> IF c = Quote THEN Goto(s, "unquoted") ELSE AddChar(s, c, "quoted")
    [] s.st = "cr" -> IF c = NL THEN EndRecord(s) ELSE Fail(s)
    [] c = CR -> Goto(s, "cr")
    [] c = NL -> EndRecord(s)
    [] c = s.sep -> EndField(s)
    [] c = Quote -> CASE s.st = "start" -> Goto(s, "quoted")
                      [] s.st = "unquoted" -> AddChar(s, c, "quoted")
                      [] OTHER -> Fail(s)
    [] OTHER -> IF s.st = "unquoted" THEN Fail(s) ELSE AddChar(s, c, "plain")

DataEnd(s) == CASE s.done \/ s.err -> s
                [] s.st \in {"plain", "unquoted"} -> EndField(s)
                [] s.st = "start" -> s
                [] OTHER -> Fail(s)                     \* Unexpected end of file.
collect_data(text, sep) == DataEnd(FoldLeft(DataChar, Registers(sep, Empty), text))

(* What the loops on collect_data read, up to the end of the file           *)
Records(text, sep) ==
  LET Adds(acc, s) == [rest |-> s.rest, read |-> Append(acc.read, s)]
      One(acc, i) == IF acc.rest = Empty THEN acc ELSE Adds(acc, collect_data(acc.rest, sep))
  IN FoldLeft(One, [rest |-> text, read |-> <<>>], [i \in 1..Len(text) |-> i]).read

(* Empty lines are dropped by those loops, and by merge_record              *)
Blank(s) == ~s.err /\ (s.fields = <<>> \/ s.fields = <<Empty>>)

Doubled(field) == FlattenSeq([i \in DOMAIN field |-> IF field[i] = Quote THEN <<Quote, Quote>>
                                                     ELSE <<field[i]>>])
Join(parts, sep) == FlattenSeq([i \in DOMAIN parts |-> IF i = 1 THEN parts[i]
                                                       ELSE <<sep>> \o parts[i]])
csv_join(values, sep) ==
  Join([i \in DOMAIN values |-> <<Quote>> \o Doubled(values[i]) \o <<Quote>>], sep)

(* QString::split: every separator counts, whatever the quotes              *)
Split(text, sep) ==
  LET Char(acc, c) == IF c = sep THEN Append(acc, Empty)
                      ELSE [acc EXCEPT ![Len(acc)] = Append(@, c)]
  IN FoldLeft(Char, <<Empty>>, text)

(* m_field_names: a name keeps the index of its last column                 *)
FieldNames(columns) ==
  [n \in ToSet(columns) |-> CHOOSE i \in DOMAIN columns :
      columns[i] = n /\ \A j \in DOMAIN columns : columns[j] = n => j <= i]
nb_columns(columns) == Cardinality(ToSet(columns))
column_names(columns) ==
  [i \in 1..nb_columns(columns) |->
     IF i \in DOMAIN columns /\ FieldNames(columns)[columns[i]] = i THEN columns[i] ELSE Empty]

merge_template(tmpl, columns, values) ==
  LET known == FieldNames(columns)
      Piece(p) == IF p.var = Empty THEN p.lit
                  ELSE IF p.var \in DOMAIN known /\ known[p.var] \in DOMAIN values
                       THEN values[known[p.var]]
                       ELSE <<"{">> \o p.var \o <<"}">>
  IN FlattenSeq([i \in DOMAIN tmpl |-> Piece(tmpl[i])])

extract_variables(tmpl) == {p.var : p \in ToSet(tmpl)} \ {Empty}
=============================================================================
