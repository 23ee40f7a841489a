--------------------------------- MODULE MCDesk ---------------------------------
(***************************************************************************)
(* Values of the constants of Desk: small instances of its eight parts,    *)
(* which one run explores side by side.                                    *)
(***************************************************************************)
EXTENDS Desk

---------------------------------------------------------------------------------
(* The search bar: two words, two phrases, operators with and without a     *)
(* minus sign, and dates on both sides of their boundaries                  *)
Token(spelt, kind, arg) == [text |-> spelt, kind |-> kind, arg |-> arg]
Op(k, v) == Token(<<k, ":", v>>, k, v)
MCBarTokens ==
  {Token(<<"hello">>, "word", "hello"), Token(<<"-", "world">>, "without", "world"),
   Token(<<"\"", "hello", " ", "world", "\"">>, "phrase", <<"hello", " ", "world">>),
   Token(<<"\"", "old", ",", "hello", "\"">>, "phrase", <<"old", ",", "hello">>),
   Token(<<"-", "from", ":", "bob">>, "not from", "bob"),
   Token(<<"from", ":", "\"", "bob", "\"">>, "from", "bob"),
   Op("is", "read"), Op("isnot", "archived"), Op("tag", "work"), Op("date", "yesterday"),
   Op("before", "today"), Op("before", "yesterday"), Op("after", "year")}

Mail(status, day, from, tags, body, meets) ==
  [status |-> status, day |-> day, addresses |-> [from |-> {from}, to |-> {"eve"}, cc |-> {}],
   tags |-> tags, text |-> body, meets |-> meets]
Texts == {<<"hello">>, <<"hello", " ", "world">>, <<"old", ",", "hello">>, <<"world">>}
MCBarMails ==
  {Mail(s, d, f, t, x, {}) : s \in {{}, {"read"}, {"read", "archived"}, {"trashed"}}, d \in 1..3,
                             f \in {"bob", "ann"}, t \in {{}, {"work"}}, x \in Texts}

---------------------------------------------------------------------------------
(* The selection dialog: one status bit, a text with a word or an operator  *)
NoOptions == [words |-> {}, excluded |-> {}, substrs |-> {}, ops |-> <<>>, minus |-> {}]
MCSelectTexts == {NoOptions, [NoOptions EXCEPT !.words = {<<"hello">>}],
                [NoOptions EXCEPT !.minus = {<<<<"from">>, "bob">>}],
                [NoOptions EXCEPT !.ops = << <<<<"after">>, "today">> >>]}
MCSelectMails ==
  {Mail(s, d, f, {}, x, c) : s \in {{}, {"read"}, {"trashed"}}, d \in {1, 3}, f \in {"bob", "ann"},
                             x \in {<<"hello", " ", "world">>, <<"old">>}, c \in {{}, {"subject"}}}

---------------------------------------------------------------------------------
(* The tree: three messages, each an answer to the one before               *)
MCReplyTo == [m \in 1..3 |-> m - 1]

---------------------------------------------------------------------------------
(* The rules: two of them, whose names and orders differ, one with a status *)
(* action in the old notation                                               *)
Action(type, arg) == [type |-> type, arg |-> arg]
MCLoaded ==
  {{[id |-> 1, name |-> 2, order |-> 16, actions |-> <<Action("tag", <<"work">>), Action("status", <<"R", "T">>)>>],
    [id |-> 2, name |-> 1, order |-> 32, actions |-> <<Action("set header", <<"X", "a", "b">>)>>]}}
MCNewActions == {Action("status", <<"A", "R">>), Action("discard", <<"trash">>)}

(* The expressions: what may be typed on three keyboards (logic; comparison;*)
(* calls, with a condition that calls itself), on a message                 *)
W(is, v) == [is |-> is, v |-> v]
Logic == {W("binary", "and"), W("binary", "or"), W("unary", "not"), W("open", "("), W("close", ")"),
          W("value", "0"), W("value", "1")}
Comparison == {W("binary", "is"), W("binary", "!="), W("binary", "and"), W("unary", "!"),
               W("unary", "not"), W("func0", "subject"), W("value", "x")}
Calls == {W("func1", "date"), W("func1", "condition"), W("func1", "header"), W("name", "ok"),
          W("name", "loop"), W("open", "("), W("close", ")"), W("value", "day"), W("value", "ok"),
          W("binary", "contains")}
MCKeyboards == {Logic, Comparison, Calls}
MCConditions ==
  [n \in {"ok", "loop", "other"} |->
     CASE n = "ok"    -> <<W("func0", "subject"), W("binary", "is"), W("value", "x")>>
       [] n = "loop"  -> <<W("name", "other")>>
       [] n = "other" -> <<W("value", "1"), W("binary", "or"), W("name", "loop")>>]
MCMessage ==
  [p \in {<<"subject", "">>, <<"date", "day">>} |->
     [t |-> "string", v |-> IF p[1] = "subject" THEN "x" ELSE "01"]]

---------------------------------------------------------------------------------
(* The preferences: two identities, a setting with a widget, a program for   *)
(* a type, and every transaction may fail                                   *)
MCDefaults == [k \in {} |-> ""]
MCOptions == [k \in {"format"} |-> [values |-> {"text", "html"}, first |-> "html"]]
MCFirstIdentities == [i \in {1, 2} |-> IF i = 1 THEN [email |-> "ann", name |-> "n"] ELSE [email |-> "bob", name |-> ""]]
MCFirstConfig ==
  [own |-> [k \in {"default_identity", "format"} |-> IF k = "format" THEN "text" ELSE "ann"], all |-> MCDefaults]
MCFirstPrograms == [own |-> << <<"pdf", "xpdf">> >>, all |-> <<>>]
MCViewers == {<<"png", "xv">>}

---------------------------------------------------------------------------------
(* The texts of which something is known to have been lost and the          *)
(* preferences of which it is known (see the slips of ComposerText and of   *)
(* Preferences) are not followed further                                    *)
NoSlip == (part = "text" => ~slip) /\ (part = "preferences" => slips = {})
=================================================================================
