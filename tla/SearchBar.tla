------------------------------- MODULE SearchBar -------------------------------
(***************************************************************************)
(* The search bar: msgs_filter::parse_search_string, an automaton that     *)
(* reads the text once, and the selection that comes of what it has read.  *)
(* A run of letters is one symbol; the others are ", :, space, \ and a     *)
(* further delimiter.  The user types token after token.                   *)
(***************************************************************************)
EXTENDS Selection

CONSTANTS Tokens,       \* what may be typed: [text, kind, arg] records
          MaxTokens,    \* bound: length of the text in tokens
          Mails         \* the messages of the database

VARIABLES typed,        \* the tokens typed so far
          parse         \* the locals of parse_search_string and its result

searchVars == <<typed, parse>>

Symbols == {"\"", ":", " ", "\\", ","}
Delimiter(c) == c \in Symbols

Start == [state |-> 10, word |-> <<>>, substr |-> <<>>, op |-> <<>>, value |-> <<>>,
          options |-> NoOptions]

Value(symbols) == IF symbols = <<>> THEN "" ELSE IF Len(symbols) = 1 THEN symbols[1] ELSE "other"

EndOption(p) == [p EXCEPT !.options = AddOperator(@, p.op, Value(p.value)), !.state = 10]

(* Mutant: an excluded word is looked for. *)
KeepSign(p) == [p EXCEPT !.word = <<>>,
  !.options.words = IF p.word = <<>> THEN @ ELSE @ \cup {p.word}]
EndWord(p) ==
  IF p.word = <<>> THEN p
  ELSE IF Head(p.word) = "-" THEN [p EXCEPT !.word = <<>>, !.options.excluded = @ \cup {Tail(p.word)}]
  ELSE [p EXCEPT !.word = <<>>, !.options.words = @ \cup {p.word}]

Quote(p) ==
  CASE p.state = 10 -> [p EXCEPT !.state = 40]
    [] p.state = 20 -> [p EXCEPT !.state = 45]
    [] p.state = 40 -> [p EXCEPT !.state = 10,
                          !.options.substrs = IF p.substr = <<>> THEN @ ELSE @ \cup {p.substr}]
    [] p.state = 45 -> EndOption(p)
    [] p.state = 50 -> [p EXCEPT !.word = Append(@, "\""), !.substr = Append(@, "\"")]
    [] p.state = 55 -> [p EXCEPT !.value = Append(@, "\""), !.state = 45]

InQuotes(p) == p.state \in {40, 50}

Read(p, c) ==
  CASE c = "\"" -> Quote(p)
    [] p.state = 10 /\ c = ":" -> [p EXCEPT !.state = 20, !.op = p.word, !.value = <<>>, !.word = <<>>]
    [] p.state = 20 -> IF c = " " THEN EndOption(p) ELSE [p EXCEPT !.value = Append(@, c)]
    [] p.state = 40 /\ c = "\\" -> [p EXCEPT !.state = 50]
    [] p.state = 45 /\ c = "\\" -> [p EXCEPT !.state = 55]
    [] p.state \in {45, 55} -> [p EXCEPT !.value = Append(@, c), !.state = 45]
    [] OTHER -> LET q == IF InQuotes(p) THEN [p EXCEPT !.substr = Append(@, c)] ELSE p
                IN IF Delimiter(c) THEN EndWord(q) ELSE [q EXCEPT !.word = Append(@, c)]

parse_search_string(p) == EndWord(IF p.state = 20 THEN EndOption(p) ELSE p).options

(* searchbar_search: a new filter, and what the query finds with it         *)
searchbar_search == [NewFilter EXCEPT !.fts = parse_search_string(parse)]
Found == IF build_query(searchbar_search, {}) = 1
         THEN {m \in Mails : InQuery(searchbar_search, m)} ELSE {}

-----------------------------------------------------------------------------
Init == typed = <<>> /\ parse = Start

Type(t) ==
  /\ Len(typed) < MaxTokens
  /\ typed' = Append(typed, t)
  /\ parse' = FoldLeft(Read, parse, (IF typed = <<>> THEN <<>> ELSE <<" ">>) \o t.text)

Next == \E t \in Tokens : Type(t)
Spec == Init /\ [][Next]_searchVars
-----------------------------------------------------------------------------
TypeOK ==
  /\ typed \in Seq(Tokens) /\ Len(typed) <= MaxTokens
  /\ parse.state \in {10, 20, 40, 45, 50, 55}

(* What each token asks for, from the comments of selectmail.cpp: a word,   *)
(* a -word, a "phrase", an operator with its value, or its negation.        *)
Asks(t, m) ==
  CASE t.kind = "word" -> <<t.arg>> \in WordsOf(m.text)
    [] t.kind = "without" -> <<t.arg>> \notin WordsOf(m.text)
    [] t.kind = "phrase" -> HasPart(m.text, t.arg)
    [] t.kind \in AddressTypes -> t.arg \in m.addresses[t.kind]
    [] t.kind = "not from" -> t.arg \notin m.addresses["from"]
    [] t.kind = "is" -> t.arg \in m.status
    [] t.kind = "isnot" -> t.arg \notin m.status
    [] t.kind = "tag" -> t.arg \in m.tags
    [] t.kind = "before" -> m.day <= Span(t.arg)[2]
    [] t.kind = "after" -> m.day >= Span(t.arg)[1]
    [] t.kind = "date" -> m.day \in Span(t.arg)[1] .. Span(t.arg)[2]

Count(kinds) == Len(SelectSeq(typed, LAMBDA t : t.kind \in kinds))
Asked == {m \in Mails : "trashed" \notin m.status /\ \A t \in Range(typed) : Asks(t, m)}

(* The messages found are those that meet every term of the text, whatever  *)
(* their order, out of the trashcan (selectmail.cpp:265-395, 420-740).  With *)
(* one phrase and one date operator of each name at most: see FoundIsAsked. *)
OncePerName == Count({"phrase"}) <= 1 /\ \A k \in {"date", "before", "after"} : Count({k}) <= 1
Today_before == \E t \in Range(typed) : t.kind = "before" /\ t.arg = "today"
FoundWithinLimits == OncePerName /\ ~Today_before => Found = Asked

(* The same for any text: the text of a phrase stays in curr_substr when    *)
(* the next one begins, and only the last date of each name is used.        *)
FoundIsAsked == ~Today_before => Found = Asked

(* "For date_before and date_after, the boundary is included" (line 765).   *)
BoundaryIncluded == OncePerName => Found = Asked
=============================================================================
