------------------------------ MODULE FilterEval ------------------------------
(***************************************************************************)
(* filter_evaluator: the conditions of the filters, evaluated by operator  *)
(* precedence on a stack of values, while the user types them.  A text is  *)
(* the sequence of its words; getsym, eval_string and eval_number make     *)
(* each of them a token.                                                   *)
(***************************************************************************)
EXTENDS Integers, Sequences, FiniteSets, SequencesExt

CONSTANTS Keyboards,     \* sets of tokens: those that a user types
          Conditions,    \* filter_list: the texts of the named conditions
          Message,       \* the value of each function for the message
          MaxTokens      \* bound: the length of the text

VARIABLES keyboard, text \* the tokens in use, and those typed

evalVars == <<keyboard, text>>

-----------------------------------------------------------------------------
(* filter_eval_value: QVariant's conversions.  A null value has none.       *)

Null == [t |-> "null", v |-> ""]
Bool(b) == [t |-> "bool", v |-> IF b THEN "true" ELSE "false"]
toString(x) == x.v
toBool(x) == x.v \notin {"", "0", "false"}
toInt(x) == IF x.v = "1" \/ x = Bool(TRUE) THEN 1 ELSE 0

(* indexOf and QRegExp::indexIn, for texts of one word                      *)
indexIn(s1, s2) == IF s2 = s1 \/ s2 = "" THEN 0 ELSE -1

PRI_OR == 22
PRI_AND == 24
PRI_UNARY_NOT == 30
PRI_CMP == 40
(* Mutant: "or" binds as tightly as "and". *)
SamePriority(op) == CASE op \in {"and", "or"} -> PRI_AND [] OTHER -> PRI_CMP
(* binary_ops, and the operators that inner_eval spells out                 *)
Priority(op) == CASE op = "and" -> PRI_AND [] op = "or" -> PRI_OR [] OTHER -> PRI_CMP

(* process_binary_op: the operators written with signs                      *)
Compare(op, v1, v2) ==
  CASE op = "="  -> Bool(toString(v1) = toString(v2))
    [] op = "=~" -> Bool(indexIn(toString(v1), toString(v2)) >= 0)
    [] op = "!~" -> Bool(indexIn(toString(v1), toString(v2)) < 0)
    [] op = "==" -> Bool(toInt(v1) = toInt(v2))
    [] op = "!=" -> Bool(toInt(v1) # toInt(v2))
    [] op = "<"  -> Bool(toInt(v1) < toInt(v2))
    [] op = ">=" -> Bool(toInt(v1) >= toInt(v2))

(* and_operator ... regmatches_operator                                     *)
Operate(op, v1, v2) ==
  CASE op = "and"        -> Bool(toBool(v1) /\ toBool(v2))
    [] op = "or"         -> Bool(toBool(v1) \/ toBool(v2))
    [] op = "contains"   -> Bool(indexIn(toString(v1), toString(v2)) >= 0)
    [] op \in {"is", "eq"} -> Bool(toString(v1) = toString(v2))
    [] op \in {"isnot", "ne"} -> Bool(toString(v1) # toString(v2))
    [] op = "regmatches" -> Bool(indexIn(toString(v1), toString(v2)) # 0)
    [] OTHER -> Compare(op, v1, v2)

not_operator(x) == Bool(~toBool(x))

-----------------------------------------------------------------------------
(* The context: the position, the depth of parentheses, the stack, whether  *)
(* the operand has ended the expression, and the error.                     *)

Start(p, npar, stack) == [p |-> p, npar |-> npar, stack |-> stack, end |-> FALSE, err |-> "", empty |-> FALSE]
Failed(e, why) == [e EXCEPT !.err = why]
Ok(e) == e.err = ""
nx(c, e) == IF e.p <= Len(c.text) THEN c.text[e.p] ELSE [is |-> "eof", v |-> ""]
Skip(e) == [e EXCEPT !.p = @ + 1]
Push(e, x) == [e EXCEPT !.stack = Append(@, x)]
Top(e) == e.stack[Len(e.stack)]
(* pop: of an empty stack, the behaviour is undefined.                      *)
Pop(e, n) == IF Len(e.stack) < n THEN [e EXCEPT !.err = "stack", !.empty = TRUE]
             ELSE [e EXCEPT !.stack = SubSeq(@, 1, Len(@) - n)]

(* What inner_eval is called with: the priority of the operator on its left,*)
(* the text and the conditions being evaluated, the context, and whether it *)
(* has read an operand.  It calls itself: what it calls has it as eval.     *)
Value == [t : STRING, v : STRING]
Calls == [prio : Nat, read : BOOLEAN,
          c : [text : Seq([is : STRING, v : STRING]), execute : BOOLEAN, calls : SUBSET STRING],
          e : [p : Nat, npar : Int, stack : Seq(Value), end : BOOLEAN, err : STRING, empty : BOOLEAN]]
Operation(prio, c, e) == [prio |-> prio, read |-> FALSE, c |-> c, e |-> e]

Parenthesis(eval, c, e) ==
  LET inside == eval[Operation(0, c, [Skip(e) EXCEPT !.npar = @ + 1])]
      closed == IF Ok(inside) /\ nx(c, inside).is # "close" THEN Failed(inside, "Unmatched parenthesis") ELSE inside
  IN [Skip(closed) EXCEPT !.npar = @ - 1]

(* eval_subexpr: a condition named by another is evaluated in a copy of the *)
(* context, which knows the conditions being evaluated.                     *)
eval_subexpr(eval, c, e, name) ==
  IF name \notin DOMAIN Conditions THEN Failed(e, "Condition not found")
  ELSE IF name \in c.calls THEN Failed(e, "Infinite recursion prevented")
  ELSE LET sub == eval[Operation(0, [c EXCEPT !.text = Conditions[name], !.calls = @ \cup {name}],
                            Start(1, e.npar, e.stack))]
       IN IF Ok(sub) THEN Push(e, Top(sub)) ELSE [e EXCEPT !.err = sub.err, !.empty = sub.empty]

(* db_lookup_header: the first field of that name, or nothing               *)
func_header(arg) == IF <<"header", arg>> \in DOMAIN Message THEN Message["header", arg] ELSE Null
(* eval_date and func_age: an error if there is no such part or unit        *)
DateFunctions == {"date", "date_utc", "now", "now_utc", "age"}
eval_date(e, f, arg) ==
  IF <<f, arg>> \in DOMAIN Message THEN Push(e, Message[f, arg]) ELSE Failed(e, "Invalid date/time field")
(* The functions, which are not called without execution                    *)
Apply(eval, c, e, f, arg) ==
  IF f = "condition" THEN eval_subexpr(eval, c, e, toString(arg))
  ELSE IF ~c.execute THEN Push(e, Null)
  ELSE IF f \in DateFunctions THEN eval_date(e, f, toString(arg))
  ELSE Push(e, IF f = "header" THEN func_header(toString(arg)) ELSE Message[f, ""])

Call0(eval, c, e, f) ==
  LET open == nx(c, e).is = "open"
  IN IF ~open THEN Apply(eval, c, e, f, Null)
     ELSE IF nx(c, Skip(e)).is = "close" THEN Apply(eval, c, Skip(Skip(e)), f, Null)
     ELSE Failed(e, "The function does not accept any argument")

Call1(eval, c, e, f) ==
  IF nx(c, e).is # "open" THEN Failed(e, "Open parenthesis expected")
  ELSE IF nx(c, Skip(e)).is = "close" THEN Failed(e, "Missing argument")
  ELSE LET arg == eval[Operation(0, c, [Skip(e) EXCEPT !.npar = @ + 1])]
           done == [Skip(Pop(arg, 1)) EXCEPT !.npar = @ - 1]
       IN IF ~Ok(arg) THEN arg
          ELSE IF nx(c, arg).is # "close" THEN Failed(arg, "Unmatched parenthesis")
          ELSE IF Len(arg.stack) = Len(e.stack) 
               THEN Apply(eval, c, [done EXCEPT !.stack = e.stack, !.err = "", !.empty = FALSE], f, Null)
          ELSE Apply(eval, c, done, f, Top(arg))

(* "not" and "!", which an operator of a higher priority cannot take        *)
Negation(eval, prio, c, e) ==
  LET of == eval[Operation(PRI_UNARY_NOT, c, Skip(e))]
      left == Pop(of, 1)
  IN IF prio > PRI_UNARY_NOT THEN [e EXCEPT !.end = (nx(c, e).v = "not")]
     ELSE IF ~Ok(of) THEN of
     ELSE IF ~Ok(left) THEN left
     ELSE Push([left EXCEPT !.end = FALSE], IF c.execute THEN not_operator(Top(of)) ELSE Top(of))

Operand(eval, prio, c, e) ==
  LET w == nx(c, e)
  IN CASE w.is = "open"  -> Parenthesis(eval, c, e)
       [] w.is = "close" -> Failed(e, "Unmatched closing parenthesis")
       [] w.is = "value" -> Push(Skip(e), [t |-> "string", v |-> w.v])
       [] w.is = "unary" -> Negation(eval, prio, c, e)
       [] w.is = "func0" -> Call0(eval, c, Skip(e), w.v)
       [] w.is = "func1" -> Call1(eval, c, Skip(e), w.v)
       [] w.is = "name"  -> eval_subexpr(eval, c, Skip(e), w.v)
       [] w.is = "eof"   -> Failed(e, "Unexpected end of expression")
       [] OTHER          -> Failed(e, "Unexpected character")

(* The binary operators that follow, as long as their priority allows       *)
Operators(eval, prio, c, e) ==
  LET w == nx(c, e)
      right == eval[Operation(Priority(w.v), c, Skip(e))]
      left == Pop(right, 2)
      n == Len(right.stack)
      result == IF c.execute THEN Operate(w.v, right.stack[n-1], right.stack[n]) ELSE Null
  IN IF ~Ok(e) \/ e.end \/ w.is = "eof" THEN [e EXCEPT !.end = FALSE]
     ELSE CASE w.is = "close"  -> IF e.npar = 0 THEN Failed(e, "Unmatched closing parenthesis") ELSE e
            [] w.is = "binary" -> IF prio > Priority(w.v) THEN e
                                  ELSE IF ~Ok(right) THEN right
                                  ELSE IF ~Ok(left) THEN left
                                  ELSE eval[[Operation(prio, c, Push(left, result)) EXCEPT !.read = TRUE]]
            [] OTHER           -> Failed(e, "Unexpected operator")

inner_eval[x \in Calls] ==
  Operators(inner_eval, x.prio, x.c, IF x.read THEN x.e ELSE Operand(inner_eval, x.prio, x.c, x.e))

evaluate(s, execute) ==
  IF s = <<>> THEN Failed(Start(1, 0, <<>>), "Empty expression")
  ELSE inner_eval[Operation(0, [text |-> s, execute |-> execute, calls |-> {}], Start(1, 0, <<>>))]

-----------------------------------------------------------------------------
(* The user types a condition, which display_expression_validity checks     *)
(* without executing it.                                                    *)

Init == keyboard \in Keyboards /\ text = <<>>
current_expr_edited ==
  /\ Len(text) < MaxTokens /\ \E w \in keyboard : text' = Append(text, w)
  /\ UNCHANGED keyboard
Next == current_expr_edited
Spec == Init /\ [][Next]_evalVars

TypeOK == keyboard \in Keyboards /\ text \in Seq(keyboard)

-----------------------------------------------------------------------------
(* The reference: the values of a text, by the grammar of "or", "and",      *)
(* "not" and comparisons, in increasing priority.                           *)

Means[level \in 1..5, s \in Seq([is : STRING, v : STRING]), calls \in SUBSET STRING] ==
  LET Splits(ops, l, r) ==
        UNION {IF s[i].is # "binary" \/ s[i].v \notin ops THEN {}
               ELSE {Operate(s[i].v, x, y) : x \in Means[l, SubSeq(s, 1, i - 1), calls],
                                             y \in Means[r, SubSeq(s, i + 1, Len(s)), calls]} : i \in 2..Len(s) - 1}
      Of(name) == IF name \in calls \/ name \notin DOMAIN Conditions THEN {}
                  ELSE Means[1, Conditions[name], calls \cup {name}]
      Applied(f, arg) == IF f = "condition" THEN Of(arg.v)
                         ELSE IF <<f, arg.v>> \in DOMAIN Message THEN {Message[f, arg.v]}
                         ELSE IF f \in DateFunctions THEN {} ELSE {Null}
      n == Len(s)
  IN IF s = <<>> THEN {}
     ELSE CASE level = 1 -> Means[2, s, calls] \cup Splits({"or"}, 2, 1)
       [] level = 2 -> Means[3, s, calls] \cup Splits({"and"}, 3, 2)
       [] level = 3 -> Means[4, s, calls]
                       \cup (IF s[1].is = "unary" THEN {not_operator(x) : x \in Means[3, Tail(s), calls]} ELSE {})
       [] level = 4 -> Means[5, s, calls]
                       \cup Splits({"contains", "is", "isnot", "eq", "ne", "regmatches", "=", "=~", "!~", "==", "!=", "<", ">="}, 5, 4)
       [] level = 5 ->
          CASE n = 1 /\ s[1].is = "value" -> {[t |-> "string", v |-> s[1].v]}
            [] n = 1 /\ s[1].is = "name"  -> Of(s[1].v)
            [] n = 1 /\ s[1].is = "func0" -> Applied(s[1].v, Null)
            [] n = 3 /\ s[1].is = "func0" /\ s[2].is = "open" /\ s[3].is = "close" -> Applied(s[1].v, Null)
            [] n > 3 /\ s[1].is = "func1" /\ s[2].is = "open" /\ s[n].is = "close" ->
                 UNION {Applied(s[1].v, x) : x \in Means[1, SubSeq(s, 3, n - 1), calls]}
            [] n > 2 /\ s[1].is = "open" /\ s[n].is = "close" -> Means[1, SubSeq(s, 2, n - 1), calls]
            [] OTHER -> {}

(* A condition is accepted if and only if the grammar derives it, and its   *)
(* value is the one of its only derivation: neither the priorities nor the  *)
(* names of other conditions, in a circle or not, change that.  (The stack  *)
(* is not empty when it is read.)                                           *)
EvaluatesAsWritten ==
  LET e == evaluate(text, TRUE)
  IN ~e.empty => Means[1, text, {}] = IF Ok(e) THEN {Top(e)} ELSE {}

(* The stack has the operands of each operator: not if "not" follows a      *)
(* comparison.                                                              *)
StackNeverEmpty == ~evaluate(text, TRUE).empty

(* A condition that is shown as valid can be evaluated: not if a function   *)
(* does not know its argument.                                              *)
ValidIsEvaluable == Ok(evaluate(text, FALSE)) => Ok(evaluate(text, TRUE))

(* regmatches is true when the expression matches: it is when it does not   *)
(* match, or not at the first position.                                     *)
RegmatchesWhenFound ==
  \A a, b \in {"x", "y"} : toBool(Operate("regmatches", [t |-> "string", v |-> a], [t |-> "string", v |-> b]))
                           = (indexIn(a, b) >= 0)
=============================================================================
