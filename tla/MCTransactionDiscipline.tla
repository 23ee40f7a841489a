------------------------ MODULE MCTransactionDiscipline ------------------------
(* The typing of the handlers that keep the discipline, computed by        *)
(* following every path of their code.                                     *)
EXTENDS TransactionDiscipline, MCTransactionHandlers, FiniteSets

Callees(code, f) == UNION {{code[f][b][p].f : p \in {q \in DOMAIN code[f][b] :
                              code[f][b][q].op = "call"}} : b \in DOMAIN code[f]}
RECURSIVE Closure(_, _)
Closure(code, S) == LET T == S \cup UNION {Callees(code, f) : f \in S}
                    IN IF T = S THEN S ELSE Closure(code, T)
MCProgram == LET code == Code IN [f \in Closure(code, DisciplinedRoots) |-> code[f]]

(* The points <<block, pc, held>> that follow one, and <<"escape", k, h>>  *)
(* for an exception that leaves the function; esc is what its callees let  *)
(* out.                                                                    *)
Raised(code, b, h, k) ==
  IF b = "body" /\ k \in DOMAIN code THEN <<k, 1, h>> ELSE <<"escape", k, h>>
After(code, x, esc) ==
  LET b == x[1] p == x[2] h == x[3] i == code[b][p]
  IN IF b = "escape" THEN {}
     ELSE CASE i.op = "begin" -> {<<b, p + 1, h + 1>>}
            [] i.op \in {"commit", "rollback"} -> {<<b, p + 1, h - 1>>}
            [] i.op = "sql" -> {<<b, p + 1, h>>, Raised(code, b, h, i.kind)}
            [] i.op \in {"quiet", "alert", "events"} -> {<<b, p + 1, h>>}
            [] i.op = "goto" -> {<<b, t, h>> : t \in i.to}
            [] i.op = "call" -> {<<b, q, h>> : q \in {p + 1, i.no} \ {0}}
                   \cup {Raised(code, b, h, e[2]) : e \in {d \in esc : d[1] = i.f}}
            [] i.op = "return" -> {}
            [] i.op = "throw" -> {Raised(code, b, h, i.kind)}

RECURSIVE Points(_, _, _, _), Paths(_, _)
Points(code, seen, new, esc) ==
  IF new = {} THEN seen
  ELSE LET next == UNION {After(code, x, esc) : x \in new} \ seen
       IN Points(code, seen \cup next, next, esc)
Paths(code, esc) ==
  LET start == {<<"body", 1, 0>>}
      pts   == UNION {{<<f, x>> : x \in Points(code[f], start, start, esc)} : f \in DOMAIN code}
      esc2  == {<<y[1], y[2][2]>> : y \in {z \in pts : z[2][1] = "escape"}}
  IN IF esc2 = esc THEN pts ELSE Paths(code, esc2)

MCEscapes ==
  LET code  == MCProgram
      paths == Paths(code, {})
  IN [f \in DOMAIN code |->
        {y[2][2] : y \in {z \in paths : z[1] = f /\ z[2][1] = "escape"}}]
MCHeld ==
  LET code  == MCProgram
      paths == Paths(code, {})
  IN [f \in DOMAIN code |-> [b \in DOMAIN code[f] |-> [p \in DOMAIN code[f][b] |->
        LET hs == {y[2][3] : y \in {z \in paths :
                     z[1] = f /\ z[2][1] = b /\ z[2][2] = p}}
        IN IF hs = {} THEN -1 ELSE CHOOSE h \in hs : TRUE]]]

(* The points where something may have been lost: those that the second    *)
(* discipline excludes, given the ones found so far, until there are no    *)
(* more of them.                                                           *)
ReachedPoints == {<<z[1], z[2][1], z[2][2]>> :
                    z \in {y \in Paths(MCProgram, {}) : y[2][1] # "escape"}}
Doubtful(code, pts, bad) ==
  LET instr(x)     == code[x[1]][x[2]][x[3]]
      lies(g, v)   == \E y \in bad : y[1] = g /\ instr(y).op = "return" /\ instr(y).val = v
      to(x, q)     == <<x[1], x[2], q>>
      from(x) ==
        LET i == instr(x)
        IN CASE i.op \in {"begin", "commit", "sql"} -> IF x \in bad THEN {to(x, x[3] + 1)} ELSE {}
             [] i.op = "goto" -> IF x \in bad THEN {to(x, t) : t \in i.to} ELSE {}
             [] i.op = "call" ->
                  (IF x \in bad \/ lies(i.f, TRUE) \/ (i.no = 0 /\ lies(i.f, FALSE))
                   THEN {to(x, x[3] + 1)} ELSE {})
                  \cup (IF i.no # 0 /\ (x \in bad \/ lies(i.f, FALSE)) THEN {to(x, i.no)} ELSE {})
             [] i.op \in {"quiet", "rollback"} -> {to(x, x[3] + 1)}
             [] i.op = "alert" -> {x, to(x, x[3] + 1)}
             [] i.op \in {"events", "return", "throw"} -> {}
  IN UNION {from(x) : x \in pts} \cup {x \in pts : x[2] # "body" /\ x[3] = 1}
RECURSIVE AllDoubtful(_, _, _)
AllDoubtful(code, pts, bad) ==
  LET more == bad \cup Doubtful(code, pts, bad)
  IN IF more = bad THEN bad ELSE AllDoubtful(code, pts, more)
MCClean ==
  LET code == MCProgram
      bad  == AllDoubtful(code, ReachedPoints, {})
  IN [f \in DOMAIN code |-> [b \in DOMAIN code[f] |-> [p \in DOMAIN code[f][b] |->
        <<f, b, p>> \notin bad]]]

MCSilent == {"change_batch", "multi_archive", "set_or_with_status"}

(* The handlers of HonestRoots keep the second discipline.                 *)
ASSUME HonestAssumption == HonestCode(HonestRoots)
=============================================================================
