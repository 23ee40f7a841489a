------------------------- MODULE TransactionDiscipline -------------------------
(***************************************************************************)
(* A static discipline for the code run by TransactionHandlers, in the     *)
(* manner of a type system: Held gives, at each instruction, the number of *)
(* begins the function holds there, and Escapes the kinds of exceptions    *)
(* that may leave a function.  Code that has such a typing cannot unbalance *)
(* m_open_trans_count, however its handlers nest and wherever statements   *)
(* fail (theorem Balance of TransactionProofs).                            *)
(***************************************************************************)
EXTENDS TransactionHandlers

CONSTANTS
  Held,     \* function -> block -> instruction -> begins held, -1 if unreachable
  Escapes,  \* function -> the kinds of exceptions that leave it
  Clean,    \* function -> block -> instruction -> whether nothing that the
            \* function has asked for is lost when it gets there
  Silent    \* functions that begin nothing, and call no other ones

(* An exception of kind k in function f, block b, with h begins held: the  *)
(* catch clause for it expects h, or it leaves f with nothing held.        *)
MayRaise(f, b, h, k) ==
  IF b = "body" /\ k \in DOMAIN Program[f]
  THEN Len(Program[f][k]) > 0 /\ Held[f][k][1] = h
  ELSE h = 0 /\ k \in Escapes[f]

(* The instruction after p, and p itself as a target, hold h.              *)
Holds(f, b, p, h) == p \in 1..Len(Program[f][b]) /\ Held[f][b][p] = h

WellTypedAt(f, b, p) ==
  LET i == Program[f][b][p]
      h == Held[f][b][p]
  IN CASE i.op = "begin" -> Holds(f, b, p + 1, h + 1)
       [] i.op \in {"commit", "rollback"} -> h > 0 /\ Holds(f, b, p + 1, h - 1)
       [] i.op = "sql" -> Holds(f, b, p + 1, h) /\ MayRaise(f, b, h, i.kind)
       [] i.op \in {"quiet", "alert", "events"} -> Holds(f, b, p + 1, h)
       [] i.op = "goto" -> \A t \in i.to : Holds(f, b, t, h)
       [] i.op = "call" ->
            /\ i.f \in DOMAIN Program
            /\ Holds(f, b, p + 1, h)
            /\ i.no # 0 => Holds(f, b, i.no, h)
            /\ \A k \in Escapes[i.f] : MayRaise(f, b, h, k)
       [] i.op = "return" -> h = 0
       [] i.op = "throw" -> MayRaise(f, b, h, i.kind)

WellTyped ==
  /\ \A f \in DOMAIN Program : Holds(f, "body", 1, 0)
  /\ \A f \in DOMAIN Program : \A b \in DOMAIN Program[f] :
       \A p \in 1..Len(Program[f][b]) :
         Held[f][b][p] \in Int /\ (Held[f][b][p] >= 0 => WellTypedAt(f, b, p))
  /\ \A f \in Roots : Escapes[f] = {}
  /\ "" \notin UNION {Escapes[f] : f \in DOMAIN Program}

ASSUME DisciplineAssumption == WellTyped

(* A second discipline, for code that tells its user the truth: a function *)
(* that returns TRUE to the event loop has lost nothing on its way.  Clean *)
(* is true of an instruction only if it is true of those that lead to it;  *)
(* it ends at a catch clause, a rollback, a dialog, a statement whose      *)
(* error nobody looks at, and a function that answers as if nothing had    *)
(* failed.                                                                 *)
Reached(f, b, p) == Held[f][b][p] >= 0

ReturnsClean(g, v) ==
  \A b \in DOMAIN Program[g] : \A p \in 1..Len(Program[g][b]) :
    Reached(g, b, p) /\ Program[g][b][p].op = "return" /\ (Program[g][b][p].val <=> v)
      => Clean[g][b][p]

HonestAt(f, b, p) ==
  LET i == Program[f][b][p]
      StaysClean(q) == Clean[f][b][q] => Clean[f][b][p]
  IN CASE i.op \in {"begin", "commit", "sql"} -> StaysClean(p + 1)
       [] i.op = "goto" -> \A t \in i.to : StaysClean(t)
       [] i.op = "call" ->
            /\ Clean[f][b][p + 1] => Clean[f][b][p] /\ ReturnsClean(i.f, TRUE)
            /\ Clean[f][b][p + 1] /\ i.no = 0 => ReturnsClean(i.f, FALSE)
            /\ i.no # 0 /\ Clean[f][b][i.no] => Clean[f][b][p] /\ ReturnsClean(i.f, FALSE)
       [] i.op \in {"quiet", "rollback"} -> ~Clean[f][b][p + 1]
       [] i.op = "alert" -> ~Clean[f][b][p] /\ ~Clean[f][b][p + 1]
       [] i.op = "events" -> FALSE
       [] i.op \in {"return", "throw"} -> TRUE

SilentAt(f, b, p) ==
  LET i == Program[f][b][p] IN i.op # "begin" /\ (i.op = "call" => i.f \in Silent)

(* Handlers started from the functions of R are honest.                    *)
HonestCode(R) ==
  /\ \A f \in DOMAIN Program : \A b \in DOMAIN Program[f] :
       \A p \in 1..Len(Program[f][b]) : Reached(f, b, p) =>
         /\ HonestAt(f, b, p)
         /\ b # "body" /\ p = 1 => ~Clean[f][b][p]
         /\ f \in Silent => SilentAt(f, b, p)
  /\ \A f \in R \ Silent : ReturnsClean(f, TRUE)

(* The inductive invariant of the proof.  A frame sits at a reachable      *)
(* instruction; a frame that waits is at a call of the next one, or in an  *)
(* event loop that started it; the bases add up to the count.              *)
HeldBy(fr) == Held[fr.f][fr.blk][fr.pc]

FrameOK(fr) ==
  /\ fr.f \in DOMAIN Program /\ fr.blk \in DOMAIN Program[fr.f]
  /\ fr.pc \in 1..Len(Program[fr.f][fr.blk])
  /\ HeldBy(fr) >= 0

Waits(fr, next) ==
  /\ FrameOK(fr)
  /\ next.base = fr.base + HeldBy(fr)
  /\ IF next.root THEN Instr(fr).op \in {"alert", "events"} /\ next.f \in Roots
     ELSE Instr(fr).op = "call" /\ Instr(fr).f = next.f

StackOK ==
  /\ \A i \in 1..(Len(stack) - 1) : Waits(stack[i], stack[i + 1])
  /\ \A i \in 1..Len(stack) : stack[i].base \in Nat
  /\ stack # <<>> => stack[1].base = 0 /\ stack[1].root /\ stack[1].f \in Roots

TopOK ==
  IF stack = <<>> THEN exc = "" /\ count = 0
  ELSE IF exc = "" THEN FrameOK(Top) /\ count = Top.base + HeldBy(Top)
  ELSE /\ Top.f \in DOMAIN Program /\ Top.blk \in DOMAIN Program[Top.f]
       /\ count >= Top.base
       /\ MayRaise(Top.f, Top.blk, count - Top.base, exc)

ServerOK == link = "up" /\ (count = 0 => txn = "none")

(* That of the second discipline: a handler that is at a clean point of    *)
(* every function it is in has lost no change it has asked for, and the    *)
(* server still accepts the ones to come.                                  *)
AllClean    == \A i \in 1..Len(stack) : Clean[stack[i].f][stack[i].blk][stack[i].pc]
Wrote       == \E i \in 1..Len(stack) : stack[i].wrote
OneRoot     == \A i \in 2..Len(stack) : ~stack[i].root
SilentStack ==
  stack # <<>> /\ stack[1].f \in Silent =>
    count = 0 /\ \A i \in 1..Len(stack) : stack[i].f \in Silent /\ ~stack[i].wrote

HonestInv ==
  /\ told => count = 0 /\ ~lost
  /\ proc = "running" =>
       /\ pend => txn # "none"
       /\ OneRoot /\ SilentStack
       /\ exc = "" /\ AllClean /\ (count > 0 \/ Wrote) => ~lost /\ txn # "failed"

IndInv ==
  /\ proc \in {"running", "quit"}
  /\ proc = "running" => count \in Nat /\ ServerOK /\ StackOK /\ TopOK
=============================================================================
