--------------------------- MODULE TransactionProofs ---------------------------
(***************************************************************************)
(* What TransactionHandlers and TransactionDiscipline promise, for every   *)
(* program, every bound and every depth of nesting; and that code which    *)
(* keeps the discipline never unbalances m_open_trans_count, however its   *)
(* functions nest, whatever event loops start inside them and wherever     *)
(* statements fail; nor, with the second discipline, tells its user that a *)
(* change was made which was not.                                          *)
(***************************************************************************)
EXTENDS TransactionDiscipline, SequenceTheorems, TLAPS

-----------------------------------------------------------------------------
(* The stack: frames inside their code, each one started by an event loop  *)
(* or called by the frame below it.                                        *)
Stacked(s) ==
  /\ s \in Seq(Frames)
  /\ \A i \in 1..Len(s) : InCode(s[i])
  /\ s # <<>> => s[1].root
  /\ \A i \in 1..(Len(s) - 1) : ~s[i + 1].root => Instr(s[i]).op = "call"

LEMMA Positions ==
  ASSUME NEW n \in Nat
  PROVE  /\ \A p \in 1..n : p \in Nat /\ (p < n => p + 1 \in 1..n)
         /\ \A p \in 0..n : p = 0 \/ p \in 1..n
         /\ n # 0 => 1 \in 1..n
  OBVIOUS

LEMMA InstrWellFormed ==
  ASSUME NEW fr \in Frames, InCode(fr)
  PROVE  /\ Len(Program[fr.f][fr.blk]) \in Nat
         /\ WellFormed(Instr(fr), fr.pc, Len(Program[fr.f][fr.blk]))
  BY ProgramAssumption DEF Frames, InCode, Instr

LEMMA ReplacedTop ==
  ASSUME NEW s \in Seq(Frames), s # <<>>, NEW fr \in Frames,
         NEW t, t = [s EXCEPT ![Len(s)] = fr]
  PROVE  /\ t \in Seq(Frames) /\ Len(t) = Len(s) /\ Len(s) \in Nat \ {0}
         /\ t[Len(s)] = fr /\ t # <<>>
         /\ \A i \in 1..Len(s) : i # Len(s) => t[i] = s[i]
  OBVIOUS

LEMMA ReplaceStacked ==
  ASSUME NEW s, Stacked(s), s # <<>>, NEW fr, InCode(fr), fr.root = s[Len(s)].root,
         NEW t, t \in Seq(Frames), Len(t) = Len(s), Len(s) \in Nat \ {0}, t[Len(s)] = fr,
         \A i \in 1..Len(s) : i # Len(s) => t[i] = s[i]
  PROVE  Stacked(t)
<1>1. ASSUME NEW i \in 1..Len(t) PROVE InCode(t[i])
  <2>1. CASE i = Len(s)  BY <2>1
  <2>2. CASE i # Len(s)  BY <2>2 DEF Stacked
  <2> QED  BY <2>1, <2>2
<1>2. ASSUME NEW i \in 1..Len(s) PROVE t[i].root = s[i].root
  <2>1. CASE i = Len(s)  BY <2>1
  <2>2. CASE i # Len(s)  BY <2>2
  <2> QED  BY <2>1, <2>2
<1>3. t[1].root  BY <1>2 DEF Stacked
<1>4. ASSUME NEW i \in 1..(Len(t) - 1), ~t[i + 1].root PROVE Instr(t[i]).op = "call"
  <2>1. i \in 1..Len(s) /\ i # Len(s) /\ i + 1 \in 1..Len(s)  OBVIOUS
  <2>2. t[i] = s[i] /\ ~s[i + 1].root  BY <1>2, <1>4, <2>1
  <2> QED  BY <2>2 DEF Stacked
<1> QED  BY <1>1, <1>3, <1>4 DEF Stacked

(* Replacing the top frame by another one of the same kind.                *)
LEMMA ReplaceTop ==
  ASSUME NEW s, Stacked(s), s # <<>>, NEW fr \in Frames, InCode(fr),
         fr.root = s[Len(s)].root
  PROVE  Stacked([s EXCEPT ![Len(s)] = fr])
<1>1. s \in Seq(Frames)  BY DEF Stacked
<1> QED  BY <1>1, ReplacedTop, ReplaceStacked

LEMMA PushStacked ==
  ASSUME NEW s, Stacked(s), NEW fr, InCode(fr),
         fr.root \/ (s # <<>> /\ Instr(s[Len(s)]).op = "call"),
         NEW t, t \in Seq(Frames), Len(t) = Len(s) + 1, Len(s) \in Nat, t[Len(s) + 1] = fr,
         s = <<>> <=> Len(s) = 0,
         \A i \in 1..Len(s) : t[i] = s[i]
  PROVE  Stacked(t)
<1>1. ASSUME NEW i \in 1..Len(t) PROVE InCode(t[i])
  <2>1. CASE i = Len(s) + 1  BY <2>1
  <2>2. CASE i # Len(s) + 1  BY <2>2 DEF Stacked
  <2> QED  BY <2>1, <2>2
<1>2. t[1].root
  <2>1. CASE s = <<>>  BY <2>1
  <2>2. CASE s # <<>>  BY <2>2 DEF Stacked
  <2> QED  BY <2>1, <2>2
<1>3. ASSUME NEW i \in 1..(Len(t) - 1), ~t[i + 1].root PROVE Instr(t[i]).op = "call"
  <2>1. i \in 1..Len(s) /\ t[i] = s[i]  OBVIOUS
  <2>2. CASE i = Len(s)  BY <1>3, <2>1, <2>2
  <2>3. CASE i # Len(s)
    <3>1. i \in 1..(Len(s) - 1) /\ i + 1 \in 1..Len(s)  BY <2>3
    <3>2. ~s[i + 1].root  BY <1>3, <3>1
    <3> QED  BY <2>1, <3>1, <3>2 DEF Stacked
  <2> QED  BY <2>2, <2>3
<1> QED  BY <1>1, <1>2, <1>3 DEF Stacked

(* Adding a frame: started by an event loop, or called by the top one.     *)
LEMMA PushFrame ==
  ASSUME NEW s, Stacked(s), NEW fr \in Frames, InCode(fr),
         fr.root \/ (s # <<>> /\ Instr(s[Len(s)]).op = "call")
  PROVE  Stacked(Append(s, fr))
<1> DEFINE t == Append(s, fr)
<1>1. s \in Seq(Frames)  BY DEF Stacked
<1>2. /\ t \in Seq(Frames) /\ Len(t) = Len(s) + 1 /\ Len(s) \in Nat
      /\ t[Len(s) + 1] = fr /\ (s = <<>> <=> Len(s) = 0)
      /\ \A i \in 1..Len(s) : t[i] = s[i]
  BY <1>1
<1> HIDE DEF t
<1>3. Stacked(t)  BY <1>2, PushStacked
<1> QED  BY <1>3 DEF t

LEMMA PopFrame ==
  ASSUME Stacked(stack), stack # <<>>
  PROVE  /\ Stacked(Below) /\ Len(Below) = Len(stack) - 1 /\ Len(stack) \in Nat \ {0}
         /\ \A i \in 1..(Len(stack) - 1) : Below[i] = stack[i]
<1>1. stack \in Seq(Frames) /\ Len(stack) \in Nat \ {0}  BY DEF Stacked
<1>2. \A i \in 1..(Len(stack) - 1) : stack[i] \in Frames  BY <1>1
<1>3. /\ Below \in Seq(Frames) /\ Len(Below) = Len(stack) - 1
      /\ \A i \in 1..(Len(stack) - 1) : Below[i] = stack[i]
  <2> DEFINE n == Len(stack) - 1
  <2>1. n \in Nat  BY <1>1
  <2> HIDE DEF n
  <2>2. 1 \in Int /\ n \in Int /\ \A i \in 1..n : stack[i] \in Frames  BY <1>2, <2>1 DEF n
  <2>3. /\ SubSeq(stack, 1, n) \in Seq(Frames)
        /\ Len(SubSeq(stack, 1, n)) = IF 1 <= n THEN n - 1 + 1 ELSE 0
        /\ \A i \in 1..(n - 1 + 1) : SubSeq(stack, 1, n)[i] = stack[1 + i - 1]
    BY <2>2, SubSeqProperties
  <2>4. Len(SubSeq(stack, 1, n)) = n /\ \A i \in 1..n : SubSeq(stack, 1, n)[i] = stack[i]
    <3>1. n - 1 + 1 = n /\ (1 <= n \/ n = 0)  BY <2>1
    <3>2. \A i \in 1..n : 1 + i - 1 = i  BY <2>1
    <3> QED  BY <2>3, <3>1, <3>2
  <2> QED  BY <2>3, <2>4 DEF Below, n
<1>4. \A i \in 1..Len(Below) : InCode(Below[i])  BY <1>1, <1>3 DEF Stacked
<1>5. Below # <<>> => Below[1].root
  <2>1. Below # <<>> => 1 \in 1..(Len(stack) - 1)  BY <1>1, <1>3
  <2> QED  BY <1>1, <1>3, <2>1 DEF Stacked
<1>6. ASSUME NEW i \in 1..(Len(Below) - 1), ~Below[i + 1].root PROVE Instr(Below[i]).op = "call"
  <2>1. i \in 1..(Len(stack) - 1) /\ i + 1 \in 1..(Len(stack) - 1)  BY <1>1, <1>3
  <2>2. Below[i] = stack[i] /\ ~stack[i + 1].root  BY <1>3, <1>6, <2>1
  <2> QED  BY <2>1, <2>2 DEF Stacked
<1> QED  BY <1>1, <1>3, <1>4, <1>5, <1>6 DEF Stacked

(* Where a non-root frame returns to.                                      *)
LEMMA CallerWaits ==
  ASSUME Stacked(stack), stack # <<>>, ~Top.root
  PROVE  /\ Len(stack) - 1 \in 1..Len(stack) /\ Below # <<>>
         /\ Below[Len(Below)] = stack[Len(stack) - 1]
         /\ stack[Len(stack) - 1] \in Frames /\ InCode(stack[Len(stack) - 1])
         /\ Instr(stack[Len(stack) - 1]).op = "call"
<1>1. stack \in Seq(Frames) /\ Len(stack) \in Nat \ {0}  BY DEF Stacked
<1>2. Len(stack) # 1  BY <1>1 DEF Stacked, Top
<1>3. Len(stack) - 1 \in 1..(Len(stack) - 1)
  <2> DEFINE n == Len(stack)
  <2>1. n \in Nat \ {0} /\ n # 1  BY <1>1, <1>2
  <2> HIDE DEF n
  <2>2. n - 1 \in 1..(n - 1)  BY <2>1
  <2> QED  BY <2>2 DEF n
<1>4. stack[(Len(stack) - 1) + 1] = Top  BY <1>1 DEF Top
<1>5. Instr(stack[Len(stack) - 1]).op = "call"  BY <1>3, <1>4 DEF Stacked
<1> QED  BY <1>1, <1>3, <1>5, PopFrame DEF Stacked

LEMMA TopFrame ==
  ASSUME Stacked(stack), stack # <<>>
  PROVE  Top \in Frames /\ InCode(Top) /\ Len(stack) \in Nat \ {0}
  BY DEF Stacked, Top
-----------------------------------------------------------------------------
(* Type correctness.                                                       *)

SessionOK == SessionTypeOK /\ (count < 0 => proc = "fatal")
StacksOK  == Stacked(stack) /\ exc \in {""} \cup Kinds /\ told \in BOOLEAN /\ (exc # "" => stack # <<>>)

(* What the operations of PgSession do to the types: the server's part,    *)
(* which is Boolean, apart from the count.                                 *)
ServerTypeOK ==
  /\ link \in {"up", "down"} /\ txn \in {"none", "open", "failed"}
  /\ pend \in BOOLEAN /\ kept \in BOOLEAN /\ lost \in BOOLEAN
CountOK == count \in Int /\ proc \in {"running", "quit", "fatal", "terminated"}
           /\ (count < 0 => proc = "fatal")

LEMMA SessionParts ==
  (SessionOK <=> ServerTypeOK /\ CountOK) /\ (SessionOK' <=> ServerTypeOK' /\ CountOK')
  BY DEF SessionOK, SessionTypeOK, ServerTypeOK, CountOK

LEMMA ServerType ==
  ASSUME ServerTypeOK
  PROVE  /\ \A r : BeginTransaction(r) => ServerTypeOK'
         /\ \A r : CommitTransaction(r) => ServerTypeOK'
         /\ \A r : RollbackTransaction(r) => ServerTypeOK'
         /\ \A w, r : Statement(w, r) => ServerTypeOK'
<1> USE DEF ServerTypeOK, server
<1>1. ASSUME NEW r, BeginTransaction(r) PROVE ServerTypeOK'
  BY <1>1, Zenon DEF BeginTransaction, SendBegin
<1>2. ASSUME NEW r, CommitTransaction(r) PROVE ServerTypeOK'
  <2>1. SendCommit(r) => ServerTypeOK'  BY Zenon DEF SendCommit
  <2> QED  BY <1>2, <2>1, Zenon DEF CommitTransaction, EndTransaction
<1>3. ASSUME NEW r, RollbackTransaction(r) PROVE ServerTypeOK'
  BY <1>3, Zenon DEF RollbackTransaction, EndTransaction, SendRollback
<1>4. ASSUME NEW w, NEW r, Statement(w, r) PROVE ServerTypeOK'
  BY <1>4, Zenon DEF Statement
<1> QED  BY <1>1, <1>2, <1>3, <1>4, Zenon

LEMMA SessionType ==
  ASSUME SessionOK, proc = "running"
  PROVE  /\ \A r : BeginTransaction(r) => SessionOK'
         /\ \A r : CommitTransaction(r) => SessionOK'
         /\ \A r : RollbackTransaction(r) => SessionOK'
         /\ \A w, r : Statement(w, r) /\ UNCHANGED <<count, proc>> => SessionOK'
         /\ Reconnect => SessionOK'
         /\ LoseSession => SessionOK'
         /\ \A how \in {"quit", "terminated"} : EndProcess(how) => SessionOK'
         /\ CheckNewMail => SessionOK'
         /\ SynchronousFetch => SessionOK'
         /\ UNCHANGED session => SessionOK'
<1>0. ServerTypeOK /\ CountOK  BY SessionParts
<1> SUFFICES
         /\ \A r : BeginTransaction(r) => CountOK'
         /\ \A r : CommitTransaction(r) => CountOK'
         /\ \A r : RollbackTransaction(r) => CountOK'
         /\ UNCHANGED <<count, proc>> => CountOK'
         /\ Reconnect => ServerTypeOK' /\ CountOK'
         /\ LoseSession => ServerTypeOK' /\ CountOK'
         /\ \A how \in {"quit", "terminated"} : EndProcess(how) => ServerTypeOK' /\ CountOK'
         /\ CheckNewMail => ServerTypeOK' /\ CountOK'
         /\ SynchronousFetch => ServerTypeOK' /\ CountOK'
         /\ UNCHANGED session => ServerTypeOK' /\ CountOK'
  BY <1>0, ServerType, SessionParts, Zenon
<1>1. ASSUME NEW r, BeginTransaction(r) PROVE CountOK'
  <2>1. count' = count + 1 /\ proc' = proc  BY <1>1, Zenon DEF BeginTransaction
  <2> QED  BY <1>0, <2>1 DEF CountOK
<1>2. ASSUME NEW r, CommitTransaction(r) \/ RollbackTransaction(r) PROVE CountOK'
  <2>1. count' = count - 1 /\ IF count' < 0 THEN proc' = "fatal" ELSE proc' = proc
    BY <1>2, Zenon DEF CommitTransaction, RollbackTransaction, EndTransaction
  <2> QED  BY <1>0, <2>1 DEF CountOK
<1>4. UNCHANGED <<count, proc>> => CountOK'  BY <1>0 DEF CountOK
<1>5. /\ Reconnect => CountOK'
      /\ LoseSession => CountOK'
      /\ CheckNewMail => CountOK'
      /\ SynchronousFetch => CountOK'
      /\ UNCHANGED session => CountOK'
  BY <1>0 DEF CountOK, Reconnect, LoseSession, CheckNewMail, SynchronousFetch, session
<1>6. \A how \in {"quit", "terminated"} : EndProcess(how) => CountOK'
  BY <1>0 DEF CountOK, EndProcess
<1>7. /\ Reconnect => ServerTypeOK'
      /\ LoseSession => ServerTypeOK'
      /\ UNCHANGED session => ServerTypeOK'
  BY <1>0, Zenon DEF ServerTypeOK, Reconnect, LoseSession, session, server
<1>8. CheckNewMail => ServerTypeOK'
  BY <1>0, Zenon DEF ServerTypeOK, CheckNewMail
<1>9. SynchronousFetch => ServerTypeOK'
  BY <1>0, Zenon DEF ServerTypeOK, SynchronousFetch
<1>10. \A how \in {"quit", "terminated"} : EndProcess(how) => ServerTypeOK'
  BY <1>0, Zenon DEF ServerTypeOK, EndProcess
<1> QED  BY <1>1, <1>2, <1>4, <1>5, <1>6, <1>7, <1>8, <1>9, <1>10, Zenon

(* The top frame moves inside its block.                                   *)
LEMMA TopMoves ==
  ASSUME Stacked(stack), stack # <<>>, NEW pc \in 1..Len(Program[Top.f][Top.blk]),
         NEW w \in BOOLEAN
  PROVE  /\ Jump(pc) => Stacked(stack') /\ stack' # <<>>
         /\ stack' = [stack EXCEPT ![Len(stack)].pc = pc, ![Len(stack)].wrote = w]
              => Stacked(stack') /\ stack' # <<>>
<1>1. Top \in Frames /\ InCode(Top) /\ Len(stack) \in Nat \ {0} /\ stack \in Seq(Frames)
  BY TopFrame DEF Stacked
<1>2. pc \in Nat  BY <1>1, InstrWellFormed
<1> DEFINE moved == [Top EXCEPT !.pc = pc]
           both  == [Top EXCEPT !.pc = pc, !.wrote = w]
<1>3. /\ moved \in Frames /\ InCode(moved) /\ moved.root = Top.root
      /\ both \in Frames /\ InCode(both) /\ both.root = Top.root
  BY <1>1, <1>2 DEF Frames, InCode
<1>4. Jump(pc) => stack' = [stack EXCEPT ![Len(stack)] = moved]  BY DEF Jump, Top
<1>5. stack' = [stack EXCEPT ![Len(stack)].pc = pc, ![Len(stack)].wrote = w]
        => stack' = [stack EXCEPT ![Len(stack)] = both]
  BY <1>1 DEF Top
<1>6. /\ Stacked([stack EXCEPT ![Len(stack)] = moved])
      /\ Stacked([stack EXCEPT ![Len(stack)] = both])
  <2> HIDE DEF moved, both
  <2> QED  BY <1>3, ReplaceTop DEF Top
<1>7. Stacked(stack') /\ Len(stack') = Len(stack) => stack' # <<>>  BY <1>1 DEF Stacked
<1>8. /\ Len([stack EXCEPT ![Len(stack)] = moved]) = Len(stack)
      /\ Len([stack EXCEPT ![Len(stack)] = both]) = Len(stack)
  <2> HIDE DEF moved, both
  <2> QED  BY <1>1, <1>3, ReplacedTop
<1> HIDE DEF moved, both
<1> QED  BY <1>4, <1>5, <1>6, <1>7, <1>8

(* It goes on after an instruction that is not the last one of its block.  *)
LEMMA TopAdvances ==
  ASSUME Stacked(stack), stack # <<>>, Instr(Top).op \notin {"return", "throw", "goto"}
  PROVE  /\ Advance => Stacked(stack') /\ stack' # <<>>
         /\ Executed => Stacked(stack') /\ stack' # <<>>
<1>1. Top \in Frames /\ InCode(Top) /\ stack \in Seq(Frames) /\ Len(stack) \in Nat \ {0}
  BY TopFrame DEF Stacked
<1>2. Top.pc + 1 \in 1..Len(Program[Top.f][Top.blk])
  <2>1. /\ Len(Program[Top.f][Top.blk]) \in Nat
        /\ WellFormed(Instr(Top), Top.pc, Len(Program[Top.f][Top.blk]))
    BY <1>1, InstrWellFormed
  <2>2. Top.pc < Len(Program[Top.f][Top.blk])  BY <2>1, Zenon DEF WellFormed
  <2> QED  BY <1>1, <2>1, <2>2 DEF InCode
<1>3. Advance => Stacked(stack') /\ stack' # <<>>  BY <1>2, TopMoves DEF Advance
<1>4. Executed => \E w \in BOOLEAN :
        stack' = [stack EXCEPT ![Len(stack)].pc = Top.pc + 1, ![Len(stack)].wrote = w]
  <2> DEFINE w == Top.wrote \/ (Instr(Top).writes /\ count > 0)
  <2>1. w \in BOOLEAN  OBVIOUS
  <2>2. Executed => stack' = [stack EXCEPT ![Len(stack)].pc = Top.pc + 1,
                                          ![Len(stack)].wrote = w]
    BY <1>1 DEF Executed, Top
  <2> QED  BY <2>1, <2>2
<1> QED  BY <1>2, <1>3, <1>4, TopMoves

(* The frame of a function that starts.                                    *)
LEMMA NewFrame ==
  ASSUME SessionOK, NEW f \in DOMAIN Program, NEW root \in BOOLEAN
  PROVE  Frame(f, root) \in Frames /\ InCode(Frame(f, root)) /\ Frame(f, root).root = root
         /\ Frame(f, root).f = f /\ Frame(f, root).base = count
<1>1. "body" \in DOMAIN Program[f] /\ Len(Program[f]["body"]) \in Nat \ {0}
  BY ProgramAssumption
<1>2. 1 \in 1..Len(Program[f]["body"]) /\ count \in Int
  BY <1>1 DEF SessionOK, SessionTypeOK
<1> DEFINE fr == Frame(f, root)
<1>3. fr = [f |-> f, blk |-> "body", pc |-> 1, root |-> root, wrote |-> FALSE, base |-> count]
  BY DEF Frame
<1> HIDE DEF fr
<1>4. /\ fr.f = f /\ fr.blk = "body" /\ fr.pc = 1 /\ fr.root = root /\ fr.base = count
  BY <1>3
<1>5. fr \in Frames
  <2>1. "body" \in Blocks /\ FALSE \in BOOLEAN  BY DEF Blocks
  <2>2. 1 \in Nat  OBVIOUS
  <2> QED  BY <1>2, <1>3, <2>1, <2>2, Zenon DEF Frames
<1>6. InCode(fr)  BY <1>1, <1>2, <1>4 DEF InCode
<1> QED  BY <1>4, <1>5, <1>6 DEF fr

LEMMA StacksStep == StacksOK /\ SessionOK /\ [Next]_vars => StacksOK'
<1> SUFFICES ASSUME StacksOK, SessionOK, [Next]_vars PROVE StacksOK'
  OBVIOUS
<1> USE DEF StacksOK
<1>1. ASSUME NEW op, At(op), op \notin {"return", "throw", "goto"},
             Advance \/ Executed PROVE Stacked(stack') /\ stack' # <<>>
  BY <1>1, TopAdvances DEF At
<1>2. ASSUME NEW op, At(op)
      PROVE  stack # <<>> /\ exc = "" /\ Top \in Frames /\ InCode(Top) /\ Instr(Top).op = op
             /\ WellFormed(Instr(Top), Top.pc, Len(Program[Top.f][Top.blk]))
  BY <1>2, TopFrame, InstrWellFormed DEF At
<1>3. ASSUME NEW r, NEW kind \in Kinds, NEW op, At(op), Continue(r, kind),
             op \notin {"return", "throw", "goto"}
      PROVE  Stacked(stack') /\ exc' \in {""} \cup Kinds /\ stack' # <<>>
  <2>1. (Advance /\ exc' = exc) \/ (exc' = kind /\ stack' = stack)  BY <1>3, Zenon DEF Continue
  <2> QED  BY <1>1, <1>2, <1>3, <2>1
<1>4. CASE DoBegin
  <2>1. Instr(Top).kind \in Kinds  BY <1>2, <1>4, Zenon DEF DoBegin, WellFormed
  <2>2. At("begin") /\ told' \in BOOLEAN  BY <1>4 DEF DoBegin
  <2>3. PICK r \in {"", "db"} : Continue(r, Instr(Top).kind)  BY <1>4 DEF DoBegin
  <2>4. Stacked(stack') /\ exc' \in {""} \cup Kinds /\ stack' # <<>>  BY <1>3, <2>1, <2>2, <2>3
  <2> QED  BY <2>2, <2>4
<1>5. CASE DoCommit \/ DoRollback
  <2>1. PICK op \in {"commit", "rollback"} : At(op) /\ told' = told
                /\ \E r \in {"", "db"} : Continue(r, "db")
    BY <1>5 DEF DoCommit, DoRollback
  <2>2. Stacked(stack') /\ exc' \in {""} \cup Kinds /\ stack' # <<>>
    BY <1>3, <2>1 DEF Kinds
  <2> QED  BY <2>1, <2>2
<1>6. CASE DoSql
  <2>1. Instr(Top).kind \in Kinds  BY <1>2, <1>6, Zenon DEF DoSql, WellFormed
  <2>2. Stacked(stack') /\ stack' # <<>>  BY <1>1, <1>6 DEF DoSql
  <2>3. told' = told /\ (exc' = "" \/ exc' = Instr(Top).kind)  BY <1>6, Zenon DEF DoSql
  <2> QED  BY <2>1, <2>2, <2>3
<1>7. CASE DoQuiet \/ DoEvents
  <2>1. Stacked(stack') /\ stack' # <<>>  BY <1>1, <1>7 DEF DoQuiet, DoEvents
  <2> QED  BY <1>7, <2>1 DEF DoQuiet, DoEvents
<1>8. CASE DoGoto
  <2>1. Instr(Top).to \subseteq 1..Len(Program[Top.f][Top.blk])
    BY <1>2, <1>8, Zenon DEF DoGoto, WellFormed
  <2>2. Stacked(stack') /\ stack' # <<>>  BY <1>2, <1>8, <2>1, TopMoves DEF DoGoto
  <2> QED  BY <1>8, <2>2 DEF DoGoto
<1>9. CASE DoCall
  <2>1. At("call") /\ stack' = Append(stack, Frame(Instr(Top).f, FALSE))  BY <1>9 DEF DoCall
  <2>2. Instr(Top).f \in DOMAIN Program /\ Instr(Top).op = "call" /\ stack # <<>>
    BY <1>2, <2>1, Zenon DEF WellFormed
  <2>3. Stacked(Append(stack, Frame(Instr(Top).f, FALSE)))
    BY <2>2, NewFrame, PushFrame DEF Top
  <2>4. exc' = "" /\ told' = told  BY <1>2, <1>9, <2>1 DEF DoCall
  <2> QED  BY <2>1, <2>3, <2>4
<1>10. CASE DoReturn
  <2>1. At("return") /\ exc' = exc /\ exc = ""  BY <1>2, <1>10 DEF DoReturn
  <2>2. CASE Top.root
    <3>1. stack' = Below /\ told' \in BOOLEAN  BY <1>2, <1>10, <2>2 DEF DoReturn, Frames
    <3> QED  BY <1>2, <2>1, <3>1, PopFrame
  <2>3. CASE ~Top.root
    <3> DEFINE caller == stack[Len(stack) - 1]
               val    == Instr(Top).val
               next   == IF val \/ Instr(caller).no = 0 THEN caller.pc + 1 ELSE Instr(caller).no
               w      == caller.wrote \/ Top.wrote
               fr     == [caller EXCEPT !.pc = next, !.wrote = w]
    <3>1. /\ caller \in Frames /\ InCode(caller) /\ Instr(caller).op = "call"
          /\ Below # <<>> /\ Below[Len(Below)] = caller /\ Len(Below) = Len(stack) - 1
          /\ Stacked(Below)
      BY <1>2, <2>1, <2>3, CallerWaits, PopFrame
    <3> HIDE DEF caller
    <3>2. next \in 1..Len(Program[caller.f][caller.blk])
      <4>1. /\ Len(Program[caller.f][caller.blk]) \in Nat
            /\ WellFormed(Instr(caller), caller.pc, Len(Program[caller.f][caller.blk]))
        BY <3>1, InstrWellFormed
      <4>2. /\ caller.pc < Len(Program[caller.f][caller.blk])
            /\ Instr(caller).no \in 0..Len(Program[caller.f][caller.blk])
        BY <3>1, <4>1, Zenon DEF WellFormed
      <4>3. caller.pc + 1 \in 1..Len(Program[caller.f][caller.blk])
        BY <3>1, <4>1, <4>2, Positions, Zenon DEF InCode
      <4>4. Instr(caller).no = 0 \/ Instr(caller).no \in 1..Len(Program[caller.f][caller.blk])
        BY <4>1, <4>2, Positions, Zenon
      <4> QED  BY <4>3, <4>4, Zenon
    <3>3. next \in Nat
      <4>1. Len(Program[caller.f][caller.blk]) \in Nat  BY <3>1, InstrWellFormed
      <4> HIDE DEF next
      <4> QED  BY <3>2, <4>1, Positions, Zenon
    <3>4. fr \in Frames /\ InCode(fr) /\ fr.root = caller.root
      <4>1. w \in BOOLEAN  OBVIOUS
      <4> HIDE DEF w, next
      <4> QED  BY <3>1, <3>2, <3>3, <4>1 DEF Frames, InCode
    <3>5. stack' = [Below EXCEPT ![Len(Below)] = fr] /\ told' = told
      <4>1. /\ stack' = [Below EXCEPT ![Len(stack) - 1].pc = next,
                                      ![Len(stack) - 1].wrote = @ \/ Top.wrote]
            /\ told' = told
        BY <1>10, <2>3, Zenon DEF DoReturn, caller
      <4> QED  BY <3>1, <4>1 DEF Stacked
    <3>6. Stacked([Below EXCEPT ![Len(Below)] = fr])
      <4> HIDE DEF fr
      <4> QED  BY <3>1, <3>4, ReplaceTop
    <3> QED  BY <2>1, <3>5, <3>6
  <2> QED  BY <2>2, <2>3
<1>11. CASE DoThrow
  <2>1. Instr(Top).kind \in Kinds  BY <1>2, <1>11, Zenon DEF DoThrow, WellFormed
  <2> QED  BY <1>2, <1>11, <2>1 DEF DoThrow
<1>12. CASE Unwind
  <2>0. stack # <<>> /\ Top \in Frames /\ InCode(Top) /\ Len(stack) \in Nat \ {0} /\ told' = told
    BY <1>12, TopFrame DEF Unwind
  <2>1. CASE Top.blk = "body" /\ exc \in DOMAIN Program[Top.f]
    <3> DEFINE fr == [Top EXCEPT !.blk = exc, !.pc = 1]
    <3>1. Len(Program[Top.f][exc]) \in Nat \ {0}
      BY <2>0, <2>1, ProgramAssumption DEF Frames
    <3>2. fr \in Frames /\ InCode(fr) /\ fr.root = Top.root
      <4>1. 1 \in 1..Len(Program[Top.f][exc]) /\ exc \in Blocks
        BY <2>0, <2>1, <3>1, Positions, ProgramAssumption, Zenon DEF Frames
      <4> QED  BY <2>0, <2>1, <4>1 DEF Frames, InCode
    <3>3. stack' = [stack EXCEPT ![Len(stack)] = fr] /\ exc' = ""
      BY <1>12, <2>0, <2>1 DEF Unwind, Top, Stacked
    <3>4. Stacked([stack EXCEPT ![Len(stack)] = fr])
      <4> HIDE DEF fr
      <4> QED  BY <2>0, <3>2, ReplaceTop DEF Top
    <3> QED  BY <2>0, <3>3, <3>4
  <2>2. CASE ~(Top.blk = "body" /\ exc \in DOMAIN Program[Top.f]) /\ Top.root
    BY <1>12, <2>0, <2>2 DEF Unwind
  <2>3. CASE ~(Top.blk = "body" /\ exc \in DOMAIN Program[Top.f]) /\ ~Top.root
    <3>1. stack' = Below /\ exc' = exc  BY <1>12, <2>3 DEF Unwind
    <3> QED  BY <2>0, <2>3, <3>1, PopFrame, CallerWaits
  <2> QED  BY <2>1, <2>2, <2>3
<1>13. CASE Dismiss
  <2>1. Stacked(stack') /\ stack' # <<>>
    <3>1. At("alert") /\ (Advance \/ UNCHANGED stack)  BY <1>13 DEF Dismiss
    <3>2. CASE Advance  BY <1>1, <3>1, <3>2
    <3>3. CASE UNCHANGED stack  BY <1>2, <3>1, <3>3
    <3> QED  BY <3>1, <3>2, <3>3
  <2> QED  BY <1>13, <2>1 DEF Dismiss
<1>14. ASSUME NEW f \in Roots, Start(f) PROVE StacksOK'
  <2>1. f \in DOMAIN Program  BY ProgramAssumption
  <2>2. Stacked(Append(stack, Frame(f, TRUE)))  BY <2>1, NewFrame, PushFrame
  <2>3. exc = "" /\ UNCHANGED <<exc, told>> /\ stack' = Append(stack, Frame(f, TRUE))
    BY <1>14 DEF Start, EventLoop
  <2> QED  BY <2>2, <2>3
<1>15. CASE UNCHANGED <<stack, exc, told>>
  BY <1>15
<1>16. CASE Timer \/ SessionLost \/ Ended
  BY <1>15, <1>16 DEF Timer, SessionLost, Ended, vars
<1>17. CASE UNCHANGED vars
  BY <1>15, <1>17 DEF vars
<1> QED
  BY <1>4, <1>5, <1>6, <1>7, <1>8, <1>9, <1>10, <1>11, <1>12, <1>13, <1>14, <1>16, <1>17
  DEF Next, Run

LEMMA SessionStep == SessionOK /\ [Next]_vars => SessionOK'
<1> SUFFICES ASSUME SessionOK, [Next]_vars PROVE SessionOK'
  OBVIOUS
<1>1. CASE UNCHANGED session  BY <1>1, SessionParts, Zenon DEF ServerTypeOK, CountOK, session, server
<1>2. CASE proc = "running"
  <2>1. CASE DoBegin \/ DoCommit \/ DoRollback
    BY <1>2, <2>1, SessionType DEF DoBegin, DoCommit, DoRollback
  <2>2. CASE DoSql \/ DoQuiet
    <3>1. UNCHANGED <<count, proc>> /\ \E w, r : Statement(w, r)
      BY <2>2 DEF DoSql, DoQuiet
    <3> QED  BY <1>2, <3>1, SessionType
  <2>3. CASE DoGoto \/ DoCall \/ DoReturn \/ DoThrow \/ DoEvents
    BY <1>1, <2>3 DEF DoGoto, DoCall, DoReturn, DoThrow, DoEvents
  <2>4. CASE Unwind
    <3>1. UNCHANGED session \/ EndProcess("terminated")  BY <2>4 DEF Unwind
    <3> QED  BY <1>1, <1>2, <3>1, SessionType
  <2>5. CASE Dismiss
    <3>1. UNCHANGED session \/ Reconnect \/ EndProcess("quit")  BY <2>5 DEF Dismiss
    <3> QED  BY <1>1, <1>2, <3>1, SessionType
  <2>6. CASE Timer
    <3>1. Reconnect \/ SynchronousFetch \/ CheckNewMail  BY <2>6 DEF Timer
    <3> QED  BY <1>2, <3>1, SessionType
  <2>7. CASE SessionLost  BY <1>2, <2>7, SessionType DEF SessionLost
  <2>8. ASSUME NEW f \in Roots, Start(f) PROVE SessionOK'  BY <1>1, <2>8 DEF Start
  <2>9. CASE Ended \/ UNCHANGED vars  BY <1>1, <2>9 DEF Ended, vars
  <2> QED  BY <2>1, <2>2, <2>3, <2>4, <2>5, <2>6, <2>7, <2>8, <2>9 DEF Next, Run
<1>3. CASE proc # "running"
  <2>1. UNCHANGED session
    BY <1>3 DEF Next, Run, DoBegin, DoCommit, DoRollback, DoSql, DoQuiet, DoGoto, DoCall,
       DoReturn, DoThrow, Unwind, DoEvents, Dismiss, Timer, SessionLost, Start, Ended, At,
       EventLoop, vars
  <2> QED  BY <1>1, <2>1
<1> QED  BY <1>2, <1>3

LEMMA InitTyped == Init => SessionOK /\ StacksOK
<1> SUFFICES ASSUME Init PROVE SessionOK /\ StacksOK
  OBVIOUS
<1>1. ServerTypeOK  BY Zenon DEF Init, SessionInit, ServerTypeOK
<1>2. CountOK
  <2>1. count = 0 /\ proc = "running"  BY Zenon DEF Init, SessionInit
  <2> QED  BY <2>1 DEF CountOK
<1>3. stack = <<>> /\ exc = "" /\ told \in BOOLEAN  BY Zenon DEF Init
<1>4. stack \in Seq(Frames) /\ Len(stack) = 0
  <2>1. stack = <<>>  BY <1>3
  <2> QED  BY <2>1
<1>5. 1..Len(stack) = {} /\ 1..(Len(stack) - 1) = {}  BY <1>4
<1>6. Stacked(stack)  BY <1>3, <1>4, <1>5, Zenon DEF Stacked
<1> QED  BY <1>1, <1>2, <1>3, <1>6, SessionParts, Zenon DEF StacksOK

(* Type correctness: the count is negative only when the program has        *)
(* stopped, every frame stays inside its code, an exception is one of the   *)
(* kinds that handlers catch and only a frame can throw it.                 *)
THEOREM TypeCorrect == Spec => []TypeOK
<1>1. Init => SessionOK /\ StacksOK  BY InitTyped
<1>2. SessionOK /\ StacksOK /\ [Next]_vars => SessionOK' /\ StacksOK'
  BY StacksStep, SessionStep
<1>3. SessionOK /\ StacksOK => TypeOK
  BY DEF SessionOK, StacksOK, Stacked, TypeOK
<1> QED  BY <1>1, <1>2, <1>3, PTL DEF Spec

-----------------------------------------------------------------------------
(* Atomicity.  Only the operations of PgSession matter, so the theorem     *)
(* holds for any code, with or without the discipline, under every fault.  *)

LEMMA RunningCount == SessionOK /\ proc = "running" => count \in Nat
  BY SessionParts DEF CountOK

LEMMA AtomicStart ==
  ASSUME SessionOK, AtomicInv, proc = "running", NEW r, BeginTransaction(r)
  PROVE  AtomicInv'
<1> USE DEF AtomicInv, AllOrNothing
<1>0. count \in Nat /\ count' = count + 1 /\ proc' = proc
  <2>1. count' = count + 1 /\ proc' = proc  BY Zenon DEF BeginTransaction
  <2> QED  BY <2>1, RunningCount
<1>1. CASE count' = 1
  <2>1. count = 0 /\ count' # 0 /\ count' > 0  BY <1>0, <1>1
  <2>2. SendBegin(r)  BY <1>1 DEF BeginTransaction
  <2> QED  BY <2>1, <2>2, Zenon DEF SendBegin, SessionOK, SessionTypeOK
<1>2. CASE count' # 1
  <2>1. count > 0 /\ count' # 0 /\ count' > 0  BY <1>0, <1>2
  <2>2. UNCHANGED server  BY <1>2 DEF BeginTransaction
  <2> QED  BY <2>1, <2>2, Zenon DEF server
<1> QED  BY <1>1, <1>2

(* The end of a transaction: SendCommit or SendRollback at the top level.  *)
LEMMA AtomicSend ==
  ASSUME SessionOK, AtomicInv, proc = "running", count > 0, count' = 0, proc' = proc,
         NEW r, SendCommit(r) \/ SendRollback(r)
  PROVE  AtomicInv'
<1>1. ~(count' > 0) /\ count' = 0  OBVIOUS
<1>2. /\ ~kept /\ (pend => txn # "none") /\ (link = "down" => txn = "none")
      /\ (txn = "none" => link = "down") /\ (lost => txn = "failed" \/ link = "down")
  BY Zenon DEF AtomicInv
<1>3. ~(kept' /\ lost')
  <2>1. CASE SendCommit(r)  BY <1>2, <2>1, Zenon DEF SendCommit, server
  <2>2. CASE SendRollback(r)  BY <1>2, <2>2, Zenon DEF SendRollback, server
  <2> QED  BY <2>1, <2>2
<1>4. txn' = "none" /\ ~pend'
  <2>1. CASE txn' = "none" /\ ~pend'  BY <2>1
  <2>2. CASE link = "down" /\ UNCHANGED server
    <3>1. txn = "none" /\ ~pend  BY <1>2, <2>2, Zenon
    <3>2. txn' = txn /\ (pend' <=> pend)  BY <2>2, Zenon DEF server
    <3> QED  BY <3>1, <3>2, Zenon
  <2>3. CASE SendCommit(r)  BY <2>1, <2>2, <2>3, Zenon DEF SendCommit
  <2>4. CASE SendRollback(r)  BY <2>1, <2>2, <2>4, Zenon DEF SendRollback
  <2> QED  BY <2>3, <2>4
<1> QED  BY <1>1, <1>3, <1>4, Zenon DEF AtomicInv, AllOrNothing

LEMMA AtomicEnd ==
  ASSUME SessionOK, AtomicInv, proc = "running", NEW r,
         CommitTransaction(r) \/ RollbackTransaction(r)
  PROVE  AtomicInv'
<1>0. count \in Nat /\ count' = count - 1
  <2>1. count' = count - 1
    BY Zenon DEF CommitTransaction, RollbackTransaction, EndTransaction
  <2> QED  BY <2>1, RunningCount
<1>1. CASE count' < 0
  <2>1. count = 0  BY <1>0, <1>1
  <2>2. proc' = "fatal" /\ lost' = (lost \/ pend) /\ kept' = kept
    BY <1>1, Zenon DEF CommitTransaction, RollbackTransaction, EndTransaction
  <2>3. proc' # "running"  BY <2>2
  <2> QED  BY <2>1, <2>2, <2>3, Zenon DEF AtomicInv, AllOrNothing
<1>2. CASE count' = 0
  <2>1. ~(count' < 0) /\ count > 0  BY <1>0, <1>2
  <2>2. proc' = proc /\ (SendCommit(r) \/ SendRollback(r))
    BY <1>2, <2>1, Zenon DEF CommitTransaction, RollbackTransaction, EndTransaction
  <2> QED  BY <1>2, <2>1, <2>2, AtomicSend
<1>3. CASE count' > 0
  <2>1. ~(count' < 0) /\ count' # 0 /\ count > 0  BY <1>0, <1>3
  <2>2. proc' = proc /\ UNCHANGED server
    BY <2>1, Zenon DEF CommitTransaction, RollbackTransaction, EndTransaction
  <2> QED  BY <1>3, <2>1, <2>2, Zenon DEF AtomicInv, AllOrNothing, server
<1> QED  BY <1>0, <1>1, <1>2, <1>3

LEMMA KeptType == SessionOK => kept \in BOOLEAN
  BY SessionParts, Zenon DEF ServerTypeOK

LEMMA AtomicOthers ==
  ASSUME SessionOK, AtomicInv, proc = "running"
  PROVE  /\ \A w, r : Statement(w, r) /\ UNCHANGED <<count, proc>> => AtomicInv'
         /\ ~Ping /\ Reconnect => AtomicInv'
         /\ LoseSession => AtomicInv'
         /\ \A how \in {"quit", "terminated"} : EndProcess(how) => AtomicInv'
         /\ CheckNewMail => AtomicInv'
         /\ UNCHANGED session => AtomicInv'
<1> USE DEF AtomicInv, AllOrNothing
<1>0. count = 0 \/ count > 0  BY RunningCount
<1>1. ASSUME NEW w, NEW r, Statement(w, r), UNCHANGED <<count, proc>> PROVE AtomicInv'
  <2>0. count' = count /\ proc' = proc  BY <1>1
  <2>1. CASE /\ r = "" /\ link = "up" /\ txn # "failed"
             /\ pend' = (pend \/ (w /\ txn = "open"))
             /\ kept' = (kept \/ (w /\ txn = "none" /\ count > 0))
             /\ UNCHANGED <<link, txn, lost>>
    <3>0. link # "down"  BY <2>1
    <3>1. txn = "none" => ~(count > 0)  BY <3>0, Zenon
    <3>2. kept' = kept  BY <2>1, <3>1, KeptType, Zenon
    <3>3. pend' => txn' # "none"
      <4>1. "open" # "none"  OBVIOUS
      <4> QED  BY <2>1, <4>1, Zenon
    <3> QED  BY <2>0, <2>1, <3>0, <3>2, <3>3, Zenon
  <2>2. CASE /\ r = "db" /\ link = "up" /\ "sql" \in Faults /\ txn # "failed"
             /\ txn' = (IF txn = "open" THEN "failed" ELSE "none")
             /\ lost' = (lost \/ (w /\ count > 0))
             /\ UNCHANGED <<link, pend, kept>>
    <3>0. link # "down"  BY <2>2
    <3>1. count > 0 => txn = "open" /\ txn' = "failed"
      <4>1. count > 0 => txn # "none"  BY <3>0, Zenon
      <4>2. txn \in {"none", "open", "failed"}  BY SessionParts DEF ServerTypeOK
      <4> QED  BY <2>2, <4>1, <4>2, Zenon
    <3>2. "failed" # "none" /\ "open" # "none"  OBVIOUS
    <3>3. count = 0 => ~(count > 0)  OBVIOUS
    <3>4. txn = "none" => txn' = "none"  BY <2>2, <3>2, Zenon
    <3>5. pend => txn' # "none"
      <4>1. pend => txn = "open"
        <5>1. txn \in {"none", "open", "failed"}  BY SessionParts DEF ServerTypeOK
        <5> QED  BY <2>2, <5>1, Zenon
      <4> QED  BY <2>2, <4>1, <3>2, Zenon
    <3>6. lost' /\ kept' => FALSE  BY <2>2, Zenon
    <3> QED  BY <1>0, <2>0, <2>2, <3>0, <3>1, <3>2, <3>3, <3>4, <3>5, <3>6, Zenon
  <2>3. CASE /\ r = "db" /\ (link = "down" \/ txn = "failed")
             /\ lost' = (lost \/ (w /\ count > 0))
             /\ UNCHANGED <<link, txn, pend, kept>>
    BY <2>0, <2>3, Zenon
  <2> QED  BY <1>1, <2>1, <2>2, <2>3, Zenon DEF Statement
<1>2. ~Ping /\ Reconnect => AtomicInv'
  <2> SUFFICES ASSUME ~Ping, Reconnect PROVE AtomicInv'
    OBVIOUS
  <2>1. ~(count > 0) /\ count = 0 /\ count' = count  BY <1>0 DEF Ping, Reconnect
  <2> QED  BY <2>1, Zenon DEF Reconnect, AtomicInv, AllOrNothing
<1>3. LoseSession => AtomicInv'
  <2> SUFFICES ASSUME LoseSession PROVE AtomicInv'
    OBVIOUS
  <2>1. CASE count > 0
    <3>1. count # 0 /\ count' = count  BY <2>1 DEF LoseSession
    <3> QED  BY <2>1, <3>1, Zenon DEF LoseSession, SessionOK, SessionTypeOK
  <2>2. CASE count = 0
    <3>1. ~(count > 0) /\ count' = count  BY <2>2 DEF LoseSession
    <3> QED  BY <2>2, <3>1, Zenon DEF LoseSession, SessionOK, SessionTypeOK
  <2> QED  BY <1>0, <2>1, <2>2
<1>4. ASSUME NEW how \in {"quit", "terminated"}, EndProcess(how) PROVE AtomicInv'
  <2>1. proc' # "running"  BY <1>4 DEF EndProcess
  <2> QED  BY <1>0, <1>4, <2>1, Zenon DEF EndProcess
<1>5. CheckNewMail => AtomicInv'
  <2> SUFFICES ASSUME CheckNewMail PROVE AtomicInv'
    OBVIOUS
  <2>1. count' = count  BY DEF CheckNewMail
  <2> QED  BY <2>1, Zenon DEF CheckNewMail
<1>6. UNCHANGED session => AtomicInv'
  <2> SUFFICES ASSUME UNCHANGED session PROVE AtomicInv'
    OBVIOUS
  <2>1. /\ count' = count /\ proc' = proc /\ link' = link /\ txn' = txn
        /\ pend' = pend /\ kept' = kept /\ lost' = lost
    BY Zenon DEF session, server
  <2> QED  BY <2>1, Zenon
<1> QED  BY <1>1, <1>2, <1>3, <1>4, <1>5, <1>6

(* All or nothing, unless a message list incorporates new results by       *)
(* itself: between a top level begin and its end the changes asked for     *)
(* become durable together or not at all.                                  *)
THEOREM Atomicity == ~AutoIncorporate /\ Spec => []AllOrNothing
<1> SUFFICES ASSUME ~AutoIncorporate PROVE Spec => []AllOrNothing
  OBVIOUS
<1>1. Init => SessionOK /\ AtomicInv
  <2> SUFFICES ASSUME Init PROVE SessionOK /\ AtomicInv
    OBVIOUS
  <2>1. ServerTypeOK  BY Zenon DEF Init, SessionInit, ServerTypeOK
  <2>2. count = 0 /\ proc = "running"  BY Zenon DEF Init, SessionInit
  <2>3. CountOK /\ ~(count > 0)  BY <2>2 DEF CountOK
  <2>4. AtomicInv  BY <2>3, Zenon DEF Init, SessionInit, AtomicInv, AllOrNothing
  <2> QED  BY <2>1, <2>3, <2>4, SessionParts
<1>2. SessionOK /\ AtomicInv /\ [Next]_vars => AtomicInv'
  <2> SUFFICES ASSUME SessionOK, AtomicInv, [Next]_vars PROVE AtomicInv'
    OBVIOUS
  <2>1. CASE UNCHANGED session
    <3>1. /\ count' = count /\ proc' = proc /\ link' = link /\ txn' = txn
          /\ pend' = pend /\ kept' = kept /\ lost' = lost
      BY <2>1, Zenon DEF session, server
    <3> QED  BY <3>1, Zenon DEF AtomicInv, AllOrNothing
  <2>2. CASE proc = "running"
    <3>1. CASE DoBegin \/ DoCommit \/ DoRollback
      BY <2>2, <3>1, AtomicStart, AtomicEnd DEF DoBegin, DoCommit, DoRollback
    <3>2. CASE DoSql \/ DoQuiet
      <4>1. UNCHANGED <<count, proc>> /\ \E w, r : Statement(w, r)
        BY <3>2 DEF DoSql, DoQuiet
      <4> QED  BY <2>2, <4>1, AtomicOthers
    <3>3. CASE DoGoto \/ DoCall \/ DoReturn \/ DoThrow \/ DoEvents
      BY <2>1, <3>3 DEF DoGoto, DoCall, DoReturn, DoThrow, DoEvents
    <3>4. CASE Unwind
      <4>1. UNCHANGED session \/ EndProcess("terminated")  BY <3>4 DEF Unwind
      <4> QED  BY <2>1, <2>2, <4>1, AtomicOthers
    <3>5. CASE Dismiss
      <4>1. UNCHANGED session \/ (~Ping /\ Reconnect) \/ EndProcess("quit")
        BY <3>5 DEF Dismiss
      <4> QED  BY <2>1, <2>2, <4>1, AtomicOthers
    <3>6. CASE Timer
      <4>1. (~Ping /\ Reconnect) \/ CheckNewMail  BY <3>6, Zenon DEF Timer
      <4> QED  BY <2>2, <4>1, AtomicOthers
    <3>7. CASE SessionLost  BY <2>2, <3>7, AtomicOthers DEF SessionLost
    <3>8. ASSUME NEW f \in Roots, Start(f) PROVE AtomicInv'  BY <2>1, <3>8 DEF Start
    <3>9. CASE Ended \/ UNCHANGED vars  BY <2>1, <3>9 DEF Ended, vars
    <3> QED
      BY <3>1, <3>2, <3>3, <3>4, <3>5, <3>6, <3>7, <3>8, <3>9 DEF Next, Run
  <2>3. CASE proc # "running"
    <3>1. UNCHANGED session
      BY <2>3 DEF Next, Run, DoBegin, DoCommit, DoRollback, DoSql, DoQuiet, DoGoto, DoCall,
         DoReturn, DoThrow, Unwind, DoEvents, Dismiss, Timer, SessionLost, Start, Ended, At,
         EventLoop, vars
    <3> QED  BY <2>1, <3>1
  <2> QED  BY <2>2, <2>3
<1>3. AtomicInv => AllOrNothing  BY DEF AtomicInv
<1> QED  BY <1>1, <1>2, <1>3, SessionStep, PTL DEF Spec

-----------------------------------------------------------------------------
(* StackOK of any stack.                                                   *)
Chained(s) ==
  /\ \A i \in 1..(Len(s) - 1) : Waits(s[i], s[i + 1])
  /\ \A i \in 1..Len(s) : s[i].base \in Nat
  /\ s # <<>> => s[1].base = 0 /\ s[1].root /\ s[1].f \in Roots

(* The top of a stack, nothing being thrown, when c begins are counted.    *)
Ready(fr, c) == FrameOK(fr) /\ c = fr.base + HeldBy(fr)

(* Arithmetic.                                                             *)
LEMMA Differences ==
  /\ \A p \in Nat : p + 1 \in Nat /\ p + 1 # 0 /\ (p + 1 = 1 => p = 0)
  /\ \A b, h \in Nat : /\ (b + h) + 1 = b + (h + 1)
                       /\ h > 0 => (b + h) - 1 = b + (h - 1) /\ b + h > 0
  /\ \A p \in Nat : p > 0 => p - 1 \in Nat /\ ~(p - 1 < 0)
  OBVIOUS

LEMMA Remainder ==
  ASSUME NEW c, NEW b \in Nat, NEW h \in Nat, c = b + h
  PROVE  c - b = h /\ c >= b
  OBVIOUS

LEMMA Distance ==
  /\ \A c \in Nat, b \in Int : c >= b => c - b \in Nat /\ c = b + (c - b)
  /\ \A b \in Int : b + 0 = b
  OBVIOUS

LEMMA FrameFields ==
  ASSUME NEW fr \in Frames
  PROVE  fr.pc \in Nat /\ fr.wrote \in BOOLEAN /\ fr.root \in BOOLEAN /\ fr.base \in Int
  BY DEF Frames

-----------------------------------------------------------------------------
(* What the typing says of a frame.                                        *)

LEMMA Typed ==
  ASSUME NEW fr, FrameOK(fr)
  PROVE  HeldBy(fr) \in Nat /\ WellTypedAt(fr.f, fr.blk, fr.pc)
<1>1. /\ fr.f \in DOMAIN Program /\ fr.blk \in DOMAIN Program[fr.f]
      /\ fr.pc \in 1..Len(Program[fr.f][fr.blk]) /\ Held[fr.f][fr.blk][fr.pc] >= 0
  BY DEF FrameOK, HeldBy
<1>2. Held[fr.f][fr.blk][fr.pc] \in Int
  BY <1>1, DisciplineAssumption, Zenon DEF WellTyped
<1>3. WellTypedAt(fr.f, fr.blk, fr.pc)
  BY <1>1, DisciplineAssumption, Zenon DEF WellTyped
<1> QED  BY <1>1, <1>2, <1>3 DEF HeldBy

LEMMA TypedInstr ==
  ASSUME NEW fr, FrameOK(fr)
  PROVE  LET i == Instr(fr)
             h == HeldBy(fr)
             goes(p, g) == Holds(fr.f, fr.blk, p, g)
         IN /\ i.op = "begin" => goes(fr.pc + 1, h + 1)
            /\ i.op \in {"commit", "rollback"} => h > 0 /\ goes(fr.pc + 1, h - 1)
            /\ i.op = "sql" => goes(fr.pc + 1, h) /\ MayRaise(fr.f, fr.blk, h, i.kind)
            /\ i.op \in {"quiet", "alert", "events"} => goes(fr.pc + 1, h)
            /\ i.op = "goto" => \A t \in i.to : goes(t, h)
            /\ i.op = "call" => /\ i.f \in DOMAIN Program /\ goes(fr.pc + 1, h)
                                /\ i.no # 0 => goes(i.no, h)
                                /\ \A k \in Escapes[i.f] : MayRaise(fr.f, fr.blk, h, k)
            /\ i.op = "return" => h = 0
            /\ i.op = "throw" => MayRaise(fr.f, fr.blk, h, i.kind)
  BY Typed DEF WellTypedAt, Instr, HeldBy

(* A point that holds h is one where a frame may be.                       *)
LEMMA HoldsReady ==
  ASSUME NEW fr, fr.f \in DOMAIN Program, fr.blk \in DOMAIN Program[fr.f],
         NEW h \in Nat, Holds(fr.f, fr.blk, fr.pc, h)
  PROVE  FrameOK(fr) /\ HeldBy(fr) = h
  BY DEF FrameOK, HeldBy, Holds

(* The frame of a function that starts.                                    *)
LEMMA StartReady ==
  ASSUME NEW f \in DOMAIN Program, NEW root \in BOOLEAN, count \in Nat
  PROVE  /\ Ready(Frame(f, root), count) /\ Frame(f, root).base = count
         /\ Frame(f, root).f = f /\ Frame(f, root).root = root
<1>1. "body" \in DOMAIN Program[f]  BY ProgramAssumption
<1>2. Holds(f, "body", 1, 0)  BY DisciplineAssumption, Zenon DEF WellTyped
<1>3. /\ Frame(f, root).f = f /\ Frame(f, root).root = root /\ Frame(f, root).base = count
      /\ Frame(f, root).blk = "body" /\ Frame(f, root).pc = 1
  BY DEF Frame
<1>4. FrameOK(Frame(f, root)) /\ HeldBy(Frame(f, root)) = 0
  <2> HIDE DEF Frame
  <2>1. 0 \in Nat  OBVIOUS
  <2> QED  BY <1>1, <1>2, <1>3, <2>1, HoldsReady, Zenon
<1> QED  BY <1>3, <1>4 DEF Ready

-----------------------------------------------------------------------------
(* Stacks: the top is replaced, a frame starts, a frame ends.              *)

LEMMA ChainReplace ==
  ASSUME NEW s, Stacked(s), s # <<>>, Chained(s),
         NEW fr \in Frames, fr.f = s[Len(s)].f, fr.root = s[Len(s)].root,
         fr.base = s[Len(s)].base
  PROVE  LET t == [s EXCEPT ![Len(s)] = fr]
         IN  Chained(t) /\ t # <<>> /\ t[Len(t)] = fr
<1> DEFINE t == [s EXCEPT ![Len(s)] = fr]
<1>1. /\ s \in Seq(Frames) /\ t \in Seq(Frames) /\ Len(t) = Len(s)
      /\ Len(s) \in Nat \ {0} /\ t[Len(s)] = fr /\ t # <<>>
      /\ \A i \in 1..Len(s) : i # Len(s) => t[i] = s[i]
  BY ReplacedTop DEF Stacked
<1> DEFINE n == Len(s)
<1> HIDE DEF t
<1>2. ASSUME NEW i \in 1..n
      PROVE  t[i].f = s[i].f /\ t[i].root = s[i].root /\ t[i].base = s[i].base
  <2>1. CASE i = n  BY <1>1, <2>1
  <2>2. CASE i # n  BY <1>1, <2>2
  <2> QED  BY <2>1, <2>2
<1> HIDE DEF n
<1>3. ASSUME NEW i \in 1..(n - 1) PROVE Waits(t[i], t[i + 1])
  <2>1. i \in 1..n /\ i # n /\ i + 1 \in 1..n  BY <1>1 DEF n
  <2>2. t[i] = s[i]  BY <1>1, <2>1 DEF n
  <2>3. Waits(s[i], s[i + 1])  BY DEF Chained, n
  <2> QED  BY <1>2, <2>1, <2>2, <2>3 DEF Waits
<1>4. 1 \in 1..n  BY <1>1 DEF n
<1>5. Chained(t)  BY <1>1, <1>2, <1>3, <1>4 DEF Chained, n
<1> QED  BY <1>1, <1>5 DEF t

LEMMA ChainPush ==
  ASSUME Stacked(stack), Chained(stack), NEW fr \in Frames, fr.base \in Nat,
         IF stack = <<>> THEN fr.base = 0 /\ fr.root /\ fr.f \in Roots ELSE Waits(Top, fr)
  PROVE  LET t == Append(stack, fr)
         IN  Chained(t) /\ t # <<>> /\ t[Len(t)] = fr
<1> DEFINE n == Len(stack)
           t == Append(stack, fr)
<1>1. /\ n \in Nat /\ Len(t) = n + 1 /\ t[n + 1] = fr /\ t # <<>>
      /\ \A i \in 1..n : t[i] = stack[i]
      /\ stack = <<>> <=> n = 0
  <2>1. stack \in Seq(Frames)  BY DEF Stacked
  <2>2. n \in Nat /\ (stack = <<>> <=> n = 0)  BY <2>1
  <2>3. Len(t) = n + 1 /\ t[n + 1] = fr  BY <2>1
  <2>4. t # <<>> /\ \A i \in 1..n : t[i] = stack[i]  BY <2>1
  <2> QED  BY <2>2, <2>3, <2>4
<1>2. Top = stack[n]  BY DEF Top
<1> HIDE DEF n, t
<1>3. ASSUME NEW i \in 1..n PROVE Waits(t[i], t[i + 1])
  <2>1. t[i] = stack[i] /\ stack # <<>>  BY <1>1
  <2>2. CASE i = n  BY <1>1, <1>2, <2>1, <2>2
  <2>3. CASE i # n
    <3>1. i \in 1..(n - 1) /\ i + 1 \in 1..n  BY <1>1, <2>3
    <3>2. Waits(stack[i], stack[i + 1])  BY <3>1 DEF Chained, n
    <3> QED  BY <1>1, <2>1, <3>1, <3>2
  <2> QED  BY <2>2, <2>3
<1>4. ASSUME NEW i \in 1..(n + 1) PROVE t[i].base \in Nat
  <2>1. CASE i = n + 1  BY <1>1, <2>1
  <2>2. CASE i # n + 1
    <3>1. i \in 1..n  BY <1>1, <2>2
    <3> QED  BY <1>1, <3>1 DEF Chained, n
  <2> QED  BY <2>1, <2>2
<1>5. t[1].base = 0 /\ t[1].root /\ t[1].f \in Roots
  <2>1. CASE n = 0  BY <1>1, <2>1
  <2>2. CASE n # 0
    <3>1. 1 \in 1..n /\ stack # <<>>  BY <1>1, <2>2
    <3> QED  BY <1>1, <3>1 DEF Chained
  <2> QED  BY <2>1, <2>2
<1>6. (n + 1) - 1 = n  BY <1>1
<1>7. Chained(t)  BY <1>1, <1>3, <1>4, <1>5, <1>6 DEF Chained
<1>8. t # <<>> /\ t[Len(t)] = fr  BY <1>1
<1> QED  BY <1>7, <1>8 DEF t

LEMMA ChainPop ==
  ASSUME Stacked(stack), stack # <<>>, Chained(stack)
  PROVE  /\ Chained(Below)
         /\ Below = <<>> => Top.base = 0
         /\ Below # <<>> => /\ Below[Len(Below)] = stack[Len(stack) - 1]
                            /\ Waits(stack[Len(stack) - 1], Top)
<1> DEFINE n == Len(stack)
<1>1. /\ n \in Nat \ {0} /\ Len(Below) = n - 1 /\ Stacked(Below)
      /\ \A i \in 1..(n - 1) : Below[i] = stack[i]
  BY PopFrame
<1>2. Top = stack[n]  BY DEF Top
<1>3. Below = <<>> <=> n = 1
  <2>1. Below \in Seq(Frames)  BY <1>1 DEF Stacked
  <2> QED  BY <1>1, <2>1
<1> HIDE DEF n
<1>4. ASSUME NEW i \in 1..((n - 1) - 1) PROVE Waits(Below[i], Below[i + 1])
  <2>1. i \in 1..(n - 1) /\ i + 1 \in 1..(n - 1)  BY <1>1
  <2>2. Waits(stack[i], stack[i + 1])  BY <2>1 DEF Chained, n
  <2> QED  BY <1>1, <2>1, <2>2
<1>5. ASSUME NEW i \in 1..(n - 1) PROVE Below[i].base \in Nat
  <2>1. i \in 1..n  BY <1>1
  <2> QED  BY <1>1, <2>1 DEF Chained, n
<1>6. Below # <<>> => Below[1].base = 0 /\ Below[1].root /\ Below[1].f \in Roots
  <2>1. Below # <<>> => 1 \in 1..(n - 1)  BY <1>1, <1>3
  <2> QED  BY <1>1, <2>1 DEF Chained
<1>7. Chained(Below)  BY <1>1, <1>4, <1>5, <1>6 DEF Chained
<1>8. Below = <<>> => Top.base = 0  BY <1>2, <1>3 DEF Chained
<1>9. ASSUME Below # <<>> PROVE Below[Len(Below)] = stack[n - 1] /\ Waits(stack[n - 1], Top)
  <2>1. n - 1 \in 1..(n - 1) /\ (n - 1) + 1 = n  BY <1>1, <1>3, <1>9
  <2>2. Waits(stack[n - 1], stack[(n - 1) + 1])  BY <2>1 DEF Chained, n
  <2> QED  BY <1>1, <1>2, <2>1, <2>2
<1> QED  BY <1>7, <1>8, <1>9 DEF n

(* A root frame runs a function that the event loop may start.             *)
LEMMA RootFrame ==
  ASSUME Stacked(stack), stack # <<>>, Chained(stack), Top.root
  PROVE  Top.f \in Roots
<1>1. CASE Below = <<>>
  <2>1. Len(Below) = Len(stack) - 1 /\ Len(stack) \in Nat \ {0}  BY PopFrame
  <2>2. Len(stack) = 1  BY <1>1, <2>1
  <2> QED  BY <2>2 DEF Top, Chained
<1>2. CASE Below # <<>>
  BY <1>2, ChainPop DEF Waits
<1> QED  BY <1>1, <1>2

LEMMA TopReplaced ==
  ASSUME Stacked(stack), stack # <<>>, Chained(stack),
         NEW fr \in Frames, fr.f = stack[Len(stack)].f, fr.root = stack[Len(stack)].root,
         fr.base = stack[Len(stack)].base, stack' = [stack EXCEPT ![Len(stack)] = fr]
  PROVE  Chained(stack') /\ stack' # <<>> /\ Top' = fr
<1> DEFINE t == [stack EXCEPT ![Len(stack)] = fr]
<1>1. Chained(t) /\ t # <<>> /\ t[Len(t)] = fr  BY ChainReplace
<1> QED  BY <1>1 DEF Top

(* The top frame moves to another instruction of its block.                *)
LEMMA TopMoved ==
  ASSUME Stacked(stack), stack # <<>>, Chained(stack), NEW pc \in Nat,
         Jump(pc) \/ (Executed /\ pc = Top.pc + 1)
  PROVE  /\ Chained(stack') /\ stack' # <<>>
         /\ Top'.f = Top.f /\ Top'.blk = Top.blk /\ Top'.base = Top.base /\ Top'.pc = pc
<1>1. stack \in Seq(Frames) /\ Top \in Frames /\ Len(stack) \in Nat \ {0}
  BY TopFrame DEF Stacked
<1> DEFINE moved(w) == [Top EXCEPT !.pc = pc, !.wrote = w]
           w2 == Top.wrote \/ (Instr(Top).writes /\ count > 0)
<1>2. Top.wrote \in BOOLEAN /\ w2 \in BOOLEAN  BY <1>1 DEF Frames
<1>3. \E w \in BOOLEAN : stack' = [stack EXCEPT ![Len(stack)] = moved(w)]
  <2>1. CASE Jump(pc)
    <3>1. stack' = [stack EXCEPT ![Len(stack)] = moved(Top.wrote)]
      BY <1>1, <2>1 DEF Jump, Top, Frames
    <3> QED  BY <1>2, <3>1
  <2>2. CASE Executed /\ pc = Top.pc + 1
    <3>1. stack' = [stack EXCEPT ![Len(stack)] = moved(w2)]
      BY <1>1, <2>2 DEF Executed, Top
    <3> QED  BY <1>2, <3>1
  <2> QED  BY <2>1, <2>2
<1>4. PICK w \in BOOLEAN : stack' = [stack EXCEPT ![Len(stack)] = moved(w)]  BY <1>3
<1>5. /\ moved(w) \in Frames /\ moved(w).f = Top.f /\ moved(w).blk = Top.blk
      /\ moved(w).root = Top.root /\ moved(w).base = Top.base /\ moved(w).pc = pc
  BY <1>1 DEF Frames
<1> DEFINE fr == moved(w)
<1>6. /\ fr \in Frames /\ fr.f = stack[Len(stack)].f /\ fr.root = stack[Len(stack)].root
      /\ fr.base = stack[Len(stack)].base /\ stack' = [stack EXCEPT ![Len(stack)] = fr]
  <2> HIDE DEF moved
  <2> QED  BY <1>4, <1>5 DEF Top
<1>7. fr.f = Top.f /\ fr.blk = Top.blk /\ fr.base = Top.base /\ fr.pc = pc
  BY <1>5
<1> HIDE DEF fr
<1>8. Chained(stack') /\ stack' # <<>> /\ Top' = fr
  BY <1>6, TopReplaced, Zenon
<1> QED  BY <1>7, <1>8


-----------------------------------------------------------------------------
(* The inductive step.                                                     *)

LEMMA ControlParts ==
  /\ StackOK <=> Chained(stack)
  /\ StackOK' <=> Chained(stack')
  /\ TopOK' <=> IF stack' = <<>> THEN exc' = "" /\ count' = 0
                ELSE IF exc' = "" THEN Ready(Top', count')
                ELSE /\ Top'.f \in DOMAIN Program /\ Top'.blk \in DOMAIN Program[Top'.f]
                     /\ count' >= Top'.base
                     /\ MayRaise(Top'.f, Top'.blk, count' - Top'.base, exc')
  BY DEF StackOK, Chained, TopOK, Ready, Top, FrameOK, HeldBy

(* An instruction that goes on with h begins held.                         *)
LEMMA GoesOn ==
  ASSUME Stacked(stack), stack # <<>>, Chained(stack), FrameOK(Top),
         NEW pc \in Nat, Jump(pc) \/ (Executed /\ pc = Top.pc + 1),
         NEW h \in Nat, Holds(Top.f, Top.blk, pc, h), count' = Top.base + h, exc' = ""
  PROVE  StackOK' /\ TopOK'
<1>1. /\ Chained(stack') /\ stack' # <<>>
      /\ Top'.f = Top.f /\ Top'.blk = Top.blk /\ Top'.base = Top.base /\ Top'.pc = pc
  BY TopMoved
<1>2. Top'.f \in DOMAIN Program /\ Top'.blk \in DOMAIN Program[Top'.f]
      /\ Holds(Top'.f, Top'.blk, Top'.pc, h)
  BY <1>1 DEF FrameOK
<1>3. FrameOK(Top') /\ HeldBy(Top') = h  BY <1>2, HoldsReady
<1> QED  BY <1>1, <1>3, ControlParts DEF Ready

(* An instruction that throws.                                             *)
LEMMA Throws ==
  ASSUME Stacked(stack), stack # <<>>, Chained(stack), FrameOK(Top),
         UNCHANGED stack \/ Executed, exc' # "",
         count = Top.base + HeldBy(Top), count' = count, Top.base \in Nat,
         MayRaise(Top.f, Top.blk, HeldBy(Top), exc')
  PROVE  StackOK' /\ TopOK'
<1>1. HeldBy(Top) \in Nat  BY Typed
<1>2. /\ Chained(stack') /\ stack' # <<>>
      /\ Top'.f = Top.f /\ Top'.blk = Top.blk /\ Top'.base = Top.base
  <2>1. CASE UNCHANGED stack  BY <2>1 DEF Top
  <2>2. CASE Executed
    <3>0. Top \in Frames  BY TopFrame
    <3>1. Top.pc + 1 \in Nat
      <4>1. Top.pc \in Nat  BY <3>0, FrameFields, Zenon
      <4> QED  BY <4>1, Differences, Zenon
    <3> QED  BY <2>2, <3>1, TopMoved
  <2> QED  BY <2>1, <2>2
<1>3. count' - Top'.base = HeldBy(Top) /\ count' >= Top'.base
  <2>1. count' = Top'.base + HeldBy(Top) /\ Top'.base \in Nat  BY <1>2, Zenon
  <2> QED  BY <1>1, <2>1, Remainder, Zenon
<1> QED  BY <1>2, <1>3, ControlParts DEF FrameOK

(* A frame that starts, for a call or an event loop.                       *)
LEMMA Starts ==
  ASSUME SessionOK, Stacked(stack), Chained(stack), count \in Nat, count' = count, exc' = "",
         NEW f \in DOMAIN Program, NEW root \in BOOLEAN,
         stack' = Append(stack, Frame(f, root)),
         IF stack = <<>> THEN count = 0 /\ root /\ f \in Roots
         ELSE /\ Ready(Top, count)
              /\ IF root THEN Instr(Top).op \in {"alert", "events"} /\ f \in Roots
                 ELSE Instr(Top).op = "call" /\ Instr(Top).f = f
  PROVE  StackOK' /\ TopOK'
<1> DEFINE fr == Frame(f, root)
<1>1. /\ fr \in Frames /\ Ready(fr, count) /\ fr.base = count /\ fr.f = f /\ fr.root = root
  BY NewFrame, StartReady
<1> HIDE DEF fr
<1>2. stack' = Append(stack, fr)  BY DEF fr
<1>3. IF stack = <<>> THEN fr.base = 0 /\ fr.root /\ fr.f \in Roots ELSE Waits(Top, fr)
  BY <1>1 DEF Waits, Ready
<1>4. Chained(stack') /\ stack' # <<>> /\ stack'[Len(stack')] = fr
  BY <1>1, <1>2, <1>3, ChainPush
<1>5. Top' = fr  BY <1>4, Zenon DEF Top
<1> QED  BY <1>1, <1>4, <1>5, ControlParts

(* The frame below one that ends: the caller, or the event loop's frame,   *)
(* holds what was counted when the other one began.                        *)
LEMMA CallerReady ==
  ASSUME Stacked(stack), stack # <<>>, Chained(stack), Below # <<>>
  PROVE  LET caller == stack[Len(stack) - 1]
         IN /\ Below[Len(Below)] = caller /\ caller \in Frames /\ caller.base \in Nat
            /\ FrameOK(caller) /\ Top.base = caller.base + HeldBy(caller)
            /\ ~Top.root => Instr(caller).op = "call" /\ Instr(caller).f = Top.f
<1> DEFINE caller == stack[Len(stack) - 1]
<1>1. /\ Below[Len(Below)] = caller /\ Waits(caller, Top) /\ Chained(Below)
      /\ Stacked(Below)
  BY ChainPop, PopFrame
<1>2. Below \in Seq(Frames) /\ Len(Below) \in 1..Len(Below)
  BY <1>1 DEF Stacked
<1> HIDE DEF caller
<1>3. caller \in Frames /\ caller.base \in Nat  BY <1>1, <1>2 DEF Chained
<1>4. /\ FrameOK(caller) /\ Top.base = caller.base + HeldBy(caller)
      /\ ~Top.root => Instr(caller).op = "call" /\ Instr(caller).f = Top.f
  BY <1>1 DEF Waits
<1> QED  BY <1>1, <1>3, <1>4 DEF caller

(* What the operations of the session answer while it is up and no COMMIT  *)
(* is refused: only a statement can fail.                                  *)
LEMMA Answers ==
  ASSUME Faults \subseteq {"sql"}, ServerOK, count \in Nat
  PROVE  /\ \A r \in {"", "db"} : BeginTransaction(r) =>
              r = "" /\ count' = count + 1 /\ proc' = proc /\ ServerOK'
         /\ \A r \in {"", "db"} : count > 0 /\ (CommitTransaction(r) \/ RollbackTransaction(r)) =>
              r = "" /\ count' = count - 1 /\ proc' = proc /\ ServerOK'
         /\ \A w, r : Statement(w, r) /\ count' = count => ServerOK'
         /\ CheckNewMail \/ SynchronousFetch => count' = count /\ proc' = proc /\ ServerOK'
         /\ ~LoseSession
         /\ Ping
<1>0. /\ link = "up" /\ link # "down" /\ (count = 0 => txn = "none")
      /\ "lost" \notin Faults /\ "commit" \notin Faults
  BY DEF ServerOK
<1>1. ASSUME NEW r \in {"", "db"}, BeginTransaction(r)
      PROVE  r = "" /\ count' = count + 1 /\ proc' = proc /\ ServerOK'
  <2>0. count' = count + 1 /\ proc' = proc  BY <1>1, Zenon DEF BeginTransaction
  <2>1. count' # 0  BY <2>0, Differences, Zenon
  <2>2. CASE count' = 1
    <3>1. txn # "failed"
      <4>1. count = 0  BY <2>0, <2>2, Differences, Zenon
      <4> QED  BY <1>0, <4>1
    <3>2. SendBegin(r)  BY <1>1, <2>2, Zenon DEF BeginTransaction
    <3>3. r = "" /\ link' = link  BY <1>0, <3>1, <3>2, Zenon DEF SendBegin
    <3> QED  BY <1>0, <2>0, <2>1, <3>3 DEF ServerOK
  <2>3. CASE count' # 1
    <3>1. r = "" /\ UNCHANGED server  BY <1>1, <2>3, Zenon DEF BeginTransaction
    <3> QED  BY <1>0, <2>0, <2>1, <3>1 DEF ServerOK, server
  <2> QED  BY <2>2, <2>3
<1>2. ASSUME NEW r \in {"", "db"}, count > 0, CommitTransaction(r) \/ RollbackTransaction(r)
      PROVE  r = "" /\ count' = count - 1 /\ proc' = proc /\ ServerOK'
  <2>0. count' = count - 1
    BY <1>2, Zenon DEF CommitTransaction, RollbackTransaction, EndTransaction
  <2>1. ~(count' < 0)  BY <1>2, <2>0, Differences, Zenon
  <2>2. CASE count' = 0
    <3>1. proc' = proc /\ (SendCommit(r) \/ SendRollback(r))
      BY <1>2, <2>1, <2>2, Zenon DEF CommitTransaction, RollbackTransaction, EndTransaction
    <3>2. r = "" /\ link' = "up" /\ txn' = "none"
      BY <1>0, <3>1, Zenon DEF SendCommit, SendRollback
    <3> QED  BY <2>0, <3>1, <3>2 DEF ServerOK
  <2>3. CASE count' # 0
    <3>1. proc' = proc /\ r = "" /\ UNCHANGED server
      BY <1>2, <2>1, <2>3, Zenon DEF CommitTransaction, RollbackTransaction, EndTransaction
    <3> QED  BY <1>0, <2>0, <2>3, <3>1 DEF ServerOK, server
  <2> QED  BY <2>2, <2>3
<1>3. ASSUME NEW w, NEW r, Statement(w, r), count' = count PROVE ServerOK'
  <2>1. link' = link  BY <1>3, Zenon DEF Statement
  <2>2. txn = "none" => txn' = "none"
    <3>1. "none" # "open"  OBVIOUS
    <3> QED  BY <1>3, <3>1, Zenon DEF Statement
  <2> QED  BY <1>0, <1>3, <2>1, <2>2 DEF ServerOK
<1>4. ASSUME CheckNewMail \/ SynchronousFetch
      PROVE  count' = count /\ proc' = proc /\ ServerOK'
  <2>1. count' = count /\ proc' = proc /\ link' = link
    BY <1>4, Zenon DEF CheckNewMail, SynchronousFetch
  <2>2. txn = "none" => txn' = "none"
    <3>1. "none" # "open"  OBVIOUS
    <3> QED  BY <1>4, <3>1, Zenon DEF CheckNewMail, SynchronousFetch
  <2> QED  BY <1>0, <2>1, <2>2 DEF ServerOK
<1>5. ~LoseSession /\ Ping  BY <1>0 DEF LoseSession, Ping
<1> QED  BY <1>1, <1>2, <1>3, <1>4, <1>5

(* What is known of the running frame.                                     *)
Safe == SessionOK /\ Stacked(stack) /\ ServerOK /\ StackOK /\ TopOK /\ proc = "running"
Good == (proc' = "running" /\ ServerOK' /\ StackOK' /\ TopOK') \/ (proc' = "quit" /\ stack' # <<>>)

LEMMA Running ==
  ASSUME Safe, NEW op, At(op)
  PROVE  /\ stack # <<>> /\ exc = "" /\ Chained(stack) /\ count \in Nat
         /\ FrameOK(Top) /\ count = Top.base + HeldBy(Top) /\ HeldBy(Top) \in Nat
         /\ Top \in Frames /\ InCode(Top) /\ Top.base \in Nat /\ Top.pc \in Nat
         /\ Instr(Top).op = op
         /\ WellFormed(Instr(Top), Top.pc, Len(Program[Top.f][Top.blk]))
<1>1. stack # <<>> /\ exc = "" /\ Instr(Top).op = op  BY DEF At
<1>2. Chained(stack) /\ count \in Nat
  BY ControlParts, RunningCount, Zenon DEF Safe
<1>3. FrameOK(Top) /\ count = Top.base + HeldBy(Top)  BY <1>1, Zenon DEF Safe, TopOK
<1>4. Top \in Frames /\ InCode(Top) /\ Len(stack) \in Nat \ {0}
  BY <1>1, TopFrame, Zenon DEF Safe
<1>5. Top.base \in Nat
  <2>1. Len(stack) \in 1..Len(stack)  BY <1>4
  <2> QED  BY <1>2, <2>1, Zenon DEF Chained, Top
<1> QED  BY <1>1, <1>2, <1>3, <1>4, <1>5, Typed, FrameFields, InstrWellFormed, Zenon

(* The instruction ends, with or without an exception, h begins being held. *)
LEMMA Ends ==
  ASSUME Safe, NEW op, At(op), Advance \/ Executed,
         NEW h \in Nat, Holds(Top.f, Top.blk, Top.pc + 1, h), count' = Top.base + h, exc' = ""
  PROVE  StackOK' /\ TopOK'
<1>1. Top.pc + 1 \in Nat  BY Running, Differences, Zenon
<1>2. Jump(Top.pc + 1) \/ Executed  BY DEF Advance
<1>3. /\ Stacked(stack) /\ stack # <<>> /\ Chained(stack) /\ FrameOK(Top)
  BY Running, Zenon DEF Safe
<1> QED  BY <1>1, <1>2, <1>3, GoesOn, Zenon

LEMMA TransactionStep ==
  ASSUME Faults \subseteq {"sql"}, Safe, DoBegin \/ DoCommit \/ DoRollback
  PROVE  Good
<1> DEFINE b == Top.base
           h == HeldBy(Top)
<1>1. CASE DoBegin
  <2>1. At("begin")  BY <1>1 DEF DoBegin
  <2>2. Holds(Top.f, Top.blk, Top.pc + 1, h + 1) /\ exc = "" /\ h \in Nat /\ b \in Nat
        /\ count = b + h /\ count \in Nat
    BY <2>1, Running, TypedInstr, Zenon
  <2>3. PICK r \in {"", "db"} : BeginTransaction(r) /\ Continue(r, Instr(Top).kind)
    BY <1>1 DEF DoBegin
  <2>4. r = "" /\ count' = count + 1 /\ proc' = proc /\ ServerOK'
    BY <2>2, <2>3, Answers, Zenon DEF Safe
  <2>5. Advance /\ exc' = ""  BY <2>2, <2>3, <2>4, Zenon DEF Continue
  <2>6. count' = b + (h + 1) /\ h + 1 \in Nat  BY <2>2, <2>4, Differences, Zenon
  <2>7. StackOK' /\ TopOK'  BY <2>1, <2>2, <2>5, <2>6, Ends, Zenon
  <2> QED  BY <2>4, <2>7, Zenon DEF Good, Safe
<1>2. CASE DoCommit \/ DoRollback
  <2>1. PICK op \in {"commit", "rollback"}, r \in {"", "db"} :
          At(op) /\ Continue(r, "db") /\ (CommitTransaction(r) \/ RollbackTransaction(r))
    BY <1>2 DEF DoCommit, DoRollback
  <2>2. h > 0 /\ Holds(Top.f, Top.blk, Top.pc + 1, h - 1) /\ exc = "" /\ h \in Nat /\ b \in Nat
        /\ count = b + h /\ count \in Nat
    BY <2>1, Running, TypedInstr, Zenon
  <2>3. count > 0  BY <2>2, Differences, Zenon
  <2>4. r = "" /\ count' = count - 1 /\ proc' = proc /\ ServerOK'
    BY <2>1, <2>2, <2>3, Answers, Zenon DEF Safe
  <2>5. Advance /\ exc' = ""  BY <2>1, <2>2, <2>4, Zenon DEF Continue
  <2>6. count' = b + (h - 1) /\ h - 1 \in Nat  BY <2>2, <2>4, Differences, Zenon
  <2>7. StackOK' /\ TopOK'  BY <2>1, <2>2, <2>5, <2>6, Ends, Zenon
  <2> QED  BY <2>4, <2>7, Zenon DEF Good, Safe
<1> QED  BY <1>1, <1>2

LEMMA StatementStep ==
  ASSUME Faults \subseteq {"sql"}, Safe, DoSql \/ DoQuiet
  PROVE  Good
<1> DEFINE h == HeldBy(Top)
<1>1. count' = count /\ proc' = proc /\ Executed /\ \E w, r : Statement(w, r)
  BY Zenon DEF DoSql, DoQuiet
<1>2. ServerOK'  BY <1>1, Answers, RunningCount, Zenon DEF Safe
<1>3. CASE exc' = ""
  <2>1. PICK op \in {"sql", "quiet"} : At(op)  BY DEF DoSql, DoQuiet
  <2>2. Holds(Top.f, Top.blk, Top.pc + 1, h) /\ h \in Nat /\ count = Top.base + h
    BY <2>1, Running, TypedInstr, Zenon
  <2>3. StackOK' /\ TopOK'  BY <1>1, <1>3, <2>1, <2>2, Ends, Zenon
  <2> QED  BY <1>1, <1>2, <2>3, Zenon DEF Good, Safe
<1>4. CASE exc' # ""
  <2>1. At("sql") /\ exc' = Instr(Top).kind
    <3>1. DoQuiet => exc' = ""  BY Running, Zenon DEF DoQuiet
    <3> QED  BY <1>4, <3>1, Zenon DEF DoSql
  <2>2. MayRaise(Top.f, Top.blk, h, exc') /\ count = Top.base + h /\ stack # <<>>
        /\ Chained(stack) /\ FrameOK(Top) /\ Top.base \in Nat /\ Stacked(stack)
    BY <2>1, Running, TypedInstr, Zenon DEF Safe
  <2>3. StackOK' /\ TopOK'  BY <1>1, <1>4, <2>2, Throws, Zenon
  <2> QED  BY <1>1, <1>2, <2>3, Zenon DEF Good, Safe
<1> QED  BY <1>3, <1>4

(* Steps that leave the session alone.                                     *)
LEMMA Undisturbed ==
  ASSUME Safe, UNCHANGED session, StackOK', TopOK'
  PROVE  Good
<1>1. proc' = proc /\ count' = count /\ link' = link /\ txn' = txn
  BY Zenon DEF session, server
<1> QED  BY <1>1, Zenon DEF Good, Safe, ServerOK

LEMMA CodeStep ==
  ASSUME Safe, DoGoto \/ DoEvents \/ DoCall \/ DoThrow
  PROVE  Good
<1> DEFINE h == HeldBy(Top)
<1>1. UNCHANGED session /\ count' = count
  BY Zenon DEF DoGoto, DoEvents, DoCall, DoThrow, session
<1>2. ASSUME NEW op, At(op)
      PROVE  h \in Nat /\ count = Top.base + h /\ stack # <<>> /\ Chained(stack) /\ FrameOK(Top)
             /\ Top.base \in Nat /\ Stacked(stack) /\ exc = "" /\ SessionOK /\ count \in Nat
  BY <1>2, Running, Zenon DEF Safe
<1>3. CASE DoGoto
  <2>1. PICK pc \in Instr(Top).to : At("goto") /\ Jump(pc) /\ exc' = exc
    BY <1>3 DEF DoGoto
  <2>2. Holds(Top.f, Top.blk, pc, h)  BY <2>1, Running, TypedInstr, Zenon
  <2>3. pc \in Nat
    <3>1. /\ pc \in 1..Len(Program[Top.f][Top.blk]) /\ Top \in Frames /\ InCode(Top)
      BY <2>1, Running, Zenon DEF WellFormed
    <3>2. Len(Program[Top.f][Top.blk]) \in Nat  BY <3>1, InstrWellFormed, Zenon
    <3> QED  BY <3>1, <3>2, Positions, Zenon
  <2>4. count' = Top.base + h /\ exc' = ""  BY <1>1, <1>2, <2>1, Zenon
  <2>5. StackOK' /\ TopOK'  BY <1>2, <2>1, <2>2, <2>3, <2>4, GoesOn, Zenon
  <2> QED  BY <1>1, <2>5, Undisturbed, Zenon
<1>4. CASE DoEvents
  <2>1. At("events") /\ Advance /\ exc' = exc  BY <1>4 DEF DoEvents
  <2>2. Holds(Top.f, Top.blk, Top.pc + 1, h)  BY <2>1, Running, TypedInstr, Zenon
  <2>3. count' = Top.base + h /\ exc' = ""  BY <1>1, <1>2, <2>1, Zenon
  <2>4. StackOK' /\ TopOK'  BY <1>2, <2>1, <2>2, <2>3, Ends, Zenon
  <2> QED  BY <1>1, <2>4, Undisturbed, Zenon
<1>5. CASE DoCall
  <2>1. /\ At("call") /\ exc' = exc /\ stack' = Append(stack, Frame(Instr(Top).f, FALSE))
    BY <1>5 DEF DoCall
  <2>2. Instr(Top).f \in DOMAIN Program /\ Instr(Top).op = "call" /\ Ready(Top, count)
    BY <1>2, <2>1, Running, TypedInstr, Zenon DEF Ready
  <2>3. exc' = ""  BY <1>2, <2>1, Zenon
  <2>4. FALSE \in BOOLEAN /\ ~FALSE  OBVIOUS
  <2>5. StackOK' /\ TopOK'  BY <1>1, <1>2, <2>1, <2>2, <2>3, <2>4, Starts, Zenon
  <2> QED  BY <1>1, <2>5, Undisturbed, Zenon
<1>6. CASE DoThrow
  <2>1. At("throw") /\ exc' = Instr(Top).kind /\ UNCHANGED stack  BY <1>6 DEF DoThrow
  <2>2. MayRaise(Top.f, Top.blk, h, exc')  BY <2>1, Running, TypedInstr, Zenon
  <2>3. exc' # ""
    <3>1. exc' \in Kinds  BY <2>1, Running, Zenon DEF WellFormed
    <3> QED  BY <3>1 DEF Kinds
  <2>4. StackOK' /\ TopOK'  BY <1>1, <1>2, <2>1, <2>2, <2>3, Throws, Zenon
  <2> QED  BY <1>1, <2>4, Undisturbed, Zenon
<1> QED  BY <1>3, <1>4, <1>5, <1>6

(* A function returns to its caller, or to the event loop that started it. *)
LEMMA ReturnStep ==
  ASSUME Safe, DoReturn
  PROVE  Good
<1>1. At("return") /\ UNCHANGED session /\ exc' = exc /\ count' = count
  BY Zenon DEF DoReturn, session
<1>2. /\ Stacked(stack) /\ stack # <<>> /\ Chained(stack) /\ exc' = "" /\ count = Top.base
      /\ Top.base \in Nat
  <2>1. /\ Stacked(stack) /\ stack # <<>> /\ Chained(stack) /\ exc' = ""
        /\ count = Top.base + HeldBy(Top) /\ Top.base \in Nat /\ HeldBy(Top) = 0
    BY <1>1, Running, TypedInstr, Zenon DEF Safe
  <2>2. \A b \in Nat : b + 0 = b  OBVIOUS
  <2> QED  BY <2>1, <2>2, Zenon
<1> DEFINE caller == stack[Len(stack) - 1]
<1>3. Chained(Below) /\ Stacked(Below)  BY <1>2, ChainPop, PopFrame, Zenon
<1>4. CASE Top.root
  <2>1. stack' = Below  BY <1>4, Zenon DEF DoReturn
  <2>2. CASE Below = <<>>
    <3>1. count' = 0  BY <1>1, <1>2, <2>2, ChainPop, Zenon
    <3> QED  BY <1>1, <1>2, <1>3, <2>1, <2>2, <3>1, ControlParts, Undisturbed, Zenon
  <2>3. CASE Below # <<>>
    <3>1. /\ Below[Len(Below)] = caller /\ FrameOK(caller)
          /\ Top.base = caller.base + HeldBy(caller)
      BY <1>2, <2>3, CallerReady, Zenon
    <3>2. Top' = caller  BY <2>1, <3>1, Zenon DEF Top
    <3>3. Ready(Top', count')  BY <1>1, <1>2, <3>1, <3>2, Zenon DEF Ready
    <3> QED  BY <1>1, <1>2, <1>3, <2>1, <2>3, <3>3, ControlParts, Undisturbed, Zenon
  <2> QED  BY <2>2, <2>3
<1>5. CASE ~Top.root
  <2> DEFINE val  == Instr(Top).val
             next == IF val \/ Instr(caller).no = 0 THEN caller.pc + 1 ELSE Instr(caller).no
             w    == caller.wrote \/ Top.wrote
             fr   == [caller EXCEPT !.pc = next, !.wrote = w]
  <2>1. /\ Below # <<>> /\ Below[Len(Below)] = caller /\ caller \in Frames /\ FrameOK(caller)
        /\ Instr(caller).op = "call" /\ Top.base = caller.base + HeldBy(caller)
        /\ HeldBy(caller) \in Nat /\ InCode(caller)
    BY <1>2, <1>5, CallerWaits, CallerReady, Typed, Zenon
  <2> HIDE DEF caller
  <2>2. Holds(caller.f, caller.blk, next, HeldBy(caller))
    BY <2>1, TypedInstr, Zenon
  <2>3. next \in Nat
    <3>1. /\ Len(Program[caller.f][caller.blk]) \in Nat
          /\ next \in 1..Len(Program[caller.f][caller.blk])
      <4> HIDE DEF next
      <4> QED  BY <2>1, <2>2, InstrWellFormed, Zenon DEF Holds
    <3> HIDE DEF next
    <3> QED  BY <3>1, Positions, Zenon
  <2>4. /\ fr \in Frames /\ fr.f = caller.f /\ fr.blk = caller.blk /\ fr.root = caller.root
        /\ fr.base = caller.base /\ fr.pc = next
    <3>1. w \in BOOLEAN  OBVIOUS
    <3> HIDE DEF next, w
    <3> QED  BY <2>1, <2>3, <3>1 DEF Frames
  <2>5. stack' = [Below EXCEPT ![Len(Below)] = fr]
    <3>1. stack' = [Below EXCEPT ![Len(stack) - 1].pc = next,
                                 ![Len(stack) - 1].wrote = @ \/ Top.wrote]
      BY <1>5, Zenon DEF DoReturn, caller
    <3>2. Len(Below) = Len(stack) - 1  BY <1>2, PopFrame, Zenon
    <3> QED  BY <1>3, <2>1, <3>1, <3>2 DEF Stacked
  <2> HIDE DEF fr, next
  <2>6. Chained(stack') /\ stack' # <<>> /\ stack'[Len(stack')] = fr
    <3> DEFINE t == [Below EXCEPT ![Len(Below)] = fr]
    <3>1. Chained(t) /\ t # <<>> /\ t[Len(t)] = fr
      <4>1. fr.f = Below[Len(Below)].f /\ fr.root = Below[Len(Below)].root
            /\ fr.base = Below[Len(Below)].base
        BY <2>1, <2>4, Zenon
      <4> QED  BY <1>3, <2>1, <2>4, <4>1, ChainReplace
    <3> HIDE DEF t
    <3>2. stack' = t  BY <2>5 DEF t
    <3> QED  BY <3>1, <3>2, Zenon
  <2>7. Top' = fr  BY <2>6, Zenon DEF Top
  <2>8. Ready(Top', count')
    <3>1. FrameOK(fr) /\ HeldBy(fr) = HeldBy(caller)
      <4>1. fr.f \in DOMAIN Program /\ fr.blk \in DOMAIN Program[fr.f]
            /\ Holds(fr.f, fr.blk, fr.pc, HeldBy(caller))
        BY <2>1, <2>2, <2>4, Zenon DEF FrameOK
      <4> QED  BY <2>1, <4>1, HoldsReady, Zenon
    <3> QED  BY <1>1, <1>2, <2>1, <2>4, <2>7, <3>1, Zenon DEF Ready
  <2> QED  BY <1>1, <1>2, <2>6, <2>8, ControlParts, Undisturbed, Zenon
<1> QED  BY <1>4, <1>5

(* An exception finds the begins its catch clause expects, or leaves its   *)
(* function with none.                                                     *)
LEMMA UnwindStep ==
  ASSUME Safe, Unwind, exc # "" => stack # <<>>
  PROVE  Good
<1> DEFINE caught == Top.blk = "body" /\ exc \in DOMAIN Program[Top.f]
           held   == count - Top.base
<1>1. /\ Stacked(stack) /\ stack # <<>> /\ Chained(stack) /\ exc # "" /\ count \in Nat
      /\ Top \in Frames /\ InCode(Top)
  BY ControlParts, RunningCount, TopFrame, Zenon DEF Safe, Unwind
<1>2. /\ Top.f \in DOMAIN Program /\ Top.blk \in DOMAIN Program[Top.f]
      /\ count >= Top.base /\ MayRaise(Top.f, Top.blk, held, exc)
  BY <1>1, Zenon DEF Safe, TopOK
<1>3. held \in Nat /\ count = Top.base + held
  <2>1. Top.base \in Int  BY <1>1, FrameFields, Zenon
  <2> QED  BY <1>1, <1>2, <2>1, Distance, Zenon
<1> HIDE DEF held
<1>4. CASE caught
  <2> DEFINE fr == [Top EXCEPT !.blk = exc, !.pc = 1]
  <2>1. exc \in DOMAIN Program[Top.f] /\ Len(Program[Top.f][exc]) > 0 /\ Held[Top.f][exc][1] = held
    BY <1>2, <1>4, Zenon DEF MayRaise
  <2>2. fr \in Frames
    <3>1. exc \in Blocks /\ 1 \in Nat  BY <1>2, <2>1, ProgramAssumption
    <3> QED  BY <1>1, <3>1 DEF Frames
  <2>3. /\ fr.f = Top.f /\ fr.blk = exc /\ fr.pc = 1 /\ fr.root = Top.root /\ fr.base = Top.base
    BY <1>1 DEF Frames
  <2>4. stack' = [stack EXCEPT ![Len(stack)] = fr] /\ exc' = "" /\ UNCHANGED session
    <3>1. /\ stack' = [stack EXCEPT ![Len(stack)].blk = exc, ![Len(stack)].pc = 1]
          /\ exc' = "" /\ UNCHANGED session
      BY <1>4, Zenon DEF Unwind
    <3>2. stack \in Seq(Frames) /\ Len(stack) \in Nat \ {0}  BY <1>1, TopFrame DEF Stacked
    <3> QED  BY <3>1, <3>2 DEF Top
  <2> HIDE DEF fr
  <2>5. Chained(stack') /\ stack' # <<>> /\ Top' = fr
    <3>1. /\ fr.f = stack[Len(stack)].f /\ fr.root = stack[Len(stack)].root
          /\ fr.base = stack[Len(stack)].base
      BY <2>3, Zenon DEF Top
    <3> QED  BY <1>1, <2>2, <2>4, <3>1, TopReplaced, Zenon
  <2>6. FrameOK(fr) /\ HeldBy(fr) = held
    <3>1. 1 \in 1..Len(Program[fr.f][fr.blk])
      <4>1. Len(Program[Top.f][exc]) \in Nat \ {0}  BY <1>2, <2>1, ProgramAssumption
      <4> QED  BY <2>3, <4>1, Positions, Zenon
    <3>2. Holds(fr.f, fr.blk, fr.pc, held)  BY <2>1, <2>3, <3>1, Zenon DEF Holds
    <3>3. fr.f \in DOMAIN Program /\ fr.blk \in DOMAIN Program[fr.f]
      BY <1>2, <2>1, <2>3, Zenon
    <3> QED  BY <1>3, <3>2, <3>3, HoldsReady, Zenon
  <2>7. count' = count  BY <2>4, Zenon DEF session
  <2>8. Ready(Top', count')  BY <1>3, <2>3, <2>5, <2>6, <2>7, Zenon DEF Ready
  <2> QED  BY <2>4, <2>5, <2>8, ControlParts, Undisturbed, Zenon
<1>5. CASE ~caught
  <2>1. held = 0 /\ exc \in Escapes[Top.f]  BY <1>2, <1>5, Zenon DEF MayRaise
  <2>2. CASE Top.root
    <3>1. Top.f \in Roots  BY <1>1, <2>2, RootFrame, Zenon
    <3>2. Escapes[Top.f] = {}  BY <3>1, DisciplineAssumption, Zenon DEF WellTyped
    <3> QED  BY <2>1, <3>2
  <2>3. CASE ~Top.root
    <3> DEFINE caller == stack[Len(stack) - 1]
    <3>1. stack' = Below /\ UNCHANGED session /\ exc' = exc  BY <1>5, <2>3, Zenon DEF Unwind
    <3>2. /\ Below # <<>> /\ Below[Len(Below)] = caller /\ FrameOK(caller)
          /\ Instr(caller).op = "call" /\ Instr(caller).f = Top.f
          /\ Top.base = caller.base + HeldBy(caller) /\ caller.base \in Nat
          /\ HeldBy(caller) \in Nat /\ Chained(Below)
      BY <1>1, <2>3, CallerWaits, CallerReady, ChainPop, Typed, Zenon
    <3>3. Top' = caller  BY <3>1, <3>2, Zenon DEF Top
    <3> HIDE DEF caller
    <3>4. MayRaise(caller.f, caller.blk, HeldBy(caller), exc)
      BY <2>1, <3>2, TypedInstr, Zenon
    <3>5. count' = caller.base + HeldBy(caller)
      <4>1. count = Top.base
        <5>1. Top.base \in Int  BY <1>1, FrameFields, Zenon
        <5> QED  BY <1>3, <2>1, <5>1, Distance, Zenon
      <4> QED  BY <3>1, <3>2, <4>1, Zenon DEF session
    <3>6. count' - caller.base = HeldBy(caller) /\ count' >= caller.base
      <4> DEFINE b == caller.base
                 h == HeldBy(caller)
      <4>1. b \in Nat /\ h \in Nat /\ count' = b + h  BY <3>2, <3>5, Zenon
      <4> HIDE DEF b, h
      <4>2. count' - b = h /\ count' >= b  BY <4>1, Remainder, Zenon
      <4> QED  BY <4>2, Zenon DEF b, h
    <3>7. caller.f \in DOMAIN Program /\ caller.blk \in DOMAIN Program[caller.f]
      BY <3>2, Zenon DEF FrameOK
    <3>8. StackOK' /\ TopOK'
      BY <1>1, <3>1, <3>2, <3>3, <3>4, <3>6, <3>7, ControlParts, Zenon
    <3> QED  BY <3>1, <3>8, Undisturbed, Zenon
  <2> QED  BY <2>2, <2>3
<1> QED  BY <1>4, <1>5

(* What the event loop does.                                               *)
LEMMA LoopStep ==
  ASSUME Faults \subseteq {"sql"}, Safe,
         Dismiss \/ Timer \/ SessionLost \/ \E f \in Roots : Start(f)
  PROVE  Good
<1>0. ServerOK /\ count \in Nat /\ SessionOK /\ Stacked(stack) /\ Chained(stack)
  BY RunningCount, ControlParts, Zenon DEF Safe
<1>1. CASE Dismiss
  <2>1. At("alert") /\ exc' = exc /\ ~LoseSession /\ Ping
    BY <1>0, <1>1, Answers, Zenon DEF Dismiss
  <2>2. CASE Advance /\ UNCHANGED session
    <3>1. count' = count  BY <2>2, Zenon DEF session
    <3>2. /\ HeldBy(Top) \in Nat /\ Holds(Top.f, Top.blk, Top.pc + 1, HeldBy(Top))
          /\ count' = Top.base + HeldBy(Top) /\ exc' = ""
      BY <2>1, <3>1, Running, TypedInstr, Zenon
    <3>3. StackOK' /\ TopOK'  BY <2>1, <2>2, <3>2, Ends, Zenon
    <3> QED  BY <2>2, <3>3, Undisturbed, Zenon
  <2>3. CASE EndProcess("quit") /\ UNCHANGED stack
    <3>1. stack' # <<>>  BY <2>1, <2>3 DEF At
    <3> QED  BY <2>3, <3>1, Zenon DEF EndProcess, Good
  <2> QED  BY <1>1, <2>1, <2>2, <2>3, Zenon DEF Dismiss
<1>2. CASE Timer
  <2>1. CheckNewMail \/ SynchronousFetch
    BY <1>0, <1>2, Answers, Zenon DEF Timer
  <2>2. count' = count /\ proc' = proc /\ ServerOK' /\ stack' = stack /\ exc' = exc
    BY <1>0, <1>2, <2>1, Answers, Zenon DEF Timer
  <2>3. StackOK' /\ TopOK'
    BY <2>2 DEF Safe, StackOK, TopOK, Top
  <2> QED  BY <2>2, <2>3, Zenon DEF Good, Safe
<1>3. CASE SessionLost  BY <1>0, <1>3, Answers, Zenon DEF SessionLost
<1>4. ASSUME NEW f \in Roots, Start(f) PROVE Good
  <2>1. /\ EventLoop /\ stack' = Append(stack, Frame(f, TRUE)) /\ UNCHANGED session
        /\ exc' = exc /\ exc = ""
        /\ stack # <<>> => Instr(Top).op \in {"alert", "events"}
    BY <1>4, Zenon DEF Start, EventLoop
  <2>2. f \in DOMAIN Program /\ TRUE \in BOOLEAN  BY ProgramAssumption
  <2>3. IF stack = <<>> THEN count = 0 ELSE Ready(Top, count)
    BY <2>1, Zenon DEF Safe, TopOK, Ready
  <2>4. count' = count  BY <2>1, Zenon DEF session
  <2>5. StackOK' /\ TopOK'  BY <1>0, <2>1, <2>2, <2>3, <2>4, Starts, Zenon
  <2> QED  BY <2>1, <2>5, Undisturbed, Zenon
<1> QED  BY <1>1, <1>2, <1>3, <1>4

-----------------------------------------------------------------------------
Inv == SessionOK /\ StacksOK /\ IndInv /\ (stack = <<>> => count = 0)

LEMMA InitInv == Init => Inv
<1> SUFFICES ASSUME Init PROVE Inv
  OBVIOUS
<1>1. SessionOK /\ StacksOK  BY InitTyped
<1>2. /\ proc = "running" /\ count = 0 /\ link = "up" /\ txn = "none" /\ stack = <<>> /\ exc = ""
  BY Zenon DEF Init, SessionInit
<1>3. Len(stack) = 0 /\ 1..Len(stack) = {} /\ 1..(Len(stack) - 1) = {}
  <2>1. Len(stack) = 0  BY <1>2
  <2> QED  BY <2>1
<1>4. StackOK  BY <1>2, <1>3, Zenon DEF StackOK
<1>5. IndInv  BY <1>2, <1>4 DEF IndInv, ServerOK, TopOK
<1> QED  BY <1>1, <1>2, <1>5, Zenon DEF Inv

LEMMA InvStep == Faults \subseteq {"sql"} /\ Inv /\ [Next]_vars => Inv'
<1> SUFFICES ASSUME Faults \subseteq {"sql"}, Inv, [Next]_vars PROVE Inv'
  OBVIOUS
<1>1. SessionOK' /\ StacksOK'  BY SessionStep, StacksStep, Zenon DEF Inv
<1>2. CASE UNCHANGED vars
  <2>1. /\ proc' = proc /\ count' = count /\ link' = link /\ txn' = txn
        /\ stack' = stack /\ exc' = exc
    BY <1>2, Zenon DEF vars, session, server
  <2>2. IndInv'  BY <2>1 DEF Inv, IndInv, ServerOK, StackOK, TopOK, Top
  <2> QED  BY <1>1, <2>1, <2>2, Zenon DEF Inv
<1>3. CASE proc = "running" /\ Next
  <2>1. Safe /\ (exc # "" => stack # <<>>)
    BY <1>3, Zenon DEF Inv, IndInv, StacksOK, Safe
  <2>2. ~Ended  BY <1>3 DEF Ended
  <2>3. Good
    BY <1>3, <2>1, <2>2, TransactionStep, StatementStep, CodeStep, ReturnStep, UnwindStep,
       LoopStep, Zenon DEF Next, Run
  <2>4. CASE proc' = "running" /\ ServerOK' /\ StackOK' /\ TopOK'
    <3>1. count' \in Nat
      <4>1. count' \in Int /\ (count' < 0 => proc' = "fatal")
        BY <1>1 DEF SessionOK, SessionTypeOK
      <4> QED  BY <2>4, <4>1
    <3>2. IndInv'  BY <2>4, <3>1 DEF IndInv
    <3>3. stack' = <<>> => count' = 0  BY <2>4, Zenon DEF TopOK
    <3> QED  BY <1>1, <3>2, <3>3, Zenon DEF Inv
  <2>5. CASE proc' = "quit" /\ stack' # <<>>
    <3>1. IndInv'  BY <2>5 DEF IndInv
    <3> QED  BY <1>1, <2>5, <3>1, Zenon DEF Inv
  <2> QED  BY <2>3, <2>4, <2>5, Zenon DEF Good
<1>4. CASE proc # "running" /\ Next
  <2>1. Ended
    BY <1>4 DEF Next, Run, DoBegin, DoCommit, DoRollback, DoSql, DoQuiet, DoGoto, DoCall,
       DoReturn, DoThrow, Unwind, DoEvents, Dismiss, Timer, SessionLost, Start, At, EventLoop
  <2> QED  BY <1>2, <2>1 DEF Ended
<1> QED  BY <1>2, <1>3, <1>4

LEMMA AlwaysInv == Faults \subseteq {"sql"} /\ Spec => []Inv
<1> SUFFICES ASSUME Faults \subseteq {"sql"} PROVE Spec => []Inv
  OBVIOUS
<1>1. Init => Inv  BY InitInv
<1>2. Inv /\ [Next]_vars => Inv'  BY InvStep
<1> QED  BY <1>1, <1>2, PTL DEF Spec

(* Well-typed handlers keep the inductive invariant: while statements may  *)
(* fail but the session holds, the begins that the frames hold add up to   *)
(* m_open_trans_count, whatever handlers interrupt each other.             *)
THEOREM Typing == Faults \subseteq {"sql"} /\ Spec => []IndInv
<1>1. Inv => IndInv  BY DEF Inv
<1> QED  BY <1>1, AlwaysInv, PTL

(* On every path they hand the count back as they found it, so that no     *)
(* transaction is open when nothing runs.                                  *)
THEOREM Balance == Faults \subseteq {"sql"} /\ Spec => []Balanced
<1>1. ASSUME Inv, At("return") PROVE count = Top.base
  <2>1. Safe  BY <1>1, Zenon DEF Inv, IndInv, StacksOK, Safe, At
  <2>2. count = Top.base + 0 /\ Top.base \in Nat
    BY <1>1, <2>1, Running, TypedInstr, Zenon
  <2>3. \A b \in Nat : b + 0 = b  OBVIOUS
  <2> QED  BY <2>2, <2>3, Zenon
<1>2. Inv => Balanced
  BY <1>1, Zenon DEF Balanced, Inv
<1> QED  BY <1>2, AlwaysInv, PTL

(* They never stop the program: end_transaction does not see the count go  *)
(* below zero, where it exits, and no exception leaves a handler.          *)
THEOREM NeverStops == Faults \subseteq {"sql"} /\ Spec => []NoAbruptEnd
<1>1. Inv => NoAbruptEnd
  BY DEF Inv, IndInv, NoAbruptEnd
<1> QED  BY <1>1, AlwaysInv, PTL

-----------------------------------------------------------------------------
(* The second discipline: what its invariant says of any stack.            *)
CleanAt(fr)   == Clean[fr.f][fr.blk][fr.pc]
CleanStack(s) == \A i \in 1..Len(s) : CleanAt(s[i])
WroteIn(s)    == \E i \in 1..Len(s) : s[i].wrote
Tidy(s, c) ==
  /\ \A i \in 2..Len(s) : ~s[i].root
  /\ s # <<>> /\ s[1].f \in Silent =>
       c = 0 /\ \A i \in 1..Len(s) : s[i].f \in Silent /\ ~s[i].wrote

ToldOK   == told => count = 0 /\ ~lost
Holding  == pend => txn # "none"
Settled  == exc = "" /\ CleanStack(stack) /\ (count > 0 \/ WroteIn(stack)) => ~lost /\ txn # "failed"
HonestRun == Holding /\ Tidy(stack, count) /\ Settled

LEMMA HonestParts ==
  /\ HonestInv <=> ToldOK /\ (proc = "running" => HonestRun)
  /\ HonestInv' <=> ToldOK' /\ (proc' = "running" => HonestRun')
  BY Zenon DEF HonestInv, ToldOK, HonestRun, Holding, Tidy, Settled, CleanStack, CleanAt, WroteIn,
     AllClean, Wrote, OneRoot, SilentStack

(* The top frame is replaced by another one of its function.               *)
LEMMA TidyReplace ==
  ASSUME NEW s \in Seq(Frames), s # <<>>, NEW c, NEW d, Tidy(s, c),
         NEW fr \in Frames, fr.f = s[Len(s)].f, fr.root = s[Len(s)].root,
         s[1].f \in Silent => d = c /\ ~fr.wrote,
         NEW t, t = [s EXCEPT ![Len(s)] = fr]
  PROVE  /\ Tidy(t, d)
         /\ CleanStack(t) => CleanAt(fr) /\ (CleanAt(s[Len(s)]) => CleanStack(s))
         /\ WroteIn(t) => fr.wrote \/ WroteIn(s)
<1> DEFINE n == Len(s)
<1>1. /\ t \in Seq(Frames) /\ Len(t) = n /\ n \in Nat \ {0} /\ t[n] = fr /\ t # <<>>
      /\ \A i \in 1..n : i # n => t[i] = s[i]
  BY ReplacedTop
<1> HIDE DEF n
<1>0. n \in 1..n /\ 1 \in 1..n /\ \A i \in 2..n : i \in 1..n
  <2>1. n \in Nat \ {0}  BY <1>1
  <2> QED  BY <2>1
<1>2. \A i \in 1..n : t[i].f = s[i].f /\ t[i].root = s[i].root
  <2> SUFFICES ASSUME NEW i \in 1..n PROVE t[i].f = s[i].f /\ t[i].root = s[i].root
    OBVIOUS
  <2>1. CASE i = n  BY <1>1, <2>1, Zenon DEF n
  <2>2. CASE i # n  BY <1>1, <2>2, Zenon
  <2> QED  BY <2>1, <2>2
<1>3. Tidy(t, d)
  <2>1. \A i \in 2..Len(t) : ~t[i].root  BY <1>0, <1>1, <1>2, Zenon DEF Tidy, n
  <2>2. ASSUME t[1].f \in Silent
        PROVE  d = 0 /\ \A i \in 1..Len(t) : t[i].f \in Silent /\ ~t[i].wrote
    <3>1. s[1].f \in Silent  BY <1>0, <1>2, <2>2, Zenon
    <3>2. d = 0 /\ ~fr.wrote /\ \A i \in 1..n : s[i].f \in Silent /\ ~s[i].wrote
      BY <3>1, Zenon DEF Tidy, n
    <3>3. \A i \in 1..n : t[i].f \in Silent /\ ~t[i].wrote
      <4> SUFFICES ASSUME NEW i \in 1..n PROVE t[i].f \in Silent /\ ~t[i].wrote
        OBVIOUS
      <4>1. t[i].f \in Silent  BY <1>2, <3>2, Zenon
      <4>2. CASE i = n  BY <1>1, <3>2, <4>1, <4>2, Zenon
      <4>3. CASE i # n  BY <1>1, <3>2, <4>1, <4>3, Zenon
      <4> QED  BY <4>2, <4>3
    <3> QED  BY <1>1, <3>2, <3>3, Zenon
  <2> QED  BY <2>1, <2>2, Zenon DEF Tidy
<1>4. ASSUME CleanStack(t) PROVE CleanAt(fr) /\ (CleanAt(s[n]) => CleanStack(s))
  <2>1. \A i \in 1..n : CleanAt(t[i])  BY <1>1, <1>4, Zenon DEF CleanStack
  <2>2. CleanAt(fr)  BY <1>0, <1>1, <2>1, Zenon
  <2>3. ASSUME CleanAt(s[n]), NEW i \in 1..n PROVE CleanAt(s[i])
    <3>1. CASE i = n  BY <2>3, <3>1, Zenon
    <3>2. CASE i # n  BY <1>1, <2>1, <3>2, Zenon
    <3> QED  BY <3>1, <3>2
  <2> QED  BY <2>2, <2>3, Zenon DEF CleanStack, n
<1>5. ASSUME NEW i \in 1..n, t[i].wrote PROVE fr.wrote \/ WroteIn(s)
  <2>1. CASE i = n  BY <1>1, <1>5, <2>1, Zenon
  <2>2. CASE i # n
    <3>1. s[i].wrote  BY <1>1, <1>5, <2>2, Zenon
    <3> QED  BY <3>1, Zenon DEF WroteIn, n
  <2> QED  BY <2>1, <2>2
<1>6. WroteIn(t) => fr.wrote \/ WroteIn(s)  BY <1>1, <1>5, Zenon DEF WroteIn
<1> QED  BY <1>3, <1>4, <1>6, Zenon DEF n

LEMMA TidyTop ==
  ASSUME NEW s \in Seq(Frames), s # <<>>, NEW c, Tidy(s, c)
  PROVE  /\ s[Len(s)].wrote => WroteIn(s)
         /\ CleanStack(s) => CleanAt(s[Len(s)])
         /\ s[1].f \in Silent => c = 0 /\ s[Len(s)].f \in Silent /\ ~s[Len(s)].wrote
<1>1. Len(s) \in 1..Len(s)  OBVIOUS
<1> QED  BY <1>1, Zenon DEF Tidy, WroteIn, CleanStack

(* A frame that has asked for nothing yet is added.                        *)
LEMMA TidyPush ==
  ASSUME NEW s \in Seq(Frames), NEW c, Tidy(s, c), NEW fr \in Frames, ~fr.wrote,
         IF s = <<>> THEN fr.f \in Silent => c = 0
         ELSE ~fr.root /\ (s[1].f \in Silent => fr.f \in Silent),
         NEW t, t = Append(s, fr)
  PROVE  /\ Tidy(t, c)
         /\ CleanStack(t) => CleanStack(s)
         /\ WroteIn(t) => WroteIn(s)
<1> DEFINE n == Len(s)
<1>1. /\ n \in Nat /\ Len(t) = n + 1 /\ t[n + 1] = fr /\ t # <<>> /\ (s = <<>> <=> n = 0)
      /\ \A i \in 1..n : t[i] = s[i]
  OBVIOUS
<1> HIDE DEF n
<1>2. \A i \in 1..(n + 1) : i = n + 1 \/ i \in 1..n  BY <1>1
<1>3. \A i \in 2..(n + 1) : i \in 1..(n + 1) /\ (i = n + 1 => n # 0) /\ (i # n + 1 => i \in 2..n)
  BY <1>1
<1>4. \A i \in 1..n : i \in 1..(n + 1)  BY <1>1
<1>5. n # 0 => 1 \in 1..n  BY <1>1
<1>6. n = 0 => n + 1 = 1  BY <1>1
<1>7. \A i \in 2..(n + 1) : ~t[i].root
  <2> SUFFICES ASSUME NEW i \in 2..(n + 1) PROVE ~t[i].root
    OBVIOUS
  <2>1. CASE i = n + 1  BY <1>1, <1>3, <2>1, Zenon
  <2>2. CASE i # n + 1
    <3>1. i \in 2..n /\ i \in 1..n  BY <1>2, <1>3, <2>2, Zenon
    <3> QED  BY <1>1, <3>1, Zenon DEF Tidy, n
  <2> QED  BY <2>1, <2>2
<1>8. ASSUME t[1].f \in Silent
      PROVE  c = 0 /\ \A i \in 1..(n + 1) : t[i].f \in Silent /\ ~t[i].wrote
  <2>1. c = 0 /\ fr.f \in Silent /\ \A i \in 1..n : s[i].f \in Silent /\ ~s[i].wrote
    <3>1. CASE n = 0
      <4>1. fr.f \in Silent /\ s = <<>> /\ 1..n = {}  BY <1>1, <1>6, <1>8, <3>1
      <4> QED  BY <4>1, Zenon
    <3>2. CASE n # 0
      <4>1. s # <<>> /\ s[1].f \in Silent  BY <1>1, <1>5, <1>8, <3>2, Zenon
      <4> QED  BY <4>1, Zenon DEF Tidy, n
    <3> QED  BY <3>1, <3>2
  <2>2. ASSUME NEW i \in 1..(n + 1) PROVE t[i].f \in Silent /\ ~t[i].wrote
    <3>1. CASE i = n + 1  BY <1>1, <2>1, <3>1, Zenon
    <3>2. CASE i # n + 1  BY <1>1, <1>2, <2>1, <3>2, Zenon
    <3> QED  BY <3>1, <3>2
  <2> QED  BY <2>1, <2>2, Zenon
<1>9. Tidy(t, c)  BY <1>1, <1>7, <1>8, Zenon DEF Tidy
<1>10. CleanStack(t) => CleanStack(s)  BY <1>1, <1>4, Zenon DEF CleanStack, n
<1>11. ASSUME NEW i \in 1..(n + 1), t[i].wrote PROVE WroteIn(s)
  <2>1. i \in 1..n /\ s[i].wrote  BY <1>1, <1>2, <1>11, Zenon
  <2> QED  BY <2>1, Zenon DEF WroteIn, n
<1> QED  BY <1>1, <1>9, <1>10, <1>11, Zenon DEF WroteIn

(* The top frame is gone.                                                  *)
LEMMA TidyPop ==
  ASSUME Stacked(stack), stack # <<>>, NEW c, Tidy(stack, c)
  PROVE  /\ Tidy(Below, c)
         /\ CleanStack(Below) /\ CleanAt(Top) => CleanStack(stack)
         /\ WroteIn(Below) \/ Top.wrote => WroteIn(stack)
         /\ stack[1].f \in Silent => c = 0 /\ Top.f \in Silent /\ ~Top.wrote
         /\ Below # <<>> => Below[1] = stack[1]
<1> DEFINE n == Len(stack)
<1>1. /\ Below \in Seq(Frames) /\ Len(Below) = n - 1 /\ n \in Nat \ {0} /\ Top = stack[n]
      /\ \A i \in 1..(n - 1) : Below[i] = stack[i]
  BY PopFrame, Zenon DEF Stacked, Top
<1>2. Below # <<>> => n - 1 # 0  BY <1>1
<1> HIDE DEF n
<1>3. /\ \A i \in 1..n : i = n \/ i \in 1..(n - 1)
      /\ \A i \in 1..(n - 1) : i \in 1..n
      /\ \A i \in 2..(n - 1) : i \in 2..n /\ i \in 1..(n - 1)
      /\ n \in 1..n
      /\ n - 1 # 0 => 1 \in 1..(n - 1)
  BY <1>1
<1>4. Below # <<>> => Below[1] = stack[1]  BY <1>1, <1>2, <1>3, Zenon
<1>5. Tidy(Below, c)
  <2>1. \A i \in 2..Len(Below) : ~Below[i].root
    <3>1. \A i \in 2..(n - 1) : ~Below[i].root
      <4> SUFFICES ASSUME NEW i \in 2..(n - 1) PROVE ~Below[i].root
        OBVIOUS
      <4>1. i \in 2..n /\ i \in 1..(n - 1)  BY <1>3, Zenon
      <4> QED  BY <1>1, <4>1, Zenon DEF Tidy, n
    <3> QED  BY <1>1, <3>1, Zenon
  <2>2. ASSUME Below # <<>>, Below[1].f \in Silent
        PROVE  c = 0 /\ \A i \in 1..Len(Below) : Below[i].f \in Silent /\ ~Below[i].wrote
    <3>1. stack[1].f \in Silent  BY <1>4, <2>2, Zenon
    <3>2. c = 0 /\ \A i \in 1..n : stack[i].f \in Silent /\ ~stack[i].wrote
      BY <3>1, Zenon DEF Tidy, n
    <3>3. ASSUME NEW i \in 1..(n - 1) PROVE Below[i].f \in Silent /\ ~Below[i].wrote
      <4>1. i \in 1..n /\ Below[i] = stack[i]  BY <1>1, <1>3, Zenon
      <4> QED  BY <3>2, <4>1, Zenon
    <3> QED  BY <1>1, <3>2, <3>3, Zenon
  <2> QED  BY <2>1, <2>2, Zenon DEF Tidy
<1>6. ASSUME CleanStack(Below), CleanAt(Top), NEW i \in 1..n PROVE CleanAt(stack[i])
  <2>1. CASE i = n  BY <1>1, <1>6, <2>1, Zenon
  <2>2. CASE i # n
    <3>1. i \in 1..(n - 1) /\ Below[i] = stack[i]  BY <1>1, <1>3, <2>2, Zenon
    <3> QED  BY <1>1, <1>6, <3>1, Zenon DEF CleanStack
  <2> QED  BY <2>1, <2>2
<1>7. WroteIn(Below) => WroteIn(stack)
  <2> SUFFICES ASSUME NEW i \in 1..Len(Below), Below[i].wrote PROVE WroteIn(stack)
    BY Zenon DEF WroteIn
  <2>1. i \in 1..n /\ stack[i].wrote  BY <1>1, <1>3, Zenon
  <2> QED  BY <2>1, Zenon DEF WroteIn, n
<1>8. Top.wrote => WroteIn(stack)  BY <1>1, <1>3, Zenon DEF WroteIn, n
<1>9. stack[1].f \in Silent => c = 0 /\ Top.f \in Silent /\ ~Top.wrote
  BY <1>1, <1>3, Zenon DEF Tidy, n
<1> QED  BY <1>4, <1>5, <1>6, <1>7, <1>8, <1>9, Zenon DEF CleanStack, n

-----------------------------------------------------------------------------
(* What the second discipline says of the running frame, and of the        *)
(* session's operations.                                                   *)

LEMMA HonestInstr ==
  ASSUME HonestCode(Roots), NEW fr, FrameOK(fr)
  PROVE  LET i == Instr(fr)
             stays(q) == Clean[fr.f][fr.blk][q] => CleanAt(fr)
         IN /\ i.op \in {"begin", "commit", "sql"} => stays(fr.pc + 1)
            /\ i.op = "goto" => \A t \in i.to : stays(t)
            /\ i.op = "call" =>
                 /\ Clean[fr.f][fr.blk][fr.pc + 1] => CleanAt(fr) /\ ReturnsClean(i.f, TRUE)
                 /\ Clean[fr.f][fr.blk][fr.pc + 1] /\ i.no = 0 => ReturnsClean(i.f, FALSE)
                 /\ i.no # 0 /\ Clean[fr.f][fr.blk][i.no] => CleanAt(fr) /\ ReturnsClean(i.f, FALSE)
            /\ i.op \in {"quiet", "rollback"} => ~Clean[fr.f][fr.blk][fr.pc + 1]
            /\ i.op = "alert" => ~CleanAt(fr) /\ ~Clean[fr.f][fr.blk][fr.pc + 1]
            /\ i.op # "events"
            /\ fr.blk # "body" /\ fr.pc = 1 => ~CleanAt(fr)
            /\ fr.f \in Silent => i.op # "begin" /\ (i.op = "call" => i.f \in Silent)
<1>1. /\ fr.f \in DOMAIN Program /\ fr.blk \in DOMAIN Program[fr.f]
      /\ fr.pc \in 1..Len(Program[fr.f][fr.blk]) /\ Reached(fr.f, fr.blk, fr.pc)
  BY Zenon DEF FrameOK, HeldBy, Reached
<1>2. /\ HonestAt(fr.f, fr.blk, fr.pc)
      /\ fr.blk # "body" /\ fr.pc = 1 => ~Clean[fr.f][fr.blk][fr.pc]
      /\ fr.f \in Silent => SilentAt(fr.f, fr.blk, fr.pc)
  BY <1>1, Zenon DEF HonestCode
<1> QED  BY <1>2 DEF HonestAt, SilentAt, Instr, CleanAt

(* A return at a clean point, for a function whose answers are.            *)
LEMMA CleanReturn ==
  ASSUME NEW fr, FrameOK(fr), Instr(fr).op = "return"
  PROVE  /\ Instr(fr).val /\ ReturnsClean(fr.f, TRUE) => CleanAt(fr)
         /\ ~Instr(fr).val /\ ReturnsClean(fr.f, FALSE) => CleanAt(fr)
  BY Zenon DEF FrameOK, HeldBy, Reached, ReturnsClean, Instr, CleanAt

LEMMA Counting ==
  /\ \A c \in Nat : \A d : d = c + 1 => d > 0 /\ (d = 1 => c = 0) /\ (d # 1 => c > 0)
  /\ \A c \in Nat : c = 0 => ~(c > 0)
  OBVIOUS

(* The session's operations, with no fault but a refused statement.        *)
LEMMA HonestAnswers ==
  ASSUME Faults \subseteq {"sql"}, ServerOK, SessionOK, Holding, count \in Nat
  PROVE  /\ \A r \in {"", "db"} : BeginTransaction(r) =>
              /\ Holding' /\ count' > 0
              /\ count' = 1 => ~lost' /\ txn' # "failed"
              /\ count' # 1 => count > 0 /\ lost' = lost /\ txn' = txn
         /\ \A r \in {"", "db"} : count > 0 /\ RollbackTransaction(r) => Holding'
         /\ \A r \in {"", "db"} : count > 0 /\ CommitTransaction(r) =>
              Holding' /\ (~lost /\ txn # "failed" => ~lost' /\ txn' # "failed")
         /\ \A w, r : r \in {"", "db"} /\ Statement(w, r) =>
              /\ Holding' /\ (count = 0 => lost' = lost)
              /\ r = "" => lost' = lost /\ txn' = txn
         /\ CheckNewMail \/ SynchronousFetch => Holding' /\ (count = 0 => lost' = lost)
<1>0. /\ link = "up" /\ link # "down" /\ (count = 0 => txn = "none")
      /\ "lost" \notin Faults /\ "commit" \notin Faults
      /\ txn \in {"none", "open", "failed"} /\ pend \in BOOLEAN /\ lost \in BOOLEAN
      /\ pend => txn # "none"
  BY SessionParts DEF ServerOK, ServerTypeOK, Holding
<1>1. ASSUME NEW r \in {"", "db"}, BeginTransaction(r)
      PROVE  /\ Holding' /\ count' > 0
             /\ count' = 1 => ~lost' /\ txn' # "failed"
             /\ count' # 1 => count > 0 /\ lost' = lost /\ txn' = txn
  <2>1. count' = count + 1  BY <1>1, Zenon DEF BeginTransaction
  <2>2. count' > 0 /\ (count' = 1 => count = 0) /\ (count' # 1 => count > 0)
    BY <2>1, Counting, Zenon
  <2>3. CASE count' = 1
    <3>1. SendBegin(r) /\ txn = "none"  BY <1>0, <1>1, <2>2, <2>3, Zenon DEF BeginTransaction
    <3>2. txn' = "open" /\ lost' = FALSE  BY <1>0, <3>1 DEF SendBegin
    <3>3. txn' # "none" /\ txn' # "failed" /\ ~lost'  BY <3>2
    <3> QED  BY <2>2, <2>3, <3>3, Zenon DEF Holding
  <2>4. CASE count' # 1
    <3>1. txn' = txn /\ lost' = lost /\ pend' = pend
      BY <1>1, <2>4, Zenon DEF BeginTransaction, server
    <3> QED  BY <1>0, <2>2, <2>4, <3>1, Zenon DEF Holding
  <2> QED  BY <2>3, <2>4
<1>2. ASSUME NEW r \in {"", "db"}, count > 0, CommitTransaction(r) \/ RollbackTransaction(r)
      PROVE  /\ Holding'
             /\ CommitTransaction(r) /\ ~lost /\ txn # "failed" => ~lost' /\ txn' # "failed"
  <2>0. count' = count - 1
    BY <1>2, Zenon DEF CommitTransaction, RollbackTransaction, EndTransaction
  <2>1. ~(count' < 0)  BY <1>2, <2>0, Differences, Zenon
  <2>2. CASE count' = 0
    <3>1. /\ SendCommit(r) \/ SendRollback(r)
          /\ CommitTransaction(r) => SendCommit(r)
      BY <1>2, <2>1, <2>2, Zenon DEF CommitTransaction, RollbackTransaction, EndTransaction
    <3>2. txn' = "none" /\ pend' = FALSE  BY <1>0, <3>1, Zenon DEF SendCommit, SendRollback
    <3>3. SendCommit(r) => lost' = (lost \/ (pend /\ txn = "failed"))
      BY <1>0, Zenon DEF SendCommit
    <3>4. txn' # "failed"  BY <3>2
    <3> QED  BY <3>1, <3>2, <3>3, <3>4, Zenon DEF Holding
  <2>3. CASE count' # 0
    <3>1. txn' = txn /\ lost' = lost /\ pend' = pend
      BY <1>2, <2>1, <2>3, Zenon DEF CommitTransaction, RollbackTransaction, EndTransaction, server
    <3> QED  BY <1>0, <3>1, Zenon DEF Holding
  <2> QED  BY <2>2, <2>3
<1>3. ASSUME NEW w, NEW r \in {"", "db"}, Statement(w, r)
      PROVE  /\ Holding' /\ (count = 0 => lost' = lost)
             /\ r = "" => lost' = lost /\ txn' = txn
  <2>0. /\ "failed" # "none" /\ "open" # "none" /\ "" # "db"
        /\ count = 0 => ~(count > 0)
    <3>1. "failed" # "none" /\ "open" # "none" /\ "" # "db"  OBVIOUS
    <3> QED  BY <3>1, Counting, Zenon
  <2>1. r = "" => /\ pend' = (pend \/ (w /\ txn = "open")) /\ txn' = txn /\ lost' = lost
    BY <1>3, <2>0, Zenon DEF Statement
  <2>2. r = "db" => /\ pend' = pend /\ lost' = (lost \/ (w /\ count > 0))
                    /\ \/ txn' = txn
                       \/ txn # "failed" /\ txn' = (IF txn = "open" THEN "failed" ELSE "none")
    BY <1>3, <2>0, Zenon DEF Statement
  <2>3. CASE r = ""  BY <1>0, <2>0, <2>1, <2>3, Zenon DEF Holding
  <2>4. CASE r = "db"
    <3>1. Holding'
      <4>1. pend' => pend /\ txn # "none"  BY <1>0, <2>2, <2>4, Zenon
      <4>2. txn # "none" /\ txn # "failed" => txn = "open"  BY <1>0
      <4> QED  BY <2>0, <2>2, <2>4, <4>1, <4>2, Zenon DEF Holding
    <3>2. count = 0 => lost' = lost  BY <1>0, <2>0, <2>2, <2>4, Zenon
    <3> QED  BY <2>0, <2>4, <3>1, <3>2, Zenon
  <2> QED  BY <2>3, <2>4
<1>4. ASSUME CheckNewMail \/ SynchronousFetch PROVE Holding' /\ (count = 0 => lost' = lost)
  <2>0. ("failed" # "none") /\ ("open" # "none")  OBVIOUS
  <2>1. CASE CheckNewMail
    <3>1. pend' = pend /\ lost' = lost /\ (txn' = txn \/ txn' = "failed")
      BY <2>1, Zenon DEF CheckNewMail
    <3> QED  BY <1>0, <2>0, <3>1, Zenon DEF Holding
  <2>2. CASE SynchronousFetch
    <3>1. CASE txn # "open"
      <4>1. txn' = txn /\ pend' = pend /\ lost' = lost  BY <2>2, <3>1, Zenon DEF SynchronousFetch
      <4> QED  BY <1>0, <4>1, Zenon DEF Holding
    <3>2. CASE txn = "open"
      <4>1. pend' = FALSE /\ count # 0  BY <1>0, <2>0, <2>2, <3>2, Zenon DEF SynchronousFetch
      <4> QED  BY <4>1, Zenon DEF Holding
    <3> QED  BY <3>1, <3>2
  <2> QED  BY <1>4, <2>1, <2>2
<1> QED  BY <1>1, <1>2, <1>3, <1>4, Zenon

-----------------------------------------------------------------------------
(* The steps of an honest handler.                                         *)
Trusted == Faults \subseteq {"sql"} /\ HonestCode(Roots)
Honest  == Safe /\ ToldOK /\ HonestRun
StaysHonest == ToldOK' /\ (proc' = "running" => HonestRun')

(* The frame that TopMoved speaks of.                                      *)
LEMMA MovedFrame ==
  ASSUME Stacked(stack), stack # <<>>, NEW pc \in Nat,
         Jump(pc) \/ (Executed /\ pc = Top.pc + 1)
  PROVE  \E fr \in Frames :
           /\ stack' = [stack EXCEPT ![Len(stack)] = fr]
           /\ fr.f = Top.f /\ fr.blk = Top.blk /\ fr.root = Top.root /\ fr.pc = pc
           /\ fr.wrote => Top.wrote \/ count > 0
<1>1. stack \in Seq(Frames) /\ Top \in Frames /\ Len(stack) \in Nat \ {0}
  BY TopFrame DEF Stacked
<1>2. CASE Jump(pc)
  <2> DEFINE fr == [Top EXCEPT !.pc = pc]
  <2>1. /\ fr \in Frames /\ fr.f = Top.f /\ fr.blk = Top.blk /\ fr.root = Top.root
        /\ fr.pc = pc /\ fr.wrote = Top.wrote
    BY <1>1 DEF Frames
  <2>2. stack' = [stack EXCEPT ![Len(stack)] = fr]
    BY <1>1, <1>2 DEF Jump, Top, Frames
  <2> HIDE DEF fr
  <2> QED  BY <2>1, <2>2, Zenon
<1>3. CASE Executed /\ pc = Top.pc + 1
  <2> DEFINE w  == Top.wrote \/ (Instr(Top).writes /\ count > 0)
             fr == [Top EXCEPT !.pc = pc, !.wrote = w]
  <2>1. w \in BOOLEAN /\ (w => Top.wrote \/ count > 0)  BY Zenon
  <2>2. stack' = [stack EXCEPT ![Len(stack)] = fr]
    BY <1>1, <1>3 DEF Executed, Top
  <2> HIDE DEF w
  <2>3. /\ fr \in Frames /\ fr.f = Top.f /\ fr.blk = Top.blk /\ fr.root = Top.root
        /\ fr.pc = pc /\ fr.wrote = w
    BY <1>1, <2>1 DEF Frames
  <2> HIDE DEF fr
  <2>4. fr.wrote => Top.wrote \/ count > 0  BY <2>1, <2>3
  <2> QED  BY <2>2, <2>3, <2>4, Zenon
<1> QED  BY <1>2, <1>3

LEMMA Onward ==
  ASSUME Safe, Tidy(stack, count), NEW op, At(op), NEW pc \in Nat,
         Jump(pc) \/ (Executed /\ pc = Top.pc + 1), Top.f \in Silent /\ count = 0 => count' = count
  PROVE  /\ Tidy(stack', count')
         /\ CleanStack(stack') =>
              Clean[Top.f][Top.blk][pc] /\ (CleanAt(Top) => CleanStack(stack))
         /\ WroteIn(stack') => WroteIn(stack) \/ count > 0
<1>1. Stacked(stack) /\ stack # <<>> /\ stack \in Seq(Frames) /\ Top \in Frames
  BY Running, Zenon DEF Safe, Stacked
<1>2. PICK fr \in Frames :
        /\ stack' = [stack EXCEPT ![Len(stack)] = fr]
        /\ fr.f = Top.f /\ fr.blk = Top.blk /\ fr.root = Top.root /\ fr.pc = pc
        /\ fr.wrote => Top.wrote \/ count > 0
  BY <1>1, MovedFrame, Zenon
<1>3. stack[1].f \in Silent => count' = count /\ ~fr.wrote
  <2> SUFFICES ASSUME stack[1].f \in Silent PROVE count' = count /\ ~fr.wrote
    OBVIOUS
  <2>1. count = 0 /\ Top.f \in Silent /\ ~Top.wrote  BY <1>1, TidyPop, Zenon
  <2>2. ~(count > 0)  BY <2>1
  <2> QED  BY <1>2, <2>1, <2>2, Zenon
<1>4. /\ Tidy(stack', count')
      /\ CleanStack(stack') => CleanAt(fr) /\ (CleanAt(stack[Len(stack)]) => CleanStack(stack))
      /\ WroteIn(stack') => fr.wrote \/ WroteIn(stack)
  <2>1. fr.f = stack[Len(stack)].f /\ fr.root = stack[Len(stack)].root  BY <1>2, Zenon DEF Top
  <2> QED  BY <1>1, <1>2, <1>3, <2>1, TidyReplace, Zenon
<1>5. Top.wrote => WroteIn(stack)  BY <1>1, TidyPop, Zenon
<1>6. CleanAt(fr) <=> Clean[Top.f][Top.blk][pc]  BY <1>2, Zenon DEF CleanAt
<1>7. Top = stack[Len(stack)]  BY DEF Top
<1> QED  BY <1>2, <1>4, <1>5, <1>6, <1>7, Zenon

LEMMA HonestTransaction ==
  ASSUME Trusted, Honest, DoBegin \/ DoCommit \/ DoRollback
  PROVE  StaysHonest
<1> DEFINE next == Top.pc + 1
<1>0. /\ ServerOK /\ SessionOK /\ Holding /\ Tidy(stack, count) /\ Settled /\ ToldOK
      /\ Safe /\ Faults \subseteq {"sql"} /\ HonestCode(Roots)
  BY Zenon DEF Honest, HonestRun, Safe, Trusted
<1>1. ASSUME NEW op, At(op)
      PROVE  count \in Nat /\ exc = "" /\ FrameOK(Top) /\ Instr(Top).op = op /\ next \in Nat
  <2>1. count \in Nat /\ exc = "" /\ FrameOK(Top) /\ Instr(Top).op = op /\ Top.pc \in Nat
    BY <1>0, <1>1, Running, Zenon
  <2> QED  BY <2>1, Differences, Zenon
<1>2. Advance => Jump(next)  BY DEF Advance
<1> HIDE DEF next
<1>3. CASE DoBegin
  <2>1. At("begin") /\ told' = (told /\ count' # 1)  BY <1>3, Zenon DEF DoBegin
  <2>2. PICK r \in {"", "db"} : BeginTransaction(r) /\ Continue(r, Instr(Top).kind)
    BY <1>3, Zenon DEF DoBegin
  <2>3. r = "" /\ Holding' /\ count' > 0
        /\ (count' = 1 => ~lost' /\ txn' # "failed")
        /\ (count' # 1 => count > 0 /\ lost' = lost /\ txn' = txn)
    BY <1>0, <1>1, <2>1, <2>2, Answers, HonestAnswers, Zenon
  <2>4. Jump(next)  BY <1>2, <2>2, <2>3, Zenon DEF Continue
  <2>5. Top.f \notin Silent /\ (Clean[Top.f][Top.blk][next] => CleanAt(Top))
    BY <1>0, <1>1, <2>1, HonestInstr, Zenon DEF next
  <2>6. /\ Tidy(stack', count')
        /\ CleanStack(stack') => CleanStack(stack)
    BY <1>0, <1>1, <2>1, <2>4, <2>5, Onward, Zenon
  <2>7. Settled'
    <3> SUFFICES ASSUME CleanStack(stack') PROVE ~lost' /\ txn' # "failed"
      BY Zenon DEF Settled
    <3>1. CASE count' = 1  BY <2>3, <3>1, Zenon
    <3>2. CASE count' # 1
      <4>1. ~lost /\ txn # "failed"  BY <1>0, <1>1, <2>1, <2>3, <2>6, <3>2, Zenon DEF Settled
      <4>2. lost' = lost /\ txn' = txn  BY <2>3, <3>2, Zenon
      <4> QED  BY <4>1, <4>2, Zenon
    <3> QED  BY <3>1, <3>2
  <2>8. ~told'
    <3>1. count' # 1 => count # 0
      <4>1. count \in Nat  BY <1>1, <2>1, Zenon
      <4> QED  BY <2>3, <4>1, Counting, Zenon
    <3> QED  BY <1>0, <2>1, <3>1, Zenon DEF ToldOK
  <2> QED  BY <2>3, <2>6, <2>7, <2>8, Zenon DEF StaysHonest, HonestRun, ToldOK
<1>4. CASE DoCommit \/ DoRollback
  <2>1. PICK op \in {"commit", "rollback"}, r \in {"", "db"} :
          /\ At(op) /\ Continue(r, "db") /\ told' = told
          /\ op = "commit" => CommitTransaction(r)
          /\ op = "rollback" => RollbackTransaction(r)
          /\ CommitTransaction(r) \/ RollbackTransaction(r)
    <3>1. "commit" # "rollback"  OBVIOUS
    <3> QED  BY <1>4, <3>1, Zenon DEF DoCommit, DoRollback
  <2>2. count > 0
    <3>1. /\ HeldBy(Top) > 0 /\ HeldBy(Top) \in Nat /\ Top.base \in Nat
          /\ count = Top.base + HeldBy(Top)
      BY <1>0, <2>1, Running, TypedInstr, Zenon
    <3> QED  BY <3>1, Differences, Zenon
  <2>3. r = "" /\ Holding'
        /\ (op = "commit" /\ ~lost /\ txn # "failed" => ~lost' /\ txn' # "failed")
    BY <1>0, <1>1, <2>1, <2>2, Answers, HonestAnswers, Zenon
  <2>4. Jump(next)  BY <1>2, <2>1, <2>3, Zenon DEF Continue
  <2>5. ~told' /\ ~told
    <3>1. count # 0
      <4>1. count \in Nat  BY <1>1, <2>1, Zenon
      <4> QED  BY <2>2, <4>1, Counting, Zenon
    <3> QED  BY <1>0, <2>1, <3>1, Zenon DEF ToldOK
  <2>6. count # 0 /\ (op = "commit" => (Clean[Top.f][Top.blk][next] => CleanAt(Top)))
        /\ (op = "rollback" => ~Clean[Top.f][Top.blk][next])
    <3>1. count # 0
      <4>1. count \in Nat  BY <1>1, <2>1, Zenon
      <4> QED  BY <2>2, <4>1, Counting, Zenon
    <3> QED  BY <1>0, <1>1, <2>1, <3>1, HonestInstr, Zenon DEF next
  <2>7. /\ Tidy(stack', count')
        /\ CleanStack(stack') => op = "commit" /\ CleanStack(stack)
    <3>1. /\ Tidy(stack', count')
          /\ CleanStack(stack') =>
               Clean[Top.f][Top.blk][next] /\ (CleanAt(Top) => CleanStack(stack))
      BY <1>0, <1>1, <2>1, <2>4, <2>6, Onward, Zenon
    <3> QED  BY <2>1, <2>6, <3>1, Zenon
  <2>8. Settled'
    <3> SUFFICES ASSUME CleanStack(stack') PROVE ~lost' /\ txn' # "failed"
      BY Zenon DEF Settled
    <3>1. op = "commit" /\ ~lost /\ txn # "failed"
      BY <1>0, <1>1, <2>1, <2>2, <2>7, Zenon DEF Settled
    <3> QED  BY <2>3, <3>1, Zenon
  <2> QED  BY <2>3, <2>5, <2>7, <2>8, Zenon DEF StaysHonest, HonestRun, ToldOK
<1> QED  BY <1>3, <1>4

LEMMA HonestStatement ==
  ASSUME Trusted, Honest, DoSql \/ DoQuiet
  PROVE  StaysHonest
<1> DEFINE next == Top.pc + 1
<1>0. /\ ServerOK /\ SessionOK /\ Holding /\ Tidy(stack, count) /\ Settled /\ ToldOK
      /\ Safe /\ Faults \subseteq {"sql"} /\ HonestCode(Roots)
  BY Zenon DEF Honest, HonestRun, Safe, Trusted
<1>1. PICK op \in {"sql", "quiet"}, r \in {"", "db"} :
        /\ At(op) /\ Executed /\ Statement(Instr(Top).writes, r)
        /\ count' = count /\ proc' = proc /\ told' = told
        /\ op = "sql" => exc' = (IF r = "" THEN "" ELSE Instr(Top).kind)
  <2>1. "sql" # "quiet"  OBVIOUS
  <2> QED  BY <2>1, Zenon DEF DoSql, DoQuiet
<1>2. /\ count \in Nat /\ exc = "" /\ FrameOK(Top) /\ Instr(Top).op = op /\ Top.pc \in Nat
      /\ op = "sql" => Instr(Top).kind \in Kinds
  BY <1>0, <1>1, Running, Zenon DEF WellFormed
<1>3. next \in Nat  BY <1>2, Differences, Zenon
<1>4. Holding' /\ (count = 0 => lost' = lost) /\ (r = "" => lost' = lost /\ txn' = txn)
  BY <1>0, <1>1, <1>2, HonestAnswers, Zenon
<1> HIDE DEF next
<1>5. /\ op = "sql" => (Clean[Top.f][Top.blk][next] => CleanAt(Top))
      /\ op = "quiet" => ~Clean[Top.f][Top.blk][next]
  BY <1>0, <1>2, HonestInstr, Zenon DEF next
<1>6. /\ Tidy(stack', count')
      /\ CleanStack(stack') => op = "sql" /\ CleanStack(stack)
      /\ WroteIn(stack') => WroteIn(stack) \/ count > 0
  <2>1. Executed /\ next = Top.pc + 1  BY <1>1, Zenon DEF next
  <2>2. /\ Tidy(stack', count')
        /\ CleanStack(stack') =>
             Clean[Top.f][Top.blk][next] /\ (CleanAt(Top) => CleanStack(stack))
        /\ WroteIn(stack') => WroteIn(stack) \/ count > 0
    BY <1>0, <1>1, <1>3, <2>1, Onward, Zenon
  <2> QED  BY <1>1, <1>5, <2>2, Zenon
<1>7. Settled'
  <2> SUFFICES ASSUME exc' = "", CleanStack(stack'), count' > 0 \/ WroteIn(stack')
               PROVE  ~lost' /\ txn' # "failed"
    BY Zenon DEF Settled
  <2>1. op = "sql" /\ CleanStack(stack) /\ (count > 0 \/ WroteIn(stack))
    BY <1>1, <1>6, Zenon
  <2>2. r = ""
    <3>1. "" \notin Kinds  BY DEF Kinds
    <3> QED  BY <1>1, <1>2, <2>1, <3>1, Zenon
  <2>3. ~lost /\ txn # "failed"  BY <1>0, <1>2, <2>1, Zenon DEF Settled
  <2>4. lost' = lost /\ txn' = txn  BY <1>4, <2>2, Zenon
  <2> QED  BY <2>3, <2>4, Zenon
<1>8. ToldOK'  BY <1>0, <1>1, <1>4, Zenon DEF ToldOK
<1> QED  BY <1>4, <1>6, <1>7, <1>8, Zenon DEF StaysHonest, HonestRun

LEMMA HonestCodeStep ==
  ASSUME Trusted, Honest, DoGoto \/ DoEvents \/ DoCall \/ DoThrow
  PROVE  StaysHonest
<1>0. /\ ServerOK /\ SessionOK /\ Holding /\ Tidy(stack, count) /\ Settled /\ ToldOK
      /\ Safe /\ Stacked(stack) /\ HonestCode(Roots)
  BY Zenon DEF Honest, HonestRun, Safe, Trusted
<1>1. /\ UNCHANGED session /\ told' = told /\ count' = count /\ lost' = lost /\ txn' = txn
      /\ pend' = pend /\ proc' = proc
  <2>1. UNCHANGED session /\ told' = told  BY Zenon DEF DoGoto, DoEvents, DoCall, DoThrow
  <2> QED  BY <2>1, Zenon DEF session, server
<1>2. Holding' /\ ToldOK'
  BY <1>0, <1>1, Zenon DEF Holding, ToldOK
<1>3. ASSUME NEW op, At(op)
      PROVE  count \in Nat /\ exc = "" /\ FrameOK(Top) /\ Instr(Top).op = op /\ stack # <<>>
  BY <1>0, <1>3, Running, Zenon
<1>4. ASSUME exc' # "" \/ (exc = "" /\ (CleanStack(stack') => CleanStack(stack))
                         /\ (WroteIn(stack') => WroteIn(stack) \/ count > 0))
      PROVE  Settled'
  BY <1>0, <1>1, <1>4, Zenon DEF Settled
<1>5. CASE DoGoto
  <2>1. PICK pc \in Instr(Top).to : At("goto") /\ Jump(pc)  BY <1>5, Zenon DEF DoGoto
  <2>2. pc \in Nat
    <3>1. /\ pc \in 1..Len(Program[Top.f][Top.blk]) /\ Top \in Frames /\ InCode(Top)
      BY <1>0, <2>1, Running, Zenon DEF WellFormed
    <3>2. Len(Program[Top.f][Top.blk]) \in Nat  BY <3>1, InstrWellFormed, Zenon
    <3> QED  BY <3>1, <3>2, Positions, Zenon
  <2>3. Clean[Top.f][Top.blk][pc] => CleanAt(Top)  BY <1>0, <1>3, <2>1, HonestInstr, Zenon
  <2>4. /\ Tidy(stack', count') /\ (CleanStack(stack') => CleanStack(stack))
        /\ WroteIn(stack') => WroteIn(stack) \/ count > 0
    BY <1>0, <1>1, <2>1, <2>2, <2>3, Onward, Zenon
  <2> QED  BY <1>1, <1>2, <1>3, <1>4, <2>1, <2>4, Zenon DEF StaysHonest, HonestRun
<1>6. CASE DoEvents
  <2>1. At("events")  BY <1>6, Zenon DEF DoEvents
  <2> QED  BY <1>0, <1>3, <2>1, HonestInstr, Zenon
<1>7. CASE DoCall
  <2> DEFINE fr == Frame(Instr(Top).f, FALSE)
  <2>1. At("call") /\ stack' = Append(stack, fr)  BY <1>7, Zenon DEF DoCall
  <2>2. fr \in Frames /\ ~fr.root /\ fr.f = Instr(Top).f /\ ~fr.wrote
    <3>1. Instr(Top).f \in DOMAIN Program  BY <1>3, <2>1, TypedInstr, Zenon
    <3>2. FALSE \in BOOLEAN  OBVIOUS
    <3>3. fr.wrote = FALSE  BY DEF Frame
    <3> HIDE DEF fr
    <3>4. fr \in Frames /\ fr.root = FALSE /\ fr.f = Instr(Top).f
      BY <1>0, <3>1, <3>2, NewFrame, Zenon DEF fr
    <3> QED  BY <3>3, <3>4
  <2> HIDE DEF fr
  <2>3. stack # <<>> /\ stack \in Seq(Frames)  BY <1>0, <1>3, <2>1, Zenon DEF Stacked
  <2>4. stack[1].f \in Silent => fr.f \in Silent
    <3>1. stack[1].f \in Silent => Top.f \in Silent  BY <1>0, <2>3, TidyPop, Zenon
    <3>2. Top.f \in Silent => Instr(Top).f \in Silent
      BY <1>0, <1>3, <2>1, HonestInstr, Zenon
    <3> QED  BY <2>2, <3>1, <3>2, Zenon
  <2>5. /\ Tidy(stack', count) /\ (CleanStack(stack') => CleanStack(stack))
        /\ WroteIn(stack') => WroteIn(stack)
    BY <1>0, <2>1, <2>2, <2>3, <2>4, TidyPush, Zenon
  <2>6. Tidy(stack', count')  BY <1>1, <2>5, Zenon
  <2> QED  BY <1>1, <1>2, <1>3, <1>4, <2>1, <2>5, <2>6, Zenon DEF StaysHonest, HonestRun
<1>8. CASE DoThrow
  <2>1. At("throw") /\ exc' = Instr(Top).kind /\ stack' = stack  BY <1>8, Zenon DEF DoThrow
  <2>2. exc' # ""
    <3>1. exc' \in Kinds  BY <1>0, <2>1, Running, Zenon DEF WellFormed
    <3> QED  BY <3>1 DEF Kinds
  <2>3. Tidy(stack', count')  BY <1>0, <1>1, <2>1, Zenon
  <2> QED  BY <1>2, <1>4, <2>2, <2>3, Zenon DEF StaysHonest, HonestRun
<1> QED  BY <1>5, <1>6, <1>7, <1>8

(* The caller goes on, with the result.                                    *)
LEMMA CallerMoves ==
  ASSUME Safe, DoReturn, ~Top.root
  PROVE  LET caller == stack[Len(stack) - 1]
             next == IF Instr(Top).val \/ Instr(caller).no = 0
                     THEN caller.pc + 1 ELSE Instr(caller).no
         IN /\ Below # <<>> /\ Below[Len(Below)] = caller /\ FrameOK(caller)
            /\ Instr(caller).op = "call" /\ Instr(caller).f = Top.f
            /\ \E fr \in Frames :
                 /\ stack' = [Below EXCEPT ![Len(Below)] = fr]
                 /\ fr.f = caller.f /\ fr.blk = caller.blk /\ fr.root = caller.root
                 /\ fr.pc = next
                 /\ fr.wrote => caller.wrote \/ Top.wrote
<1> DEFINE caller == stack[Len(stack) - 1]
           next   == IF Instr(Top).val \/ Instr(caller).no = 0
                     THEN caller.pc + 1 ELSE Instr(caller).no
           w      == caller.wrote \/ Top.wrote
           fr     == [caller EXCEPT !.pc = next, !.wrote = w]
<1>1. At("return")  BY Zenon DEF DoReturn
<1>2. Stacked(stack) /\ stack # <<>> /\ Chained(stack)  BY <1>1, Running, Zenon DEF Safe
<1>3. /\ Below # <<>> /\ Below[Len(Below)] = caller /\ caller \in Frames /\ FrameOK(caller)
      /\ Instr(caller).op = "call" /\ Instr(caller).f = Top.f /\ InCode(caller)
  BY <1>2, CallerWaits, CallerReady, Zenon
<1>4. stack' = [Below EXCEPT ![Len(stack) - 1].pc = next,
                             ![Len(stack) - 1].wrote = @ \/ Top.wrote]
  BY Zenon DEF DoReturn
<1> HIDE DEF caller
<1>5. next \in Nat
  <2>1. Holds(caller.f, caller.blk, next, HeldBy(caller))
    BY <1>3, TypedInstr, Zenon
  <2>2. /\ Len(Program[caller.f][caller.blk]) \in Nat
        /\ next \in 1..Len(Program[caller.f][caller.blk])
    <3> HIDE DEF next
    <3> QED  BY <1>3, <2>1, InstrWellFormed, Zenon DEF Holds
  <2> HIDE DEF next
  <2> QED  BY <2>2, Positions, Zenon
<1>6. w \in BOOLEAN /\ (w => caller.wrote \/ Top.wrote)  BY Zenon
<1>7. stack' = [Below EXCEPT ![Len(Below)] = fr]
  <2>1. Len(Below) = Len(stack) - 1 /\ Below \in Seq(Frames)
    BY <1>2, PopFrame, Zenon DEF Stacked
  <2> HIDE DEF next
  <2> QED  BY <1>3, <1>4, <2>1 DEF caller
<1> HIDE DEF next, w
<1>8. /\ fr \in Frames /\ fr.f = caller.f /\ fr.blk = caller.blk /\ fr.root = caller.root
      /\ fr.pc = next /\ fr.wrote = w
  BY <1>3, <1>5, <1>6 DEF Frames
<1> HIDE DEF fr
<1>9. fr.wrote => caller.wrote \/ Top.wrote  BY <1>6, <1>8
<1> QED  BY <1>3, <1>7, <1>8, <1>9, Zenon DEF caller, next

LEMMA HonestReturn ==
  ASSUME Trusted, Honest, DoReturn
  PROVE  StaysHonest
<1>0. /\ ServerOK /\ SessionOK /\ Holding /\ Tidy(stack, count) /\ Settled /\ ToldOK
      /\ Safe /\ Stacked(stack) /\ HonestCode(Roots)
  BY Zenon DEF Honest, HonestRun, Safe, Trusted
<1>1. /\ At("return") /\ exc' = exc /\ count' = count /\ lost' = lost /\ txn' = txn
      /\ pend' = pend /\ proc' = proc
  <2>1. At("return") /\ UNCHANGED session /\ exc' = exc  BY Zenon DEF DoReturn
  <2> QED  BY <2>1, Zenon DEF session, server
<1>2. /\ Holding' /\ stack # <<>> /\ Chained(stack) /\ exc = "" /\ FrameOK(Top)
      /\ Instr(Top).op = "return" /\ count = Top.base
  <2>1. /\ stack # <<>> /\ Chained(stack) /\ exc = "" /\ FrameOK(Top) /\ Top.base \in Nat
        /\ Instr(Top).op = "return" /\ count = Top.base + HeldBy(Top) /\ HeldBy(Top) = 0
    BY <1>0, <1>1, Running, TypedInstr, Zenon
  <2>2. \A b \in Nat : b + 0 = b  OBVIOUS
  <2> QED  BY <1>0, <1>1, <2>1, <2>2, Zenon DEF Holding
<1>3. /\ Tidy(Below, count)
      /\ CleanStack(Below) /\ CleanAt(Top) => CleanStack(stack)
      /\ WroteIn(Below) \/ Top.wrote => WroteIn(stack)
      /\ stack[1].f \in Silent => Top.f \in Silent /\ ~Top.wrote
      /\ Below # <<>> => Below[1] = stack[1]
  BY <1>0, <1>2, TidyPop, Zenon
<1>4. CASE Top.root
  <2>1. Below = <<>> /\ Top = stack[1]
    <3>1. Len(stack) \in Nat \ {0} /\ Len(Below) = Len(stack) - 1 /\ Below \in Seq(Frames)
      BY <1>0, <1>2, PopFrame, Zenon DEF Stacked
    <3>2. Len(stack) \notin 2..Len(stack)  BY <1>0, <1>4, Zenon DEF Tidy, Top
    <3>3. Len(stack) = 1
      <4> DEFINE n == Len(stack)
      <4>1. n \in Nat \ {0} /\ n \notin 2..n  BY <3>1, <3>2
      <4> HIDE DEF n
      <4>2. n = 1  BY <4>1
      <4> QED  BY <4>2 DEF n
    <3>4. Below = <<>>  BY <3>1, <3>3
    <3>5. Top = stack[1]  BY <3>3, Zenon DEF Top
    <3> QED  BY <3>4, <3>5
  <2>2. stack' = Below /\ told' = (told \/ (Instr(Top).val /\ Top.wrote))
    BY <1>4, Zenon DEF DoReturn
  <2>3. count = 0  BY <1>0, <1>2, <2>1, ChainPop, Zenon
  <2>4. Tidy(stack', count') /\ ~WroteIn(stack') /\ CleanStack(Below)
    <3>1. Len(Below) = 0  BY <2>1
    <3>2. 1..Len(Below) = {}  BY <3>1
    <3>3. ~WroteIn(Below) /\ CleanStack(Below)  BY <3>2 DEF WroteIn, CleanStack
    <3> QED  BY <1>1, <1>3, <2>2, <3>3, Zenon
  <2>5. Settled'
    <3>1. ~(count' > 0)  BY <1>1, <2>3, Counting, Zenon
    <3> QED  BY <2>4, <3>1, Zenon DEF Settled
  <2>6. ToldOK'
    <3>1. ASSUME Instr(Top).val, Top.wrote PROVE ~lost
      <4>1. Top.f \in Roots \ Silent
        <5>1. Top.f \in Roots  BY <1>0, <1>2, <1>4, RootFrame, Zenon
        <5>2. Top.f \notin Silent  BY <1>3, <2>1, <3>1, Zenon
        <5> QED  BY <5>1, <5>2
      <4>2. ReturnsClean(Top.f, TRUE)  BY <1>0, <4>1, Zenon DEF HonestCode
      <4>3. CleanStack(stack)  BY <1>2, <1>3, <2>4, <3>1, <4>2, CleanReturn, Zenon
      <4> QED  BY <1>0, <1>2, <1>3, <3>1, <4>3, Zenon DEF Settled
    <3> QED  BY <1>0, <1>1, <2>2, <2>3, <3>1, Zenon DEF ToldOK
  <2> QED  BY <1>2, <2>4, <2>5, <2>6, Zenon DEF StaysHonest, HonestRun
<1>5. CASE ~Top.root
  <2> DEFINE caller == stack[Len(stack) - 1]
             next   == IF Instr(Top).val \/ Instr(caller).no = 0
                       THEN caller.pc + 1 ELSE Instr(caller).no
  <2>1. /\ Below # <<>> /\ Below[Len(Below)] = caller /\ FrameOK(caller)
        /\ Instr(caller).op = "call" /\ Instr(caller).f = Top.f
        /\ \E fr \in Frames :
             /\ stack' = [Below EXCEPT ![Len(Below)] = fr]
             /\ fr.f = caller.f /\ fr.blk = caller.blk /\ fr.root = caller.root
             /\ fr.pc = next
             /\ fr.wrote => caller.wrote \/ Top.wrote
    BY <1>0, <1>5, CallerMoves, Zenon
  <2> HIDE DEF caller
  <2>2. PICK fr \in Frames :
             /\ stack' = [Below EXCEPT ![Len(Below)] = fr]
             /\ fr.f = caller.f /\ fr.blk = caller.blk /\ fr.root = caller.root
             /\ fr.pc = next
             /\ fr.wrote => caller.wrote \/ Top.wrote
    BY <2>1, Zenon
  <2>3. Clean[caller.f][caller.blk][next] => CleanAt(caller) /\ CleanAt(Top)
    <3>1. CASE Instr(Top).val
      BY <1>0, <1>2, <2>1, <3>1, HonestInstr, CleanReturn, Zenon
    <3>2. CASE ~Instr(Top).val /\ Instr(caller).no = 0
      BY <1>0, <1>2, <2>1, <3>2, HonestInstr, CleanReturn, Zenon
    <3>3. CASE ~Instr(Top).val /\ Instr(caller).no # 0
      BY <1>0, <1>2, <2>1, <3>3, HonestInstr, CleanReturn, Zenon
    <3> QED  BY <3>1, <3>2, <3>3, Zenon
  <2> HIDE DEF next
  <2>4. Below \in Seq(Frames)  BY <1>0, <1>2, PopFrame, Zenon DEF Stacked
  <2>5. /\ caller.wrote => WroteIn(Below)
        /\ Below[1].f \in Silent => count = 0 /\ ~caller.wrote
    BY <1>3, <2>1, <2>4, TidyTop, Zenon
  <2>6. /\ Tidy(stack', count)
        /\ CleanStack(stack') => CleanAt(fr) /\ (CleanAt(caller) => CleanStack(Below))
        /\ WroteIn(stack') => fr.wrote \/ WroteIn(Below)
    <3>1. Below[1].f \in Silent => count = count /\ ~fr.wrote
      BY <1>3, <2>1, <2>2, <2>5, Zenon
    <3>2. fr.f = Below[Len(Below)].f /\ fr.root = Below[Len(Below)].root
      BY <2>1, <2>2, Zenon
    <3> QED  BY <1>3, <2>1, <2>2, <2>4, <3>1, <3>2, TidyReplace, Zenon
  <2>7. CleanStack(stack') => CleanStack(stack)
    <3>1. CleanAt(fr) <=> Clean[caller.f][caller.blk][next]  BY <2>2, Zenon DEF CleanAt
    <3> QED  BY <1>3, <2>3, <2>6, <3>1, Zenon
  <2>8. WroteIn(stack') => WroteIn(stack)  BY <1>3, <2>2, <2>5, <2>6, Zenon
  <2>9. Settled'  BY <1>0, <1>1, <2>7, <2>8, Zenon DEF Settled
  <2>10. ToldOK'
    <3>1. told' = told  BY <1>5, Zenon DEF DoReturn
    <3> QED  BY <1>0, <1>1, <3>1, Zenon DEF ToldOK
  <2>11. Tidy(stack', count')  BY <1>1, <2>6, Zenon
  <2> QED  BY <1>2, <2>9, <2>10, <2>11, Zenon DEF StaysHonest, HonestRun
<1> QED  BY <1>4, <1>5

LEMMA HonestUnwind ==
  ASSUME Trusted, Honest, Unwind, StacksOK
  PROVE  StaysHonest
<1>0. /\ ServerOK /\ SessionOK /\ Holding /\ Tidy(stack, count) /\ ToldOK
      /\ Safe /\ Stacked(stack) /\ HonestCode(Roots)
  BY Zenon DEF Honest, HonestRun, Safe, Trusted
<1>1. /\ exc # "" /\ stack # <<>> /\ exc \in Kinds /\ told' = told /\ proc = "running"
  BY DEF Unwind, StacksOK
<1>2. Good  BY <1>0, <1>1, UnwindStep, Zenon
<1>3. CASE Top.blk = "body" /\ exc \in DOMAIN Program[Top.f]
  <2>1. /\ stack' = [stack EXCEPT ![Len(stack)].blk = exc, ![Len(stack)].pc = 1]
        /\ exc' = "" /\ UNCHANGED session
    BY <1>3, Zenon DEF Unwind
  <2>2. /\ count' = count /\ lost' = lost /\ txn' = txn /\ pend' = pend /\ proc' = proc
    BY <2>1, Zenon DEF session, server
  <2> DEFINE fr == [Top EXCEPT !.blk = exc, !.pc = 1]
  <2>3. stack \in Seq(Frames) /\ Top \in Frames /\ Len(stack) \in Nat \ {0}
    BY <1>0, <1>1, TopFrame DEF Stacked
  <2>4. stack' = [stack EXCEPT ![Len(stack)] = fr]  BY <2>1, <2>3 DEF Top
  <2>5. /\ fr \in Frames /\ fr.f = Top.f /\ fr.blk = exc /\ fr.pc = 1 /\ fr.root = Top.root
        /\ fr.wrote = Top.wrote /\ fr.base = Top.base
    <3>1. exc \in Blocks /\ 1 \in Nat  BY <1>1 DEF Blocks
    <3> QED  BY <2>3, <3>1 DEF Frames
  <2> HIDE DEF fr
  <2>6. ~CleanAt(fr)
    <3>1. /\ fr.f = stack[Len(stack)].f /\ fr.root = stack[Len(stack)].root
          /\ fr.base = stack[Len(stack)].base
      BY <2>5, Zenon DEF Top
    <3>2. Chained(stack)  BY <1>0, ControlParts, Zenon DEF Safe
    <3>3. stack' # <<>> /\ Top' = fr
      BY <1>0, <1>1, <2>4, <2>5, <3>1, <3>2, TopReplaced, Zenon
    <3>4. FrameOK(fr)
      <4>1. TopOK'  BY <1>1, <1>2, <2>2, Zenon DEF Good
      <4> QED  BY <2>1, <3>3, <4>1, ControlParts, Zenon DEF Ready
    <3>5. fr.blk # "body"  BY <1>1, <2>5 DEF Kinds
    <3> QED  BY <1>0, <2>5, <3>4, <3>5, HonestInstr, Zenon
  <2>7. Tidy(stack', count) /\ (CleanStack(stack') => CleanAt(fr))
    <3>1. stack[1].f \in Silent => count = count /\ ~fr.wrote
      <4>1. stack[1].f \in Silent => ~Top.wrote  BY <1>0, <1>1, TidyPop, Zenon
      <4> QED  BY <2>5, <4>1, Zenon
    <3>2. fr.f = stack[Len(stack)].f /\ fr.root = stack[Len(stack)].root
      BY <2>5, Zenon DEF Top
    <3> QED  BY <1>0, <1>1, <2>3, <2>4, <2>5, <3>1, <3>2, TidyReplace, Zenon
  <2>8. Settled'  BY <2>6, <2>7, Zenon DEF Settled
  <2>9. Holding' /\ ToldOK'  BY <1>0, <1>1, <2>2, Zenon DEF Holding, ToldOK
  <2>10. Tidy(stack', count')  BY <2>2, <2>7, Zenon
  <2> QED  BY <2>8, <2>9, <2>10, Zenon DEF StaysHonest, HonestRun
<1>4. CASE ~(Top.blk = "body" /\ exc \in DOMAIN Program[Top.f])
  <2>1. CASE Top.root
    <3>1. proc' = "terminated"  BY <1>4, <2>1, Zenon DEF Unwind, EndProcess
    <3>2. proc' # "running" /\ proc' # "quit"  BY <3>1
    <3> QED  BY <1>2, <3>2, Zenon DEF Good
  <2>2. CASE ~Top.root
    <3>1. stack' = Below /\ UNCHANGED session /\ exc' = exc  BY <1>4, <2>2, Zenon DEF Unwind
    <3>2. /\ count' = count /\ lost' = lost /\ txn' = txn /\ pend' = pend /\ proc' = proc
      BY <3>1, Zenon DEF session, server
    <3>3. Tidy(stack', count')  BY <1>0, <1>1, <3>1, <3>2, TidyPop, Zenon
    <3>4. Settled'  BY <1>1, <3>1, Zenon DEF Settled
    <3>5. Holding' /\ ToldOK'  BY <1>0, <1>1, <3>2, Zenon DEF Holding, ToldOK
    <3> QED  BY <3>3, <3>4, <3>5, Zenon DEF StaysHonest, HonestRun
  <2> QED  BY <2>1, <2>2
<1> QED  BY <1>3, <1>4

LEMMA HonestLoop ==
  ASSUME Trusted, Honest, Dismiss \/ Timer \/ SessionLost \/ \E f \in Roots : Start(f)
  PROVE  StaysHonest
<1>0. /\ ServerOK /\ SessionOK /\ Holding /\ Tidy(stack, count) /\ Settled /\ ToldOK
      /\ Safe /\ Stacked(stack) /\ HonestCode(Roots) /\ count \in Nat /\ TopOK
      /\ Faults \subseteq {"sql"}
  BY RunningCount, Zenon DEF Honest, HonestRun, Safe, Trusted
<1>1. stack # <<>> /\ exc = "" => FrameOK(Top)  BY <1>0, Zenon DEF TopOK
<1>2. stack = <<>> => count = 0 /\ ~(count > 0) /\ ~WroteIn(stack)
  <2> SUFFICES ASSUME stack = <<>> PROVE count = 0 /\ ~(count > 0) /\ ~WroteIn(stack)
    OBVIOUS
  <2>1. count = 0 /\ ~(count > 0)  BY <1>0, Counting, Zenon DEF TopOK
  <2>2. Len(stack) = 0  OBVIOUS
  <2>3. 1..Len(stack) = {}  BY <2>2
  <2> QED  BY <2>1, <2>3 DEF WroteIn
<1>3. count = 0 => ~pend  BY <1>0, Zenon DEF ServerOK, Holding
<1>4. CASE Dismiss
  <2>1. At("alert") /\ exc' = exc /\ told' = told /\ Ping
    BY <1>0, <1>4, Answers, Zenon DEF Dismiss
  <2>2. CASE Advance /\ UNCHANGED session
    <3>1. /\ count' = count /\ lost' = lost /\ txn' = txn /\ pend' = pend /\ proc' = proc
      BY <2>2, Zenon DEF session, server
    <3>2. /\ FrameOK(Top) /\ Instr(Top).op = "alert" /\ Top.pc \in Nat
      BY <1>0, <2>1, Running, Zenon
    <3>3. ~Clean[Top.f][Top.blk][Top.pc + 1]  BY <1>0, <3>2, HonestInstr, Zenon
    <3>4. Top.pc + 1 \in Nat /\ Jump(Top.pc + 1)  BY <2>2, <3>2, Differences, Zenon DEF Advance
    <3>5. Tidy(stack', count') /\ (CleanStack(stack') => Clean[Top.f][Top.blk][Top.pc + 1])
      BY <1>0, <2>1, <3>1, <3>4, Onward, Zenon
    <3>6. Settled'  BY <3>3, <3>5, Zenon DEF Settled
    <3>7. Holding' /\ ToldOK'  BY <1>0, <2>1, <3>1, Zenon DEF Holding, ToldOK
    <3> QED  BY <3>5, <3>6, <3>7, Zenon DEF StaysHonest, HonestRun
  <2>3. CASE EndProcess("quit") /\ UNCHANGED stack
    <3>1. count' = count /\ lost' = (lost \/ pend) /\ proc' = "quit"
      BY <2>3, Zenon DEF EndProcess
    <3>2. proc' # "running"  BY <3>1
    <3>3. ToldOK'  BY <1>0, <1>3, <2>1, <3>1, Zenon DEF ToldOK
    <3> QED  BY <3>2, <3>3, Zenon DEF StaysHonest
  <2> QED  BY <1>4, <2>1, <2>2, <2>3, Zenon DEF Dismiss
<1>5. CASE Timer
  <2>1. CheckNewMail \/ SynchronousFetch
    BY <1>0, <1>5, Answers, Zenon DEF Timer
  <2>2. /\ count' = count /\ proc' = proc /\ Holding' /\ (count = 0 => lost' = lost)
    BY <1>0, <2>1, Answers, HonestAnswers, Zenon
  <2>3. stack' = stack /\ exc' = exc /\ told' = told /\ EventLoop
    BY <1>5, Zenon DEF Timer
  <2>4. stack # <<>> => ~CleanStack(stack)
    <3> SUFFICES ASSUME stack # <<>> PROVE ~CleanStack(stack)
      OBVIOUS
    <3>1. Instr(Top).op \in {"alert", "events"} /\ exc = ""  BY <2>3, Zenon DEF EventLoop
    <3>2. ~CleanAt(Top)  BY <1>0, <1>1, <3>1, HonestInstr, Zenon
    <3>3. stack \in Seq(Frames)  BY <1>0, Zenon DEF Stacked
    <3> QED  BY <1>0, <3>2, <3>3, TidyTop, Zenon DEF Top
  <2>5. Settled'  BY <1>2, <2>2, <2>3, <2>4, Zenon DEF Settled
  <2>6. Tidy(stack', count')  BY <1>0, <2>2, <2>3, Zenon
  <2>7. ToldOK'  BY <1>0, <2>2, <2>3, Zenon DEF ToldOK
  <2> QED  BY <2>2, <2>5, <2>6, <2>7, Zenon DEF StaysHonest, HonestRun
<1>6. CASE SessionLost  BY <1>0, <1>6, Answers, Zenon DEF SessionLost
<1>7. ASSUME NEW f \in Roots, Start(f) PROVE StaysHonest
  <2>1. /\ EventLoop /\ stack' = Append(stack, Frame(f, TRUE)) /\ UNCHANGED session
        /\ exc' = exc /\ told' = told /\ exc = ""
        /\ stack # <<>> => Instr(Top).op = "events"
    BY <1>7, Zenon DEF Start, EventLoop
  <2>2. stack = <<>>  BY <1>0, <1>1, <2>1, HonestInstr, Zenon
  <2>3. /\ count' = count /\ lost' = lost /\ txn' = txn /\ pend' = pend /\ proc' = proc
    BY <2>1, Zenon DEF session, server
  <2> DEFINE fr == Frame(f, TRUE)
  <2>4. fr \in Frames /\ ~fr.wrote
    <3>1. f \in DOMAIN Program /\ TRUE \in BOOLEAN  BY ProgramAssumption
    <3>2. fr.wrote = FALSE  BY DEF Frame
    <3> HIDE DEF fr
    <3>3. fr \in Frames  BY <1>0, <3>1, NewFrame, Zenon DEF fr
    <3> QED  BY <3>2, <3>3
  <2> HIDE DEF fr
  <2>5. Tidy(stack', count) /\ (WroteIn(stack') => WroteIn(stack))
    <3>1. stack' = Append(stack, fr) /\ stack \in Seq(Frames)
      BY <1>0, <2>1, Zenon DEF fr, Stacked
    <3> QED  BY <1>0, <1>2, <2>2, <2>4, <3>1, TidyPush, Zenon
  <2>6. Settled'  BY <1>2, <2>2, <2>3, <2>5, Zenon DEF Settled
  <2>7. Tidy(stack', count') /\ Holding' /\ ToldOK'
    BY <1>0, <2>1, <2>3, <2>5, Zenon DEF Holding, ToldOK
  <2> QED  BY <2>6, <2>7, Zenon DEF StaysHonest, HonestRun
<1> QED  BY <1>4, <1>5, <1>6, <1>7

LEMMA HonestInit == Init => HonestInv
<1> SUFFICES ASSUME Init PROVE HonestInv
  OBVIOUS
<1>1. /\ told = FALSE /\ pend = FALSE /\ count = 0 /\ stack = <<>>
  BY Zenon DEF Init, SessionInit
<1>2. Len(stack) = 0  BY <1>1
<1>3. 1..Len(stack) = {} /\ 2..Len(stack) = {} /\ ~(count > 0)  BY <1>1, <1>2
<1>4. ToldOK /\ Holding  BY <1>1, Zenon DEF ToldOK, Holding
<1>5. Tidy(stack, count) /\ Settled  BY <1>1, <1>3, Zenon DEF Tidy, Settled, WroteIn
<1> QED  BY <1>4, <1>5, HonestParts, Zenon DEF HonestRun

LEMMA HonestStep == Trusted /\ Inv /\ HonestInv /\ [Next]_vars => HonestInv'
<1> SUFFICES ASSUME Trusted, Inv, HonestInv, [Next]_vars PROVE HonestInv'
  OBVIOUS
<1>1. CASE UNCHANGED vars
  <2>1. /\ proc' = proc /\ count' = count /\ lost' = lost /\ txn' = txn /\ pend' = pend
        /\ stack' = stack /\ exc' = exc /\ told' = told
    BY <1>1, Zenon DEF vars, session, server
  <2> QED  BY <2>1, Zenon DEF HonestInv, AllClean, Wrote, OneRoot, SilentStack
<1>2. CASE proc = "running" /\ Next
  <2>1. Honest /\ StacksOK
    BY <1>2, HonestParts, Zenon DEF Inv, IndInv, StacksOK, Safe, Honest
  <2>2. ~Ended  BY <1>2 DEF Ended
  <2>3. StaysHonest
    BY <1>2, <2>1, <2>2, HonestTransaction, HonestStatement, HonestCodeStep, HonestReturn,
       HonestUnwind, HonestLoop, Zenon DEF Next, Run
  <2> QED  BY <2>3, HonestParts, Zenon DEF StaysHonest
<1>3. CASE proc # "running" /\ Next
  <2>1. Ended
    BY <1>3 DEF Next, Run, DoBegin, DoCommit, DoRollback, DoSql, DoQuiet, DoGoto, DoCall,
       DoReturn, DoThrow, Unwind, DoEvents, Dismiss, Timer, SessionLost, Start, At, EventLoop
  <2> QED  BY <1>1, <2>1 DEF Ended
<1> QED  BY <1>1, <1>2, <1>3

(* Handlers that keep both disciplines tell their user the truth: when one *)
(* has said that it succeeded, nothing it had asked for in its transaction *)
(* was refused or rolled back, whatever statements fail, whatever the list *)
(* timer does inside its dialogs, and whether or not new results are       *)
(* incorporated by themselves.                                             *)
THEOREM Durability ==
  Faults \subseteq {"sql"} /\ HonestCode(Roots) /\ Spec => []SuccessIsDurable
<1> SUFFICES ASSUME Trusted PROVE Spec => []SuccessIsDurable
  BY DEF Trusted
<1>1. Init => HonestInv  BY HonestInit
<1>2. Inv /\ HonestInv /\ [Next]_vars => HonestInv'  BY HonestStep
<1>3. HonestInv => SuccessIsDurable  BY DEF HonestInv, SuccessIsDurable
<1>4. Spec => []Inv  BY AlwaysInv DEF Trusted
<1> QED  BY <1>1, <1>2, <1>3, <1>4, PTL DEF Spec
=============================================================================
