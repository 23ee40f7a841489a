-------------------------- MODULE TransactionHandlers --------------------------
(***************************************************************************)
(* The handlers of the program running on the primary session.             *)
(*                                                                         *)
(* The main thread runs one handler at a time, but a handler that shows an *)
(* error dialog or calls processEvents gives the thread back to Qt's event *)
(* loop, which may run the list window's timer, and in the second case any *)
(* other handler, before the first one goes on.  So the thread is a stack  *)
(* of frames; a "root" frame is one that an event loop has started.        *)
(***************************************************************************)
EXTENDS PgSession, Sequences

CONSTANTS
  Program,          \* function name -> block name -> sequence of instructions
  Roots,            \* the functions the event loop starts
  UserEvents,       \* may another handler start inside processEvents?
  AutoRefresh,      \* the setting fetch/auto_refresh_messages_list, 0 if it is not set
  AutoIncorporate,  \* the setting fetch/auto_incorporate_new_results
  MaxFrames,        \* bound on the stack
  MaxCount          \* a handler starts only with at most this many begins open

(* The kinds of exceptions: a db_excpt, an app_exception, a QString or an  *)
(* int, and the db_excpt of a BEGIN that its catch clause can tell apart.  *)
Kinds  == {"db", "app", "str", "begin"}
Blocks == {"body"} \cup Kinds

(* Instruction p of a block of length n: its targets are in the block, and *)
(* only a return, a throw or a goto may be the last one.                   *)
WellFormed(i, p, n) ==
  /\ i.op \notin {"return", "throw", "goto"} => p < n
  /\ i.op \in {"begin", "sql", "throw"} => i.kind \in Kinds
  /\ i.op = "goto" => i.to \subseteq 1..n
  /\ i.op = "call" => i.f \in DOMAIN Program /\ i.no \in 0..n

ASSUME ProgramAssumption ==
  /\ Roots \subseteq DOMAIN Program
  /\ \A f \in DOMAIN Program :
       /\ "body" \in DOMAIN Program[f] /\ DOMAIN Program[f] \subseteq Blocks
       /\ \A b \in DOMAIN Program[f] :
            /\ Len(Program[f][b]) \in Nat \ {0}
            /\ \A p \in 1..Len(Program[f][b]) :
                 WellFormed(Program[f][b][p], p, Len(Program[f][b]))

ASSUME BoundAssumption ==
  /\ MaxFrames \in Nat /\ MaxCount \in Nat
  /\ UserEvents \in BOOLEAN /\ AutoIncorporate \in BOOLEAN /\ AutoRefresh \in Nat

VARIABLES
  stack,   \* the frames, the running one last
  exc,     \* the exception being thrown, or ""
  told     \* since the last top level begin, a handler with changes in the
           \* transaction has told its user that it succeeded

vars == <<session, stack, exc, told>>

(* Two fields are there for the properties: wrote, the frame has asked for *)
(* a change inside a transaction, and base, the count when it was entered. *)
Frame(f, root) == [f |-> f, blk |-> "body", pc |-> 1, root |-> root,
                   wrote |-> FALSE, base |-> count]
Instr(fr)      == Program[fr.f][fr.blk][fr.pc]
Top            == stack[Len(stack)]
Below          == SubSeq(stack, 1, Len(stack) - 1)

At(op)    == proc = "running" /\ exc = "" /\ stack # <<>> /\ Instr(Top).op = op
Jump(pc)  == stack' = [stack EXCEPT ![Len(stack)].pc = pc]
Advance   == Jump(Top.pc + 1)

(* After a call that threw r, or not ("").                                 *)
Continue(r, kind) ==
  IF r = "" THEN Advance /\ UNCHANGED exc ELSE exc' = kind /\ UNCHANGED stack

Init ==
  /\ SessionInit
  /\ stack = <<>> /\ exc = "" /\ told = FALSE

-----------------------------------------------------------------------------
(* The instructions.                                                       *)

DoBegin ==
  /\ At("begin")
  /\ \E r \in {"", "db"} : BeginTransaction(r) /\ Continue(r, Instr(Top).kind)
  /\ told' = (told /\ count' # 1)

DoCommit ==
  /\ At("commit")
  /\ \E r \in {"", "db"} : CommitTransaction(r) /\ Continue(r, "db")
  /\ UNCHANGED told

DoRollback ==
  /\ At("rollback")
  /\ \E r \in {"", "db"} : RollbackTransaction(r) /\ Continue(r, "db")
  /\ UNCHANGED told

(* The instruction under the pc is done.                                   *)
Executed ==
  stack' = [stack EXCEPT ![Len(stack)].pc = @ + 1,
                         ![Len(stack)].wrote = @ \/ (Instr(Top).writes /\ count > 0)]

DoSql ==
  /\ At("sql") /\ Executed
  /\ \E r \in {"", "db"} :
       /\ Statement(Instr(Top).writes, r)
       /\ exc' = (IF r = "" THEN "" ELSE Instr(Top).kind)
  /\ UNCHANGED <<count, proc, told>>

DoQuiet ==
  /\ At("quiet")
  /\ \E r \in {"", "db"} : Statement(Instr(Top).writes, r)
  /\ Executed
  /\ UNCHANGED <<count, proc, exc, told>>

DoGoto ==
  /\ At("goto")
  /\ \E pc \in Instr(Top).to : Jump(pc)
  /\ UNCHANGED <<session, exc, told>>

DoCall ==
  /\ At("call") /\ Len(stack) < MaxFrames
  /\ stack' = Append(stack, Frame(Instr(Top).f, FALSE))
  /\ UNCHANGED <<session, exc, told>>

(* A frame's caller goes on with the result; a root frame has none: what   *)
(* it returns is what the user is told.                                    *)
DoReturn ==
  /\ At("return")
  /\ LET val    == Instr(Top).val
         caller == stack[Len(stack) - 1]
         next   == IF val \/ Instr(caller).no = 0 THEN caller.pc + 1 ELSE Instr(caller).no
     IN IF Top.root
        THEN /\ stack' = Below
             /\ told' = (told \/ (val /\ Top.wrote))
        ELSE /\ stack' = [Below EXCEPT ![Len(stack) - 1].pc = next,
                                       ![Len(stack) - 1].wrote = @ \/ Top.wrote]
             /\ UNCHANGED told
  /\ UNCHANGED <<session, exc>>

DoThrow ==
  /\ At("throw")
  /\ exc' = Instr(Top).kind
  /\ UNCHANGED <<session, stack, told>>

(* The exception goes to the catch clause of its frame, or leaves it; one  *)
(* that leaves a root frame goes through Qt's event loop and ends the      *)
(* program.                                                                *)
Unwind ==
  /\ proc = "running" /\ exc # ""
  /\ IF Top.blk = "body" /\ exc \in DOMAIN Program[Top.f]
     THEN /\ stack' = [stack EXCEPT ![Len(stack)].blk = exc, ![Len(stack)].pc = 1]
          /\ exc' = "" /\ UNCHANGED session
     ELSE IF Top.root
     THEN EndProcess("terminated") /\ UNCHANGED <<stack, exc>>
     ELSE stack' = Below /\ UNCHANGED <<session, exc>>
  /\ UNCHANGED told

-----------------------------------------------------------------------------
(* The event loop.                                                         *)

EventLoop ==
  /\ proc = "running" /\ exc = ""
  /\ stack # <<>> => Instr(Top).op \in {"alert", "events"}

(* Bound: a handler that interrupts another one is not interrupted itself. *)
Interrupting == \E i \in 2..Len(stack) : stack[i].root

Start(f) ==
  /\ EventLoop /\ Len(stack) < MaxFrames /\ count <= MaxCount
  /\ stack # <<>> => UserEvents /\ Instr(Top).op = "events" /\ ~Interrupting
  /\ stack' = Append(stack, Frame(f, TRUE))
  /\ UNCHANGED <<session, exc, told>>

DoEvents ==
  /\ At("events") /\ Advance
  /\ UNCHANGED <<session, exc, told>>

(* db_error_dialog: continue, try to reconnect, or quit.                   *)
Dismiss ==
  /\ At("alert")
  /\ \/ Advance /\ UNCHANGED session
     \/ ~Ping /\ Reconnect /\ Advance
     \/ EndProcess("quit") /\ UNCHANGED stack
  /\ UNCHANGED <<exc, told>>

(* msg_list_window::timer_func, when its refresh is due: every so many      *)
(* minutes, or never.                                                      *)
Timer ==
  /\ EventLoop /\ AutoRefresh # 0
  /\ IF ~Ping THEN Reconnect
     ELSE IF AutoIncorporate THEN SynchronousFetch
     ELSE CheckNewMail
  /\ UNCHANGED <<stack, exc, told>>

SessionLost == proc = "running" /\ LoseSession /\ UNCHANGED <<stack, exc, told>>

Ended == proc # "running" /\ UNCHANGED vars

Run ==
  \/ DoBegin \/ DoCommit \/ DoRollback \/ DoSql \/ DoQuiet \/ DoGoto
  \/ DoCall \/ DoReturn \/ DoThrow \/ Unwind \/ DoEvents \/ Dismiss

Next == Run \/ (\E f \in Roots : Start(f)) \/ Timer \/ SessionLost \/ Ended

Spec == Init /\ [][Next]_vars

(* The thread runs, somebody answers its dialogs, and Qt runs the timer,   *)
(* between two handlers or inside a dialog, so that it pings again and     *)
(* again; but with AutoRefresh = 0 it never does, and the last conjunct    *)
(* asks for nothing.                                                       *)
FairSpec == Spec /\ WF_vars(Run) /\ SF_vars(Timer /\ ~Ping)

-----------------------------------------------------------------------------
(* Properties.                                                             *)

Frames == [f : DOMAIN Program, blk : Blocks, pc : Nat, root : BOOLEAN,
           wrote : BOOLEAN, base : Int]
InCode(fr) ==
  fr.blk \in DOMAIN Program[fr.f] /\ fr.pc \in 1..Len(Program[fr.f][fr.blk])

(* The count is negative only when end_transaction has stopped the program, *)
(* every frame is at an instruction of its code, and only a frame throws.  *)
TypeOK ==
  /\ SessionTypeOK
  /\ count < 0 => proc = "fatal"
  /\ stack \in Seq(Frames)
  /\ \A i \in 1..Len(stack) : InCode(stack[i])
  /\ exc \in {""} \cup Kinds /\ told \in BOOLEAN
  /\ exc # "" => stack # <<>>

(* Every function hands m_open_trans_count back as it found it, whatever   *)
(* path it took, so that no transaction is open when nothing runs.         *)
Balanced ==
  /\ At("return") => count = Top.base
  /\ stack = <<>> => count = 0

(* The program does not stop in end_transaction ("Fatal error:           *)
(* m_open_trans_count<0"), nor by an exception that leaves a handler.       *)
NoAbruptEnd == proc \notin {"fatal", "terminated"}

(* end_transaction never sees the count go below zero.                     *)
NeverFatal == proc # "fatal"

(* When a handler has told its user that a change was made, the change is  *)
(* not refused or rolled back, by itself or by the handler it interrupted. *)
SuccessIsDurable == ~(told /\ lost)

(* Of the changes asked for between a top level begin and its end, all     *)
(* become durable or none does, through errors that a nested handler has   *)
(* swallowed, dialogs, timers and a lost session.                          *)
AllOrNothing == ~(kept /\ lost)

(* Its inductive strengthening: while begins are counted nothing has been  *)
(* kept, and once a change is lost the server refuses whatever follows.    *)
AtomicInv ==
  /\ AllOrNothing
  /\ proc = "running" =>
       /\ pend => txn # "none"
       /\ link = "down" => txn = "none"
       /\ count = 0 => txn = "none"
       /\ count > 0 => /\ ~kept
                       /\ txn = "none" => link = "down"
                       /\ lost => txn = "failed" \/ link = "down"

(* No exception leaves a handler: its error is shown to the user.          *)
ErrorsAreShown == proc # "terminated"

(* A lost session is replaced, or the program ends, whatever the setting.  *)
SessionReturns == (link = "down") ~> (link = "up" \/ proc # "running")

(* Where the user has asked for refreshes, a lost session is replaced, or  *)
(* the program ends.                                                       *)
SessionRecovers == AutoRefresh # 0 => SessionReturns
=============================================================================
