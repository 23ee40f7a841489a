---------------------------- MODULE ConnectionLeases ---------------------------
(***************************************************************************)
(* What the pool of secondary connections promises to those who run        *)
(* queries beside the main thread: a connection is lent to one client at a *)
(* time, and a prompt client gives it back.  Nothing is said of flags,     *)
(* threads or timers.                                                      *)
(***************************************************************************)
CONSTANTS Clients,
          Prompt,       \* those that give back what they borrow
          Careless,     \* those that may lose the only pointer to a connection
          Connections,
          None

VARIABLES lease,        \* client -> the connection lent to it, or None
          lost,         \* the connections that nobody can give back
          program,      \* "runs" or "ended"
          faults        \* what may go wrong; fixed

leaseVars == <<lease, lost, program, faults>>

Free(s) == s \notin lost /\ \A c \in Clients : lease[c] # s

Init == /\ lease = [c \in Clients |-> None] /\ lost = {} /\ program = "runs"

Take(c) ==
  /\ program = "runs" /\ lease[c] = None
  /\ \E s \in Connections : Free(s) /\ lease' = [lease EXCEPT ![c] = s]
  /\ UNCHANGED <<lost, program, faults>>

GiveBack(c) ==
  /\ program = "runs" /\ lease[c] # None /\ lease' = [lease EXCEPT ![c] = None]
  /\ UNCHANGED <<lost, program, faults>>

(* Another connection is taken for the same client, or the program ends     *)
(* when there is none.                                                      *)
Lose(c) ==
  /\ program = "runs" /\ lease[c] # None /\ lost' = lost \cup {lease[c]}
  /\ \/ /\ \E s \in Connections : Free(s) /\ lease' = [lease EXCEPT ![c] = s]
        /\ program' = program
     \/ lease' = [lease EXCEPT ![c] = None] /\ program' = "ended"
  /\ faults' = faults

End == program = "runs" /\ program' = "ended" /\ UNCHANGED <<lease, lost, faults>>

Next == \/ \E c \in Clients : Take(c) \/ GiveBack(c)
        \/ \E c \in Careless : Lose(c)
        \/ End

Spec == /\ Init /\ [][Next]_leaseVars
        /\ \A c \in Prompt : WF_leaseVars(faults = {} /\ GiveBack(c))
=============================================================================
