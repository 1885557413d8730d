-------------------------- MODULE FifoMutex ---------------------------
(***************************************************************************)
(* What a ticket lock promises on top of Mutex: the CPUs are served in the *)
(* order in which they took their tickets.                                 *)
(***************************************************************************)
EXTENDS Sequences

CONSTANTS CPU

VARIABLES
    line,       (* the CPUs that have a ticket, in the order of service    *)
    inside      (* TRUE when the first of them is in the critical section  *)

fifoVars == <<line, inside>>

Init == line = <<>> /\ inside = FALSE

TakeTicket(c) ==
    /\ \A i \in DOMAIN line : line[i] # c
    /\ line' = Append(line, c)
    /\ UNCHANGED inside

Serve ==
    /\ line # <<>>
    /\ ~inside
    /\ inside' = TRUE
    /\ UNCHANGED line

Leave ==
    /\ inside
    /\ inside' = FALSE
    /\ line' = Tail(line)

Next == Serve \/ Leave \/ \E c \in CPU : TakeTicket(c)

Spec == Init /\ [][Next]_fifoVars
=======================================================================
