---------------------------- MODULE BoundedQueue ----------------------------
(* What a mailbox of lwip/jos/arch/sys_arch.c promises the threads that use it *)
(* (lwip/include/lwip/sys.h 127-137): a queue of at most N messages.  A poster *)
(* is let in while there is room for its message, a fetcher while there is a   *)
(* message for it, and whoever was let in neither waits nor fails: it finds its*)
(* place or its message, and messages leave in the order they came.            *)
EXTENDS Naturals, Sequences

CONSTANTS N, Messages

VARIABLES
    q,      \* the messages, oldest first
    puts,   \* posters let in that have not put their message yet
    gets    \* fetchers let in that have not taken their message yet

vars == <<q, puts, gets>>

Init == q = <<>> /\ puts = 0 /\ gets = 0

LetInPoster  == Len(q) + puts < N /\ puts' = puts + 1 /\ UNCHANGED <<q, gets>>

Put(m)       == /\ puts > 0
                /\ puts' = puts - 1
                /\ q' = Append(q, m)
                /\ UNCHANGED gets

LetInFetcher == gets < Len(q) /\ gets' = gets + 1 /\ UNCHANGED <<q, puts>>

Get          == /\ gets > 0
                /\ gets' = gets - 1
                /\ q' = Tail(q)
                /\ UNCHANGED puts

Next == LetInPoster \/ LetInFetcher \/ Get \/ \E m \in Messages : Put(m)

Spec == Init /\ [][Next]_vars
=============================================================================
