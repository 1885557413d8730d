---------------------------- MODULE Mutex ----------------------------
(***************************************************************************)
(* What a kernel lock promises its callers: a CPU asks for it, at most one *)
(* CPU has it, and the CPU that has it gives it back.  SpinLock, the       *)
(* exchange lock the kernel is built with, is shown to implement it; what  *)
(* the ticket lock promises beyond this is FifoMutex.                      *)
(***************************************************************************)
CONSTANTS CPU, NoCPU

VARIABLES
    asking,     (* the CPUs inside spin_lock that do not have the lock yet *)
    holder      (* the CPU that has the lock, NoCPU when it is free        *)

mutexVars == <<asking, holder>>

Init == asking = {} /\ holder = NoCPU

Ask(c) ==
    /\ c \notin asking
    /\ holder # c
    /\ asking' = asking \cup {c}
    /\ UNCHANGED holder

Grant(c) ==
    /\ c \in asking
    /\ holder = NoCPU
    /\ holder' = c
    /\ asking' = asking \ {c}

GiveBack(c) ==
    /\ holder = c
    /\ holder' = NoCPU
    /\ UNCHANGED asking

Next == \E c \in CPU : Ask(c) \/ Grant(c) \/ GiveBack(c)

Spec == Init /\ [][Next]_mutexVars
=======================================================================
