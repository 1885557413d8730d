-------------------------- MODULE TicketLock --------------------------
(***************************************************************************)
(* kern/spinlock.c with USE_TICKET_SPIN_LOCK: the ticket lock, one action  *)
(* per access to shared memory, with DEBUG_SPINLOCK's owner field.  The    *)
(* two counters are unsigned and wrap around; Tickets is 2^32 in the code  *)
(* and small here, so that they do.                                        *)
(***************************************************************************)
EXTENDS Integers, FiniteSets

CONSTANTS
    CPU,        (* the processors                                          *)
    NoCPU,      (* the null owner pointer                                  *)
    Tickets     (* the number of values of an unsigned: 2^32               *)

(* own # next must mean "held or waited for": with as many CPUs as ticket  *)
(* values a full line would look empty (NCPU is 8 in the code).            *)
ASSUME TicketLockAssumption ==
    /\ NoCPU \notin CPU
    /\ IsFiniteSet(CPU)
    /\ Tickets \in Nat
    /\ Cardinality(CPU) < Tickets

VARIABLES
    own,        (* lk->own: the ticket being served                        *)
    next,       (* lk->next: the ticket to hand out                        *)
    owner,      (* lk->cpu                                                 *)
    pc,         (* the next access of each CPU                             *)
    ticket      (* the CPU's local ticket; also what holding() read of own *)

vars == <<own, next, owner, pc, ticket>>

InLine(c) ==
    pc[c] \in {"spin", "setCpu", "critical", "unlockOwn", "unlockNext",
               "unlockCpu", "clearCpu", "free"}
Holding(c) == InLine(c) /\ pc[c] # "spin"

Goto(c, from, to) == pc[c] = from /\ pc' = [pc EXCEPT ![c] = to]

Init ==
    /\ own = 0
    /\ next = 0
    /\ owner = NoCPU
    /\ pc = [c \in CPU |-> "outside"]
    /\ ticket = [c \in CPU |-> 0]

(* spin_lock's check, lock->own != lock->next && lock->cpu == thiscpu.     *)
LockOwn(c) ==
    /\ Goto(c, "outside", "lockNext")
    /\ ticket' = [ticket EXCEPT ![c] = own]
    /\ UNCHANGED <<own, next, owner>>

LockNext(c) ==
    /\ Goto(c, "lockNext", IF ticket[c] # next THEN "lockCpu" ELSE "take")
    /\ UNCHANGED <<own, next, owner, ticket>>

LockCpu(c) ==
    /\ Goto(c, "lockCpu", IF owner = c THEN "panic" ELSE "take")
    /\ UNCHANGED <<own, next, owner, ticket>>

(* ticket = atomic_return_and_add(&lk->next, 1).                           *)
Take(c) ==
    /\ Goto(c, "take", "spin")
    /\ ticket' = [ticket EXCEPT ![c] = next]
    /\ next' = (next + 1) % Tickets
    /\ UNCHANGED <<own, owner>>

(* Mutant: waiting for any ticket up to the CPU's own, not for that one.   *)
SpinAtMost(c) ==
    /\ Goto(c, "spin", IF own <= ticket[c] THEN "setCpu" ELSE "spin")
    /\ UNCHANGED <<own, next, owner, ticket>>

(* while (atomic_return_and_add(&lk->own, 0) != ticket): one turn.         *)
Spin(c) ==
    /\ Goto(c, "spin", IF own = ticket[c] THEN "setCpu" ELSE "spin")
    /\ UNCHANGED <<own, next, owner, ticket>>

SetCpu(c) ==
    /\ Goto(c, "setCpu", "critical")
    /\ owner' = c
    /\ UNCHANGED <<own, next, ticket>>

(* The critical section ends; spin_unlock's check begins.                  *)
UnlockOwn(c) ==
    /\ Goto(c, "critical", "unlockNext")
    /\ ticket' = [ticket EXCEPT ![c] = own]
    /\ UNCHANGED <<own, next, owner>>

UnlockNext(c) ==
    /\ Goto(c, "unlockNext", IF ticket[c] # next THEN "unlockCpu" ELSE "panic")
    /\ UNCHANGED <<own, next, owner, ticket>>

UnlockCpu(c) ==
    /\ Goto(c, "unlockCpu", IF owner = c THEN "clearCpu" ELSE "panic")
    /\ UNCHANGED <<own, next, owner, ticket>>

ClearCpu(c) ==
    /\ Goto(c, "clearCpu", "free")
    /\ owner' = NoCPU
    /\ UNCHANGED <<own, next, ticket>>

(* Mutant: skips a ticket, whose owner then waits for ever.                *)
FreeTwice(c) ==
    /\ Goto(c, "free", "outside")
    /\ own' = (own + 2) % Tickets
    /\ UNCHANGED <<next, owner, ticket>>

(* atomic_return_and_add(&lk->own, 1).                                     *)
Free(c) ==
    /\ Goto(c, "free", "outside")
    /\ own' = (own + 1) % Tickets
    /\ UNCHANGED <<next, owner, ticket>>

Step(c) ==
    \/ LockNext(c) \/ LockCpu(c) \/ Take(c) \/ Spin(c) \/ SetCpu(c)
    \/ UnlockOwn(c) \/ UnlockNext(c) \/ UnlockCpu(c) \/ ClearCpu(c) \/ Free(c)

Next == \E c \in CPU : LockOwn(c) \/ Step(c)

Spec == Init /\ [][Next]_vars

(* A CPU in spin_lock, in the critical section or in spin_unlock keeps     *)
(* executing (interrupts are off); nothing makes it ask for the lock.      *)
FairSpec == Spec /\ \A c \in CPU : WF_vars(Step(c))

-----------------------------------------------------------------------------
TypeOK ==
    /\ own \in 0..(Tickets - 1)
    /\ next \in 0..(Tickets - 1)
    /\ owner \in CPU \cup {NoCPU}
    /\ pc \in [CPU -> {"outside", "lockNext", "lockCpu", "take", "spin",
                       "setCpu", "critical", "unlockNext", "unlockCpu",
                       "clearCpu", "free", "panic"}]
    /\ ticket \in [CPU -> 0..(Tickets - 1)]

(* A CPU that calls spin_lock gets the lock: it is never starved, and the  *)
(* racy reads of own, next and cpu in holding() never make it, or the CPU  *)
(* it waits for, panic, also when the counters have wrapped.               *)
NoStarvation ==
    \A c \in CPU : pc[c] = "lockNext" ~> pc[c] = "critical"

(* The tickets handed out and not served yet, and the CPU that has the     *)
(* i-th of them: its ticket, or own itself for the CPU being served.       *)
Outstanding == (next - own + Tickets) % Tickets
Turn(c) == IF Holding(c) THEN own ELSE ticket[c]
At(i) == {c \in CPU : InLine(c) /\ Turn(c) = (own + i - 1) % Tickets}

(* CPUs are served in the order of their tickets, across the wraparound.   *)
Fifo == INSTANCE FifoMutex WITH
    line <- [i \in 1..Outstanding |->
                IF At(i) = {} THEN NoCPU ELSE CHOOSE c \in CPU : c \in At(i)],
    inside <- \E c \in CPU : Holding(c)

ServedInOrder == Fifo!Spec
=======================================================================
