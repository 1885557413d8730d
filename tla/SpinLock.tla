--------------------------- MODULE SpinLock ---------------------------
(***************************************************************************)
(* kern/spinlock.c as it is compiled: the exchange lock with               *)
(* DEBUG_SPINLOCK's owner field, one action per access to shared memory.   *)
(* The body of spinlock_test (kern/init.c) stands for the critical section,*)
(* so that what the lock protects is in the model too; the code compiles   *)
(* that test with the ticket lock only (TicketLock).                       *)
(*                                                                         *)
(* x86 keeps the order of a CPU's stores and xchg is a full barrier, so    *)
(* interleaving the accesses is the memory model this code needs.          *)
(***************************************************************************)
EXTENDS Integers

CONSTANTS
    CPU,        (* the processors                                          *)
    NoCPU,      (* the null owner pointer                                  *)
    Interval    (* increments per critical section: 10000 in the code      *)

ASSUME SpinLockAssumption ==
    /\ NoCPU \notin CPU
    /\ Interval \in Nat \ {0}

VARIABLES
    locked,     (* lk->locked                                              *)
    owner,      (* lk->cpu                                                 *)
    pc,         (* the next access of each CPU                             *)
    test_ctr,   (* test_ctr modulo Interval: all the test looks at         *)
    iter,       (* the CPU's counter of the inner loop                     *)
    reg         (* the register test_ctr++ loads into                      *)

vars == <<locked, owner, pc, test_ctr, iter, reg>>

(* Inside spin_lock, inside the critical section, inside spin_unlock.      *)
Acquiring == {"lockHeld", "lockCpu", "xchg"}
Body      == {"setCpu", "check", "load", "store"}
Releasing == {"unlockHeld", "unlockCpu", "clearCpu", "free"}

(* The CPUs between the exchange that took the lock and the one that frees *)
(* it, and those that have written the owner field and not cleared it.     *)
Holding(c) == pc[c] \in Body \cup Releasing \cup {"panicUnlock", "panicTest"}
Recorded(c) ==
    pc[c] \in (Body \ {"setCpu"})
              \cup {"unlockHeld", "unlockCpu", "clearCpu", "panicTest"}

Goto(c, from, to) == pc[c] = from /\ pc' = [pc EXCEPT ![c] = to]

Init ==
    /\ locked = 0
    /\ owner = NoCPU
    /\ pc = [c \in CPU |-> "outside"]
    /\ test_ctr = 0
    /\ iter = [c \in CPU |-> 0]
    /\ reg = [c \in CPU |-> 0]

(* spin_lock: the debugging check reads locked, then the owner.            *)
Enter(c) ==
    /\ Goto(c, "outside", "lockHeld")
    /\ UNCHANGED <<locked, owner, test_ctr, iter, reg>>

LockHeld(c) ==
    /\ Goto(c, "lockHeld", IF locked # 0 THEN "lockCpu" ELSE "xchg")
    /\ UNCHANGED <<locked, owner, test_ctr, iter, reg>>

LockCpu(c) ==
    /\ Goto(c, "lockCpu", IF owner = c THEN "panicLock" ELSE "xchg")
    /\ UNCHANGED <<locked, owner, test_ctr, iter, reg>>

(* Mutant: the value the exchange returns is not looked at.                *)
XchgUnchecked(c) ==
    /\ locked' = 1
    /\ Goto(c, "xchg", "setCpu")
    /\ UNCHANGED <<owner, test_ctr, iter, reg>>

(* while (xchg(&lk->locked, 1) != 0): one turn of the loop.                *)
Xchg(c) ==
    /\ locked' = 1
    /\ Goto(c, "xchg", IF locked = 0 THEN "setCpu" ELSE "xchg")
    /\ UNCHANGED <<owner, test_ctr, iter, reg>>

SetCpu(c) ==
    /\ Goto(c, "setCpu", "check")
    /\ owner' = c
    /\ UNCHANGED <<locked, test_ctr, iter, reg>>

(* spinlock_test: panics on a middle value, then Interval increments, each *)
(* of them a load and a store of the volatile counter.                     *)
Check(c) ==
    /\ Goto(c, "check", IF test_ctr # 0 THEN "panicTest" ELSE "load")
    /\ iter' = [iter EXCEPT ![c] = 0]
    /\ UNCHANGED <<locked, owner, test_ctr, reg>>

Load(c) ==
    /\ Goto(c, "load", "store")
    /\ reg' = [reg EXCEPT ![c] = test_ctr]
    /\ UNCHANGED <<locked, owner, test_ctr, iter>>

Store(c) ==
    /\ Goto(c, "store", IF iter[c] + 1 < Interval THEN "load" ELSE "unlockHeld")
    /\ test_ctr' = (reg[c] + 1) % Interval
    /\ iter' = [iter EXCEPT ![c] = @ + 1]
    /\ UNCHANGED <<locked, owner, reg>>

(* spin_unlock: the same check, the owner cleared before the word.         *)
UnlockHeld(c) ==
    /\ Goto(c, "unlockHeld", IF locked # 0 THEN "unlockCpu" ELSE "panicUnlock")
    /\ UNCHANGED <<locked, owner, test_ctr, iter, reg>>

(* Mutant: the word freed before the owner field is cleared.               *)
UnlockCpuSwapped(c) ==
    /\ Goto(c, "unlockCpu", IF owner = c THEN "clearCpu" ELSE "panicUnlock")
    /\ locked' = IF owner = c THEN 0 ELSE locked
    /\ UNCHANGED <<owner, test_ctr, iter, reg>>

UnlockCpu(c) ==
    /\ Goto(c, "unlockCpu", IF owner = c THEN "clearCpu" ELSE "panicUnlock")
    /\ UNCHANGED <<locked, owner, test_ctr, iter, reg>>

ClearCpu(c) ==
    /\ Goto(c, "clearCpu", "free")
    /\ owner' = NoCPU
    /\ UNCHANGED <<locked, test_ctr, iter, reg>>

(* Mutant: the exchange of the release stores the wrong value.             *)
FreeNothing(c) ==
    /\ Goto(c, "free", "outside")
    /\ locked' = 1
    /\ UNCHANGED <<owner, test_ctr, iter, reg>>

Free(c) ==
    /\ Goto(c, "free", "outside")
    /\ locked' = 0
    /\ UNCHANGED <<owner, test_ctr, iter, reg>>

Step(c) ==
    \/ LockHeld(c) \/ LockCpu(c) \/ Xchg(c) \/ SetCpu(c)
    \/ Check(c) \/ Load(c) \/ Store(c)
    \/ UnlockHeld(c) \/ UnlockCpu(c) \/ ClearCpu(c) \/ Free(c)

Next == \E c \in CPU : Enter(c) \/ Step(c)

Spec == Init /\ [][Next]_vars

(* A CPU that has called spin_lock keeps executing: interrupts are off in  *)
(* the kernel.  Nothing makes it call spin_lock in the first place.        *)
FairSpec == Spec /\ \A c \in CPU : WF_vars(Step(c))

-----------------------------------------------------------------------------
TypeOK ==
    /\ locked \in {0, 1}
    /\ owner \in CPU \cup {NoCPU}
    /\ pc \in [CPU -> {"outside", "panicLock", "panicUnlock", "panicTest"}
                      \cup Acquiring \cup Body \cup Releasing]
    /\ test_ctr \in 0..(Interval - 1)
    /\ iter \in [CPU -> 0..Interval]
    /\ reg \in [CPU -> 0..(Interval - 1)]

(* At most one CPU is between the exchange that takes the lock and the one *)
(* that releases it: the big kernel lock really serializes the kernel.     *)
MutualExclusion ==
    \A c, d \in CPU : Holding(c) /\ Holding(d) => c = d

(* holding() reads two words another CPU is changing, and still is never   *)
(* wrong about the CPU that asks: neither "already holding" nor "cannot    *)
(* release" is ever reported by a CPU that uses the lock properly.         *)
NoFalsePanic ==
    \A c \in CPU : pc[c] \notin {"panicLock", "panicUnlock"}

(* spinlock_test never sees a middle value of the counter the lock guards. *)
NoMiddleValue ==
    \A c \in CPU : pc[c] # "panicTest"

(* The owner field names the holder, except in the two windows where the   *)
(* lock is held and the field is not written yet or cleared already.       *)
OwnerIsHolder ==
    \A c \in CPU : Recorded(c) <=> owner = c

(* While somebody spins, somebody wins the exchange again and again: a CPU *)
(* that kept the lock for good, a release that is never seen or spinning   *)
(* CPUs that only see each other's exchanges would all end this.  (No      *)
(* single CPU is promised its turn.)                                       *)
LockProgress ==
    (\E c \in CPU : pc[c] \in Acquiring) ~> (\E c \in CPU : pc[c] = "setCpu")

(* The lock implements the mutex: a CPU has it from the exchange that      *)
(* returned 0 to the exchange that stored 0.                               *)
Abstract == INSTANCE Mutex WITH
    asking <- {c \in CPU : pc[c] \in Acquiring \cup {"panicLock"}},
    holder <- IF \E c \in CPU : Holding(c)
              THEN CHOOSE c \in CPU : Holding(c) ELSE NoCPU

ImplementsMutex == Abstract!Spec
=======================================================================
