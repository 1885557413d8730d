------------------------ MODULE SpinLockProofs ------------------------
(***************************************************************************)
(* Theorems about SpinLock, for every number of CPUs and every Interval.   *)
(* The safety properties hold because of one inductive invariant, LockInv: *)
(* it adds to them that the word is set exactly while somebody holds the   *)
(* lock, and what the counter of spinlock_test is at each point of the     *)
(* loop that increments it.                                                *)
(***************************************************************************)
EXTENDS SpinLock, TLAPS

LockedIffHeld == locked = 1 <=> \E c \in CPU : Holding(c)

(* The counter is zero outside the loop, and equal to the number of turns  *)
(* the CPU in the loop has done.                                           *)
CounterInLoop ==
    /\ \A c \in CPU : pc[c] \in {"load", "store"} =>
            /\ iter[c] < Interval
            /\ test_ctr = iter[c]
    /\ \A c \in CPU : pc[c] = "store" => reg[c] = test_ctr
    /\ (\A c \in CPU : pc[c] \notin {"load", "store"}) => test_ctr = 0

LockInv ==
    /\ TypeOK
    /\ LockedIffHeld
    /\ MutualExclusion
    /\ OwnerIsHolder
    /\ NoFalsePanic
    /\ NoMiddleValue
    /\ CounterInLoop

USE SpinLockAssumption

LEMMA Remainder ==
    ASSUME NEW n \in Nat \ {0}, NEW i \in 0..n
    PROVE  /\ i < n => i % n = i
           /\ i = n => i % n = 0
  BY Z3

(* The states Init allows satisfy the invariant.                           *)
LEMMA LockInvInit == Init => LockInv
  BY DEF Init, LockInv, TypeOK, LockedIffHeld, MutualExclusion, OwnerIsHolder,
         NoFalsePanic, NoMiddleValue, CounterInLoop, Holding, Recorded,
         Acquiring, Body, Releasing

LEMMA TypeStep == LockInv /\ [Next]_vars => TypeOK'
  <1> SUFFICES ASSUME LockInv, [Next]_vars PROVE TypeOK'
    OBVIOUS
  <1> USE DEF LockInv, TypeOK, Acquiring, Body, Releasing, Goto
  <1>1. CASE UNCHANGED vars
    BY <1>1 DEF vars
  <1>2. ASSUME NEW c \in CPU, Enter(c) \/ LockHeld(c) \/ LockCpu(c)
        PROVE  TypeOK'
    BY <1>2 DEF Enter, LockHeld, LockCpu
  <1>3. ASSUME NEW c \in CPU, Xchg(c) \/ SetCpu(c) \/ Check(c) \/ Load(c)
        PROVE  TypeOK'
    BY <1>3 DEF Xchg, SetCpu, Check, Load
  <1>4. ASSUME NEW c \in CPU, Store(c)
        PROVE  TypeOK'
    <2>1. iter[c] < Interval /\ reg[c] + 1 \in 0..Interval
      BY <1>4 DEF Store, CounterInLoop
    <2>2. (reg[c] + 1) % Interval \in 0..(Interval - 1)
      BY <2>1, Remainder
    <2> QED
      BY <1>4, <2>1, <2>2 DEF Store
  <1>5. ASSUME NEW c \in CPU,
               UnlockHeld(c) \/ UnlockCpu(c) \/ ClearCpu(c) \/ Free(c)
        PROVE  TypeOK'
    BY <1>5 DEF UnlockHeld, UnlockCpu, ClearCpu, Free
  <1> QED
    BY <1>1, <1>2, <1>3, <1>4, <1>5 DEF Next, Step

(* Holders, and with them the word, change in the exchange that reads 0    *)
(* and in the store that frees the lock, and nowhere else.                 *)
LEMMA HolderStep ==
    LockInv /\ [Next]_vars => LockedIffHeld' /\ MutualExclusion'
  <1> SUFFICES ASSUME LockInv, [Next]_vars
               PROVE  LockedIffHeld' /\ MutualExclusion'
    OBVIOUS
  <1> USE DEF LockInv, TypeOK, LockedIffHeld, MutualExclusion, Holding,
              Acquiring, Body, Releasing, Goto
  <1>1. CASE UNCHANGED vars
    BY <1>1 DEF vars
  <1>2. ASSUME NEW c \in CPU, Enter(c) \/ LockHeld(c) \/ LockCpu(c)
        PROVE  LockedIffHeld' /\ MutualExclusion'
    <2>1. UNCHANGED locked /\ \A d \in CPU : Holding(d)' <=> Holding(d)
      BY <1>2 DEF Enter, LockHeld, LockCpu
    <2> QED
      BY <2>1
  <1>3. ASSUME NEW c \in CPU, Xchg(c)
        PROVE  LockedIffHeld' /\ MutualExclusion'
    <2>1. CASE locked = 0
      BY <1>3, <2>1 DEF Xchg
    <2>2. CASE locked = 1
      BY <1>3, <2>2 DEF Xchg
    <2> QED
      BY <2>1, <2>2
  <1>4. ASSUME NEW c \in CPU,
               \/ SetCpu(c) \/ Check(c) \/ Load(c) \/ Store(c)
               \/ UnlockHeld(c) \/ UnlockCpu(c) \/ ClearCpu(c)
        PROVE  LockedIffHeld' /\ MutualExclusion'
    <2>1. UNCHANGED locked /\ \A d \in CPU : Holding(d)' <=> Holding(d)
      BY <1>4 DEF SetCpu, Check, Load, Store, UnlockHeld, UnlockCpu, ClearCpu
    <2> QED
      BY <2>1
  <1>5. ASSUME NEW c \in CPU, Free(c)
        PROVE  LockedIffHeld' /\ MutualExclusion'
    BY <1>5 DEF Free
  <1> QED
    BY <1>1, <1>2, <1>3, <1>4, <1>5 DEF Next, Step

(* What holding() needs: the field names the CPU that recorded itself, and *)
(* a CPU that unlocks finds the word set and its own name in the field.    *)
LEMMA OwnerStep ==
    LockInv /\ [Next]_vars => OwnerIsHolder' /\ NoFalsePanic'
  <1> SUFFICES ASSUME LockInv, [Next]_vars
               PROVE  OwnerIsHolder' /\ NoFalsePanic'
    OBVIOUS
  <1> USE DEF LockInv, TypeOK, LockedIffHeld, MutualExclusion, OwnerIsHolder,
              NoFalsePanic, Holding, Recorded, Acquiring, Body, Releasing, Goto
  <1>1. CASE UNCHANGED vars
    BY <1>1 DEF vars
  <1>2. ASSUME NEW c \in CPU, Enter(c) \/ LockHeld(c) \/ LockCpu(c) \/ Xchg(c)
        PROVE  OwnerIsHolder' /\ NoFalsePanic'
    BY <1>2 DEF Enter, LockHeld, LockCpu, Xchg
  <1>3. ASSUME NEW c \in CPU, SetCpu(c)
        PROVE  OwnerIsHolder' /\ NoFalsePanic'
    BY <1>3 DEF SetCpu
  <1>4. ASSUME NEW c \in CPU, Check(c) \/ Load(c) \/ Store(c)
        PROVE  OwnerIsHolder' /\ NoFalsePanic'
    BY <1>4 DEF Check, Load, Store
  <1>5. ASSUME NEW c \in CPU, UnlockHeld(c) \/ UnlockCpu(c)
        PROVE  OwnerIsHolder' /\ NoFalsePanic'
    BY <1>5 DEF UnlockHeld, UnlockCpu
  <1>6. ASSUME NEW c \in CPU, ClearCpu(c) \/ Free(c)
        PROVE  OwnerIsHolder' /\ NoFalsePanic'
    BY <1>6 DEF ClearCpu, Free
  <1> QED
    BY <1>1, <1>2, <1>3, <1>4, <1>5, <1>6 DEF Next, Step

(* Only a holder is in the loop, so only its turns count.                  *)
LEMMA CounterStep ==
    LockInv /\ [Next]_vars => CounterInLoop' /\ NoMiddleValue'
  <1> SUFFICES ASSUME LockInv, [Next]_vars
               PROVE  CounterInLoop' /\ NoMiddleValue'
    OBVIOUS
  <1> USE DEF LockInv, TypeOK, MutualExclusion, NoMiddleValue, CounterInLoop,
              Holding, Acquiring, Body, Releasing, Goto
  <1>1. CASE UNCHANGED vars
    BY <1>1 DEF vars
  <1>2. ASSUME NEW c \in CPU,
               Enter(c) \/ LockHeld(c) \/ LockCpu(c) \/ Xchg(c) \/ SetCpu(c)
        PROVE  CounterInLoop' /\ NoMiddleValue'
    BY <1>2 DEF Enter, LockHeld, LockCpu, Xchg, SetCpu
  <1>3. ASSUME NEW c \in CPU, Check(c)
        PROVE  CounterInLoop' /\ NoMiddleValue'
    <2>1. \A d \in CPU : pc[d] \notin {"load", "store"}
      BY <1>3 DEF Check
    <2> QED
      BY <1>3, <2>1 DEF Check
  <1>4. ASSUME NEW c \in CPU, Load(c)
        PROVE  CounterInLoop' /\ NoMiddleValue'
    BY <1>4 DEF Load
  <1>5. ASSUME NEW c \in CPU, Store(c)
        PROVE  CounterInLoop' /\ NoMiddleValue'
    <2>1. iter[c] < Interval /\ reg[c] = iter[c] /\ iter[c] + 1 \in 0..Interval
      BY <1>5 DEF Store
    <2>2. \A d \in CPU : d # c => pc[d] \notin {"load", "store"}
      BY <1>5 DEF Store
    <2>3. CASE iter[c] + 1 < Interval
      <3>1. test_ctr' = iter[c] + 1
        BY <1>5, <2>1, <2>3, Remainder DEF Store
      <3> QED
        BY <1>5, <2>1, <2>2, <2>3, <3>1 DEF Store
    <2>4. CASE iter[c] + 1 = Interval
      <3>1. test_ctr' = 0
        BY <1>5, <2>1, <2>4, Remainder DEF Store
      <3> QED
        BY <1>5, <2>1, <2>2, <2>4, <3>1, SMTT(30) DEF Store
    <2> QED
      BY <2>1, <2>3, <2>4
  <1>6. ASSUME NEW c \in CPU,
               UnlockHeld(c) \/ UnlockCpu(c) \/ ClearCpu(c) \/ Free(c)
        PROVE  CounterInLoop' /\ NoMiddleValue'
    BY <1>6 DEF UnlockHeld, UnlockCpu, ClearCpu, Free
  <1> QED
    BY <1>1, <1>2, <1>3, <1>4, <1>5, <1>6 DEF Next, Step

(* Every execution satisfies the invariant.                                *)
THEOREM LockInvariant == Spec => []LockInv
  <1>1. LockInv /\ [Next]_vars => LockInv'
    BY TypeStep, HolderStep, OwnerStep, CounterStep DEF LockInv
  <1> QED
    BY LockInvInit, <1>1, PTL DEF Spec

(* The words, fields and counters keep their types: in particular the word *)
(* is only ever 0 or 1 and the counter never leaves its range.             *)
THEOREM LockTypes == Spec => []TypeOK
  BY LockInvariant, PTL DEF LockInv

(* spin_lock and spin_unlock serialize whatever number of CPUs.            *)
THEOREM LockExcludes == Spec => []MutualExclusion
  BY LockInvariant, PTL DEF LockInv

(* The owner field is right outside its two windows, and the assertions of *)
(* DEBUG_SPINLOCK never fire on a CPU that pairs its calls.                *)
THEOREM LockOwner == Spec => []OwnerIsHolder /\ []NoFalsePanic
  BY LockInvariant, PTL DEF LockInv

(* spinlock_test passes, for any number of CPUs and any interval.          *)
THEOREM LockTestPasses == Spec => []NoMiddleValue
  BY LockInvariant, PTL DEF LockInv

-----------------------------------------------------------------------------
(* The lock implements the mutex.  Under the mapping the exchange that     *)
(* reads 0 is Grant and the store of 0 is GiveBack.                        *)
Asking == {c \in CPU : pc[c] \in Acquiring \cup {"panicLock"}}
Holder == IF \E c \in CPU : Holding(c)
          THEN CHOOSE c \in CPU : Holding(c) ELSE NoCPU

HolderNamed ==
    /\ \A c \in CPU : Holding(c) <=> Holder = c
    /\ (\A c \in CPU : ~Holding(c)) => Holder = NoCPU

LEMMA HolderIsUnique == MutualExclusion => HolderNamed
  <1> SUFFICES ASSUME MutualExclusion PROVE HolderNamed
    OBVIOUS
  <1>1. ASSUME NEW c \in CPU, Holding(c) PROVE Holder = c
    <2>1. Holder \in CPU /\ Holding(Holder)
      BY <1>1 DEF Holder
    <2> QED
      BY <1>1, <2>1 DEF MutualExclusion
  <1>2. (\A c \in CPU : ~Holding(c)) => Holder = NoCPU
    BY DEF Holder
  <1>3. ASSUME NEW c \in CPU, Holder = c PROVE Holding(c)
    BY <1>2, <1>3 DEF Holder
  <1> QED
    BY <1>1, <1>2, <1>3 DEF HolderNamed

LEMMA HolderInit == Init => Abstract!Init
  <1> SUFFICES ASSUME Init PROVE Abstract!Init
    OBVIOUS
  <1>1. Asking = {} /\ \A c \in CPU : ~Holding(c)
    BY DEF Init, Asking, Acquiring, Body, Releasing, Holding
  <1>2. Holder = NoCPU
    BY <1>1 DEF Holder
  <1> QED
    BY <1>1, <1>2 DEF Abstract!Init, Asking, Holder

LEMMA MutexStep ==
    LockInv /\ LockInv' /\ [Next]_vars => [Abstract!Next]_(Abstract!mutexVars)
  <1> DEFINE AskStep(c)   == /\ c \notin Asking /\ Holder # c
                             /\ Asking' = Asking \cup {c} /\ Holder' = Holder
             GrantStep(c) == /\ c \in Asking /\ Holder = NoCPU
                             /\ Holder' = c /\ Asking' = Asking \ {c}
             GiveStep(c)  == /\ Holder = c /\ Holder' = NoCPU
                             /\ Asking' = Asking
             Stutter      == Asking' = Asking /\ Holder' = Holder
  <1> SUFFICES ASSUME LockInv, LockInv', [Next]_vars
               PROVE  \/ \E c \in CPU : AskStep(c) \/ GrantStep(c) \/ GiveStep(c)
                      \/ Stutter
    BY DEF Abstract!Next, Abstract!Ask, Abstract!Grant, Abstract!GiveBack,
           Abstract!mutexVars, Asking, Holder
  <1>1. HolderNamed /\ HolderNamed'
    <2>1. MutualExclusion /\ MutualExclusion'
      BY DEF LockInv
    <2> QED
      BY <2>1, HolderIsUnique, PTL
  <1>2. (\A d \in CPU : Holding(d)' <=> Holding(d)) => Holder' = Holder
    BY DEF Holder
  <1> HIDE DEF Stutter
  <1> USE DEF LockInv, TypeOK, Asking, Holding, Acquiring, Body, Releasing, Goto
  <1>3. CASE UNCHANGED vars
    BY <1>2, <1>3 DEF vars, Stutter
  <1>4. ASSUME NEW c \in CPU, Enter(c)
        PROVE  AskStep(c)
    BY <1>1, <1>2, <1>4 DEF Enter, HolderNamed
  <1>5. ASSUME NEW c \in CPU, Xchg(c)
        PROVE  Stutter \/ GrantStep(c)
    <2>1. CASE locked = 0
      BY <1>1, <1>5, <2>1 DEF Xchg, HolderNamed, LockedIffHeld
    <2>2. CASE locked = 1
      BY <1>2, <1>5, <2>2 DEF Xchg, Stutter
    <2> QED
      BY <2>1, <2>2
  <1>6. ASSUME NEW c \in CPU, Free(c)
        PROVE  GiveStep(c)
    BY <1>1, <1>6 DEF Free, HolderNamed, MutualExclusion
  <1>7. ASSUME NEW c \in CPU,
               \/ LockHeld(c) \/ LockCpu(c) \/ SetCpu(c)
               \/ Check(c) \/ Load(c) \/ Store(c)
               \/ UnlockHeld(c) \/ UnlockCpu(c) \/ ClearCpu(c)
        PROVE  Stutter
    BY <1>2, <1>7 DEF LockHeld, LockCpu, SetCpu, Check, Load, Store,
                      UnlockHeld, UnlockCpu, ClearCpu, Stutter
  <1> QED
    BY <1>3, <1>4, <1>5, <1>6, <1>7 DEF Next, Step

(* Every execution of the lock is one of the mutex.                        *)
THEOREM LockImplementsMutex == Spec => ImplementsMutex
  <1>1. LockInv /\ LockInv' /\ [Next]_vars
            => [Abstract!Next]_(Abstract!mutexVars)
    BY MutexStep
  <1> QED
    BY HolderInit, <1>1, LockInvariant, PTL
       DEF Spec, ImplementsMutex, Abstract!Spec
=======================================================================
