------------------------ MODULE TicketLockProofs ------------------------
(***************************************************************************)
(* Theorems about TicketLock, for every number of CPUs and every number of *)
(* ticket values above it. All of them rest on one invariant, TicketInv:   *)
(* the tickets between own and next, counted around the wrap, belong to    *)
(* one CPU each, and nobody else is in line. That there are fewer CPUs     *)
(* than tickets is what keeps own and next apart while anybody waits.      *)
(***************************************************************************)
EXTENDS TicketLock, FiniteSetTheorems, FunctionTheorems, SequenceTheorems, TLAPS

(* How far a ticket is from the one being served.                          *)
Ahead(x) == IF x >= own THEN x - own ELSE x - own + Tickets
Place(c) == Ahead(Turn(c))

Recorded == {"critical", "unlockNext", "unlockCpu", "clearCpu"}

InOrder ==
    /\ \A c \in CPU : InLine(c) => Place(c) < Outstanding
    /\ \A c, d \in CPU : InLine(c) /\ InLine(d) /\ Place(c) = Place(d) => c = d
    /\ \A i \in 1..Outstanding : \E c \in CPU : InLine(c) /\ Place(c) = i - 1

OwnerKnown == \A c \in CPU : pc[c] \in Recorded <=> owner = c

ReadOwn == \A c \in CPU : pc[c] = "unlockNext" => ticket[c] = own

NoPanic == \A c \in CPU : pc[c] # "panic"

TicketInv == TypeOK /\ InOrder /\ OwnerKnown /\ ReadOwn /\ NoPanic

-----------------------------------------------------------------------------
LEMMA Wraps ==
    ASSUME NEW n \in Nat \ {0}, NEW x \in 0..(2 * n - 1)
    PROVE  x % n = IF x < n THEN x ELSE x - n
  <1>1. CASE x < n
    BY <1>1, Z3
  <1>2. CASE ~(x < n)
    BY <1>2, Z3
  <1> QED
    BY <1>1, <1>2

LEMMA TicketsPositive == Tickets \in Nat \ {0}
  BY TicketLockAssumption, FS_CardinalityType
LEMMA NextTicket ==
    ASSUME NEW x \in 0..(Tickets - 1)
    PROVE  (x + 1) % Tickets = IF x + 1 < Tickets THEN x + 1 ELSE 0
  <1> DEFINE y == x + 1
  <1>1. y \in 0..(2 * Tickets - 1)
    BY TicketsPositive
  <1>2. y % Tickets = IF y < Tickets THEN y ELSE y - Tickets
    <2> HIDE DEF y
    <2> QED
      BY <1>1, TicketsPositive, Wraps
  <1> QED
    BY <1>2, TicketsPositive

(* Counting around the wrap.                                               *)
LEMMA Spans ==
    ASSUME TypeOK
    PROVE  /\ Outstanding = Ahead(next) /\ Outstanding \in 0..(Tickets - 1)
           /\ Outstanding = 0 <=> next = own
           /\ \A x \in 0..(Tickets - 1) : Ahead(x) \in 0..(Tickets - 1) /\ (Ahead(x) = 0 <=> x = own)
           /\ \A x, y \in 0..(Tickets - 1) : Ahead(x) = Ahead(y) => x = y
           /\ \A x \in 0..(Tickets - 1), i \in 1..Tickets : x = (own + i - 1) % Tickets <=> Ahead(x) = i - 1
  <1> USE TicketsPositive DEF TypeOK, Ahead
  <1>1. Outstanding = Ahead(next)
    <2> DEFINE x == next - own + Tickets
    <2>1. x \in 0..(2 * Tickets - 1)
      OBVIOUS
    <2>2. Outstanding = x % Tickets
      BY DEF Outstanding
    <2>3. x % Tickets = IF x < Tickets THEN x ELSE x - Tickets
      <3> HIDE DEF x
      <3> QED
        BY <2>1, Wraps
    <2> QED
      BY <2>1, <2>2, <2>3
  <1>2. ASSUME NEW x \in 0..(Tickets - 1), NEW i \in 1..Tickets
        PROVE  x = (own + i - 1) % Tickets <=> Ahead(x) = i - 1
    <2> DEFINE y == own + i - 1
    <2>1. y \in 0..(2 * Tickets - 1)
      OBVIOUS
    <2>2. y % Tickets = IF y < Tickets THEN y ELSE y - Tickets
      <3> HIDE DEF y
      <3> QED
        BY <2>1, Wraps
    <2> QED
      BY <2>2
  <1> QED
    BY <1>1, <1>2

Counted == Outstanding = Ahead(next)

LEMMA Spread == TypeOK => Counted
  BY Spans DEF Counted

LEMMA Turns ==
    ASSUME TypeOK, NEW c \in CPU
    PROVE  /\ Turn(c) \in 0..(Tickets - 1) /\ Place(c) \in 0..(Tickets - 1)
           /\ Place(c) = 0 <=> Turn(c) = own
           /\ Holding(c) => InLine(c) /\ Place(c) = 0
  <1>1. Turn(c) \in 0..(Tickets - 1)
    BY DEF Turn, TypeOK
  <1> QED
    BY <1>1, Spans DEF Place, Turn, Holding

(* Two CPUs never hold the lock, and nobody's turn comes while one does.   *)
LEMMA OneServed ==
    ASSUME TicketInv, NEW c \in CPU, NEW d \in CPU, Holding(c), InLine(d), Place(d) = 0
    PROVE  c = d
  BY Turns DEF TicketInv, InOrder

(* A CPU that is not in line finds a ticket: the counter does not catch up.*)
LEMMA Room ==
    ASSUME TicketInv, NEW c \in CPU, ~InLine(c)
    PROVE  Outstanding + 1 < Tickets
  <1> DEFINE f == [i \in 1..Outstanding |-> CHOOSE d \in CPU : InLine(d) /\ Place(d) = i - 1]
  <1>1. Outstanding \in Nat
    BY Spans DEF TicketInv
  <1>2. \A i \in 1..Outstanding : f[i] \in CPU \ {c} /\ Place(f[i]) = i - 1
    BY DEF TicketInv, InOrder
  <1>3. f \in Injection(1..Outstanding, CPU \ {c})
    <2>1. f \in [1..Outstanding -> CPU \ {c}]
      BY <1>2
    <2>2. \A i, j \in 1..Outstanding : f[i] = f[j] => i = j
      <3> TAKE i, j \in 1..Outstanding
      <3>1. Place(f[i]) = i - 1 /\ Place(f[j]) = j - 1 /\ i \in Int /\ j \in Int
        BY <1>1, <1>2
      <3> HIDE DEF f
      <3> QED
        BY <3>1
    <2> HIDE DEF f
    <2> QED
      BY <2>1, <2>2, Fun_IsInj
  <1> HIDE DEF f
  <1>4. IsFiniteSet(CPU \ {c}) /\ Cardinality(CPU \ {c}) = Cardinality(CPU) - 1
    BY TicketLockAssumption, FS_RemoveElement
  <1>5. Cardinality(1..Outstanding) <= Cardinality(CPU \ {c})
    BY <1>3, <1>4, FS_Injection
  <1>6. Cardinality(1..Outstanding) = Outstanding
    BY <1>1, FS_Interval
  <1> QED
    BY <1>1, <1>4, <1>5, <1>6, TicketLockAssumption, FS_CardinalityType
-----------------------------------------------------------------------------
LEMMA InitInv == Init => TicketInv
  <1> SUFFICES ASSUME Init PROVE TicketInv
    OBVIOUS
  <1>1. TypeOK /\ OwnerKnown /\ ReadOwn /\ NoPanic /\ \A c \in CPU : ~InLine(c)
    BY TicketsPositive, TicketLockAssumption DEF Init, TypeOK, OwnerKnown, ReadOwn, NoPanic, Recorded, InLine
  <1>2. Outstanding = 0
    BY <1>1, Spans DEF Init
  <1> QED
    BY <1>1, <1>2 DEF TicketInv, InOrder

(* Steps that leave the line as it is.                                     *)
LineKept ==
    /\ own' = own /\ next' = next
    /\ \A c \in CPU : (InLine(c)' <=> InLine(c)) /\ (InLine(c) => Turn(c)' = Turn(c))

LEMMA KeptInOrder ==
    ASSUME TicketInv, LineKept
    PROVE  InOrder'
  <1>1. Outstanding' = Outstanding /\ \A c \in CPU : InLine(c) => Place(c)' = Place(c)
    BY DEF LineKept, Outstanding, Place, Ahead
  <1> QED
    BY <1>1 DEF LineKept, TicketInv, InOrder

LEMMA QuietStep ==
    ASSUME TicketInv, NEW c \in CPU,
           LockOwn(c) \/ LockNext(c) \/ LockCpu(c) \/ Spin(c) \/ SetCpu(c) \/ UnlockOwn(c) \/ UnlockNext(c)
           \/ UnlockCpu(c) \/ ClearCpu(c)
    PROVE  TicketInv' /\ LineKept
  <1> USE DEF TicketInv, OwnerKnown, ReadOwn, NoPanic, Recorded, Goto
  <1>1. CASE LockOwn(c) \/ LockNext(c) \/ LockCpu(c)
    <2>1. TypeOK'
      BY <1>1 DEF TypeOK, LockOwn, LockNext, LockCpu
    <2>2. LineKept
      BY <1>1 DEF TypeOK, LockOwn, LockNext, LockCpu, LineKept, InLine, Turn, Holding
    <2>3. OwnerKnown' /\ ReadOwn' /\ NoPanic'
      BY <1>1 DEF TypeOK, LockOwn, LockNext, LockCpu
    <2> QED
      BY <2>1, <2>2, <2>3, KeptInOrder
  <1>2. CASE Spin(c)
    <2>1. TypeOK'
      BY <1>2 DEF TypeOK, Spin
    <2>2. LineKept
      BY <1>2 DEF TypeOK, Spin, LineKept, InLine, Turn, Holding
    <2>3. OwnerKnown' /\ ReadOwn' /\ NoPanic'
      BY <1>2 DEF TypeOK, Spin
    <2> QED
      BY <2>1, <2>2, <2>3, KeptInOrder
  <1>3. CASE SetCpu(c)
    <2>1. TypeOK'
      BY <1>3 DEF TypeOK, SetCpu
    <2>2. LineKept
      BY <1>3 DEF TypeOK, SetCpu, LineKept, InLine, Turn, Holding
    <2>3. \A d \in CPU : pc[d] \in Recorded => d = c
      BY <1>3, OneServed, Turns DEF SetCpu, Holding, InLine
    <2>4. OwnerKnown' /\ ReadOwn' /\ NoPanic'
      BY <1>3, <2>3, TicketLockAssumption DEF TypeOK, SetCpu
    <2> QED
      BY <2>1, <2>2, <2>4, KeptInOrder
  <1>4. CASE UnlockOwn(c) \/ UnlockNext(c) \/ UnlockCpu(c)
    <2>1. TypeOK'
      BY <1>4 DEF TypeOK, UnlockOwn, UnlockNext, UnlockCpu
    <2>3. own # next
      <3>1. InLine(c)
        BY <1>4 DEF UnlockOwn, UnlockNext, UnlockCpu, InLine
      <3>2. Place(c) < Outstanding /\ Place(c) \in 0..(Tickets - 1)
        BY <3>1, Turns DEF InOrder
      <3> QED
        BY <3>2, Spans
    <2>2. LineKept
      BY <1>4, <2>3 DEF TypeOK, UnlockOwn, UnlockNext, UnlockCpu, LineKept, InLine, Turn, Holding
    <2>4. OwnerKnown' /\ ReadOwn' /\ NoPanic'
      BY <1>4, <2>3 DEF TypeOK, UnlockOwn, UnlockNext, UnlockCpu
    <2> QED
      BY <2>1, <2>2, <2>4, KeptInOrder
  <1>5. CASE ClearCpu(c)
    <2>1. TypeOK'
      BY <1>5 DEF TypeOK, ClearCpu
    <2>2. LineKept
      BY <1>5 DEF TypeOK, ClearCpu, LineKept, InLine, Turn, Holding
    <2>3. OwnerKnown' /\ ReadOwn' /\ NoPanic'
      BY <1>5, TicketLockAssumption DEF TypeOK, ClearCpu
    <2> QED
      BY <2>1, <2>2, <2>3, KeptInOrder
  <1> QED
    BY <1>1, <1>2, <1>3, <1>4, <1>5

(* A CPU joins the line at its end.                                        *)
LEMMA TakeStep ==
    ASSUME TicketInv, NEW c \in CPU, Take(c)
    PROVE  /\ TicketInv'
           /\ ~InLine(c) /\ InLine(c)' /\ Place(c)' = Outstanding /\ Outstanding' = Outstanding + 1
           /\ \A d \in CPU \ {c} : (InLine(d)' <=> InLine(d)) /\ Place(d)' = Place(d)
           /\ \A d \in CPU : Holding(d)' <=> Holding(d)
  <1> USE DEF TicketInv
  <1>1. /\ pc[c] = "take" /\ pc' = [pc EXCEPT ![c] = "spin"] /\ ticket' = [ticket EXCEPT ![c] = next]
        /\ next' = (next + 1) % Tickets /\ own' = own /\ owner' = owner
    BY DEF Take, Goto
  <1>2. /\ ~InLine(c) /\ InLine(c)' /\ ~Holding(c) /\ ~Holding(c)' /\ Turn(c)' = next
        /\ \A d \in CPU \ {c} : (InLine(d)' <=> InLine(d)) /\ (Holding(d)' <=> Holding(d)) /\ Turn(d)' = Turn(d)
    BY <1>1 DEF TypeOK, InLine, Holding, Turn
  <1>3. next' = IF next + 1 < Tickets THEN next + 1 ELSE 0
    BY <1>1, NextTicket DEF TypeOK
  <1>4. TypeOK'
    BY <1>1, <1>3, TicketsPositive DEF TypeOK
  <1>5. Outstanding + 1 < Tickets /\ Outstanding = Ahead(next)
    BY <1>2, Room, Spans
  <1>6. \A x : Ahead(x)' = IF x' >= own THEN x' - own ELSE x' - own + Tickets
    BY <1>1 DEF Ahead
  <1>7. Outstanding' = Outstanding + 1
    <2>1. Outstanding' = IF next' >= own THEN next' - own ELSE next' - own + Tickets
      <3>1. TypeOK' => Counted'
        BY Spread, PTL
      <3> QED
        BY <1>1, <1>4, <3>1 DEF Counted, Ahead
    <2> QED
      BY <1>3, <1>5, <2>1, TicketsPositive DEF TypeOK, Ahead
  <1>8. Place(c)' = Outstanding /\ \A d \in CPU \ {c} : Place(d)' = Place(d)
    BY <1>1, <1>2, <1>5 DEF Place, Ahead
  <1>9. InOrder'
    <2>1. \A d \in CPU : InLine(d) => Place(d) < Outstanding /\ Place(d) \in 0..(Tickets - 1)
      BY Turns DEF InOrder
    <2>2. Outstanding \in 0..(Tickets - 1)
      BY Spans
    <2>3. \A d \in CPU : InLine(d)' => Place(d)' < Outstanding'
      BY <1>2, <1>7, <1>8, <2>1, <2>2
    <2>4. \A d, e \in CPU : InLine(d)' /\ InLine(e)' /\ Place(d)' = Place(e)' => d = e
      BY <1>2, <1>8, <2>1, <2>2 DEF InOrder
    <2>5. ASSUME NEW i \in 1..Outstanding'
          PROVE  \E d \in CPU : InLine(d)' /\ Place(d)' = i - 1
      <3>1. CASE i \in 1..Outstanding
        <4>1. PICK d \in CPU : InLine(d) /\ Place(d) = i - 1
          BY <3>1 DEF InOrder
        <4> QED
          BY <1>2, <1>8, <4>1
      <3>2. CASE i = Outstanding + 1
        BY <1>2, <1>8, <2>2, <3>2
      <3> QED
        BY <1>7, <2>2, <3>1, <3>2
    <2> QED
      BY <2>3, <2>4, <2>5 DEF InOrder
  <1>10. OwnerKnown' /\ ReadOwn' /\ NoPanic'
    BY <1>1 DEF OwnerKnown, ReadOwn, NoPanic, Recorded, TypeOK
  <1> QED
    BY <1>2, <1>4, <1>7, <1>8, <1>9, <1>10

(* The CPU that is served leaves, and everybody moves up.                  *)
LEMMA FreeStep ==
    ASSUME TicketInv, NEW c \in CPU, Free(c)
    PROVE  /\ TicketInv'
           /\ Holding(c) /\ Outstanding > 0 /\ Outstanding' = Outstanding - 1
           /\ \A d \in CPU : InLine(d)' <=> InLine(d) /\ Place(d) # 0
           /\ \A d \in CPU : InLine(d)' => Place(d)' = Place(d) - 1
           /\ \A d \in CPU : ~Holding(d)'
  <1> USE DEF TicketInv
  <1>1. /\ pc[c] = "free" /\ pc' = [pc EXCEPT ![c] = "outside"] /\ own' = (own + 1) % Tickets
        /\ next' = next /\ owner' = owner /\ ticket' = ticket
    BY DEF Free, Goto
  <1>2. Holding(c) /\ InLine(c) /\ Place(c) = 0 /\ ~InLine(c)' /\ ~Holding(c)'
    BY <1>1, Turns DEF TypeOK, InLine, Holding
  <1>3. \A d \in CPU \ {c} : InLine(d) => Place(d) # 0 /\ ~Holding(d)
    BY <1>2, OneServed, Turns
  <1>4. \A d \in CPU \ {c} : (InLine(d)' <=> InLine(d)) /\ (Holding(d)' <=> Holding(d))
    BY <1>1 DEF TypeOK, InLine, Holding
  <1>5. \A d \in CPU \ {c} : InLine(d) => Turn(d)' = Turn(d)
    BY <1>1, <1>3, <1>4 DEF Turn
  <1>6. own' = IF own + 1 < Tickets THEN own + 1 ELSE 0
    BY <1>1, NextTicket DEF TypeOK
  <1>7. TypeOK'
    BY <1>1, <1>6, TicketsPositive DEF TypeOK
  <1>8. Outstanding > 0 /\ Outstanding \in 0..(Tickets - 1) /\ next # own
    BY <1>2, Spans DEF InOrder
  <1>9. Outstanding' = Outstanding - 1
    <2>1. Outstanding' = IF next >= own' THEN next - own' ELSE next - own' + Tickets
      <3>1. TypeOK' => Counted'
        BY Spread, PTL
      <3> QED
        BY <1>1, <1>7, <3>1 DEF Counted, Ahead
    <2>2. Outstanding = Ahead(next)
      BY Spans
    <2> QED
      BY <1>6, <1>8, <2>1, <2>2, TicketsPositive DEF TypeOK, Ahead
  <1>10. \A d \in CPU \ {c} : InLine(d) => Place(d)' = Place(d) - 1
    <2> SUFFICES ASSUME NEW d \in CPU \ {c}, InLine(d) PROVE Place(d)' = Place(d) - 1
      OBVIOUS
    <2>1. Turn(d) \in 0..(Tickets - 1) /\ Turn(d) # own /\ Turn(d)' = Turn(d)
      BY <1>3, <1>5, Turns
    <2>2. Place(d)' = IF Turn(d) >= own' THEN Turn(d) - own' ELSE Turn(d) - own' + Tickets
      BY <2>1 DEF Place, Ahead
    <2> QED
      BY <1>6, <2>1, <2>2, TicketsPositive DEF TypeOK, Place, Ahead
  <1>11. InOrder'
    <2>1. \A d \in CPU : InLine(d) => Place(d) < Outstanding /\ Place(d) \in 0..(Tickets - 1)
      BY Turns DEF InOrder
    <2>2. \A d \in CPU : InLine(d)' => d # c /\ InLine(d) /\ Place(d)' = Place(d) - 1
      BY <1>2, <1>4, <1>10
    <2>3. \A d \in CPU : InLine(d)' => Place(d)' < Outstanding'
      BY <1>8, <1>9, <2>1, <2>2
    <2>4. \A d, e \in CPU : InLine(d)' /\ InLine(e)' /\ Place(d)' = Place(e)' => d = e
      BY <2>1, <2>2 DEF InOrder
    <2>5. ASSUME NEW i \in 1..Outstanding'
          PROVE  \E d \in CPU : InLine(d)' /\ Place(d)' = i - 1
      <3>1. i + 1 \in 1..Outstanding
        BY <1>8, <1>9
      <3>2. PICK d \in CPU : InLine(d) /\ Place(d) = (i + 1) - 1
        BY <3>1 DEF InOrder
      <3>3. Place(d) # 0 /\ d # c
        BY <1>2, <1>8, <1>9, <3>2
      <3> QED
        BY <1>4, <1>8, <1>9, <1>10, <3>2, <3>3
    <2> QED
      BY <2>3, <2>4, <2>5 DEF InOrder
  <1>12. OwnerKnown' /\ NoPanic'
    BY <1>1 DEF OwnerKnown, NoPanic, Recorded, TypeOK
  <1>13. ReadOwn'
    BY <1>1, <1>3, <1>4 DEF ReadOwn, Holding, InLine, TypeOK
  <1> QED
    BY <1>2, <1>3, <1>4, <1>7, <1>8, <1>9, <1>10, <1>11, <1>12, <1>13 DEF Holding
LEMMA NextInv == TicketInv /\ [Next]_vars => TicketInv'
  <1> SUFFICES ASSUME TicketInv, [Next]_vars PROVE TicketInv'
    OBVIOUS
  <1>1. CASE UNCHANGED vars
    <2>1. LineKept
      BY <1>1 DEF vars, LineKept, InLine, Turn, Holding
    <2>2. TypeOK' /\ OwnerKnown' /\ ReadOwn' /\ NoPanic'
      BY <1>1 DEF vars, TicketInv, TypeOK, OwnerKnown, ReadOwn, NoPanic
    <2> QED
      BY <2>1, <2>2, KeptInOrder DEF TicketInv
  <1>2. CASE Next
    BY <1>2, QuietStep, TakeStep, FreeStep DEF Next, Step
  <1> QED
    BY <1>1, <1>2

(* What the theorems below rest on: one CPU for each ticket between own    *)
(* and next, and the owner field the one that has recorded itself.         *)
THEOREM TicketInvariant == Spec => []TicketInv
  BY InitInv, NextInv, PTL DEF Spec

(* For every number of CPUs and tickets: two CPUs are never between the    *)
(* turn of spin_lock's loop that lets them pass and the addition that      *)
(* frees the lock; and the reads of own, next and cpu in holding(), which  *)
(* nothing keeps together, never make a correct use of the lock panic.     *)
THEOREM TicketLockExcludes ==
    Spec => [](/\ \A c, d \in CPU : Holding(c) /\ Holding(d) => c = d
               /\ \A c \in CPU : pc[c] # "panic")
  <1>1. TicketInv => /\ \A c, d \in CPU : Holding(c) /\ Holding(d) => c = d
                     /\ \A c \in CPU : pc[c] # "panic"
    <2> SUFFICES ASSUME TicketInv
                 PROVE  /\ \A c, d \in CPU : Holding(c) /\ Holding(d) => c = d
                        /\ \A c \in CPU : pc[c] # "panic"
      OBVIOUS
    <2>1. \A c, d \in CPU : Holding(c) /\ Holding(d) => c = d
      BY OneServed, Turns DEF TicketInv
    <2> QED
      BY <2>1 DEF TicketInv, NoPanic
  <1> QED
    BY <1>1, TicketInvariant, PTL

-----------------------------------------------------------------------------
(* The line, as FifoMutex sees it.                                         *)
Line == [i \in 1..Outstanding |-> IF At(i) = {} THEN NoCPU ELSE CHOOSE c \in CPU : c \in At(i)]
Inside == \E c \in CPU : Holding(c)

LineOk ==
    /\ Outstanding \in Nat /\ Line \in Seq(CPU) /\ Len(Line) = Outstanding /\ DOMAIN Line = 1..Outstanding
    /\ \A i \in 1..Outstanding : Line[i] \in CPU /\ InLine(Line[i]) /\ Place(Line[i]) = i - 1
    /\ \A i \in 1..Outstanding, c \in CPU : InLine(c) /\ Place(c) = i - 1 => Line[i] = c

LEMMA LineIsOk == TicketInv => LineOk
  <1> SUFFICES ASSUME TicketInv PROVE LineOk
    OBVIOUS
  <1> USE DEF TicketInv
  <1>1. Outstanding \in 0..(Tickets - 1)
    BY Spans
  <1>2. \A i \in 1..Outstanding, c \in CPU : c \in At(i) <=> InLine(c) /\ Place(c) = i - 1
    BY <1>1, TicketsPositive, Spans, Turns DEF At, Place
  <1>3. \A i \in 1..Outstanding : Line[i] \in CPU /\ InLine(Line[i]) /\ Place(Line[i]) = i - 1
    <2> TAKE i \in 1..Outstanding
    <2>1. PICK c \in CPU : InLine(c) /\ Place(c) = i - 1
      BY DEF InOrder
    <2>2. c \in At(i)
      BY <1>2, <2>1
    <2>3. Line[i] = CHOOSE d \in CPU : d \in At(i)
      BY <2>2 DEF Line
    <2>4. Line[i] \in CPU /\ Line[i] \in At(i)
      BY <2>2, <2>3
    <2> QED
      BY <1>2, <2>4
  <1>4. \A i \in 1..Outstanding, c \in CPU : InLine(c) /\ Place(c) = i - 1 => Line[i] = c
    BY <1>3 DEF InOrder
  <1>5. Line \in [1..Outstanding -> CPU]
    BY <1>3 DEF Line
  <1>6. Line \in Seq(CPU) /\ Len(Line) = Outstanding /\ DOMAIN Line = 1..Outstanding
    BY <1>1, <1>5, SeqDef, LenProperties
  <1> QED
    BY <1>1, <1>3, <1>4, <1>6 DEF LineOk

(* What one step makes of the line.                                        *)
LineNow ==
    /\ Line' \in Seq(CPU) /\ Len(Line') = Outstanding'
    /\ \A i \in 1..Outstanding', c \in CPU : InLine(c)' /\ Place(c)' = i - 1 => Line'[i] = c

LEMMA LineIsNow == TicketInv' => LineNow
  <1>1. TicketInv' => LineOk'
    BY LineIsOk, PTL
  <1> QED
    BY <1>1 DEF LineOk, LineNow

LEMMA SameLine ==
    ASSUME LineOk, LineNow, Outstanding' = Outstanding,
           \A c \in CPU : InLine(c) => InLine(c)' /\ Place(c)' = Place(c)
    PROVE  Line' = Line
  <1>1. \A i \in 1..Outstanding : Line'[i] = Line[i]
    <2> TAKE i \in 1..Outstanding
    <2>1. PICK c \in CPU : c = Line[i] /\ InLine(c) /\ Place(c) = i - 1
      BY DEF LineOk
    <2> QED
      BY <2>1 DEF LineNow
  <1>2. /\ Line \in Seq(CPU) /\ Line' \in Seq(CPU)
        /\ Len(Line) = Outstanding /\ Len(Line') = Outstanding
    BY DEF LineOk, LineNow
  <1> QED
    BY <1>1, <1>2, SeqEqual

LEMMA LongerLine ==
    ASSUME LineOk, LineNow, Outstanding' = Outstanding + 1,
           NEW c \in CPU, InLine(c)', Place(c)' = Outstanding,
           \A d \in CPU : InLine(d) => InLine(d)' /\ Place(d)' = Place(d)
    PROVE  Line' = Append(Line, c)
  <1>1. Outstanding \in Nat /\ Line \in Seq(CPU) /\ Len(Line) = Outstanding
    BY DEF LineOk
  <1>2. /\ Append(Line, c) \in Seq(CPU) /\ Len(Append(Line, c)) = Outstanding + 1
        /\ \A i \in 1..Outstanding : Append(Line, c)[i] = Line[i]
        /\ Append(Line, c)[Outstanding + 1] = c
    BY <1>1, AppendProperties
  <1>3. \A i \in 1..(Outstanding + 1) : Line'[i] = Append(Line, c)[i]
    <2> TAKE i \in 1..(Outstanding + 1)
    <2>1. CASE i \in 1..Outstanding
      <3>1. PICK d \in CPU : d = Line[i] /\ InLine(d) /\ Place(d) = i - 1
        BY <2>1 DEF LineOk
      <3> QED
        BY <1>2, <2>1, <3>1 DEF LineNow
    <2>2. CASE i = Outstanding + 1
      BY <1>1, <1>2, <2>2 DEF LineNow
    <2> QED
      BY <1>1, <2>1, <2>2
  <1>4. Line' \in Seq(CPU) /\ Len(Line') = Outstanding + 1
    BY DEF LineNow
  <1> QED
    BY <1>1, <1>2, <1>3, <1>4, SeqEqual

LEMMA ShorterLine ==
    ASSUME LineOk, LineNow, Outstanding > 0, Outstanding' = Outstanding - 1,
           \A c \in CPU : InLine(c) /\ Place(c) # 0 => InLine(c)' /\ Place(c)' = Place(c) - 1
    PROVE  Line' = Tail(Line)
  <1>1. Outstanding \in Nat /\ Line \in Seq(CPU) /\ Len(Line) = Outstanding /\ Line # <<>>
    BY DEF LineOk
  <1>2. /\ Tail(Line) \in Seq(CPU) /\ Len(Tail(Line)) = Outstanding - 1
        /\ \A i \in 1..(Outstanding - 1) : Tail(Line)[i] = Line[i + 1]
    BY <1>1, HeadTailProperties
  <1>3. \A i \in 1..(Outstanding - 1) : Line'[i] = Tail(Line)[i]
    <2> TAKE i \in 1..(Outstanding - 1)
    <2>1. i + 1 \in 1..Outstanding /\ i # 0
      BY <1>1
    <2>2. PICK c \in CPU : c = Line[i + 1] /\ InLine(c) /\ Place(c) = (i + 1) - 1
      BY <2>1 DEF LineOk
    <2>3. InLine(c)' /\ Place(c)' = i - 1
      BY <1>1, <2>1, <2>2
    <2> QED
      BY <1>2, <2>2, <2>3 DEF LineNow
  <1>4. Line' \in Seq(CPU) /\ Len(Line') = Outstanding - 1
    BY DEF LineNow
  <1> QED
    BY <1>1, <1>2, <1>3, <1>4, SeqEqual

LEMMA FifoInit == Init => Fifo!Init
  <1> SUFFICES ASSUME Init PROVE Line = <<>> /\ Inside = FALSE
    BY DEF Fifo!Init, Line, Inside
  <1>1. TicketInv /\ LineOk
    BY InitInv, LineIsOk
  <1>2. \A c \in CPU : ~InLine(c) /\ ~Holding(c)
    BY DEF Init, InLine, Holding
  <1>3. Outstanding = 0
    BY <1>1, <1>2, Spans DEF Init, TicketInv
  <1>4. Line \in Seq(CPU) /\ Len(Line) = 0
    BY <1>1, <1>3 DEF LineOk
  <1> QED
    BY <1>2, <1>4, EmptySeq DEF Inside

(* Each step of the lock is one of the queue's: the fetch-and-add that     *)
(* hands out a ticket, the turn of the loop that finds it served, the one  *)
(* that passes the lock on; all the others leave the queue alone.          *)
LEMMA FifoStep ==
    TicketInv /\ TicketInv' /\ [Next]_vars => [Fifo!Next]_(Fifo!fifoVars)
  <1> DEFINE TakeTicket(c) == /\ \A i \in DOMAIN Line : Line[i] # c
                              /\ Line' = Append(Line, c) /\ Inside' = Inside
             Serve         == Line # <<>> /\ ~Inside /\ Inside' = TRUE /\ Line' = Line
             Leave         == Inside /\ Inside' = FALSE /\ Line' = Tail(Line)
             Stutter       == Line' = Line /\ Inside' = Inside
  <1> SUFFICES ASSUME TicketInv, TicketInv', [Next]_vars
               PROVE  Serve \/ Leave \/ Stutter \/ \E c \in CPU : TakeTicket(c)
    BY DEF Fifo!Next, Fifo!TakeTicket, Fifo!Serve, Fifo!Leave, Fifo!fifoVars, Line, Inside
  <1>1. LineOk /\ LineNow
    BY LineIsOk, LineIsNow
  <1>2. ASSUME LineKept PROVE Line' = Line
    <2>1. \A c \in CPU : InLine(c) => InLine(c)' /\ Place(c)' = Place(c)
      BY <1>2 DEF LineKept, Place, Ahead
    <2>2. Outstanding' = Outstanding
      BY <1>2 DEF LineKept, Outstanding
    <2> QED
      BY <1>1, <2>1, <2>2, SameLine
  <1>3. CASE UNCHANGED vars
    BY <1>2, <1>3 DEF vars, LineKept, InLine, Turn, Holding, Inside
  <1>4. ASSUME NEW c \in CPU, Take(c) PROVE TakeTicket(c)
    <2>1. Line' = Append(Line, c)
      BY <1>1, <1>4, TakeStep, LongerLine
    <2>2. \A i \in DOMAIN Line : Line[i] # c
      BY <1>1, <1>4, TakeStep DEF LineOk
    <2> QED
      BY <2>1, <2>2, <1>4, TakeStep DEF Inside
  <1>5. ASSUME NEW c \in CPU, Free(c) PROVE Leave
    <2>1. Line' = Tail(Line)
      BY <1>1, <1>5, FreeStep, ShorterLine
    <2> QED
      BY <2>1, <1>5, FreeStep DEF Inside
  <1>6. ASSUME NEW c \in CPU, Spin(c), own = ticket[c] PROVE Serve
    <2>1. LineKept
      BY <1>6, QuietStep
    <2>2. /\ pc[c] = "spin" /\ pc' = [pc EXCEPT ![c] = "setCpu"] /\ c \in DOMAIN pc
      BY <1>6 DEF Spin, Goto, TicketInv, TypeOK
    <2>3. InLine(c) /\ ~Holding(c) /\ Holding(c)' /\ Turn(c) = own
      BY <2>2, <1>6 DEF InLine, Holding, Turn
    <2>4. Place(c) = 0
      BY <2>3, Turns DEF TicketInv
    <2>5. ~Inside
      BY <2>3, <2>4, OneServed DEF Inside
    <2>6. Outstanding > 0 /\ Line # <<>>
      BY <1>1, <2>3, <2>4, EmptySeq DEF TicketInv, InOrder, LineOk
    <2> QED
      BY <1>2, <2>1, <2>3, <2>5, <2>6 DEF Inside
  <1>7. ASSUME NEW c \in CPU,
               \/ LockOwn(c) \/ LockNext(c) \/ LockCpu(c) \/ SetCpu(c) \/ UnlockOwn(c)
               \/ UnlockNext(c) \/ UnlockCpu(c) \/ ClearCpu(c)
               \/ (Spin(c) /\ own # ticket[c])
        PROVE  Stutter
    <2>1. LineKept
      BY <1>7, QuietStep
    <2>2. TypeOK /\ NoPanic'
      BY DEF TicketInv
    <2>3. \A d \in CPU : Holding(d)' <=> Holding(d)
      BY <1>7, <2>2 DEF TypeOK, NoPanic, Holding, InLine, Goto, LockOwn, LockNext, LockCpu, SetCpu,
                        UnlockOwn, UnlockNext, UnlockCpu, ClearCpu, Spin
    <2> QED
      BY <1>2, <2>1, <2>3 DEF Inside
  <1>8. ASSUME NEW c \in CPU, LockOwn(c) \/ Step(c)
        PROVE  Serve \/ Leave \/ Stutter \/ TakeTicket(c)
    BY <1>4, <1>5, <1>6, <1>7, <1>8 DEF Step
  <1> QED
    BY <1>3, <1>8 DEF Next

(* For every number of CPUs, and however often the two counters wrap: the  *)
(* critical section is entered in the order of the fetch-and-adds on next, *)
(* one CPU at a time.                                                      *)
THEOREM TicketLockServesInOrder == Spec => ServedInOrder
  <1>1. TicketInv /\ TicketInv' /\ [Next]_vars => [Fifo!Next]_(Fifo!fifoVars)
    BY FifoStep
  <1> QED
    BY FifoInit, <1>1, TicketInvariant, PTL DEF Spec, ServedInOrder, Fifo!Spec
=======================================================================
