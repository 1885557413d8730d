-------------------------- MODULE E1000Proofs --------------------------
(***************************************************************************)
(* Theorems about E1000, for rings of every size.  What the driver and the *)
(* device may touch follows from where they are on the ring and from the   *)
(* DD bits; TxInv and RxInv say how the bits lie between head and tail.    *)
(* TxShape and RxShape count them: the bits tell how many packets wait,    *)
(* and from that each ring is seen to be a queue.                          *)
(***************************************************************************)
EXTENDS E1000, FiniteSetTheorems, TLAPS

(* How far b is ahead of a on a ring of n descriptors.                     *)
Ahead(a, b, n) == IF a <= b THEN b - a ELSE b - a + n

(* How many descriptors, from the head on, the device has before it. A     *)
(* full ring is one only while the device is at work on it.                *)
TxLoad == IF TDH = TDT /\ txdev # "idle" THEN NTX ELSE Ahead(TDH, TDT, NTX)

(* None of them is marked, but for the one whose sending just ended.       *)
TxQueued ==
    \A i \in 0..NTX-1 :
        Ahead(TDH, i, NTX) < TxLoad /\ (i # TDH \/ txdev # "next") => ~txDD[i]

(* What the driver has seen of the descriptor at the tail is still so.     *)
TxSeen ==
    /\ call \in {"tx_fill", "tx_clear"} => txDD[TDT]
    /\ call = "tx_tail" =>
          /\ ~txDD[TDT]
          /\ TDH = TDT => txdev \notin {"read", "done"}

TxInv == ETypeOK /\ TxQueued /\ TxSeen

(* From the driver's descriptor to the device's all are marked, the others *)
(* are not; the device's own is between storing a packet and going on.     *)
RxMarked ==
    \A i \in 0..NRX-1 :
        LET j == Ahead(Rdt, i, NRX)
            d == Ahead(Rdt, RDH, NRX)
        IN /\ j < d => rxDD[i] \/ (i = Rdt /\ call = "rx_tail")
           /\ j > d => ~rxDD[i]
           /\ j = d => (rxDD[i] <=> rxdev = "next")

RxApart ==
    /\ rxdev # "idle" => RDH # RDT
    /\ call = "rx_wait" => rxDD[Rdt]
    /\ call \in {"rx_copy", "rx_clear", "rx_tail"} => Rdt # RDH
    /\ call = "rx_tail" => ~rxDD[Rdt]

RxInv == ETypeOK /\ RxMarked /\ RxApart

USE E1000Assumption

LEMMA NextIndex ==
    ASSUME NEW n \in Nat \ {0}, NEW i \in 0..n-1
    PROVE  (i + 1) % n = IF i = n - 1 THEN 0 ELSE i + 1
  <1>1. i + 1 = n => (i + 1) % n = 0
    BY Z3
  <1>2. i + 1 < n => (i + 1) % n = i + 1
    BY Z3
  <1> QED
    BY <1>1, <1>2

(* The descriptor the driver looks at is on the ring.                      *)
LEMMA RdtNext == ETypeOK => Rdt = IF RDT = NRX - 1 THEN 0 ELSE RDT + 1
  BY NextIndex DEF ETypeOK, Rdt

-----------------------------------------------------------------------------
LEMMA TypesInit == Init => ETypeOK
  BY DEF Init, ETypeOK

LEMMA TypesStep == ETypeOK /\ [Next]_vars => ETypeOK'
  <1> SUFFICES ASSUME ETypeOK, [Next]_vars PROVE ETypeOK'
    OBVIOUS
  <1>1. (TDT + 1) % NTX \in 0..NTX-1 /\ (TDH + 1) % NTX \in 0..NTX-1
    BY NextIndex DEF ETypeOK
  <1>2. (RDH + 1) % NRX \in 0..NRX-1 /\ Rdt \in 0..NRX-1
    BY NextIndex DEF ETypeOK, Rdt
  <1> USE DEF ETypeOK, txVars, rxVars
  <1>3. CASE UNCHANGED vars
    BY <1>3 DEF vars
  <1>4. CASE TxFill \/ TxClear \/ TxTail
    BY <1>1, <1>4 DEF TxFill, TxClear, TxTail
  <1>5. CASE RxWait \/ RxCopy \/ Receive
    BY <1>2, <1>5 DEF RxWait, RxCopy, Receive
  <1>6. CASE RxClear \/ RxTail
    BY <1>2, <1>6 DEF RxClear, RxTail
  <1>7. ASSUME NEW p \in Packet, Transmit(p) \/ DevArrive(p)
        PROVE  ETypeOK'
    BY <1>7 DEF Transmit, DevArrive
  <1>8. CASE DeviceSends
    BY <1>1, <1>8 DEF DeviceSends, DevFetch, DevSend, DevSent, DevTxHead
  <1>9. CASE DevStore \/ DevStored
    BY <1>9 DEF DevStore, DevStored
  <1>10. CASE DevRxHead
    BY <1>2, <1>10 DEF DevRxHead
  <1> QED
    BY <1>3, <1>4, <1>5, <1>6, <1>7, <1>8, <1>9, <1>10 DEF Next, DriverStep, DeviceStores

-----------------------------------------------------------------------------
(* The transmit ring.                                                      *)

LEMMA TxInvInit == Init => TxInv
  BY TypesInit DEF Init, TxInv, TxQueued, TxSeen, TxLoad, Ahead

(* Steps that leave the transmit ring and the call alone.                  *)
LEMMA TxInvElsewhere ==
    ASSUME TxInv, ETypeOK', UNCHANGED <<TDH, TDT, txDD, txdev>>,
           \/ call' = call
           \/ call' \notin {"tx_fill", "tx_clear", "tx_tail"}
    PROVE  TxInv'
  BY DEF TxInv, TxQueued, TxSeen, TxLoad, Ahead

LEMMA TxInvStep == TxInv /\ [Next]_vars => TxInv'
  <1> SUFFICES ASSUME TxInv, [Next]_vars PROVE TxInv'
    OBVIOUS
  <1>1. ETypeOK /\ ETypeOK'
    BY TypesStep DEF TxInv
  <1>2. /\ TDT \in 0..NTX-1 /\ TDH \in 0..NTX-1 /\ NTX \in Nat
        /\ txDD \in [0..NTX-1 -> BOOLEAN]
    BY <1>1 DEF ETypeOK
  <1>3. /\ (TDT + 1) % NTX = IF TDT = NTX - 1 THEN 0 ELSE TDT + 1
        /\ (TDH + 1) % NTX = IF TDH = NTX - 1 THEN 0 ELSE TDH + 1
    BY <1>2, NextIndex
  <1>4. TxQueued /\ TxSeen
    BY DEF TxInv
  <1>5. SUFFICES TxQueued' /\ TxSeen'
    BY <1>1 DEF TxInv
  <1> USE DEF TxQueued, TxSeen, TxLoad, Ahead
  <1>6. CASE TxFill
    BY <1>2, <1>4, <1>6 DEF TxFill
  <1>7. CASE TxClear
    BY <1>2, <1>4, <1>7 DEF TxClear
  <1>8. CASE TxTail
    BY <1>2, <1>3, <1>4, <1>8 DEF TxTail
  <1>9. ASSUME NEW p \in Packet, Transmit(p)
        PROVE  TxQueued' /\ TxSeen'
    BY <1>2, <1>4, <1>9 DEF Transmit, txVars
  <1>10. CASE DevFetch
    BY <1>2, <1>4, <1>10 DEF DevFetch
  <1>11. CASE DevSend
    BY <1>2, <1>4, <1>11 DEF DevSend
  <1>12. CASE DevSent
    BY <1>2, <1>4, <1>12 DEF DevSent
  <1>13. CASE DevTxHead
    BY <1>2, <1>3, <1>4, <1>13 DEF DevTxHead
  <1>14. CASE \/ UNCHANGED vars \/ DeviceStores \/ \E p \in Packet : DevArrive(p)
              \/ Receive \/ RxWait \/ RxCopy \/ RxClear \/ RxTail
    <2>1. UNCHANGED <<TDH, TDT, txDD, txdev>>
      BY <1>14 DEF vars, txVars, DeviceStores, DevStore, DevStored, DevRxHead,
                   DevArrive, Receive, RxWait, RxCopy, RxClear, RxTail
    <2>2. call' = call \/ call' \notin {"tx_fill", "tx_clear", "tx_tail"}
      BY <1>14 DEF vars, txVars, DeviceStores, DevStore, DevStored, DevRxHead,
                   DevArrive, Receive, RxWait, RxCopy, RxClear, RxTail
    <2> QED
      BY <1>1, <2>1, <2>2, TxInvElsewhere DEF TxInv
  <1> QED
    BY <1>6, <1>7, <1>8, <1>9, <1>10, <1>11, <1>12, <1>13, <1>14
       DEF Next, DriverStep, DeviceSends

-----------------------------------------------------------------------------
(* The receive ring.                                                       *)

LEMMA RxInvInit == Init => RxInv
  <1> SUFFICES ASSUME Init PROVE RxInv
    OBVIOUS
  <1>1. ETypeOK
    BY TypesInit
  <1>2. Rdt = 1
    BY <1>1, RdtNext DEF Init
  <1> QED
    BY <1>1, <1>2 DEF Init, RxInv, RxMarked, RxApart, Ahead

(* Steps that leave the receive ring and the call alone.                   *)
LEMMA RxInvElsewhere ==
    ASSUME RxInv, ETypeOK', UNCHANGED <<RDH, RDT, rxDD, rxdev>>,
           \/ call' = call
           \/ /\ call \notin {"rx_wait", "rx_copy", "rx_clear", "rx_tail"}
              /\ call' \notin {"rx_wait", "rx_copy", "rx_clear", "rx_tail"}
    PROVE  RxInv'
  <1>1. Rdt' = Rdt
    BY DEF Rdt
  <1> QED
    BY <1>1 DEF RxInv, RxMarked, RxApart, Ahead

LEMMA RxInvStep == RxInv /\ [Next]_vars => RxInv'
  <1> SUFFICES ASSUME RxInv, [Next]_vars PROVE RxInv'
    OBVIOUS
  <1>1. ETypeOK /\ ETypeOK'
    BY TypesStep DEF RxInv
  <1>2. /\ RDT \in 0..NRX-1 /\ RDH \in 0..NRX-1 /\ NRX \in Nat /\ NRX > 1
        /\ rxDD \in [0..NRX-1 -> BOOLEAN]
    BY <1>1 DEF ETypeOK
  <1>3. /\ Rdt = IF RDT = NRX - 1 THEN 0 ELSE RDT + 1
        /\ Rdt' = IF RDT' = NRX - 1 THEN 0 ELSE RDT' + 1
    BY <1>1, NextIndex DEF ETypeOK, Rdt
  <1>4. (RDH + 1) % NRX = IF RDH = NRX - 1 THEN 0 ELSE RDH + 1
    BY <1>2, NextIndex
  <1>5. RxMarked /\ RxApart
    BY DEF RxInv
  <1>6. SUFFICES RxMarked' /\ RxApart'
    BY <1>1 DEF RxInv
  <1> USE DEF RxMarked, RxApart, Ahead
  <1>7. CASE Receive \/ RxWait \/ RxCopy
    BY <1>2, <1>3, <1>5, <1>7 DEF Receive, RxWait, RxCopy, rxVars
  <1>8. CASE RxClear
    BY <1>2, <1>3, <1>5, <1>8 DEF RxClear
  <1>9. CASE RxTail
    BY <1>2, <1>3, <1>5, <1>9 DEF RxTail
  <1>10. ASSUME NEW p \in Packet, DevArrive(p)
         PROVE  RxMarked' /\ RxApart'
    BY <1>2, <1>3, <1>5, <1>10 DEF DevArrive
  <1>11. CASE DevStore
    BY <1>2, <1>3, <1>5, <1>11 DEF DevStore
  <1>12. CASE DevStored
    BY <1>2, <1>3, <1>5, <1>12 DEF DevStored
  <1>13. CASE DevRxHead
    BY <1>2, <1>3, <1>4, <1>5, <1>13, SMTT(30) DEF DevRxHead
  <1>14. CASE \/ UNCHANGED vars \/ DeviceSends \/ \E p \in Packet : Transmit(p)
              \/ TxFill \/ TxClear \/ TxTail
    <2>1. UNCHANGED <<RDH, RDT, rxDD, rxdev>>
      BY <1>14 DEF vars, rxVars, DeviceSends, DevFetch, DevSend, DevSent, DevTxHead,
                   Transmit, TxFill, TxClear, TxTail
    <2>2. \/ call' = call
          \/ /\ call \notin {"rx_wait", "rx_copy", "rx_clear", "rx_tail"}
             /\ call' \notin {"rx_wait", "rx_copy", "rx_clear", "rx_tail"}
      BY <1>14 DEF vars, rxVars, DeviceSends, DevFetch, DevSend, DevSent, DevTxHead,
                   Transmit, TxFill, TxClear, TxTail
    <2> QED
      BY <1>1, <2>1, <2>2, RxInvElsewhere DEF RxInv
  <1> QED
    BY <1>7, <1>8, <1>9, <1>10, <1>11, <1>12, <1>13, <1>14
       DEF Next, DriverStep, DeviceStores

-----------------------------------------------------------------------------
(* The registers stay on their rings, and everything else has its type.    *)
THEOREM RingTypes == Spec => []ETypeOK
  BY TypesInit, TypesStep, PTL DEF Spec

(* The invariant of both rings.                                            *)
THEOREM RingInvariant == Spec => [](TxInv /\ RxInv)
  BY TxInvInit, TxInvStep, RxInvInit, RxInvStep, PTL DEF Spec

(* The driver never fills a buffer the device is sending from, nor copies  *)
(* one that the device is storing to.                                      *)
THEOREM RingBuffersNotShared == Spec => []BuffersNotShared
  <1>1. TxInv /\ RxInv => BuffersNotShared
    <2> SUFFICES ASSUME TxInv, RxInv PROVE BuffersNotShared
      OBVIOUS
    <2>1. TDH \in 0..NTX-1 /\ NTX \in Nat /\ Ahead(TDH, TDH, NTX) = 0
      BY DEF TxInv, ETypeOK, Ahead
    <2>2. ASSUME txdev = "read", TDH = TDT PROVE ~txDD[TDT]
      BY <2>1, <2>2 DEF TxInv, TxQueued, TxLoad
    <2> QED
      BY <2>2 DEF BuffersNotShared, TxInv, TxSeen, RxInv, RxApart
  <1> QED
    BY <1>1, RingInvariant, PTL

(* The device never stores a packet over one the driver has yet to take.   *)
THEOREM RingNothingOverwritten == Spec => []NothingOverwritten
  <1>1. RxInv => NothingOverwritten
    BY DEF RxInv, RxMarked, NothingOverwritten, ETypeOK
  <1> QED
    BY <1>1, RingInvariant, PTL

-----------------------------------------------------------------------------
(* Packets in order. The descriptors without DD are those of the packets   *)
(* that wait, from the first that was not sent up to the tail, and the one *)
(* that e1000_transmit is about to hand on.                                *)
TxFirst == IF txdev = "next" THEN (TDH + 1) % NTX ELSE TDH
Unsent == {i \in 0..NTX-1 : ~txDD[i]}
TxHeld == Cardinality(Unsent) - (IF call = "tx_tail" THEN 1 ELSE 0)

TxShape ==
    /\ TxHeld = Ahead(TxFirst, TDT, NTX) \/ (TxHeld = NTX /\ TxFirst = TDT)
    /\ \A i \in 0..NTX-1 : ~txDD[i] <=> Ahead(TxFirst, i, NTX) < TxHeld \/ (i = TDT /\ call = "tx_tail")
    /\ call \in {"tx_fill", "tx_clear", "tx_tail"} => TxHeld < NTX
    /\ txdev \in {"read", "done"} => TxHeld > 0

(* The packet of the call is in its buffer before it can be sent.          *)
TxFilled ==
    /\ call \in {"tx_fill", "tx_clear", "tx_tail"} => data \in Packet
    /\ call \in {"tx_clear", "tx_tail"} => tx_bufs[TDT] = data

(* The descriptors with DD are those of the packets that wait for the      *)
(* driver, from the one after the tail up to the head.                     *)
Stored == {i \in 0..NRX-1 : rxDD[i]}

RxShape ==
    Cardinality(Stored) = Ahead(Rdt, RDH, NRX) + (IF rxdev = "next" THEN 1 ELSE 0)
                                               - (IF call = "rx_tail" THEN 1 ELSE 0)

RxFilled ==
    /\ rxdev = "write" => arriving \in Packet
    /\ rxdev = "done" => rx_bufs[RDH] \in Packet

(* The bits that are set or clear, one more or one less.                   *)
LEMMA OneMore ==
    ASSUME NEW n \in Nat, NEW S \in SUBSET (0..n-1), NEW i \in 0..n-1, i \notin S, NEW T, T = S \cup {i}
    PROVE  Cardinality(T) = Cardinality(S) + 1 /\ Cardinality(S) \in Nat
  <1>1. IsFiniteSet(0..n-1)
    BY FS_Interval
  <1>2. IsFiniteSet(S)
    BY <1>1, FS_Subset
  <1> QED
    BY <1>2, FS_AddElement, FS_CardinalityType

LEMMA NoBits ==
    ASSUME NEW n \in Nat, NEW S \in SUBSET (0..n-1)
    PROVE  Cardinality(S) \in Nat /\ Cardinality({}) = 0
  <1>1. IsFiniteSet(0..n-1)
    BY FS_Interval
  <1>2. IsFiniteSet(S)
    BY <1>1, FS_Subset
  <1> QED
    BY <1>2, FS_EmptySet, FS_CardinalityType

LEMMA ModOnce ==
    ASSUME NEW n \in Nat \ {0}, NEW x \in 0..2*n-1
    PROVE  x % n = IF x < n THEN x ELSE x - n
  <1>1. x < n => x % n = x
    BY Z3
  <1>2. ~(x < n) => x % n = x - n
    BY Z3
  <1> QED
    BY <1>1, <1>2

-----------------------------------------------------------------------------
LEMMA TxFirstFacts ==
    ASSUME ETypeOK
    PROVE  /\ TxFirst = IF txdev = "next" THEN IF TDH = NTX - 1 THEN 0 ELSE TDH + 1 ELSE TDH
           /\ TxFirst \in 0..NTX-1
           /\ Cardinality(Unsent) \in Nat /\ TxHeld \in Int
  <1>1. TDH \in 0..NTX-1
    BY DEF ETypeOK
  <1>2. (TDH + 1) % NTX = IF TDH = NTX - 1 THEN 0 ELSE TDH + 1
    BY <1>1, NextIndex
  <1>3. TxFirst = IF txdev = "next" THEN IF TDH = NTX - 1 THEN 0 ELSE TDH + 1 ELSE TDH
    BY <1>2 DEF TxFirst
  <1>4. Cardinality(Unsent) \in Nat
    <2>1. Unsent \in SUBSET (0..NTX-1)
      BY DEF Unsent
    <2> QED
      BY <2>1, NoBits
  <1>5. TxHeld \in Int
    BY <1>4 DEF TxHeld
  <1> QED
    BY <1>1, <1>3, <1>4, <1>5

LEMMA TxShapeInit == Init => TxShape /\ TxFilled
  <1> SUFFICES ASSUME Init PROVE TxShape /\ TxFilled
    OBVIOUS
  <1>1. Unsent = {} /\ TDH = 0 /\ TDT = 0 /\ txdev = "idle" /\ call = "none"
    BY DEF Init, Unsent
  <1>2. Cardinality({}) = 0
    BY FS_EmptySet
  <1>3. TxHeld = 0 /\ TxFirst = 0
    BY <1>1, <1>2 DEF TxHeld, TxFirst
  <1>4. \A i \in 0..NTX-1 : txDD[i] /\ ~(Ahead(0, i, NTX) < 0)
    BY DEF Init, Ahead
  <1> QED
    BY <1>1, <1>3, <1>4 DEF TxShape, TxFilled, Ahead

(* Steps that leave the transmit ring alone, and the call's place on it.   *)
LEMMA TxShapeSame ==
    ASSUME TxShape, txDD' = txDD, TDT' = TDT, TxFirst' = TxFirst,
           call' = "tx_tail" <=> call = "tx_tail",
           call' \in {"tx_fill", "tx_clear", "tx_tail"} => TxHeld < NTX,
           txdev' \in {"read", "done"} => TxHeld > 0
    PROVE  TxShape' /\ TxHeld' = TxHeld
  <1>1. Unsent' = Unsent
    BY DEF Unsent
  <1>2. TxHeld' = TxHeld
    BY <1>1 DEF TxHeld
  <1> QED
    BY <1>2 DEF TxShape

(* How many packets wait: one more when the tail moves, one less when DD   *)
(* says that one was sent.                                                 *)
TxCounted ==
    TxHeld' = IF call = "tx_tail" /\ call' = "none" THEN TxHeld + 1
              ELSE IF txdev = "done" /\ txdev' = "next" THEN TxHeld - 1 ELSE TxHeld

LEMMA TxShapeStep ==
    ASSUME TxInv, TxShape, [Next]_vars
    PROVE  TxShape' /\ TxCounted
  <1>1. ETypeOK /\ ETypeOK'
    BY TypesStep DEF TxInv
  <1>2. /\ TDT \in 0..NTX-1 /\ TDH \in 0..NTX-1 /\ NTX \in Nat \ {0}
        /\ txDD \in [0..NTX-1 -> BOOLEAN]
    BY <1>1 DEF ETypeOK
  <1>3. /\ TxFirst = IF txdev = "next" THEN IF TDH = NTX - 1 THEN 0 ELSE TDH + 1 ELSE TDH
        /\ TxFirst \in 0..NTX-1
        /\ Cardinality(Unsent) \in Nat /\ TxHeld \in Int
    BY <1>1, TxFirstFacts
  <1>4. /\ TxFirst' = IF txdev' = "next" THEN IF TDH' = NTX - 1 THEN 0 ELSE TDH' + 1 ELSE TDH'
        /\ Unsent' = {i \in 0..NTX-1 : ~txDD'[i]}
        /\ TxHeld' = Cardinality(Unsent') - (IF call' = "tx_tail" THEN 1 ELSE 0)
    <2>1. TDH' \in 0..NTX-1
      BY <1>1 DEF ETypeOK
    <2>2. (TDH' + 1) % NTX = IF TDH' = NTX - 1 THEN 0 ELSE TDH' + 1
      BY <2>1, NextIndex
    <2> QED
      BY <2>2 DEF TxFirst, Unsent, TxHeld
  <1>5. TxSeen
    BY DEF TxInv
  <1>6. \A i \in 0..NTX-1 : ~txDD[i] <=> Ahead(TxFirst, i, NTX) < TxHeld \/ (i = TDT /\ call = "tx_tail")
    BY DEF TxShape
  <1>7. /\ TxHeld = Ahead(TxFirst, TDT, NTX) \/ (TxHeld = NTX /\ TxFirst = TDT)
        /\ call \in {"tx_fill", "tx_clear", "tx_tail"} => TxHeld < NTX
        /\ txdev \in {"read", "done"} => TxHeld > 0
    BY DEF TxShape
  <1>8. CASE TxFill
    <2>1. txDD' = txDD /\ TDT' = TDT /\ TxFirst' = TxFirst /\ call = "tx_fill" /\ call' = "tx_clear" /\ txdev' = txdev
      BY <1>3, <1>4, <1>8 DEF TxFill
    <2> QED
      BY <1>7, <2>1, TxShapeSame DEF TxCounted
  <1>9. CASE TxClear
    <2>1. /\ txDD' = [txDD EXCEPT ![TDT] = FALSE] /\ TDT' = TDT /\ TxFirst' = TxFirst
          /\ call = "tx_clear" /\ call' = "tx_tail" /\ txdev' = txdev /\ txDD[TDT]
      BY <1>3, <1>4, <1>5, <1>9 DEF TxClear, TxSeen
    <2>2. Unsent' = Unsent \cup {TDT} /\ TDT \notin Unsent /\ Unsent \in SUBSET (0..NTX-1)
      BY <1>2, <1>4, <2>1 DEF Unsent
    <2>3. Cardinality(Unsent') = Cardinality(Unsent) + 1
      BY <1>2, <2>2, OneMore
    <2>4. TxHeld' = TxHeld
      BY <1>3, <1>4, <2>1, <2>3 DEF TxHeld
    <2>5. \A i \in 0..NTX-1 : ~txDD'[i] <=> ~txDD[i] \/ i = TDT
      BY <1>2, <2>1
    <2> QED
      BY <1>6, <1>7, <2>1, <2>4, <2>5 DEF TxShape, TxCounted
  <1>10. CASE TxTail
    <2>1. /\ txDD' = txDD /\ TDT' = (TDT + 1) % NTX /\ TxFirst' = TxFirst
          /\ call = "tx_tail" /\ call' = "none" /\ txdev' = txdev
      BY <1>3, <1>4, <1>10 DEF TxTail
    <2>2. TDT' = IF TDT = NTX - 1 THEN 0 ELSE TDT + 1
      BY <1>2, <2>1, NextIndex
    <2>3. TxHeld' = TxHeld + 1
      BY <1>3, <1>4, <2>1 DEF Unsent, TxHeld
    <2>4. TxHeld = Ahead(TxFirst, TDT, NTX) /\ TxHeld < NTX
      BY <1>7, <2>1
    <2>5. TxHeld + 1 = Ahead(TxFirst, TDT', NTX) \/ (TxHeld + 1 = NTX /\ TxFirst = TDT')
      BY <1>2, <1>3, <2>2, <2>4 DEF Ahead
    <2>6. \A i \in 0..NTX-1 : Ahead(TxFirst, i, NTX) < TxHeld + 1 <=> Ahead(TxFirst, i, NTX) < TxHeld \/ i = TDT
      BY <1>2, <1>3, <2>4 DEF Ahead
    <2> QED
      BY <1>3, <1>6, <1>7, <2>1, <2>3, <2>5, <2>6 DEF TxShape, TxCounted
  <1>11. ASSUME NEW p \in Packet, Transmit(p) PROVE TxShape' /\ TxCounted
    <2>1. /\ txDD' = txDD /\ TDT' = TDT /\ TxFirst' = TxFirst /\ txdev' = txdev
          /\ call = "none" /\ call' = "tx_fill" /\ txDD[TDT]
      BY <1>3, <1>4, <1>11 DEF Transmit, txVars
    <2>2. ~(Ahead(TxFirst, TDT, NTX) < TxHeld)
      BY <1>2, <1>6, <2>1
    <2>3. TxHeld < NTX
      BY <1>2, <1>3, <1>7, <2>2 DEF Ahead
    <2> QED
      BY <1>7, <2>1, <2>3, TxShapeSame DEF TxCounted
  <1>12. CASE DevFetch
    <2>1. /\ txDD' = txDD /\ TDT' = TDT /\ TxFirst' = TxFirst /\ txdev = "idle" /\ txdev' = "read"
          /\ call' = call /\ TDH # TDT
      BY <1>3, <1>4, <1>12 DEF DevFetch
    <2>2. TxHeld > 0
      BY <1>2, <1>3, <1>7, <2>1 DEF Ahead
    <2> QED
      BY <1>7, <2>1, <2>2, TxShapeSame DEF TxCounted
  <1>13. CASE DevSend
    <2>1. /\ txDD' = txDD /\ TDT' = TDT /\ TxFirst' = TxFirst /\ txdev = "read" /\ txdev' = "done"
          /\ call' = call
      BY <1>3, <1>4, <1>13 DEF DevSend
    <2> QED
      BY <1>7, <2>1, TxShapeSame DEF TxCounted
  <1>14. CASE DevSent
    <2>1. /\ txDD' = [txDD EXCEPT ![TDH] = TRUE] /\ TDT' = TDT /\ TxFirst = TDH
          /\ TxFirst' = (IF TDH = NTX - 1 THEN 0 ELSE TDH + 1)
          /\ txdev = "done" /\ txdev' = "next" /\ call' = call
      BY <1>3, <1>4, <1>14 DEF DevSent
    <2>2. TxHeld > 0 /\ Ahead(TxFirst, TDH, NTX) = 0
      BY <1>2, <1>7, <2>1 DEF Ahead
    <2>3. TDH \in Unsent
      BY <1>2, <1>3, <1>6, <2>2 DEF Unsent
    <2>4. Unsent = Unsent' \cup {TDH} /\ TDH \notin Unsent' /\ Unsent' \in SUBSET (0..NTX-1)
      BY <1>2, <1>4, <2>1, <2>3 DEF Unsent
    <2>5. Cardinality(Unsent) = Cardinality(Unsent') + 1 /\ Cardinality(Unsent') \in Nat
      BY <1>2, <2>4, OneMore
    <2>6. TxHeld' = TxHeld - 1
      BY <1>3, <2>1, <2>5 DEF TxHeld
    <2>7. TDT = TDH => call # "tx_tail" /\ TxHeld = NTX
      BY <1>2, <1>7, <2>1, <2>2 DEF Ahead
    <2>8. TxHeld - 1 = Ahead(TxFirst', TDT, NTX) \/ (TxHeld - 1 = NTX /\ TxFirst' = TDT)
      BY <1>2, <1>7, <2>1, <2>2 DEF Ahead
    <2>9. \A i \in 0..NTX-1 : Ahead(TxFirst', i, NTX) < TxHeld - 1 <=> Ahead(TxFirst, i, NTX) < TxHeld /\ i # TDH
      <3>1. TxHeld =< NTX
        BY <1>2, <1>7, <2>1 DEF Ahead
      <3> QED
        BY <1>2, <1>3, <2>1, <2>2, <3>1 DEF Ahead
    <2>10. \A i \in 0..NTX-1 : ~txDD'[i] <=> ~txDD[i] /\ i # TDH
      BY <1>2, <2>1
    <2>11. \A i \in 0..NTX-1 : ~txDD'[i] <=> Ahead(TxFirst', i, NTX) < TxHeld - 1 \/ (i = TDT /\ call = "tx_tail")
      BY <1>6, <2>7, <2>9, <2>10
    <2> QED
      BY <1>3, <1>7, <2>1, <2>6, <2>8, <2>11 DEF TxShape, TxCounted
  <1>15. CASE DevTxHead
    <2>1. /\ txDD' = txDD /\ TDT' = TDT /\ txdev = "next" /\ txdev' = "idle" /\ call' = call
          /\ TDH' = (TDH + 1) % NTX
      BY <1>15 DEF DevTxHead
    <2>2. TxFirst' = TxFirst
      BY <1>4, <2>1 DEF TxFirst
    <2> QED
      BY <1>7, <2>1, <2>2, TxShapeSame DEF TxCounted
  <1>16. CASE \/ UNCHANGED vars \/ DeviceStores \/ \E p \in Packet : DevArrive(p)
              \/ Receive \/ RxWait \/ RxCopy \/ RxClear \/ RxTail
    <2>1. UNCHANGED <<TDH, TDT, txDD, txdev>>
      BY <1>16 DEF vars, txVars, DeviceStores, DevStore, DevStored, DevRxHead,
                   DevArrive, Receive, RxWait, RxCopy, RxClear, RxTail
    <2>2. call' = call \/ (call' \notin {"tx_fill", "tx_clear", "tx_tail"} /\ call # "tx_tail")
      BY <1>16 DEF vars, txVars, DeviceStores, DevStore, DevStored, DevRxHead,
                   DevArrive, Receive, RxWait, RxCopy, RxClear, RxTail
    <2>3. TxFirst' = TxFirst
      BY <2>1 DEF TxFirst
    <2> QED
      BY <1>7, <2>1, <2>2, <2>3, TxShapeSame DEF TxCounted
  <1> QED
    BY <1>8, <1>9, <1>10, <1>11, <1>12, <1>13, <1>14, <1>15, <1>16
       DEF Next, DriverStep, DeviceSends

LEMMA TxFilledStep ==
    ASSUME TxInv, TxFilled, [Next]_vars
    PROVE  TxFilled'
  <1>1. TDT \in 0..NTX-1 /\ tx_bufs \in [0..NTX-1 -> Packet \cup {None}]
    BY DEF TxInv, ETypeOK
  <1>2. CASE TxFill \/ TxClear \/ TxTail
    BY <1>1, <1>2 DEF TxFilled, TxFill, TxClear, TxTail
  <1>3. ASSUME NEW p \in Packet, Transmit(p) PROVE TxFilled'
    BY <1>3 DEF TxFilled, Transmit, txVars
  <1>4. CASE \/ UNCHANGED vars \/ DeviceStores \/ DeviceSends \/ \E p \in Packet : DevArrive(p)
             \/ Receive \/ RxWait \/ RxCopy \/ RxClear \/ RxTail
    <2>1. UNCHANGED <<TDT, tx_bufs, data>>
      BY <1>4 DEF vars, txVars, DeviceStores, DevStore, DevStored, DevRxHead, DeviceSends, DevFetch, DevSend,
                   DevSent, DevTxHead, DevArrive, Receive, RxWait, RxCopy, RxClear, RxTail
    <2>2. call' = call \/ call' \notin {"tx_fill", "tx_clear", "tx_tail"}
      BY <1>4 DEF vars, txVars, DeviceStores, DevStore, DevStored, DevRxHead, DeviceSends, DevFetch, DevSend,
                   DevSent, DevTxHead, DevArrive, Receive, RxWait, RxCopy, RxClear, RxTail
    <2> QED
      BY <2>1, <2>2 DEF TxFilled
  <1> QED
    BY <1>2, <1>3, <1>4 DEF Next, DriverStep

-----------------------------------------------------------------------------
(* The slot of the jth of k packets that end before the tail t.            *)
TxSlot(t, k, j) == (t + NTX - k + j - 1) % NTX

LEMMA TxSlotIs ==
    ASSUME NEW t \in 0..NTX-1, NEW k \in 0..NTX, NEW j \in 1..k
    PROVE  /\ TxSlot(t, k, j) = IF t - k + j - 1 < 0 THEN t - k + j - 1 + NTX ELSE t - k + j - 1
           /\ TxSlot(t, k, j) \in 0..NTX-1
           /\ k < NTX => TxSlot(t, k, j) # t
  <1>1. PICK x \in 0..2*NTX-1 : x = t + NTX - k + j - 1
    OBVIOUS
  <1>2. NTX \in Nat \ {0}
    OBVIOUS
  <1>3. x % NTX = IF x < NTX THEN x ELSE x - NTX
    BY <1>1, <1>2, ModOnce
  <1>4. TxSlot(t, k, j) = IF x < NTX THEN x ELSE x - NTX
    BY <1>1, <1>3 DEF TxSlot
  <1> QED
    BY <1>1, <1>4

(* A list with one more at its end, or without its first.                  *)
LEMMA ListAppend ==
    ASSUME NEW S, NEW k \in Nat, NEW q \in [1..k -> S], NEW r \in [1..k+1 -> S],
           \A j \in 1..k : r[j] = q[j]
    PROVE  r = Append(q, r[k+1]) /\ Len(q) = k
  <1>1. q \in Seq(S) /\ Len(q) = k
    OBVIOUS
  <1>2. r \in Seq(S) /\ Len(r) = k + 1
    OBVIOUS
  <1>3. Append(q, r[k+1]) \in Seq(S) /\ Len(Append(q, r[k+1])) = k + 1
    BY <1>1
  <1>4. \A j \in 1..k+1 : Append(q, r[k+1])[j] = r[j]
    BY <1>1
  <1> QED
    BY <1>1, <1>2, <1>3, <1>4

LEMMA ListTail ==
    ASSUME NEW S, NEW k \in Nat, NEW q \in [1..k+1 -> S], NEW r \in [1..k -> S],
           \A j \in 1..k : r[j] = q[j+1]
    PROVE  q # <<>> /\ Head(q) = q[1] /\ r = Tail(q)
  <1>1. q \in Seq(S) /\ Len(q) = k + 1
    OBVIOUS
  <1>2. r \in Seq(S) /\ Len(r) = k
    OBVIOUS
  <1>3. q # <<>> /\ Head(q) = q[1]
    BY <1>1
  <1>4. Tail(q) \in Seq(S) /\ Len(Tail(q)) = k
    BY <1>1
  <1>5. \A j \in 1..k : Tail(q)[j] = r[j]
    BY <1>1
  <1> QED
    BY <1>2, <1>3, <1>4, <1>5

(* The packets at k slots of the buffers b.                                *)
TxList(b, t, k) == [j \in 1..k |-> b[(t + NTX - k + j - 1) % NTX]]

Listed(q, b, t, k) ==
    /\ q \in [1..k -> Packet \cup {None}]
    /\ \A j \in 1..k : q[j] = b[TxSlot(t, k, j)]

LEMMA PacketsIs ==
    ASSUME NEW b \in [0..NTX-1 -> Packet \cup {None}], NEW t \in 0..NTX-1, NEW k \in 0..NTX
    PROVE  Listed(TxList(b, t, k), b, t, k)
  <1>1. \A j \in 1..k : TxSlot(t, k, j) = (t + NTX - k + j - 1) % NTX
    BY DEF TxSlot
  <1>2. \A j \in 1..k : TxSlot(t, k, j) \in 0..NTX-1
    BY TxSlotIs
  <1>3. \A j \in 1..k : b[(t + NTX - k + j - 1) % NTX] \in Packet \cup {None}
    BY <1>1, <1>2
  <1> QED
    BY <1>1, <1>3 DEF TxList, Listed

(* Moving the tail adds a slot; sending takes the first.                   *)
LEMMA SlotsOneMore ==
    ASSUME NEW t \in 0..NTX-1, NEW k \in 0..NTX-1, NEW u,
           u = IF t = NTX - 1 THEN 0 ELSE t + 1
    PROVE  /\ \A j \in 1..k : TxSlot(u, k + 1, j) = TxSlot(t, k, j)
           /\ TxSlot(u, k + 1, k + 1) = t
  <1>1. u \in 0..NTX-1
    OBVIOUS
  <1>2. PICK m \in 1..NTX : m = k + 1
    OBVIOUS
  <1>3. ASSUME NEW j \in 1..k PROVE TxSlot(u, m, j) = TxSlot(t, k, j)
    <2>1. j \in 1..m /\ m \in 0..NTX
      BY <1>2
    <2>2. TxSlot(u, m, j) = IF u - m + j - 1 < 0 THEN u - m + j - 1 + NTX ELSE u - m + j - 1
      BY <1>1, <2>1, TxSlotIs
    <2>3. TxSlot(t, k, j) = IF t - k + j - 1 < 0 THEN t - k + j - 1 + NTX ELSE t - k + j - 1
      BY TxSlotIs
    <2> QED
      BY <1>2, <2>2, <2>3
  <1>4. TxSlot(u, m, m) = t
    <2>1. m \in 0..NTX /\ m \in 1..m
      OBVIOUS
    <2>2. TxSlot(u, m, m) = IF u - m + m - 1 < 0 THEN u - m + m - 1 + NTX ELSE u - m + m - 1
      BY <1>1, <2>1, TxSlotIs
    <2> QED
      BY <1>1, <2>2
  <1> QED
    BY <1>2, <1>3, <1>4

LEMMA SlotsOneLess ==
    ASSUME NEW t \in 0..NTX-1, NEW k \in 1..NTX
    PROVE  \A j \in 1..k-1 : TxSlot(t, k - 1, j) = TxSlot(t, k, j + 1)
  <1> SUFFICES ASSUME NEW j \in 1..k-1 PROVE TxSlot(t, k - 1, j) = TxSlot(t, k, j + 1)
    OBVIOUS
  <1>1. t + NTX - (k - 1) + j - 1 = t + NTX - k + (j + 1) - 1
    OBVIOUS
  <1> QED
    BY <1>1 DEF TxSlot

(* How many packets the queue of the refinement has.                       *)
LEMMA InTxIs ==
    ASSUME ETypeOK, TxShape
    PROVE  /\ InTx = TxHeld - (IF txdev = "done" THEN 1 ELSE 0)
           /\ InTx \in 0..NTX /\ TxHeld \in 0..NTX
  <1>1. InTx = TxHeld - (IF txdev = "done" THEN 1 ELSE 0)
    <2>1. Cardinality(Unsent) \in Nat
      BY TxFirstFacts
    <2> QED
      BY <2>1 DEF InTx, TxHeld, Unsent
  <1>2. TxFirst \in 0..NTX-1 /\ TDT \in 0..NTX-1 /\ TxHeld \in Int
    BY TxFirstFacts DEF ETypeOK
  <1>3. TxHeld \in 0..NTX /\ (txdev = "done" => TxHeld > 0)
    BY <1>2 DEF TxShape, Ahead
  <1> QED
    BY <1>1, <1>3

LEMMA InTxNext ==
    ASSUME ETypeOK', TxShape'
    PROVE  /\ InTx' = TxHeld' - (IF txdev' = "done" THEN 1 ELSE 0)
           /\ InTx' \in 0..NTX
  <1>1. (ETypeOK /\ TxShape => InTx = TxHeld - (IF txdev = "done" THEN 1 ELSE 0) /\ InTx \in 0..NTX)'
    BY InTxIs, PTL
  <1> QED
    BY <1>1

TxStutter == TxPackets' = TxPackets /\ sent' = sent

(* Steps of the call and the device that keep the packets that wait.       *)
LEMMA TxPacketsSame ==
    ASSUME ETypeOK, TxShape, ETypeOK', TxShape', TDT' = TDT, InTx' = InTx,
           \A i \in 0..NTX-1 : (InTx < NTX => i # TDT) => tx_bufs'[i] = tx_bufs[i]
    PROVE  TxPackets' = TxPackets
  <1>1. PICK k \in 0..NTX : k = InTx
    BY InTxIs
  <1>2. TDT \in 0..NTX-1
    BY DEF ETypeOK
  <1>3. TxPackets = [j \in 1..k |-> tx_bufs[(TDT + NTX - k + j - 1) % NTX]]
    BY <1>1 DEF TxPackets
  <1>4. TxPackets' = [j \in 1..k |-> tx_bufs'[(TDT + NTX - k + j - 1) % NTX]]
    BY <1>1 DEF TxPackets
  <1>5. ASSUME NEW j \in 1..k
        PROVE  tx_bufs'[(TDT + NTX - k + j - 1) % NTX] = tx_bufs[(TDT + NTX - k + j - 1) % NTX]
    <2>1. TxSlot(TDT, k, j) \in 0..NTX-1 /\ (k < NTX => TxSlot(TDT, k, j) # TDT)
      BY <1>2, TxSlotIs
    <2>2. tx_bufs'[TxSlot(TDT, k, j)] = tx_bufs[TxSlot(TDT, k, j)]
      BY <1>1, <2>1
    <2> QED
      BY <2>2 DEF TxSlot
  <1> QED
    BY <1>3, <1>4, <1>5

(* The tail moves: the driver's packet is the last that waits.             *)
LEMMA TxPuts ==
    ASSUME ETypeOK, TxShape, TxFilled, ETypeOK', TxShape', TxCounted, TxTail
    PROVE  \E p \in Packet : TxWire!Put(p)
  <1>1. /\ call = "tx_tail" /\ call' = "none" /\ txdev' = txdev /\ sent' = sent
        /\ tx_bufs' = tx_bufs /\ TDT' = (TDT + 1) % NTX
    BY DEF TxTail
  <1>2. PICK t \in 0..NTX-1 : t = TDT
    BY DEF ETypeOK
  <1>3. PICK u : u = TDT' /\ u = IF t = NTX - 1 THEN 0 ELSE t + 1
    BY <1>1, <1>2, NextIndex
  <1>4. PICK k \in 0..NTX-1 : k = InTx /\ InTx' = k + 1
    <2>1. TxHeld < NTX /\ TxHeld' = TxHeld + 1
      BY <1>1 DEF TxShape, TxCounted
    <2>2. InTx \in 0..NTX-1
      BY <2>1, InTxIs
    <2>3. InTx' = InTx + 1
      BY <1>1, <2>1, InTxIs, InTxNext
    <2> QED
      BY <2>2, <2>3
  <1>5. PICK b \in [0..NTX-1 -> Packet \cup {None}] : b = tx_bufs
    BY DEF ETypeOK
  <1>6. PICK q : q = TxPackets /\ q = TxList(b, t, k)
    BY <1>2, <1>4, <1>5 DEF TxPackets, TxList
  <1>7. PICK m \in 1..NTX : m = k + 1
    OBVIOUS
  <1>8. PICK r : r = TxPackets' /\ r = TxList(b, u, m)
    BY <1>1, <1>3, <1>4, <1>5, <1>7 DEF TxPackets, TxList
  <1>9. /\ q \in [1..k -> Packet \cup {None}]
        /\ \A j \in 1..k : q[j] = b[TxSlot(t, k, j)]
    <2>1. Listed(TxList(b, t, k), b, t, k)
      BY PacketsIs
    <2> QED
      BY <1>6, <2>1 DEF Listed
  <1>10. /\ r \in [1..m -> Packet \cup {None}]
         /\ \A j \in 1..m : r[j] = b[TxSlot(u, m, j)]
    <2>1. u \in 0..NTX-1
      BY <1>3
    <2>2. Listed(TxList(b, u, m), b, u, m)
      BY <2>1, PacketsIs
    <2> QED
      BY <1>8, <2>2 DEF Listed
  <1>11. /\ \A j \in 1..k : TxSlot(u, m, j) = TxSlot(t, k, j)
         /\ TxSlot(u, m, m) = t
    BY <1>3, <1>7, SlotsOneMore
  <1>12. r[m] = b[t]
    BY <1>10, <1>11
  <1>13. \A j \in 1..k : r[j] = q[j]
    BY <1>7, <1>9, <1>10, <1>11
  <1>14. r = Append(q, r[m]) /\ Len(q) = k
    BY <1>7, <1>9, <1>10, <1>13, ListAppend
  <1>15. b[t] \in Packet
    BY <1>1, <1>2, <1>5 DEF TxFilled
  <1>16. TxWire!Put(b[t])
    <2>1. Len(TxPackets) < NTX
      BY <1>6, <1>14
    <2>2. TxPackets' = Append(TxPackets, b[t])
      BY <1>6, <1>8, <1>12, <1>14
    <2> QED
      BY <1>1, <2>1, <2>2 DEF TxWire!Put
  <1> QED
    BY <1>15, <1>16

(* The device sends the first that waits.                                  *)
LEMMA TxGets ==
    ASSUME ETypeOK, TxShape, ETypeOK', TxShape', TxCounted, DevSend
    PROVE  TxWire!Get
  <1>1. /\ call' = call /\ txdev = "read" /\ txdev' = "done" /\ sent' = tx_bufs[TDH]
        /\ tx_bufs' = tx_bufs /\ TDT' = TDT
    BY DEF DevSend
  <1>2. PICK t \in 0..NTX-1 : t = TDT
    BY DEF ETypeOK
  <1>3. PICK k \in 1..NTX : k = InTx /\ InTx' = k - 1 /\ k = TxHeld
    <2>1. TxHeld > 0 /\ TxHeld' = TxHeld
      BY <1>1 DEF TxShape, TxCounted
    <2>2. InTx = TxHeld /\ InTx' = TxHeld' - 1 /\ TxHeld \in 0..NTX
      BY <1>1, InTxIs, InTxNext
    <2> QED
      BY <2>1, <2>2
  <1>4. PICK b \in [0..NTX-1 -> Packet \cup {None}] : b = tx_bufs
    BY DEF ETypeOK
  <1>5. PICK q : q = TxPackets /\ q = TxList(b, t, k)
    BY <1>2, <1>3, <1>4 DEF TxPackets, TxList
  <1>6. PICK m \in 0..NTX-1 : m = k - 1
    OBVIOUS
  <1>7. PICK r : r = TxPackets' /\ r = TxList(b, t, m)
    BY <1>1, <1>2, <1>3, <1>4, <1>6 DEF TxPackets, TxList
  <1>8. /\ q \in [1..k -> Packet \cup {None}]
        /\ \A j \in 1..k : q[j] = b[TxSlot(t, k, j)]
    <2>1. Listed(TxList(b, t, k), b, t, k)
      BY PacketsIs
    <2> QED
      BY <1>5, <2>1 DEF Listed
  <1>9. /\ r \in [1..m -> Packet \cup {None}]
        /\ \A j \in 1..m : r[j] = b[TxSlot(t, m, j)]
    <2>1. Listed(TxList(b, t, m), b, t, m)
      BY PacketsIs
    <2> QED
      BY <1>7, <2>1 DEF Listed
  <1>10. \A j \in 1..m : TxSlot(t, m, j) = TxSlot(t, k, j + 1)
    BY <1>6, SlotsOneLess
  <1>11. \A j \in 1..m : r[j] = q[j + 1]
    BY <1>6, <1>8, <1>9, <1>10
  <1>12. k = m + 1
    BY <1>6
  <1>13. q # <<>> /\ Head(q) = q[1] /\ r = Tail(q)
    BY <1>8, <1>9, <1>11, <1>12, ListTail
  <1>14. TxSlot(t, k, 1) = TDH
    <2>1. TxFirst = TDH /\ TDH \in 0..NTX-1
      BY <1>1 DEF TxFirst, ETypeOK
    <2>2. k = Ahead(TDH, t, NTX) \/ (k = NTX /\ TDH = t)
      BY <1>2, <1>3, <2>1 DEF TxShape
    <2>3. 1 \in 1..k
      OBVIOUS
    <2>4. TxSlot(t, k, 1) = IF t - k + 1 - 1 < 0 THEN t - k + 1 - 1 + NTX ELSE t - k + 1 - 1
      BY <2>3, TxSlotIs
    <2> QED
      BY <2>1, <2>2, <2>4 DEF Ahead
  <1>15. q[1] = tx_bufs[TDH]
    BY <1>4, <1>8, <1>14
  <1> QED
    BY <1>1, <1>5, <1>7, <1>13, <1>15 DEF TxWire!Get

LEMMA TxSimulated ==
    ASSUME TxInv, TxShape, TxFilled, [Next]_vars
    PROVE  [TxWire!Next]_(TxWire!wireVars)
  <1>1. ETypeOK /\ ETypeOK' /\ TxShape' /\ TxCounted
    BY TypesStep, TxShapeStep DEF TxInv
  <1>2. CASE TxTail
    BY <1>1, <1>2, TxPuts DEF TxWire!Next
  <1>3. CASE DevSend
    BY <1>1, <1>3, TxGets DEF TxWire!Next
  <1>4. ASSUME ~TxTail, ~DevSend
        PROVE  /\ TDT' = TDT /\ sent' = sent
               /\ \/ tx_bufs' = tx_bufs
                  \/ call = "tx_fill" /\ tx_bufs' = [tx_bufs EXCEPT ![TDT] = data]
               /\ ~(call = "tx_tail" /\ call' = "none")
               /\ txdev' = "done" <=> txdev = "done" /\ txdev' # "next"
    BY <1>4 DEF Next, vars, txVars, DriverStep, DeviceSends, DeviceStores, TxFill, TxClear, RxWait, RxCopy,
                RxClear, RxTail, Receive, Transmit, DevFetch, DevSent, DevTxHead, DevStore, DevStored,
                DevRxHead, DevArrive
  <1>5. ASSUME ~TxTail, ~DevSend PROVE TxStutter
    <2>1. InTx' = InTx
      <3>1. TxHeld' = IF txdev = "done" /\ txdev' = "next" THEN TxHeld - 1 ELSE TxHeld
        BY <1>1, <1>4, <1>5 DEF TxCounted
      <3>2. InTx = TxHeld - (IF txdev = "done" THEN 1 ELSE 0) /\ TxHeld \in 0..NTX
        BY <1>1, InTxIs
      <3>3. InTx' = TxHeld' - (IF txdev' = "done" THEN 1 ELSE 0)
        BY <1>1, InTxNext
      <3> QED
        BY <1>4, <1>5, <3>1, <3>2, <3>3
    <2>2. \A i \in 0..NTX-1 : (InTx < NTX => i # TDT) => tx_bufs'[i] = tx_bufs[i]
      <3>1. call = "tx_fill" => InTx < NTX
        BY <1>1, InTxIs DEF TxShape
      <3>2. tx_bufs \in [0..NTX-1 -> Packet \cup {None}] /\ TDT \in 0..NTX-1
        BY <1>1 DEF ETypeOK
      <3> QED
        BY <1>4, <1>5, <3>1, <3>2
    <2> QED
      BY <1>1, <1>4, <1>5, <2>1, <2>2, TxPacketsSame DEF TxStutter
  <1> QED
    BY <1>2, <1>3, <1>5 DEF TxWire!wireVars, TxStutter

LEMMA TxWireInit == Init => TxWire!Init
  <1> SUFFICES ASSUME Init PROVE TxWire!Init
    OBVIOUS
  <1>1. InTx = 0
    <2>1. {i \in 0..NTX-1 : ~txDD[i]} = {} /\ call = "none" /\ txdev = "idle"
      BY DEF Init
    <2> QED
      BY <2>1, FS_EmptySet DEF InTx
  <1>2. TxPackets = <<>>
    BY <1>1 DEF TxPackets, TxList
  <1> QED
    BY <1>2 DEF Init, TxWire!Init

-----------------------------------------------------------------------------
RxHeld == Cardinality(Stored)

RxCounted ==
    RxHeld' = IF rxdev = "done" /\ rxdev' = "next" THEN RxHeld + 1
              ELSE IF call = "rx_clear" /\ call' = "rx_tail" THEN RxHeld - 1 ELSE RxHeld

LEMMA RxFacts ==
    ASSUME RxInv
    PROVE  /\ RDT \in 0..NRX-1 /\ RDH \in 0..NRX-1 /\ Rdt \in 0..NRX-1
           /\ Rdt = IF RDT = NRX - 1 THEN 0 ELSE RDT + 1
           /\ RxHeld \in Nat
           /\ Ahead(Rdt, RDH, NRX) \in 0..NRX-1
           /\ Ahead(Rdt, RDH, NRX) = NRX - 1 <=> RDH = RDT
           /\ Ahead(Rdt, RDH, NRX) = 0 <=> RDH = Rdt
  <1>1. RDT \in 0..NRX-1 /\ RDH \in 0..NRX-1
    BY DEF RxInv, ETypeOK
  <1>2. Rdt = IF RDT = NRX - 1 THEN 0 ELSE RDT + 1
    BY RdtNext DEF RxInv
  <1>3. RxHeld \in Nat
    <2>1. Stored \in SUBSET (0..NRX-1) /\ NRX \in Nat
      BY DEF Stored
    <2> QED
      BY <2>1, NoBits DEF RxHeld
  <1> QED
    BY <1>1, <1>2, <1>3 DEF Ahead

LEMMA RxFactsNext ==
    ASSUME RxInv'
    PROVE  /\ RDT' \in 0..NRX-1 /\ RDH' \in 0..NRX-1 /\ Rdt' \in 0..NRX-1
           /\ Rdt' = IF RDT' = NRX - 1 THEN 0 ELSE RDT' + 1
           /\ RxHeld' \in Nat
  <1>1. (RxInv => /\ RDT \in 0..NRX-1 /\ RDH \in 0..NRX-1 /\ Rdt \in 0..NRX-1
                  /\ Rdt = IF RDT = NRX - 1 THEN 0 ELSE RDT + 1
                  /\ RxHeld \in Nat)'
    BY RxFacts, PTL
  <1> QED
    BY <1>1

LEMMA RxShapeInit == Init => RxShape /\ RxFilled
  <1> SUFFICES ASSUME Init PROVE RxShape /\ RxFilled
    OBVIOUS
  <1>1. Stored = {} /\ Rdt = 1 /\ RDH = 1 /\ rxdev = "idle" /\ call = "none"
    BY TypesInit, RdtNext DEF Init, Stored
  <1> QED
    BY <1>1, FS_EmptySet DEF RxShape, RxFilled, Ahead

(* Steps that leave the receive ring alone, and the call's place on it.    *)
LEMMA RxShapeSame ==
    ASSUME RxShape, rxDD' = rxDD, RDT' = RDT, RDH' = RDH,
           rxdev' = "next" <=> rxdev = "next",
           call' = "rx_tail" <=> call = "rx_tail"
    PROVE  RxShape' /\ RxHeld' = RxHeld
  <1>1. Stored' = Stored /\ Rdt' = Rdt
    BY DEF Stored, Rdt
  <1> QED
    BY <1>1 DEF RxShape, RxHeld

LEMMA RxShapeStep ==
    ASSUME RxInv, RxShape, [Next]_vars
    PROVE  RxShape' /\ RxCounted
  <1>1. RxInv'
    BY RxInvStep
  <1>2. /\ RDT \in 0..NRX-1 /\ RDH \in 0..NRX-1 /\ Rdt \in 0..NRX-1
        /\ Rdt = IF RDT = NRX - 1 THEN 0 ELSE RDT + 1
        /\ RxHeld \in Nat
        /\ NRX \in Nat \ {0, 1} /\ rxDD \in [0..NRX-1 -> BOOLEAN]
    BY RxFacts DEF RxInv, ETypeOK
  <1>3. /\ Rdt' = IF RDT' = NRX - 1 THEN 0 ELSE RDT' + 1
        /\ RxHeld' \in Nat
    BY <1>1, RxFactsNext
  <1>4. RxMarked /\ RxApart
    BY DEF RxInv
  <1>5. RxHeld = Ahead(Rdt, RDH, NRX) + (IF rxdev = "next" THEN 1 ELSE 0)
                                      - (IF call = "rx_tail" THEN 1 ELSE 0)
    BY DEF RxShape, RxHeld
  <1>6. CASE RxClear
    <2>1. /\ rxDD' = [rxDD EXCEPT ![Rdt] = FALSE] /\ RDT' = RDT /\ RDH' = RDH /\ rxdev' = rxdev
          /\ call = "rx_clear" /\ call' = "rx_tail"
      BY <1>6 DEF RxClear
    <2>2. rxDD[Rdt]
      BY <1>2, <1>4, <2>1 DEF RxMarked, RxApart, Ahead
    <2>3. Stored = Stored' \cup {Rdt} /\ Rdt \notin Stored' /\ Stored' \in SUBSET (0..NRX-1)
      BY <1>2, <2>1, <2>2 DEF Stored
    <2>4. RxHeld = RxHeld' + 1
      <3>1. NRX \in Nat
        OBVIOUS
      <3> QED
        BY <1>2, <2>3, <3>1, OneMore DEF RxHeld
    <2>5. RxHeld' = RxHeld - 1
      <3>1. PICK n \in Nat : n = RxHeld'
        BY <1>3
      <3>2. RxHeld = n + 1
        BY <2>4, <3>1
      <3>3. RxHeld - 1 = n
        BY <3>2
      <3> QED
        BY <3>1, <3>3
    <2>6. Rdt' = Rdt
      BY <2>1 DEF Rdt
    <2> QED
      BY <1>2, <1>5, <2>1, <2>5, <2>6 DEF RxShape, RxHeld, RxCounted, Ahead
  <1>7. CASE RxTail
    <2>1. /\ rxDD' = rxDD /\ RDT' = Rdt /\ RDH' = RDH /\ rxdev' = rxdev
          /\ call = "rx_tail" /\ call' = "none" /\ Rdt # RDH
      BY <1>4, <1>7 DEF RxTail, RxApart
    <2>2. RxHeld' = RxHeld
      BY <2>1 DEF RxHeld, Stored
    <2>3. Ahead(Rdt, RDH, NRX) = Ahead(Rdt', RDH', NRX) + 1
      BY <1>2, <1>3, <2>1 DEF Ahead
    <2> QED
      BY <1>2, <1>3, <1>5, <2>1, <2>2, <2>3 DEF RxShape, RxHeld, RxCounted, Ahead
  <1>8. CASE DevStored
    <2>1. /\ rxDD' = [rxDD EXCEPT ![RDH] = TRUE] /\ RDT' = RDT /\ RDH' = RDH /\ call' = call
          /\ rxdev = "done" /\ rxdev' = "next"
      BY <1>8 DEF DevStored
    <2>2. ~rxDD[RDH]
      BY <1>2, <1>4, <2>1 DEF RxMarked
    <2>3. Stored' = Stored \cup {RDH} /\ RDH \notin Stored /\ Stored \in SUBSET (0..NRX-1)
      BY <1>2, <2>1, <2>2 DEF Stored
    <2>4. RxHeld' = RxHeld + 1
      <3>1. NRX \in Nat
        OBVIOUS
      <3> QED
        BY <1>2, <2>3, <3>1, OneMore DEF RxHeld
    <2>5. Rdt' = Rdt
      BY <1>2, <1>3, <2>1
    <2> QED
      BY <1>2, <1>5, <2>1, <2>4, <2>5 DEF RxShape, RxHeld, RxCounted, Ahead
  <1>9. CASE DevRxHead
    <2>1. /\ rxDD' = rxDD /\ RDT' = RDT /\ RDH' = (RDH + 1) % NRX /\ call' = call
          /\ rxdev = "next" /\ rxdev' = "idle" /\ RDH # RDT
      BY <1>4, <1>9 DEF DevRxHead, RxApart
    <2>2. RDH' = IF RDH = NRX - 1 THEN 0 ELSE RDH + 1
      BY <1>2, <2>1, NextIndex
    <2>3. RxHeld' = RxHeld
      BY <2>1 DEF RxHeld, Stored
    <2>4. Rdt' = Rdt
      BY <1>2, <1>3, <2>1
    <2>5. Ahead(Rdt', RDH', NRX) = Ahead(Rdt, RDH, NRX) + 1
      BY <1>2, <2>1, <2>2, <2>4 DEF Ahead
    <2> QED
      BY <1>2, <1>5, <2>1, <2>3, <2>5 DEF RxShape, RxHeld, RxCounted, Ahead
  <1>10. CASE \/ UNCHANGED vars \/ DeviceSends \/ DevStore \/ Receive \/ RxWait \/ RxCopy
              \/ TxFill \/ TxClear \/ TxTail
              \/ \E p \in Packet : Transmit(p) \/ DevArrive(p)
    <2>1. /\ UNCHANGED <<rxDD, RDT, RDH>>
          /\ call' = call \/ (call' # "rx_tail" /\ call # "rx_tail" /\ call # "rx_clear")
          /\ rxdev' = rxdev \/ (rxdev' # "next" /\ rxdev # "next")
      BY <1>10 DEF vars, rxVars, DeviceSends, DevFetch, DevSend, DevSent, DevTxHead, DevStore, Receive,
                   RxWait, RxCopy, TxFill, TxClear, TxTail, Transmit, DevArrive
    <2> QED
      BY <2>1, RxShapeSame DEF RxCounted
  <1> QED
    BY <1>6, <1>7, <1>8, <1>9, <1>10 DEF Next, DriverStep, DeviceStores

LEMMA RxFilledStep ==
    ASSUME RxInv, RxFilled, [Next]_vars
    PROVE  RxFilled'
  <1>1. RDH \in 0..NRX-1 /\ rx_bufs \in [0..NRX-1 -> Packet \cup {None}]
    BY DEF RxInv, ETypeOK
  <1>2. CASE DevStore \/ DevStored \/ DevRxHead
    BY <1>1, <1>2 DEF RxFilled, DevStore, DevStored, DevRxHead
  <1>3. ASSUME NEW p \in Packet, DevArrive(p) PROVE RxFilled'
    BY <1>3 DEF RxFilled, DevArrive
  <1>4. CASE \/ UNCHANGED vars \/ DeviceSends \/ Receive \/ RxWait \/ RxCopy \/ RxClear \/ RxTail
             \/ TxFill \/ TxClear \/ TxTail
             \/ \E p \in Packet : Transmit(p)
    <2>1. UNCHANGED <<RDH, rx_bufs, rxdev, arriving>>
      BY <1>4 DEF vars, rxVars, DeviceSends, DevFetch, DevSend, DevSent, DevTxHead, Receive,
                  RxWait, RxCopy, RxClear, RxTail, TxFill, TxClear, TxTail, Transmit
    <2> QED
      BY <2>1 DEF RxFilled
  <1> QED
    BY <1>2, <1>3, <1>4 DEF Next, DriverStep, DeviceStores

-----------------------------------------------------------------------------
(* The slot of the jth packet from the descriptor f on.                    *)
RxSlot(f, j) == (f + j - 1) % NRX

LEMMA RxSlotIs ==
    ASSUME NEW f \in 0..NRX, NEW j \in 1..NRX
    PROVE  /\ RxSlot(f, j) = IF f + j - 1 < NRX THEN f + j - 1 ELSE f + j - 1 - NRX
           /\ RxSlot(f, j) \in 0..NRX-1
  <1>1. PICK x \in 0..2*NRX-1 : x = f + j - 1
    OBVIOUS
  <1>2. NRX \in Nat \ {0}
    OBVIOUS
  <1>3. x % NRX = IF x < NRX THEN x ELSE x - NRX
    BY <1>1, <1>2, ModOnce
  <1>4. RxSlot(f, j) = IF x < NRX THEN x ELSE x - NRX
    BY <1>1, <1>3 DEF RxSlot
  <1> QED
    BY <1>1, <1>4

RxList(b, f, k) == [j \in 1..k |-> b[(f + j - 1) % NRX]]

RxListed(q, b, f, k) ==
    /\ q \in [1..k -> Packet \cup {None}]
    /\ \A j \in 1..k : q[j] = b[RxSlot(f, j)]

LEMMA RxPacketsIs ==
    ASSUME NEW b \in [0..NRX-1 -> Packet \cup {None}], NEW f \in 0..NRX, NEW k \in 0..NRX
    PROVE  RxListed(RxList(b, f, k), b, f, k)
  <1>1. \A j \in 1..k : RxSlot(f, j) = (f + j - 1) % NRX
    BY DEF RxSlot
  <1>2. \A j \in 1..k : RxSlot(f, j) \in 0..NRX-1
    BY RxSlotIs
  <1>3. \A j \in 1..k : b[(f + j - 1) % NRX] \in Packet \cup {None}
    BY <1>1, <1>2
  <1> QED
    BY <1>1, <1>3 DEF RxList, RxListed

(* The packet the driver is about to take back the descriptor of has left  *)
(* the queue.                                                              *)
Taken == IF call \in {"rx_clear", "rx_tail"} THEN 1 ELSE 0

LEMMA InRxIs ==
    ASSUME RxInv, RxShape
    PROVE  /\ InRx = RxHeld - (IF call = "rx_clear" THEN 1 ELSE 0)
           /\ InRx = Ahead(Rdt, RDH, NRX) + (IF rxdev = "next" THEN 1 ELSE 0) - Taken
           /\ InRx \in 0..NRX-1
           /\ FirstRx = Rdt + Taken /\ FirstRx \in 0..NRX
  <1>1. /\ RDH \in 0..NRX-1 /\ RDT \in 0..NRX-1 /\ Rdt \in 0..NRX-1 /\ RxHeld \in Nat
        /\ Ahead(Rdt, RDH, NRX) \in 0..NRX-1
        /\ Ahead(Rdt, RDH, NRX) = NRX - 1 <=> RDH = RDT
        /\ Ahead(Rdt, RDH, NRX) = 0 <=> RDH = Rdt
    BY RxFacts
  <1>2. InRx = RxHeld - (IF call = "rx_clear" THEN 1 ELSE 0)
    BY DEF InRx, RxHeld, Stored
  <1>3. RxHeld = Ahead(Rdt, RDH, NRX) + (IF rxdev = "next" THEN 1 ELSE 0)
                                      - (IF call = "rx_tail" THEN 1 ELSE 0)
    BY DEF RxShape, RxHeld
  <1>4. InRx = Ahead(Rdt, RDH, NRX) + (IF rxdev = "next" THEN 1 ELSE 0) - Taken
    BY <1>1, <1>2, <1>3 DEF Taken
  <1>5. /\ rxdev = "next" => RDH # RDT
        /\ Taken = 1 => Rdt # RDH
    BY DEF RxInv, RxApart, Taken
  <1>6. InRx \in 0..NRX-1
    BY <1>1, <1>4, <1>5 DEF Taken
  <1>7. FirstRx = Rdt + Taken /\ FirstRx \in 0..NRX
    BY <1>1 DEF FirstRx, Taken
  <1> QED
    BY <1>2, <1>4, <1>6, <1>7

LEMMA InRxNext ==
    ASSUME RxInv', RxShape'
    PROVE  /\ InRx' = RxHeld' - (IF call' = "rx_clear" THEN 1 ELSE 0)
           /\ FirstRx' = Rdt' + Taken'
  <1>1. (RxInv /\ RxShape => /\ InRx = RxHeld - (IF call = "rx_clear" THEN 1 ELSE 0)
                             /\ FirstRx = Rdt + Taken)'
    BY InRxIs, PTL
  <1> QED
    BY <1>1

(* Steps that keep the packets that wait.                                  *)
LEMMA RxPacketsSame ==
    ASSUME NEW f \in 0..NRX, NEW g \in 0..NRX, NEW k \in 0..NRX-1, NEW b, NEW c,
           f = g \/ (f = NRX /\ g = 0),
           \A j \in 1..k : c[RxSlot(f, j)] = b[RxSlot(f, j)]
    PROVE  RxList(c, g, k) = RxList(b, f, k)
  <1>1. ASSUME NEW j \in 1..k
        PROVE  c[(g + j - 1) % NRX] = b[(f + j - 1) % NRX]
    <2>1. /\ RxSlot(f, j) = IF f + j - 1 < NRX THEN f + j - 1 ELSE f + j - 1 - NRX
          /\ RxSlot(g, j) = IF g + j - 1 < NRX THEN g + j - 1 ELSE g + j - 1 - NRX
      <3>1. j \in 1..NRX
        OBVIOUS
      <3> QED
        BY <3>1, RxSlotIs
    <2>2. RxSlot(f, j) = RxSlot(g, j)
      BY <2>1
    <2>3. c[RxSlot(g, j)] = b[RxSlot(f, j)]
      BY <2>2
    <2> QED
      BY <2>3 DEF RxSlot
  <1> QED
    BY <1>1 DEF RxList

(* DD says that a packet is there: it is the last that waits.              *)
LEMMA RxPuts ==
    ASSUME RxInv, RxShape, RxFilled, RxInv', RxShape', RxCounted, DevStored
    PROVE  \E p \in Packet : RxWire!Put(p)
  <1>1. /\ call' = call /\ rxdev = "done" /\ rxdev' = "next" /\ got' = got
        /\ rx_bufs' = rx_bufs /\ RDT' = RDT /\ RDH' = RDH
    BY DEF DevStored
  <1>2. PICK f \in 0..NRX : f = FirstRx /\ FirstRx' = f
    <2>1. FirstRx' = FirstRx
      BY <1>1 DEF FirstRx, Rdt
    <2> QED
      BY <2>1, InRxIs
  <1>3. PICK k \in 0..NRX-2 : k = InRx /\ InRx' = k + 1 /\ RxSlot(f, k + 1) = RDH
    <2>1. /\ InRx = RxHeld - (IF call = "rx_clear" THEN 1 ELSE 0)
          /\ InRx = Ahead(Rdt, RDH, NRX) - Taken
          /\ InRx \in 0..NRX-1 /\ f = Rdt + Taken
      <3>1. Ahead(Rdt, RDH, NRX) \in 0..NRX-1 /\ Taken \in {0, 1}
        BY RxFacts DEF Taken
      <3>2. InRx = Ahead(Rdt, RDH, NRX) + (IF rxdev = "next" THEN 1 ELSE 0) - Taken
        BY InRxIs
      <3>3. InRx = Ahead(Rdt, RDH, NRX) - Taken
        BY <1>1, <3>1, <3>2
      <3>4. f = Rdt + Taken
        BY <1>2, InRxIs
      <3> QED
        BY <3>3, <3>4, InRxIs
    <2>2. /\ RDH \in 0..NRX-1 /\ Rdt \in 0..NRX-1 /\ RxHeld \in Nat
          /\ Ahead(Rdt, RDH, NRX) \in 0..NRX-1
          /\ Ahead(Rdt, RDH, NRX) = NRX - 1 <=> RDH = RDT
      BY RxFacts
    <2>3. InRx \in 0..NRX-2
      BY <1>1, <2>1, <2>2 DEF RxInv, RxApart, Taken
    <2>4. InRx' = InRx + 1
      <3>1. InRx' = RxHeld' - (IF call = "rx_clear" THEN 1 ELSE 0) /\ RxHeld' = RxHeld + 1
        BY <1>1, InRxNext DEF RxCounted
      <3> QED
        BY <2>1, <2>2, <3>1
    <2>5. PICK m \in 1..NRX : m = InRx + 1
      BY <2>3
    <2>6. RxSlot(f, m) = IF f + m - 1 < NRX THEN f + m - 1 ELSE f + m - 1 - NRX
      BY RxSlotIs
    <2>7. RxSlot(f, m) = RDH
      <3>1. Taken \in {0, 1}
        BY DEF Taken
      <3> QED
        BY <2>1, <2>2, <2>5, <2>6, <3>1 DEF Ahead
    <2> QED
      BY <2>3, <2>4, <2>5, <2>7
  <1>4. PICK b \in [0..NRX-1 -> Packet \cup {None}] : b = rx_bufs
    BY DEF RxInv, ETypeOK
  <1>5. PICK m \in 1..NRX-1 : m = k + 1
    OBVIOUS
  <1>6. PICK q : q = RxPackets /\ q = RxList(b, f, k)
    BY <1>2, <1>3, <1>4 DEF RxPackets, RxList
  <1>7. PICK r : r = RxPackets' /\ r = RxList(b, f, m)
    BY <1>1, <1>2, <1>3, <1>4, <1>5 DEF RxPackets, RxList
  <1>8. RxListed(q, b, f, k) /\ RxListed(r, b, f, m)
    <2>1. k \in 0..NRX /\ m \in 0..NRX
      OBVIOUS
    <2>2. RxListed(RxList(b, f, k), b, f, k)
      BY <2>1, RxPacketsIs
    <2>3. RxListed(RxList(b, f, m), b, f, m)
      BY <2>1, RxPacketsIs
    <2> QED
      BY <1>6, <1>7, <2>2, <2>3
  <1>9. \A j \in 1..k : r[j] = q[j]
    BY <1>5, <1>8 DEF RxListed
  <1>10. r = Append(q, r[m]) /\ Len(q) = k
    <2>1. q \in [1..k -> Packet \cup {None}] /\ r \in [1..m -> Packet \cup {None}]
      BY <1>8 DEF RxListed
    <2> QED
      BY <1>5, <1>9, <2>1, ListAppend
  <1>11. r[m] = b[RDH] /\ b[RDH] \in Packet
    BY <1>1, <1>3, <1>4, <1>5, <1>8 DEF RxListed, RxFilled
  <1>12. RxWire!Put(b[RDH])
    <2>1. Len(RxPackets) < NRX - 1
      BY <1>6, <1>10
    <2>2. RxPackets' = Append(RxPackets, b[RDH])
      BY <1>6, <1>7, <1>10, <1>11
    <2> QED
      BY <1>1, <2>1, <2>2 DEF RxWire!Put
  <1> QED
    BY <1>11, <1>12

(* The driver copies the first that waits.                                 *)
LEMMA RxGets ==
    ASSUME RxInv, RxShape, RxInv', RxShape', RxCounted, RxCopy
    PROVE  RxWire!Get
  <1>1. /\ call = "rx_copy" /\ call' = "rx_clear" /\ got' = rx_bufs[Rdt] /\ rxdev' = rxdev
        /\ rx_bufs' = rx_bufs /\ RDT' = RDT /\ RDH' = RDH
    BY DEF RxCopy
  <1>2. Rdt' = Rdt /\ Rdt \in 0..NRX-1
    BY <1>1, RxFacts DEF Rdt
  <1>3. PICK f \in 0..NRX-1 : f = Rdt /\ FirstRx = f /\ FirstRx' = f + 1
    BY <1>1, <1>2 DEF FirstRx
  <1>4. PICK k \in 1..NRX-1 : k = InRx /\ InRx' = k - 1
    <2>1. InRx = RxHeld /\ InRx \in 0..NRX-1
      BY <1>1, InRxIs, RxFacts
    <2>2. InRx' = RxHeld' - 1 /\ RxHeld' = RxHeld
      BY <1>1, InRxNext DEF RxCounted
    <2>3. InRx > 0
      <3>1. InRx = Ahead(Rdt, RDH, NRX) + (IF rxdev = "next" THEN 1 ELSE 0) - Taken
        BY InRxIs
      <3>2. Taken = 0 /\ Rdt # RDH
        BY <1>1 DEF Taken, RxInv, RxApart
      <3>3. Ahead(Rdt, RDH, NRX) \in 0..NRX-1 /\ (Ahead(Rdt, RDH, NRX) = 0 <=> RDH = Rdt)
        BY RxFacts
      <3> QED
        BY <3>1, <3>2, <3>3
    <2> QED
      BY <2>1, <2>2, <2>3
  <1>5. PICK b \in [0..NRX-1 -> Packet \cup {None}] : b = rx_bufs
    BY DEF RxInv, ETypeOK
  <1>6. PICK m \in 0..NRX-1 : m = k - 1
    OBVIOUS
  <1>7. PICK g \in 0..NRX : g = f + 1
    OBVIOUS
  <1>8. PICK q : q = RxPackets /\ q = RxList(b, f, k)
    BY <1>3, <1>4, <1>5 DEF RxPackets, RxList
  <1>9. PICK r : r = RxPackets' /\ r = RxList(b, g, m)
    BY <1>1, <1>3, <1>4, <1>5, <1>6, <1>7 DEF RxPackets, RxList
  <1>10. RxListed(q, b, f, k) /\ RxListed(r, b, g, m)
    <2>1. k \in 0..NRX /\ m \in 0..NRX /\ f \in 0..NRX
      OBVIOUS
    <2>2. RxListed(RxList(b, f, k), b, f, k)
      BY <2>1, RxPacketsIs
    <2>3. RxListed(RxList(b, g, m), b, g, m)
      BY <2>1, RxPacketsIs
    <2> QED
      BY <1>8, <1>9, <2>2, <2>3
  <1>11. \A j \in 1..m : r[j] = q[j + 1]
    <2>1. ASSUME NEW j \in 1..m PROVE RxSlot(g, j) = RxSlot(f, j + 1)
      <3>1. g + j - 1 = f + (j + 1) - 1
        BY <1>7
      <3> QED
        BY <3>1 DEF RxSlot
    <2> QED
      BY <1>6, <1>10, <2>1 DEF RxListed
  <1>12. k = m + 1
    BY <1>6
  <1>13. q # <<>> /\ Head(q) = q[1] /\ r = Tail(q)
    <2>1. q \in [1..m+1 -> Packet \cup {None}] /\ r \in [1..m -> Packet \cup {None}]
      BY <1>10, <1>12 DEF RxListed
    <2> QED
      BY <1>11, <2>1, ListTail
  <1>14. q[1] = rx_bufs[Rdt]
    <2>1. RxSlot(f, 1) = f
      BY RxSlotIs
    <2> QED
      BY <1>3, <1>5, <1>10, <2>1 DEF RxListed
  <1> QED
    BY <1>1, <1>8, <1>9, <1>13, <1>14 DEF RxWire!Get

RxStutter == RxPackets' = RxPackets /\ got' = got

(* The other steps: the packets that wait stay, in their slots.            *)
LEMMA RxSame ==
    ASSUME RxInv, RxShape, RxFilled, RxInv', RxShape', RxCounted, [Next]_vars, ~DevStored, ~RxCopy
    PROVE  RxStutter
  <1>1. /\ got' = got
        /\ \/ rx_bufs' = rx_bufs
           \/ rxdev = "write" /\ rx_bufs' = [rx_bufs EXCEPT ![RDH] = arriving]
        /\ ~(rxdev = "done" /\ rxdev' = "next")
        /\ ~(call = "rx_copy" /\ call' = "rx_clear")
        /\ call' = "rx_clear" => call = "rx_clear"
        /\ call = "rx_clear" => call' \in {"rx_clear", "rx_tail"}
        /\ \/ /\ RDT' = RDT
              /\ call' \in {"rx_clear", "rx_tail"} <=> call \in {"rx_clear", "rx_tail"}
           \/ RDT' = Rdt /\ call = "rx_tail" /\ call' = "none"
    BY DEF Next, vars, rxVars, DriverStep, DeviceSends, DeviceStores, TxFill, TxClear, TxTail, RxWait,
           RxClear, RxTail, Receive, Transmit, DevFetch, DevSend, DevSent, DevTxHead, DevStore, DevRxHead,
           DevArrive
  <1>2. PICK k \in 0..NRX-1 : k = InRx /\ InRx' = k
    <2>1. /\ InRx = RxHeld - (IF call = "rx_clear" THEN 1 ELSE 0) /\ RxHeld \in Nat
          /\ InRx \in 0..NRX-1
      BY InRxIs, RxFacts
    <2>2. InRx' = RxHeld' - (IF call' = "rx_clear" THEN 1 ELSE 0)
      BY InRxNext
    <2>3. RxHeld' = IF call = "rx_clear" /\ call' = "rx_tail" THEN RxHeld - 1 ELSE RxHeld
      BY <1>1 DEF RxCounted
    <2>4. InRx' = InRx
      BY <1>1, <2>1, <2>2, <2>3
    <2> QED
      BY <2>1, <2>4
  <1>3. PICK f \in 0..NRX : f = FirstRx
    BY InRxIs
  <1>4. PICK g \in 0..NRX : g = FirstRx' /\ (f = g \/ (f = NRX /\ g = 0))
    <2>1. CASE /\ RDT' = RDT
               /\ call' \in {"rx_clear", "rx_tail"} <=> call \in {"rx_clear", "rx_tail"}
      <3>1. FirstRx' = FirstRx
        BY <2>1 DEF FirstRx, Rdt
      <3> QED
        BY <1>3, <3>1
    <2>2. CASE RDT' = Rdt /\ call = "rx_tail" /\ call' = "none"
      <3>1. f = Rdt + 1 /\ FirstRx' = Rdt'
        BY <1>3, <2>2 DEF FirstRx
      <3>2. Rdt \in 0..NRX-1 /\ Rdt' = IF RDT' = NRX - 1 THEN 0 ELSE RDT' + 1
        BY RxFacts, RxFactsNext
      <3> QED
        BY <2>2, <3>1, <3>2
    <2> QED
      BY <1>1, <2>1, <2>2
  <1>5. \A j \in 1..k : rx_bufs'[RxSlot(f, j)] = rx_bufs[RxSlot(f, j)]
    <2>1. CASE rx_bufs' = rx_bufs
      BY <2>1
    <2>2. CASE rxdev = "write" /\ rx_bufs' = [rx_bufs EXCEPT ![RDH] = arriving]
      <3> SUFFICES ASSUME NEW j \in 1..k PROVE rx_bufs'[RxSlot(f, j)] = rx_bufs[RxSlot(f, j)]
        OBVIOUS
      <3>1. /\ RxSlot(f, j) = IF f + j - 1 < NRX THEN f + j - 1 ELSE f + j - 1 - NRX
            /\ RxSlot(f, j) \in 0..NRX-1
        <4>1. j \in 1..NRX
          OBVIOUS
        <4> QED
          BY <4>1, RxSlotIs
      <3>2. RDH \in 0..NRX-1 /\ Rdt \in 0..NRX-1 /\ Ahead(Rdt, RDH, NRX) \in 0..NRX-1 /\ Taken \in {0, 1}
        BY RxFacts DEF Taken
      <3>3. k = Ahead(Rdt, RDH, NRX) - Taken /\ f = Rdt + Taken
        <4>1. InRx = Ahead(Rdt, RDH, NRX) + (IF rxdev = "next" THEN 1 ELSE 0) - Taken /\ f = Rdt + Taken
          BY <1>3, InRxIs
        <4> QED
          BY <1>2, <2>2, <3>2, <4>1
      <3>4. RxSlot(f, j) # RDH
        BY <3>1, <3>2, <3>3 DEF Ahead
      <3>5. rx_bufs \in [0..NRX-1 -> Packet \cup {None}]
        BY DEF RxInv, ETypeOK
      <3> QED
        BY <2>2, <3>1, <3>4, <3>5
    <2> QED
      BY <1>1, <2>1, <2>2
  <1>6. RxPackets = RxList(rx_bufs, f, k) /\ RxPackets' = RxList(rx_bufs', g, k)
    BY <1>2, <1>3, <1>4 DEF RxPackets, RxList
  <1>7. RxList(rx_bufs', g, k) = RxList(rx_bufs, f, k)
    <2>1. PICK b, c : b = rx_bufs /\ c = rx_bufs'
      OBVIOUS
    <2>2. \A j \in 1..k : c[RxSlot(f, j)] = b[RxSlot(f, j)]
      BY <1>5, <2>1
    <2>3. RxList(c, g, k) = RxList(b, f, k)
      BY <1>4, <2>2, RxPacketsSame
    <2> QED
      BY <2>1, <2>3
  <1> QED
    BY <1>1, <1>6, <1>7 DEF RxStutter

LEMMA RxSimulated ==
    ASSUME RxInv, RxShape, RxFilled, [Next]_vars
    PROVE  [RxWire!Next]_(RxWire!wireVars)
  <1>1. RxInv' /\ RxShape' /\ RxCounted
    BY RxInvStep, RxShapeStep
  <1>2. CASE DevStored
    BY <1>1, <1>2, RxPuts DEF RxWire!Next
  <1>3. CASE RxCopy
    BY <1>1, <1>3, RxGets DEF RxWire!Next
  <1>4. CASE ~DevStored /\ ~RxCopy
    BY <1>1, <1>4, RxSame DEF RxWire!wireVars, RxStutter
  <1> QED
    BY <1>2, <1>3, <1>4

LEMMA RxWireInit == Init => RxWire!Init
  <1> SUFFICES ASSUME Init PROVE RxWire!Init
    OBVIOUS
  <1>1. InRx = 0
    <2>1. {i \in 0..NRX-1 : rxDD[i]} = {} /\ call = "none"
      BY DEF Init
    <2> QED
      BY <2>1, FS_EmptySet DEF InRx
  <1>2. RxPackets = <<>>
    BY <1>1 DEF RxPackets
  <1> QED
    BY <1>2 DEF Init, RxWire!Init

-----------------------------------------------------------------------------
(* What e1000_transmit accepts goes out in order, each packet once and     *)
(* whole: the transmit ring is a queue that a moved tail puts a packet in  *)
(* and that the device sends the first of.                                 *)
THEOREM RingSendsInOrder == Spec => SendsInOrder
  <1>1. Init => TxInv /\ TxShape /\ TxFilled
    BY TxInvInit, TxShapeInit
  <1>2. TxInv /\ TxShape /\ TxFilled /\ [Next]_vars => (TxInv /\ TxShape /\ TxFilled)'
    BY TxInvStep, TxShapeStep, TxFilledStep
  <1>3. TxInv /\ TxShape /\ TxFilled /\ [Next]_vars => [TxWire!Next]_(TxWire!wireVars)
    BY TxSimulated
  <1>4. Spec => TxWire!Init /\ [][TxWire!Next]_(TxWire!wireVars)
    BY <1>1, <1>2, <1>3, TxWireInit, PTL DEF Spec
  <1> QED
    BY <1>4 DEF SendsInOrder, TxWire!Spec

(* What the device stores e1000_receive returns in order, each packet once *)
(* and whole: the receive ring is a queue that DD puts a packet in.        *)
THEOREM RingReceivesInOrder == Spec => ReceivesInOrder
  <1>1. Init => RxInv /\ RxShape /\ RxFilled
    BY RxInvInit, RxShapeInit
  <1>2. RxInv /\ RxShape /\ RxFilled /\ [Next]_vars => (RxInv /\ RxShape /\ RxFilled)'
    BY RxInvStep, RxShapeStep, RxFilledStep
  <1>3. RxInv /\ RxShape /\ RxFilled /\ [Next]_vars => [RxWire!Next]_(RxWire!wireVars)
    BY RxSimulated
  <1>4. Spec => RxWire!Init /\ [][RxWire!Next]_(RxWire!wireVars)
    BY <1>1, <1>2, <1>3, RxWireInit, PTL DEF Spec
  <1> QED
    BY <1>4 DEF ReceivesInOrder, RxWire!Spec
=======================================================================
