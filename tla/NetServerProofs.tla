--------------------------- MODULE NetServerProofs ---------------------------
(* Theorems about NetServer, for any number of request buffers, callers, places  *)
(* in a mailbox and turns given away.                                            *)
EXTENDS NetServer, FiniteSetTheorems, SequenceTheorems, WellFoundedInduction, TLAPS

Boxes == {"recv", "tcpip"}
Msgs  == Packets \cup {Now, Later}
Slots == 0 .. MBOXSLOTS - 1
Ring  == [head : {-1} \cup Slots, nextq : Slots, msg : [Slots -> Msgs]]

-----------------------------------------------------------------------------
(* The ring of a mailbox. *)

Around(x) == IF x < MBOXSLOTS THEN x ELSE x - MBOXSLOTS

Long(b) == IF b.head = -1 THEN 0
           ELSE IF b.nextq > b.head THEN b.nextq - b.head ELSE b.nextq - b.head + MBOXSLOTS

Held(b) == IF b.head = -1 THEN <<>> ELSE [i \in 1 .. Long(b) |-> b.msg[Around(b.head + i - 1)]]

LEMMA Wraps ==
    ASSUME NEW n \in Nat \ {0}, NEW x \in 0 .. (2 * n - 1)
    PROVE  x % n = IF x < n THEN x ELSE x - n
  <1>1. CASE x < n
    BY <1>1, Z3
  <1>2. CASE ~(x < n)
    BY <1>2, Z3
  <1> QED
    BY <1>1, <1>2

LEMMA Places ==
    ASSUME NEW x \in 0 .. (2 * MBOXSLOTS - 1)
    PROVE  x % MBOXSLOTS = Around(x) /\ Around(x) \in Slots
  <1>1. MBOXSLOTS \in Nat \ {0}
    BY NetAssumption
  <1>2. x % MBOXSLOTS = IF x < MBOXSLOTS THEN x ELSE x - MBOXSLOTS
    BY <1>1, Wraps
  <1>3. Around(x) \in Slots
    BY <1>1 DEF Around, Slots
  <1> QED
    BY <1>2, <1>3 DEF Around

LEMMA After ==
    ASSUME NEW x \in Slots
    PROVE  (x + 1) % MBOXSLOTS = Around(x + 1) /\ Around(x + 1) \in Slots
  <1> DEFINE y == x + 1
  <1>1. y \in 0 .. (2 * MBOXSLOTS - 1)
    BY NetAssumption DEF Slots
  <1> HIDE DEF y
  <1>2. y % MBOXSLOTS = Around(y) /\ Around(y) \in Slots
    BY <1>1, Places
  <1> QED
    BY <1>2 DEF y

(* h and q are where a ring's messages begin and end, n is how many there are. *)
LEMMA Span ==
    ASSUME NEW h \in Slots, NEW q \in Slots, NEW n \in Int,
           n = IF q > h THEN q - h ELSE q - h + MBOXSLOTS
    PROVE  /\ n \in 1 .. MBOXSLOTS /\ (n = MBOXSLOTS <=> q = h)
           /\ Around(h + n) = q
           /\ \A i \in 1 .. n : Around(h + i - 1) \in Slots
           /\ q # h => \A i \in 1 .. n : Around(h + i - 1) # q
           /\ \A i \in 1 .. (n - 1) : Around(Around(h + 1) + i - 1) = Around(h + i)
  BY NetAssumption DEF Around, Slots

LEMMA RingFacts ==
    ASSUME NEW b \in Ring
    PROVE  /\ Long(b) \in 0 .. MBOXSLOTS
           /\ Long(b) = 0 <=> b.head = -1
           /\ Long(b) = MBOXSLOTS <=> b.nextq = b.head
           /\ Held(b) \in Seq(Msgs) /\ Len(Held(b)) = Long(b)
           /\ \A i \in 1 .. Long(b) : Held(b)[i] = b.msg[Around(b.head + i - 1)]
  <1>1. b.head \in {-1} \cup Slots /\ b.nextq \in Slots /\ b.msg \in [Slots -> Msgs]
    BY DEF Ring
  <1>2. /\ Long(b) \in 0 .. MBOXSLOTS
        /\ Long(b) = 0 <=> b.head = -1
        /\ Long(b) = MBOXSLOTS <=> b.nextq = b.head
    <2> DEFINE h == b.head
               q == b.nextq
               n == Long(b)
    <2>1. /\ h \in {-1} \cup Slots /\ q \in Slots
          /\ n = IF h = -1 THEN 0 ELSE IF q > h THEN q - h ELSE q - h + MBOXSLOTS
      BY <1>1 DEF Long
    <2> HIDE DEF h, q, n
    <2>2. n \in 0 .. MBOXSLOTS /\ (n = 0 <=> h = -1) /\ (n = MBOXSLOTS <=> q = h)
      BY <2>1, NetAssumption DEF Slots
    <2> QED
      BY <2>2 DEF h, q, n
  <1>3. CASE b.head = -1
    BY <1>2, <1>3, EmptySeq DEF Held
  <1>4. CASE b.head # -1
    <2>1. \A i \in 1 .. Long(b) : Around(b.head + i - 1) \in Slots
      BY <1>1, <1>2, <1>4, NetAssumption DEF Around, Slots
    <2>2. Held(b) \in [1 .. Long(b) -> Msgs]
      BY <1>1, <1>4, <2>1 DEF Held
    <2>3. Held(b) \in Seq(Msgs) /\ Len(Held(b)) = Long(b)
      BY <1>2, <2>2, SeqDef, LenProperties
    <2>4. \A i \in 1 .. Long(b) : Held(b)[i] = b.msg[Around(b.head + i - 1)]
      BY <1>4 DEF Held
    <2> QED
      BY <1>2, <2>3, <2>4
  <1> QED
    BY <1>3, <1>4

(* sys_mbox_trypost's ring with one message more, *)
With(b, x) == [head  |-> IF b.head = -1 THEN b.nextq ELSE b.head,
               nextq |-> (b.nextq + 1) % MBOXSLOTS,
               msg   |-> [b.msg EXCEPT ![b.nextq] = x]]

LEMMA WithOne ==
    ASSUME NEW b \in Ring, NEW x \in Msgs, b.nextq # b.head
    PROVE  /\ With(b, x) \in Ring /\ Long(With(b, x)) = Long(b) + 1
           /\ Held(With(b, x)) = Append(Held(b), x)
  <1> DEFINE c == With(b, x)
             n == Long(b)
  <1>1. b.head \in {-1} \cup Slots /\ b.nextq \in Slots /\ b.msg \in [Slots -> Msgs]
    BY DEF Ring
  <1>2. /\ c.head = (IF b.head = -1 THEN b.nextq ELSE b.head)
        /\ c.nextq = Around(b.nextq + 1) /\ c.nextq \in Slots
        /\ c.msg = [b.msg EXCEPT ![b.nextq] = x]
    BY <1>1, After DEF With
  <1>3. c.head \in Slots /\ c.msg \in [Slots -> Msgs]
    BY <1>1, <1>2
  <1>4. c \in Ring
    BY <1>1, <1>2, <1>3 DEF With, Ring
  <1> HIDE DEF c
  <1>5. Long(c) = n + 1
    <2> DEFINE h == b.head
               q == b.nextq
    <2>1. /\ h \in {-1} \cup Slots /\ q \in Slots /\ h # q
          /\ n = IF h = -1 THEN 0 ELSE IF q > h THEN q - h ELSE q - h + MBOXSLOTS
      BY <1>1 DEF Long
    <2>2. /\ c.head = (IF h = -1 THEN q ELSE h) /\ c.nextq = Around(q + 1) /\ c.head # -1
          /\ Long(c) = IF c.nextq > c.head THEN c.nextq - c.head ELSE c.nextq - c.head + MBOXSLOTS
      BY <1>2, <1>3, NetAssumption DEF Long, Slots
    <2> HIDE DEF h, q, n
    <2> QED
      BY <2>1, <2>2, NetAssumption DEF Around, Slots
  <1>6. /\ n \in 0 .. MBOXSLOTS /\ n # MBOXSLOTS
        /\ Held(b) \in Seq(Msgs) /\ Len(Held(b)) = n
        /\ \A i \in 1 .. n : Held(b)[i] = b.msg[Around(b.head + i - 1)]
    BY RingFacts
  <1>7. /\ Held(c) \in Seq(Msgs) /\ Len(Held(c)) = n + 1
        /\ \A i \in 1 .. (n + 1) : Held(c)[i] = c.msg[Around(c.head + i - 1)]
    BY <1>4, <1>5, RingFacts
  <1>8. /\ Append(Held(b), x) \in Seq(Msgs) /\ Len(Append(Held(b), x)) = n + 1
        /\ \A i \in 1 .. n : Append(Held(b), x)[i] = Held(b)[i]
        /\ Append(Held(b), x)[n + 1] = x
    BY <1>6, AppendProperties
  <1>9. ASSUME NEW i \in 1 .. (n + 1)
        PROVE  Held(c)[i] = Append(Held(b), x)[i]
    <2>1. CASE i = n + 1
      <3>1. Around(c.head + i - 1) = b.nextq
        <4>1. CASE b.head = -1
          <5>1. n = 0 /\ i = 1 /\ c.head = b.nextq /\ b.nextq \in Slots
            BY <1>1, <1>2, <2>1, <4>1 DEF Long
          <5>2. b.nextq + 1 - 1 = b.nextq /\ Around(b.nextq) = b.nextq
            BY <1>1, NetAssumption DEF Around, Slots
          <5> QED
            BY <5>1, <5>2
        <4>2. CASE b.head # -1
          <5>1. b.head \in Slots /\ c.head = b.head
            BY <1>1, <1>2, <4>2
          <5>2. Around(b.head + n) = b.nextq
            BY <1>1, <1>6, <4>2, <5>1, Span DEF Long
          <5>3. b.head + n = c.head + i - 1
            BY <1>6, <2>1, <5>1 DEF Slots
          <5> QED
            BY <5>2, <5>3
        <4> QED
          BY <4>1, <4>2
      <3> QED
        BY <1>1, <1>2, <1>7, <1>8, <2>1, <3>1
    <2>2. CASE i \in 1 .. n
      <3>1. b.head # -1
        BY <1>6, <2>2 DEF Long
      <3>2. Around(b.head + i - 1) \in Slots /\ Around(b.head + i - 1) # b.nextq
        BY <1>1, <1>6, <2>2, <3>1, Span DEF Long
      <3>3. c.msg[Around(b.head + i - 1)] = b.msg[Around(b.head + i - 1)]
        BY <1>1, <1>2, <3>2
      <3> QED
        BY <1>2, <1>6, <1>7, <1>8, <2>2, <3>1, <3>3
    <2> QED
      BY <1>6, <2>1, <2>2
  <1>10. Held(c) = Append(Held(b), x)
    BY <1>6, <1>7, <1>8, <1>9, SeqEqual
  <1> QED
    BY <1>4, <1>5, <1>10 DEF c

(* and sys_arch_mbox_fetch's with one less. *)
Without(b) == LET up == (b.head + 1) % MBOXSLOTS IN
              [head |-> IF up = b.nextq THEN -1 ELSE up, nextq |-> b.nextq,
               msg  |-> [b.msg EXCEPT ![b.head] = Now]]

LEMMA OneLess ==
    ASSUME NEW b \in Ring, b.head # -1
    PROVE  /\ Without(b) \in Ring /\ Long(Without(b)) = Long(b) - 1
           /\ Held(Without(b)) = Tail(Held(b))
  <1> DEFINE c == Without(b)
             n == Long(b)
  <1>1. b.head \in Slots /\ b.nextq \in Slots /\ b.msg \in [Slots -> Msgs]
    BY DEF Ring
  <1>2. /\ c.head = (IF Around(b.head + 1) = b.nextq THEN -1 ELSE Around(b.head + 1))
        /\ c.nextq = b.nextq /\ c.msg = [b.msg EXCEPT ![b.head] = Now] /\ Around(b.head + 1) \in Slots
        /\ c = [head |-> c.head, nextq |-> c.nextq, msg |-> c.msg]
    BY <1>1, After DEF Without
  <1>m. c.msg \in [Slots -> Msgs] /\ \A x \in Slots \ {b.head} : c.msg[x] = b.msg[x]
    BY <1>1, <1>2 DEF Msgs
  <1>3. c \in Ring
    BY <1>1, <1>2, <1>m DEF Ring
  <1> HIDE DEF c
  <1>4. Long(c) = n - 1
    <2> DEFINE h == b.head
               q == b.nextq
    <2>1. h \in Slots /\ q \in Slots /\ h # -1
      BY <1>1, NetAssumption DEF Slots
    <2>2. n = IF q > h THEN q - h ELSE q - h + MBOXSLOTS
      BY <2>1 DEF Long
    <2>3. Long(c) = IF c.head = -1 THEN 0 ELSE IF q > c.head THEN q - c.head ELSE q - c.head + MBOXSLOTS
      BY <1>2 DEF Long
    <2>4. c.head = IF Around(h + 1) = q THEN -1 ELSE Around(h + 1)
      BY <1>2
    <2> HIDE DEF h, q, n
    <2> QED
      BY <2>1, <2>2, <2>3, <2>4, NetAssumption DEF Around, Slots
  <1>5. /\ n \in 1 .. MBOXSLOTS
        /\ Held(b) \in Seq(Msgs) /\ Len(Held(b)) = n
        /\ \A i \in 1 .. n : Held(b)[i] = b.msg[Around(b.head + i - 1)]
    BY RingFacts
  <1>6. /\ Held(c) \in Seq(Msgs) /\ Len(Held(c)) = n - 1
        /\ \A i \in 1 .. (n - 1) : Held(c)[i] = c.msg[Around(c.head + i - 1)]
    BY <1>3, <1>4, RingFacts
  <1>7. Held(b) # <<>>
    BY <1>5, EmptySeq
  <1>8. /\ Tail(Held(b)) \in Seq(Msgs) /\ Len(Tail(Held(b))) = n - 1
        /\ \A i \in 1 .. (n - 1) : Tail(Held(b))[i] = Held(b)[i + 1]
    BY <1>5, <1>7, HeadTailProperties
  <1>9. ASSUME NEW i \in 1 .. (n - 1)
        PROVE  Held(c)[i] = Tail(Held(b))[i]
    <2>1. i + 1 \in 1 .. n
      BY <1>5
    <2>2. /\ Around(c.head + i - 1) = Around(b.head + (i + 1) - 1)
          /\ Around(b.head + (i + 1) - 1) \in Slots \ {b.head}
      <3>1. /\ n = IF b.nextq > b.head THEN b.nextq - b.head ELSE b.nextq - b.head + MBOXSLOTS
            /\ n \in Int
        BY <1>1, <1>5 DEF Long
      <3>2. Around(Around(b.head + 1) + i - 1) = Around(b.head + i)
        BY <1>1, <3>1, Span
      <3>3. c.head # -1
        BY <1>3, <1>4, <2>1, RingFacts
      <3>4. b.head + (i + 1) - 1 = b.head + i
        BY <1>1 DEF Slots
      <3>5. Around(b.head + i) \in Slots \ {b.head}
        <4>1. b.head \in Int /\ i \in Int /\ 1 =< i /\ i < MBOXSLOTS /\ b.head \in Slots
          <5>1. n \in Int /\ n =< MBOXSLOTS /\ i \in Int /\ 1 =< i /\ i =< n - 1 /\ MBOXSLOTS \in Int
            BY <1>5, NetAssumption
          <5>2. b.head \in Int
            BY <1>1, NetAssumption DEF Slots
          <5> HIDE DEF n
          <5> QED
            BY <1>1, <5>1, <5>2
        <4> QED
          BY <4>1, NetAssumption DEF Around, Slots
      <3> QED
        BY <1>2, <3>2, <3>3, <3>4, <3>5
    <2> QED
      BY <1>2, <1>5, <1>6, <1>8, <1>m, <2>1, <2>2
  <1>10. Held(c) = Tail(Held(b))
    BY <1>5, <1>6, <1>8, <1>9, SeqEqual
  <1> QED
    BY <1>3, <1>4, <1>10 DEF c

-----------------------------------------------------------------------------
(* The invariant. *)

Pcs == {"dead", "fetch", "take", "reply", "post", "store", "await", "input", "done", "wait", "flush", "recv", "timer"}

ThreadRec == [pc : Pcs, box : Boxes, msg : Msgs, on : Sems \cup {NoSem}, wakeup : BOOLEAN]
SemRec    == [counter : Nat, waiters : {0, 1}]

Types ==
    /\ buse \in [Buffers -> BOOLEAN] /\ va \in Buffers
    /\ queue \in Seq(Threads) /\ cur \in Threads
    /\ thread \in [Threads -> ThreadRec]
    /\ sem \in [Sems -> SemRec] /\ mbox \in [Boxes -> Ring]

(* What a thread may be doing, by what it is. *)
RoleOf(t) ==
    /\ t = Main => thread[t].pc \in {"flush", "recv", "timer"}
    /\ t = Tcpip => thread[t].box = "tcpip" /\ thread[t].pc \in {"fetch", "take", "reply"}
    /\ t = NetTimer => thread[t].pc = "wait"
    /\ t \in Buffers =>
          \/ thread[t] = Dead
          \/ thread[t].box = "recv" /\ thread[t].pc \in {"fetch", "take", "reply"}
          \/ /\ thread[t].box = "recv" /\ thread[t].pc \in {"input", "post", "store", "done"}
             /\ thread[t].msg \in Packets
          \/ thread[t].box = "tcpip" /\ thread[t].pc \in {"post", "store", "await", "reply"}

Roles == \A t \in Threads : RoleOf(t)

(* Main and the tcpip thread are never lost, so there is always a next thread. *)
Among(t, q, c) == c = t \/ \E i \in 1 .. Len(q) : q[i] = t
Turns == Among(Main, queue, cur) /\ Among(Tcpip, queue, cur)

(* The two counters of a mailbox, with those who were let in, are its ring.    *)
CountsOf(m) ==
    /\ sem[Queued(m)].counter + At("take", m) = Long(mbox[m])
    /\ sem[Free(m)].counter + At("store", m) + Long(mbox[m]) = MBOXSLOTS

Counts == \A m \in Boxes : CountsOf(m)

NetInv == Types /\ Roles /\ Turns /\ RequestPagesNotShared /\ Counts

-----------------------------------------------------------------------------
(* Threads and turns. *)

LEMMA Names ==
    /\ Main \in Threads /\ Tcpip \in Threads /\ NetTimer \in Threads
    /\ Main # Tcpip /\ Main # NetTimer /\ Tcpip # NetTimer
    /\ \A b \in Buffers : b \in Threads /\ b # Main /\ b # Tcpip /\ b # NetTimer
    /\ \A t \in Threads : t = Main \/ t = Tcpip \/ t = NetTimer \/ t \in Buffers
    /\ IsFiniteSet(Threads)
    /\ 0 \in Buffers
  <1>1. IsFiniteSet(Buffers)
    BY NetAssumption, FS_Interval DEF Buffers
  <1>2. Threads = ((Buffers \cup {Tcpip}) \cup {Main}) \cup {NetTimer}
    BY DEF Threads
  <1>3. IsFiniteSet(Threads)
    BY <1>1, <1>2, FS_AddElement
  <1> QED
    BY <1>3, NetAssumption DEF Threads, Buffers, Main, Tcpip, NetTimer

LEMMA SemNames ==
    /\ NoSem \notin Sems /\ Completed \in Sems
    /\ \A m \in Boxes : Queued(m) \in Sems /\ Free(m) \in Sems
  BY DEF Sems, NoSem, Queued, Free, Completed, Boxes

LEMMA SemsOf ==
    ASSUME NEW m \in Boxes
    PROVE  /\ Queued(m) \in Sems /\ Free(m) \in Sems /\ Queued(m) # Free(m)
           /\ Queued(m) # Completed /\ Free(m) # Completed
  BY DEF Sems, Queued, Free, Completed, Boxes

LEMMA SemsApart ==
    ASSUME NEW m \in Boxes, NEW n \in Boxes
    PROVE  /\ Queued(n) # Free(m) /\ Queued(m) # Free(n) /\ Queued(n) # Completed /\ Free(n) # Completed
           /\ n # m => Queued(n) # Queued(m) /\ Free(n) # Free(m)
  BY DEF Sems, Queued, Free, Completed, Boxes

LEMMA DeadIs ==
    Dead.pc = "dead" /\ Dead.box = "recv" /\ Dead.on = NoSem /\ Dead.wakeup = FALSE /\ Dead \in ThreadRec
  BY DEF Dead, Thread, ThreadRec, Pcs, Boxes, Msgs

(* The queue goes round: the running thread to its end, its head gets the turn. *)
LEMMA Round ==
    ASSUME NEW q \in Seq(Threads), NEW c \in Threads, Among(Main, q, c), Among(Tcpip, q, c)
    PROVE  /\ q # <<>> /\ Head(q) \in Threads /\ Append(Tail(q), c) \in Seq(Threads)
           /\ Among(Main, Append(Tail(q), c), Head(q)) /\ Among(Tcpip, Append(Tail(q), c), Head(q))
  <1>1. q # <<>>
    BY Names DEF Among
  <1>2. /\ Tail(q) \in Seq(Threads) /\ Len(Tail(q)) = Len(q) - 1 /\ Head(q) = q[1] /\ Head(q) \in Threads
        /\ \A i \in 1 .. (Len(q) - 1) : Tail(q)[i] = q[i + 1]
        /\ Len(q) \in Nat /\ Len(q) > 0
    BY <1>1, HeadTailProperties
  <1> DEFINE r == Append(Tail(q), c)
  <1>3. /\ r \in Seq(Threads) /\ Len(r) = Len(q)
        /\ \A i \in 1 .. (Len(q) - 1) : r[i] = q[i + 1]
        /\ r[Len(q)] = c
    BY <1>2, AppendProperties
  <1> HIDE DEF r
  <1>4. ASSUME NEW t, Among(t, q, c) PROVE Among(t, r, Head(q))
    <2>1. CASE c = t
      BY <1>2, <1>3, <2>1 DEF Among
    <2>2. CASE \E i \in 1 .. Len(q) : q[i] = t
      <3>1. PICK i \in 1 .. Len(q) : q[i] = t
        BY <2>2
      <3>2. CASE i = 1
        BY <1>2, <3>1, <3>2 DEF Among
      <3>3. CASE i # 1
        <4>1. i - 1 \in 1 .. (Len(q) - 1) /\ i - 1 \in 1 .. Len(r) /\ (i - 1) + 1 = i
          BY <1>2, <1>3, <3>1, <3>3
        <4>2. r[i - 1] = t
          BY <1>3, <3>1, <4>1
        <4> QED
          BY <4>1, <4>2 DEF Among
      <3> QED
        BY <3>2, <3>3
    <2> QED
      BY <1>4, <2>1, <2>2 DEF Among
  <1> QED
    BY <1>1, <1>2, <1>3, <1>4 DEF r

LEMMA YieldTurns ==
    ASSUME Types, Turns, Yield
    PROVE  queue' \in Seq(Threads) /\ cur' \in Threads /\ Turns'
  BY Round DEF Types, Turns, Yield

LEMMA HaltTurns ==
    ASSUME Types, Turns, cur \in Buffers, cur' = Head(queue), queue' = Tail(queue)
    PROVE  queue' \in Seq(Threads) /\ cur' \in Threads /\ Turns'
  <1>1. queue # <<>> /\ Head(queue) = queue[1] /\ Head(queue) \in Threads /\ Tail(queue) \in Seq(Threads)
    BY Round DEF Types, Turns
  <1>2. /\ Len(Tail(queue)) = Len(queue) - 1 /\ Len(queue) \in Nat
        /\ \A i \in 1 .. (Len(queue) - 1) : Tail(queue)[i] = queue[i + 1]
    BY <1>1, HeadTailProperties DEF Types
  <1>3. ASSUME NEW t \in {Main, Tcpip} PROVE Among(t, Tail(queue), Head(queue))
    <2>1. PICK i \in 1 .. Len(queue) : queue[i] = t
      BY Names DEF Turns, Among
    <2>2. CASE i = 1
      BY <1>1, <2>1, <2>2 DEF Among
    <2>3. CASE i # 1
      <3>1. i - 1 \in 1 .. (Len(queue) - 1) /\ (i - 1) + 1 = i
        BY <1>2, <2>3
      <3> QED
        BY <1>2, <2>1, <3>1 DEF Among
    <2> QED
      BY <2>2, <2>3
  <1> QED
    BY <1>1, <1>3 DEF Turns

LEMMA ServeTurns ==
    ASSUME Types, Turns, cur = Main, cur' = Head(queue), queue' = Append(Tail(Append(queue, va)), Main)
    PROVE  queue' \in Seq(Threads) /\ cur' \in Threads /\ Turns'
  <1> DEFINE q == Append(queue, va)
  <1>1. /\ q \in Seq(Threads) /\ Len(q) = Len(queue) + 1
        /\ \A i \in 1 .. Len(queue) : q[i] = queue[i]
    BY Names, AppendProperties DEF Types
  <1>2. queue # <<>>
    BY Round DEF Types, Turns
  <1>3. Head(q) = Head(queue)
    BY <1>2, HeadTailAppend DEF Types
  <1>4. Len(queue) \in Nat
    BY DEF Types
  <1> HIDE DEF q
  <1>5. Among(Main, q, cur) /\ Among(Tcpip, q, cur)
    BY <1>1, <1>4 DEF Turns, Among
  <1>6. Append(Tail(q), cur) \in Seq(Threads) /\ Head(q) \in Threads
        /\ Among(Main, Append(Tail(q), cur), Head(q)) /\ Among(Tcpip, Append(Tail(q), cur), Head(q))
    BY <1>1, <1>5, Round DEF Types
  <1> QED
    BY <1>3, <1>6 DEF Turns, q

-----------------------------------------------------------------------------
(* What a step does to the threads. *)

SameJob(t) ==
    /\ thread'[t].pc = thread[t].pc /\ thread'[t].box = thread[t].box /\ thread'[t].msg = thread[t].msg
    /\ thread[t] = Dead => thread'[t] = Dead

Only(t) == \A u \in Threads \ {t} : SameJob(u)

LEMMA RolesKept ==
    ASSUME Roles, NEW t \in Threads, Only(t), RoleOf(t)'
    PROVE  Roles'
  <1> SUFFICES ASSUME NEW u \in Threads \ {t} PROVE RoleOf(u)'
    BY DEF Roles
  <1>1. RoleOf(u) /\ SameJob(u)
    BY DEF Roles, Only
  <1> QED
    BY <1>1 DEF RoleOf, SameJob

LEMMA RunningOnly ==
    ASSUME Types, NEW t \in Threads, NEW r \in ThreadRec, thread' = [thread EXCEPT ![t] = r]
    PROVE  thread' \in [Threads -> ThreadRec] /\ thread'[t] = r /\ Only(t)
  BY DEF Types, Only, SameJob

(* A signal adds one to the counter and wakes whoever waits. *)
LEMMA Signalled ==
    ASSUME Types, NEW t \in Threads, NEW r \in ThreadRec, NEW s \in Sems,
           Signal([thread EXCEPT ![t] = r], s)
    PROVE  /\ sem' = [sem EXCEPT ![s] = [counter |-> sem[s].counter + 1, waiters |-> 0]]
           /\ sem' \in [Sems -> SemRec]
           /\ thread' \in [Threads -> ThreadRec] /\ Only(t)
           /\ thread'[t].pc = r.pc /\ thread'[t].box = r.box /\ thread'[t].msg = r.msg
  <1> DEFINE f == [thread EXCEPT ![t] = r]
  <1>1. f \in [Threads -> ThreadRec] /\ f[t] = r /\ \A u \in Threads \ {t} : f[u] = thread[u]
    BY DEF Types
  <1>2. /\ sem' = [sem EXCEPT ![s] = Sem(@.counter + 1)]
        /\ thread' = IF sem[s].waiters = 0 THEN f ELSE Woken(f, s)
    BY DEF Signal
  <1> HIDE DEF f
  <1>3. sem' = [sem EXCEPT ![s] = [counter |-> sem[s].counter + 1, waiters |-> 0]]
    BY <1>2 DEF Sem, Types
  <1>4. sem' \in [Sems -> SemRec]
    BY <1>3 DEF SemRec, Types
  <1>5. ASSUME NEW u \in Threads
        PROVE  /\ Woken(f, s)[u] \in ThreadRec
               /\ Woken(f, s)[u].pc = f[u].pc /\ Woken(f, s)[u].box = f[u].box
               /\ Woken(f, s)[u].msg = f[u].msg
               /\ f[u].on = NoSem => Woken(f, s)[u] = f[u]
    <2>1. f[u] \in ThreadRec
      BY <1>1
    <2>2. Woken(f, s)[u] = IF f[u].on = s THEN [f[u] EXCEPT !.wakeup = TRUE] ELSE f[u]
      BY DEF Woken
    <2>3. NoSem # s
      BY SemNames
    <2> QED
      BY <2>1, <2>2, <2>3 DEF ThreadRec
  <1>6. Woken(f, s) \in [Threads -> ThreadRec]
    <2>1. Woken(f, s) = [u \in Threads |-> Woken(f, s)[u]]
      BY DEF Woken
    <2> QED
      BY <1>5, <2>1
  <1>7. /\ thread' \in [Threads -> ThreadRec]
        /\ \A u \in Threads : /\ thread'[u].pc = f[u].pc /\ thread'[u].box = f[u].box
                              /\ thread'[u].msg = f[u].msg
                              /\ f[u].on = NoSem => thread'[u] = f[u]
    BY <1>1, <1>2, <1>5, <1>6
  <1>8. Only(t)
    BY <1>1, <1>7, DeadIs DEF Only, SameJob
  <1> QED
    BY <1>1, <1>3, <1>4, <1>7, <1>8

(* Counting those who were let into a mailbox. *)
IsAt(t, pc, m) == thread[t].pc = pc /\ thread[t].box = m
Those(pc, m) == {t \in Threads : IsAt(t, pc, m)}

LEMMA AtFacts ==
    ASSUME NEW pc, NEW m
    PROVE  /\ At(pc, m) = Cardinality(Those(pc, m)) /\ IsFiniteSet(Those(pc, m)) /\ At(pc, m) \in Nat
           /\ \A t \in Threads : IsAt(t, pc, m) => At(pc, m) > 0
  <1>1. At(pc, m) = Cardinality(Those(pc, m))
    BY DEF At, Those, IsAt
  <1>2. IsFiniteSet(Those(pc, m))
    BY Names, FS_Subset DEF Those
  <1>3. Cardinality(Those(pc, m)) \in Nat /\ (Cardinality(Those(pc, m)) = 0 <=> Those(pc, m) = {})
    BY <1>2, FS_CardinalityType, FS_EmptySet
  <1> QED
    BY <1>1, <1>2, <1>3 DEF Those

LEMMA Stays ==
    ASSUME NEW pc, NEW m, NEW t \in Threads, IsAt(t, pc, m)' <=> IsAt(t, pc, m), Only(t)
    PROVE  At(pc, m)' = At(pc, m)
  <1>1. Those(pc, m)' = Those(pc, m)
    BY DEF Those, Only, SameJob, IsAt
  <1> QED
    BY <1>1 DEF At, Those, IsAt

LEMMA Joins ==
    ASSUME NEW pc, NEW m, NEW t \in Threads, ~IsAt(t, pc, m), IsAt(t, pc, m)',
           Only(t)
    PROVE  At(pc, m)' = At(pc, m) + 1
  <1>1. Those(pc, m)' = Those(pc, m) \cup {t} /\ t \notin Those(pc, m)
    BY DEF Those, Only, SameJob, IsAt
  <1>2. Cardinality(Those(pc, m)') = Cardinality(Those(pc, m)) + 1
    BY <1>1, AtFacts, FS_AddElement
  <1> QED
    BY <1>2 DEF At, Those, IsAt

LEMMA Leaves ==
    ASSUME NEW pc, NEW m, NEW t \in Threads, IsAt(t, pc, m), ~IsAt(t, pc, m)',
           Only(t)
    PROVE  At(pc, m)' = At(pc, m) - 1
  <1>1. Those(pc, m)' = Those(pc, m) \ {t} /\ t \in Those(pc, m)
    BY DEF Those, Only, SameJob, IsAt
  <1>2. Cardinality(Those(pc, m)') = Cardinality(Those(pc, m)) - 1
    BY <1>1, AtFacts, FS_RemoveElement
  <1> QED
    BY <1>2 DEF At, Those, IsAt

(* Steps that let nobody in or out. *)
CalmAt(m) ==
    /\ mbox'[m] = mbox[m]
    /\ sem'[Queued(m)].counter = sem[Queued(m)].counter /\ sem'[Free(m)].counter = sem[Free(m)].counter
    /\ At("take", m)' = At("take", m) /\ At("store", m)' = At("store", m)

LEMMA CalmCounts ==
    ASSUME NEW m, CountsOf(m), CalmAt(m)
    PROVE  CountsOf(m)'
  BY DEF CountsOf, CalmAt

LEMMA PagesKept ==
    ASSUME Types, Roles, RequestPagesNotShared, NEW t \in Threads, Only(t), t # Main, thread[t] # Dead,
           UNCHANGED <<buse, va>>
    PROVE  RequestPagesNotShared'
  <1>1. \A b \in Buffers : thread'[b] # Dead => thread[b] # Dead
    BY Names DEF Only, SameJob
  <1>2. thread'[Main].pc = thread[Main].pc
    BY Names DEF Only, SameJob
  <1>3. thread[va] = Dead => thread'[va] = Dead
    BY Names DEF Only, SameJob, Types
  <1> QED
    BY <1>1, <1>2, <1>3 DEF RequestPagesNotShared

(* The steps of the abstract queue, told by the ring and the counts. *)
Stands    == /\ mbox'["recv"] = mbox["recv"]
             /\ At("store", "recv")' = At("store", "recv") /\ At("take", "recv")' = At("take", "recv")
PosterIn  == /\ Long(mbox["recv"]) + At("store", "recv") < MBOXSLOTS /\ mbox'["recv"] = mbox["recv"]
             /\ At("store", "recv")' = At("store", "recv") + 1 /\ At("take", "recv")' = At("take", "recv")
FetcherIn == /\ At("take", "recv") < Long(mbox["recv"]) /\ mbox'["recv"] = mbox["recv"]
             /\ At("store", "recv")' = At("store", "recv") /\ At("take", "recv")' = At("take", "recv") + 1
PutOne(p) == /\ At("store", "recv") > 0 /\ Held(mbox'["recv"]) = Append(Held(mbox["recv"]), p)
             /\ At("store", "recv")' = At("store", "recv") - 1 /\ At("take", "recv")' = At("take", "recv")
GetOne    == /\ At("take", "recv") > 0 /\ Held(mbox'["recv"]) = Tail(Held(mbox["recv"]))
             /\ At("store", "recv")' = At("store", "recv") /\ At("take", "recv")' = At("take", "recv") - 1

QueueStep == Stands \/ PosterIn \/ FetcherIn \/ GetOne \/ \E p \in Packets : PutOne(p)

LEMMA AllCalm ==
    ASSUME Counts, \A m \in Boxes : CalmAt(m)
    PROVE  Counts' /\ QueueStep
  <1>1. Counts'
    BY CalmCounts DEF Counts
  <1>2. Stands
    BY DEF CalmAt, Boxes, Stands
  <1> QED
    BY <1>1, <1>2 DEF QueueStep

LEMMA BoxKept ==
    ASSUME NEW t \in Threads, Only(t), thread'[t].box = thread[t].box,
           NEW m, m # thread[t].box, NEW pc
    PROVE  At(pc, m)' = At(pc, m)
  <1>1. IsAt(t, pc, m)' <=> IsAt(t, pc, m)
    BY DEF IsAt
  <1> QED
    BY <1>1, Stays

(* A thread of mailbox m goes from one line of its call to another. *)
LEMMA LineMoves ==
    ASSUME NEW t \in Threads, Only(t), NEW m, thread[t].box = m, thread'[t].box = m, NEW pc
    PROVE  /\ thread[t].pc # pc /\ thread'[t].pc = pc => At(pc, m)' = At(pc, m) + 1
           /\ thread[t].pc = pc /\ thread'[t].pc # pc => At(pc, m)' = At(pc, m) - 1 /\ At(pc, m) > 0
           /\ thread[t].pc # pc /\ thread'[t].pc # pc => At(pc, m)' = At(pc, m)
  <1>1. IsAt(t, pc, m) <=> thread[t].pc = pc
    BY DEF IsAt
  <1>2. IsAt(t, pc, m)' <=> thread'[t].pc = pc
    BY DEF IsAt
  <1> QED
    BY <1>1, <1>2, Stays, Joins, Leaves, AtFacts

LEMMA Numbers ==
    ASSUME Types, NEW m \in Boxes
    PROVE  /\ sem[Queued(m)].counter \in Nat /\ sem[Free(m)].counter \in Nat /\ Long(mbox[m]) \in Nat
           /\ \A pc : At(pc, m) \in Nat
  BY SemNames, RingFacts, AtFacts DEF Types, SemRec

-----------------------------------------------------------------------------
(* sys_arch_sem_wait lets the running thread on. *)
LEMMA SemTakeInv ==
    ASSUME NetInv, SemTake, NEW t \in Threads, t = cur
    PROVE  NetInv' /\ QueueStep
  <1> DEFINE c == thread[t]
             r == [c EXCEPT !.pc = AfterWait]
             s == Wanted
  <1>1. Types /\ Roles /\ Turns /\ RequestPagesNotShared /\ Counts
    BY DEF NetInv
  <1>2. /\ s # NoSem /\ sem[s].counter > 0
        /\ sem' = [sem EXCEPT ![s].counter = @ - 1] /\ thread' = [thread EXCEPT ![t].pc = AfterWait]
        /\ UNCHANGED <<buse, va, queue, cur, mbox>>
    BY DEF SemTake, Goto
  <1>3. RoleOf(t) /\ c \in ThreadRec
    BY <1>1 DEF Types, Roles
  <1>m. PICK m \in Boxes : m = c.box
    BY <1>3 DEF ThreadRec
  <1>4. /\ c.pc \in {"fetch", "post", "await"}
        /\ c.pc = "fetch" => s = Queued(m) /\ AfterWait = "take"
        /\ c.pc = "post" => s = Free(m) /\ AfterWait = "store"
        /\ c.pc = "await" => s = Completed /\ AfterWait = "reply"
    BY <1>2, <1>m DEF Wanted, AfterWait
  <1>5. c # Dead /\ t # Main
    BY <1>3, <1>4, DeadIs DEF RoleOf
  <1> HIDE DEF s
  <1>6. r \in ThreadRec /\ r.pc = AfterWait /\ r.box = m /\ r.msg = c.msg
    BY <1>3, <1>4, <1>m DEF ThreadRec, Pcs
  <1>7. thread' = [thread EXCEPT ![t] = r]
    BY <1>2
  <1> HIDE DEF r
  <1>8. thread' \in [Threads -> ThreadRec] /\ thread'[t] = r /\ Only(t)
    BY <1>1, <1>6, <1>7, RunningOnly
  <1>9. s \in Sems
    BY <1>4, <1>m, SemNames
  <1>10. /\ sem' \in [Sems -> SemRec] /\ sem'[s].counter = sem[s].counter - 1
         /\ \A x \in Sems \ {s} : sem'[x] = sem[x]
    <2>1. sem[s] \in SemRec
      BY <1>1, <1>9 DEF Types
    <2>2. /\ [sem[s] EXCEPT !.counter = @ - 1] \in SemRec
          /\ [sem[s] EXCEPT !.counter = @ - 1].counter = sem[s].counter - 1
      BY <1>2, <2>1 DEF SemRec
    <2>3. sem' = [sem EXCEPT ![s] = [sem[s] EXCEPT !.counter = @ - 1]]
      BY <1>2
    <2> QED
      BY <1>1, <1>9, <2>2, <2>3 DEF Types
  <1>11. Types'
    BY <1>1, <1>2, <1>8, <1>10 DEF Types
  <1>12. Roles'
    <2>1. RoleOf(t)'
      BY <1>3, <1>4, <1>5, <1>6, <1>8, <1>m, DeadIs DEF RoleOf
    <2> QED
      BY <1>1, <1>8, <2>1, RolesKept
  <1>13. RequestPagesNotShared'
    BY <1>1, <1>2, <1>5, <1>8, PagesKept
  <1>14. Turns'
    BY <1>1, <1>2 DEF Turns
  <1>15. Counts' /\ QueueStep
    <2>1. \A n \in Boxes \ {m} : \A pc : At(pc, n)' = At(pc, n)
      BY <1>6, <1>8, <1>m, BoxKept
    <2>2. \A n \in Boxes : n # m \/ c.pc = "await"
                            => sem'[Queued(n)] = sem[Queued(n)] /\ sem'[Free(n)] = sem[Free(n)]
      <3>1. ASSUME NEW n \in Boxes, n # m \/ c.pc = "await"
            PROVE  Queued(n) # s /\ Free(n) # s
        <4>1. /\ Queued(n) # Free(m) /\ Queued(m) # Free(n) /\ Queued(n) # Completed /\ Free(n) # Completed
              /\ n # m => Queued(n) # Queued(m) /\ Free(n) # Free(m)
          BY SemsApart, Zenon
        <4>2. s = Queued(m) \/ s = Free(m) \/ s = Completed
          BY <1>4
        <4>3. c.pc = "await" => s = Completed
          BY <1>4
        <4> QED
          BY <3>1, <4>1, <4>2, <4>3
      <3> QED
        BY <1>10, <3>1, SemNames
    <2>3. \A n \in Boxes \ {m} : CalmAt(n)
      BY <1>2, <2>1, <2>2 DEF CalmAt
    <2>4. \A pc : /\ c.pc # pc /\ r.pc = pc => At(pc, m)' = At(pc, m) + 1
                  /\ c.pc # pc /\ r.pc # pc => At(pc, m)' = At(pc, m)
      BY <1>6, <1>8, <1>m, LineMoves
    <2>5. /\ sem[Queued(m)].counter \in Nat /\ sem[Free(m)].counter \in Nat /\ Long(mbox[m]) \in Nat
          /\ At("take", m) \in Nat /\ At("store", m) \in Nat /\ MBOXSLOTS \in Nat
      BY <1>1, Numbers, NetAssumption
    <2>6. CountsOf(m)
      BY <1>1 DEF Counts
    <2>10. Queued(m) \in Sems /\ Free(m) \in Sems /\ Queued(m) # Free(m)
      BY SemsOf, Zenon
    <2>7. CASE c.pc = "await"
      <3>1. CalmAt(m)
        BY <1>2, <1>4, <1>6, <2>2, <2>4, <2>7 DEF CalmAt
      <3> QED
        BY <1>1, <2>3, <3>1, AllCalm
    <2>8. CASE c.pc = "fetch"
      <3>1. /\ At("take", m)' = At("take", m) + 1 /\ At("store", m)' = At("store", m)
            /\ sem'[Queued(m)].counter = sem[Queued(m)].counter - 1 /\ sem'[Free(m)] = sem[Free(m)]
            /\ sem[Queued(m)].counter > 0 /\ mbox' = mbox
        BY <1>2, <1>4, <1>6, <1>10, <2>4, <2>8, <2>10
      <3>2. CountsOf(m)' /\ At("take", m) < Long(mbox[m])
        BY <2>5, <2>6, <3>1 DEF CountsOf
      <3>3. m = "recv" => FetcherIn
        BY <3>1, <3>2 DEF FetcherIn
      <3>4. m # "recv" => Stands
        BY <2>3 DEF Stands, CalmAt, Boxes
      <3>5. Counts'
        BY <1>1, <2>3, <3>2, CalmCounts DEF Counts
      <3> QED
        BY <3>3, <3>4, <3>5 DEF QueueStep
    <2>9. CASE c.pc = "post"
      <3>1. /\ At("store", m)' = At("store", m) + 1 /\ At("take", m)' = At("take", m)
            /\ sem'[Free(m)].counter = sem[Free(m)].counter - 1 /\ sem'[Queued(m)] = sem[Queued(m)]
            /\ sem[Free(m)].counter > 0 /\ mbox' = mbox
        BY <1>2, <1>4, <1>6, <1>10, <2>4, <2>9, <2>10
      <3>2. CountsOf(m)' /\ Long(mbox[m]) + At("store", m) < MBOXSLOTS
        BY <2>5, <2>6, <3>1 DEF CountsOf
      <3>3. m = "recv" => PosterIn
        BY <3>1, <3>2 DEF PosterIn
      <3>4. m # "recv" => Stands
        BY <2>3 DEF Stands, CalmAt, Boxes
      <3>5. Counts'
        BY <1>1, <2>3, <3>2, CalmCounts DEF Counts
      <3> QED
        BY <3>3, <3>4, <3>5 DEF QueueStep
    <2> QED
      BY <1>4, <2>7, <2>8, <2>9
  <1> QED
    BY <1>11, <1>12, <1>13, <1>14, <1>15 DEF NetInv

(* Steps that leave the mailboxes and their counters alone. *)
SameCounters == mbox' = mbox /\ \A x \in Sems \ {Completed} : sem'[x].counter = sem[x].counter
Idles(t)     == \/ thread'[t].pc = thread[t].pc /\ thread'[t].box = thread[t].box
                \/ thread[t].pc \notin {"take", "store"} /\ thread'[t].pc \notin {"take", "store"}

LEMMA CalmAll ==
    ASSUME Counts, SameCounters, \A t \in Threads : Idles(t)
    PROVE  Counts' /\ QueueStep
  <1>1. ASSUME NEW m \in Boxes, NEW pc \in {"take", "store"}
        PROVE  At(pc, m)' = At(pc, m)
    <2>1. Those(pc, m)' = Those(pc, m)
      BY DEF Those, IsAt, Idles
    <2> QED
      BY <2>1 DEF At, Those, IsAt
  <1>2. ASSUME NEW m \in Boxes
        PROVE  CalmAt(m)
    BY <1>1, SemsOf DEF CalmAt, SameCounters
  <1> QED
    BY <1>2, AllCalm

LEMMA CalmStep ==
    ASSUME NetInv, NEW t \in Threads, Only(t), Idles(t), SameCounters,
           Types', Turns', RoleOf(t)', RequestPagesNotShared'
    PROVE  NetInv' /\ QueueStep
  <1>1. \A u \in Threads : Idles(u)
    BY DEF Only, SameJob, Idles
  <1>2. Counts' /\ QueueStep
    BY <1>1, CalmAll DEF NetInv
  <1>3. Roles'
    BY RolesKept DEF NetInv
  <1> QED
    BY <1>2, <1>3 DEF NetInv

(* It goes to sleep there, *)
LEMMA SemSleepInv ==
    ASSUME NetInv, SemSleep, NEW t \in Threads, t = cur
    PROVE  NetInv' /\ QueueStep
  <1>1. Types /\ Roles /\ Turns /\ RequestPagesNotShared
    BY DEF NetInv
  <1>2. RoleOf(t) /\ thread[t] \in ThreadRec
    BY <1>1 DEF Types, Roles
  <1>m. PICK m \in Boxes : m = thread[t].box
    BY <1>2 DEF ThreadRec
  <1>s. PICK s \in Sems : s = Wanted
    <2>1. Queued(m) \in Sems /\ Free(m) \in Sems /\ Completed \in Sems
      BY SemsOf, SemNames
    <2> QED
      BY <1>m, <2>1 DEF SemSleep, Wanted
  <1>3. thread[t] # Dead /\ t # Main
    BY <1>1, <1>2, DeadIs DEF RoleOf, SemSleep, Wanted
  <1>4. /\ sem' = [sem EXCEPT ![s].waiters = 1]
        /\ thread' = [thread EXCEPT ![t].on = s, ![t].wakeup = FALSE]
        /\ Yield /\ UNCHANGED <<buse, va, mbox>>
    BY <1>s DEF SemSleep
  <1> DEFINE r == [thread[t] EXCEPT !.on = s, !.wakeup = FALSE]
  <1>5. /\ r \in ThreadRec /\ r.pc = thread[t].pc /\ r.box = thread[t].box /\ r.msg = thread[t].msg
    BY <1>2 DEF ThreadRec
  <1>6. thread' = [thread EXCEPT ![t] = r]
    BY <1>1, <1>4 DEF Types
  <1> HIDE DEF r
  <1>7. thread' \in [Threads -> ThreadRec] /\ thread'[t] = r /\ Only(t)
    BY <1>1, <1>5, <1>6, RunningOnly
  <1>8. sem' \in [Sems -> SemRec] /\ \A x \in Sems : sem'[x].counter = sem[x].counter
    <2>1. sem[s] \in SemRec
      BY <1>1 DEF Types
    <2>2. [sem[s] EXCEPT !.waiters = 1] \in SemRec /\ [sem[s] EXCEPT !.waiters = 1].counter = sem[s].counter
      BY <2>1 DEF SemRec
    <2>3. sem' = [sem EXCEPT ![s] = [sem[s] EXCEPT !.waiters = 1]]
      BY <1>4
    <2> QED
      BY <1>1, <2>2, <2>3 DEF Types
  <1>9. Types' /\ Turns'
    BY <1>1, <1>4, <1>7, <1>8, YieldTurns DEF Types
  <1>10. RoleOf(t)'
    BY <1>2, <1>3, <1>5, <1>7 DEF RoleOf
  <1>11. RequestPagesNotShared'
    BY <1>1, <1>3, <1>4, <1>7, PagesKept
  <1>12. Idles(t) /\ SameCounters
    BY <1>4, <1>5, <1>7, <1>8 DEF Idles, SameCounters
  <1> QED
    BY <1>7, <1>9, <1>10, <1>11, <1>12, CalmStep

(* and looks at the semaphore whenever its turn comes. *)
LEMMA PollInv ==
    ASSUME NetInv, Poll, NEW t \in Threads, t = cur
    PROVE  NetInv' /\ QueueStep
  <1>1. Types /\ Roles /\ Turns /\ RequestPagesNotShared
    BY DEF NetInv
  <1>2. RoleOf(t) /\ thread[t] \in ThreadRec
    BY <1>1 DEF Types, Roles
  <1>3. thread[t] # Dead
    BY DeadIs DEF Poll
  <1>4. UNCHANGED <<buse, va, mbox, sem>>
    BY DEF Poll
  <1>5. Turns' /\ queue' \in Seq(Threads) /\ cur' \in Threads
    <2>1. CASE Yield
      BY <1>1, <2>1, YieldTurns
    <2>2. CASE UNCHANGED <<queue, cur>>
      BY <1>1, <2>2 DEF Turns, Types
    <2> QED
      BY <2>1, <2>2 DEF Poll
  <1> DEFINE r == [thread[t] EXCEPT !.on = NoSem, !.wakeup = FALSE]
  <1>6. PICK x \in {r, thread[t]} : thread' = [thread EXCEPT ![t] = x]
    <2>1. thread = [thread EXCEPT ![t] = thread[t]]
      BY <1>1 DEF Types
    <2>2. [thread EXCEPT ![t].on = NoSem, ![t].wakeup = FALSE] = [thread EXCEPT ![t] = r]
      BY <1>1 DEF Types
    <2> QED
      BY <2>1, <2>2 DEF Poll
  <1>7. /\ x \in ThreadRec /\ x.pc = thread[t].pc /\ x.box = thread[t].box /\ x.msg = thread[t].msg
    BY <1>2 DEF ThreadRec
  <1>8. thread' \in [Threads -> ThreadRec] /\ thread'[t] = x /\ Only(t)
    BY <1>1, <1>6, <1>7, RunningOnly
  <1>9. Types'
    BY <1>1, <1>4, <1>5, <1>8 DEF Types
  <1>10. RoleOf(t)'
    BY <1>2, <1>3, <1>7, <1>8, DeadIs DEF RoleOf
  <1>11. RequestPagesNotShared'
    <2>1. CASE t # Main
      BY <1>1, <1>3, <1>4, <1>8, <2>1, PagesKept
    <2>2. CASE t = Main
      BY <1>1, <1>4, <1>7, <1>8, <2>2, Names DEF Only, SameJob, RequestPagesNotShared, Types
    <2> QED
      BY <2>1, <2>2
  <1>12. Idles(t) /\ SameCounters
    BY <1>4, <1>7, <1>8 DEF Idles, SameCounters
  <1> QED
    BY <1>5, <1>8, <1>9, <1>10, <1>11, <1>12, CalmStep

(* The running thread posts its message, *)
LEMMA PostInv ==
    ASSUME NetInv, Post, NEW t \in Threads, t = cur
    PROVE  NetInv' /\ QueueStep
  <1>1. Types /\ Roles /\ Turns /\ RequestPagesNotShared /\ Counts
    BY DEF NetInv
  <1>2. RoleOf(t) /\ thread[t] \in ThreadRec /\ thread[t].pc = "store"
    BY <1>1 DEF Types, Roles, Post
  <1>m. PICK m \in Boxes : m = thread[t].box
    BY <1>2 DEF ThreadRec
  <1>p. PICK p \in Msgs : p = thread[t].msg
    BY <1>2 DEF ThreadRec
  <1>b. PICK b \in Ring : b = mbox[m]
    BY <1>1 DEF Types
  <1>3. thread[t] # Dead /\ t \in Buffers
    BY <1>2, DeadIs, Names DEF RoleOf
  <1>4. At("store", m) > 0
    BY <1>2, <1>m, AtFacts DEF IsAt
  <1>5. /\ sem[Queued(m)].counter \in Nat /\ sem[Free(m)].counter \in Nat /\ Long(b) \in Nat
        /\ At("take", m) \in Nat /\ At("store", m) \in Nat /\ MBOXSLOTS \in Nat
    BY <1>1, <1>b, Numbers, NetAssumption
  <1>6. CountsOf(m)
    BY <1>1 DEF Counts
  <1>7. Long(b) # MBOXSLOTS
    BY <1>4, <1>5, <1>6, <1>b DEF CountsOf
  <1>8. b.nextq # b.head
    BY <1>7, RingFacts
  <1> DEFINE next == IF m = "recv" THEN "done" ELSE "await"
             r    == [thread[t] EXCEPT !.pc = next]
  <1>9. /\ mbox' = [mbox EXCEPT ![m] = With(b, p)]
        /\ Signal([thread EXCEPT ![t].pc = next], Queued(m))
        /\ UNCHANGED <<buse, va, queue, cur>>
    BY <1>8, <1>m, <1>b, <1>p DEF Post, With
  <1>10. r \in ThreadRec /\ r.pc = next /\ r.box = m /\ r.msg = p
    BY <1>2, <1>m, <1>p DEF ThreadRec, Pcs
  <1>11. Signal([thread EXCEPT ![t] = r], Queued(m))
    BY <1>9
  <1> HIDE DEF r
  <1>12. Queued(m) \in Sems /\ Free(m) \in Sems /\ Queued(m) # Free(m)
    BY SemsOf
  <1>13. /\ sem' = [sem EXCEPT ![Queued(m)] = [counter |-> sem[Queued(m)].counter + 1, waiters |-> 0]]
         /\ sem' \in [Sems -> SemRec]
         /\ thread' \in [Threads -> ThreadRec] /\ Only(t)
         /\ thread'[t].pc = next /\ thread'[t].box = m /\ thread'[t].msg = p
    BY <1>1, <1>10, <1>11, <1>12, Signalled
  <1>14. /\ With(b, p) \in Ring /\ Long(With(b, p)) = Long(b) + 1
         /\ Held(With(b, p)) = Append(Held(b), p)
    BY <1>8, WithOne
  <1>15. mbox' \in [Boxes -> Ring] /\ mbox'[m] = With(b, p) /\ \A n \in Boxes \ {m} : mbox'[n] = mbox[n]
    BY <1>1, <1>9, <1>14 DEF Types
  <1>16. Types' /\ Turns'
    BY <1>1, <1>9, <1>13, <1>15 DEF Types, Turns
  <1>17. Roles'
    <2>1. RoleOf(t)'
      BY <1>2, <1>3, <1>m, <1>p, <1>13, Names, DeadIs DEF RoleOf
    <2> QED
      BY <1>1, <1>13, <2>1, RolesKept
  <1>18. RequestPagesNotShared'
    BY <1>1, <1>3, <1>9, <1>13, Names, PagesKept
  <1>19. Counts' /\ QueueStep
    <2>1. ASSUME NEW n \in Boxes \ {m}
          PROVE  CalmAt(n)
      <3>1. Queued(n) \in Sems /\ Free(n) \in Sems /\ Queued(n) # Queued(m) /\ Free(n) # Queued(m)
        BY SemsOf, SemsApart
      <3>2. sem'[Queued(n)] = sem[Queued(n)] /\ sem'[Free(n)] = sem[Free(n)]
        BY <1>1, <1>12, <1>13, <3>1 DEF Types
      <3>3. \A pc : At(pc, n)' = At(pc, n)
        BY <1>13, <1>m, BoxKept
      <3> QED
        BY <1>15, <3>2, <3>3 DEF CalmAt
    <2>2. At("store", m)' = At("store", m) - 1 /\ At("take", m)' = At("take", m)
      BY <1>2, <1>13, <1>m, LineMoves
    <2>3. sem'[Queued(m)].counter = sem[Queued(m)].counter + 1 /\ sem'[Free(m)] = sem[Free(m)]
      BY <1>1, <1>12, <1>13 DEF Types
    <2>4. CountsOf(m)'
      <3>1. Long(mbox'[m]) = Long(b) + 1
        BY <1>14, <1>15
      <3>2. /\ sem[Queued(m)].counter + At("take", m) = Long(b)
            /\ sem[Free(m)].counter + At("store", m) + Long(b) = MBOXSLOTS
        BY <1>6, <1>b DEF CountsOf
      <3>3. /\ sem'[Queued(m)].counter + At("take", m)' = Long(mbox'[m])
            /\ sem'[Free(m)].counter + At("store", m)' + Long(mbox'[m]) = MBOXSLOTS
        BY <1>5, <2>2, <2>3, <3>1, <3>2
      <3> QED
        BY <3>3 DEF CountsOf
    <2>5. Counts'
      BY <1>1, <2>1, <2>4, CalmCounts DEF Counts
    <2>6. m # "recv" => Stands
      BY <2>1 DEF Stands, CalmAt, Boxes
    <2>7. m = "recv" => p \in Packets
      BY <1>2, <1>3, <1>m, <1>p, Names, DeadIs DEF RoleOf
    <2>8. m = "recv" => PutOne(p)
      BY <1>4, <1>14, <1>15, <1>b, <2>2 DEF PutOne
    <2> QED
      BY <2>5, <2>6, <2>7, <2>8 DEF QueueStep
  <1> QED
    BY <1>16, <1>17, <1>18, <1>19 DEF NetInv

(* or fetches one. *)
LEMMA FetchedIs ==
    ASSUME NEW t \in Threads, t = cur, thread[t] \in ThreadRec, NEW p \in Msgs, NEW r \in Fetched(p)
    PROVE  /\ r \in ThreadRec /\ r.on = thread[t].on /\ r.wakeup = thread[t].wakeup
           /\ \/ r.pc = "reply" /\ r.box = thread[t].box
              \/ r.pc = "post" /\ r.box = "tcpip" /\ t # Tcpip
  <1>1. PICK c \in ThreadRec : c = thread[t]
    OBVIOUS
  <1>2. r = [c EXCEPT !.pc = "reply", !.msg = p] \/ r = [c EXCEPT !.pc = "reply"]
          \/ (t # Tcpip /\ r = [c EXCEPT !.pc = "post", !.box = "tcpip"])
    BY <1>1 DEF Fetched, Told
  <1>3. CASE r = [c EXCEPT !.pc = "reply", !.msg = p]
    BY <1>1, <1>3 DEF ThreadRec, Pcs
  <1>4. CASE r = [c EXCEPT !.pc = "reply"]
    BY <1>1, <1>4 DEF ThreadRec, Pcs
  <1>5. CASE t # Tcpip /\ r = [c EXCEPT !.pc = "post", !.box = "tcpip"]
    BY <1>1, <1>5 DEF ThreadRec, Pcs, Boxes
  <1> QED
    BY <1>2, <1>3, <1>4, <1>5

LEMMA FetchInv ==
    ASSUME NetInv, Fetch, NEW t \in Threads, t = cur
    PROVE  NetInv' /\ QueueStep
  <1>1. Types /\ Roles /\ Turns /\ RequestPagesNotShared /\ Counts
    BY DEF NetInv
  <1>2. RoleOf(t) /\ thread[t] \in ThreadRec /\ thread[t].pc = "take"
    BY <1>1 DEF Types, Roles, Fetch
  <1>m. PICK m \in Boxes : m = thread[t].box
    BY <1>2 DEF ThreadRec
  <1>b. PICK b \in Ring : b = mbox[m]
    BY <1>1 DEF Types
  <1>3. thread[t] # Dead /\ t # Main
    BY <1>2, DeadIs DEF RoleOf
  <1>4. At("take", m) > 0
    BY <1>2, <1>m, AtFacts DEF IsAt
  <1>5. /\ sem[Queued(m)].counter \in Nat /\ sem[Free(m)].counter \in Nat /\ Long(b) \in Nat
        /\ At("take", m) \in Nat /\ At("store", m) \in Nat /\ MBOXSLOTS \in Nat
    BY <1>1, <1>b, Numbers, NetAssumption
  <1>6. CountsOf(m)
    BY <1>1 DEF Counts
  <1>7. Long(b) # 0
    BY <1>4, <1>5, <1>6, <1>b DEF CountsOf
  <1>8. b.head # -1
    BY <1>7, RingFacts
  <1>p. PICK p \in Msgs : p = b.msg[b.head]
    BY <1>8 DEF Ring
  <1>9. /\ mbox' = [mbox EXCEPT ![m].head = IF (b.head + 1) % MBOXSLOTS = b.nextq THEN -1
                                            ELSE (b.head + 1) % MBOXSLOTS,
                                ![m].msg[b.head] = Now]
        /\ \E next \in Fetched(p) : Signal([thread EXCEPT ![t] = next], Free(m))
        /\ UNCHANGED <<buse, va, queue, cur>>
    BY <1>8, <1>m, <1>b, <1>p DEF Fetch
  <1>11. PICK r \in Fetched(p) : Signal([thread EXCEPT ![t] = r], Free(m))
    BY <1>9
  <1>10. /\ r \in ThreadRec
         /\ \/ r.pc = "reply" /\ r.box = m
            \/ r.pc = "post" /\ r.box = "tcpip" /\ t # Tcpip
    BY <1>2, <1>m, <1>p, FetchedIs
  <1>12. Queued(m) \in Sems /\ Free(m) \in Sems /\ Queued(m) # Free(m)
    BY SemsOf
  <1>13. /\ sem' = [sem EXCEPT ![Free(m)] = [counter |-> sem[Free(m)].counter + 1, waiters |-> 0]]
         /\ sem' \in [Sems -> SemRec]
         /\ thread' \in [Threads -> ThreadRec] /\ Only(t)
         /\ thread'[t].pc = r.pc /\ thread'[t].box = r.box
    BY <1>1, <1>10, <1>11, <1>12, Signalled
  <1>14. /\ Without(b) \in Ring /\ Long(Without(b)) = Long(b) - 1
         /\ Held(Without(b)) = Tail(Held(b))
    BY <1>8, OneLess
  <1>15. mbox' \in [Boxes -> Ring] /\ mbox'[m] = Without(b) /\ \A n \in Boxes \ {m} : mbox'[n] = mbox[n]
    <2>1. mbox' = [mbox EXCEPT ![m] = Without(b)]
      <3>1. b = [head |-> b.head, nextq |-> b.nextq, msg |-> b.msg]
        BY DEF Ring
      <3>2. ASSUME NEW h, NEW f
            PROVE  [[b EXCEPT !.head = h] EXCEPT !.msg = f] = [head |-> h, nextq |-> b.nextq, msg |-> f]
        <4> DEFINE c == [head |-> h, nextq |-> b.nextq, msg |-> b.msg]
        <4>1. [b EXCEPT !.head = h] = c
          BY <3>1
        <4>2. [c EXCEPT !.msg = f] = [head |-> h, nextq |-> b.nextq, msg |-> f]
          OBVIOUS
        <4> HIDE DEF c
        <4> QED
          BY <4>1, <4>2, Zenon
      <3> DEFINE h == IF (b.head + 1) % MBOXSLOTS = b.nextq THEN -1 ELSE (b.head + 1) % MBOXSLOTS
      <3>4. mbox' = [mbox EXCEPT ![m] = [[b EXCEPT !.head = h] EXCEPT !.msg = [b.msg EXCEPT ![b.head] = Now]]]
        BY <1>1, <1>9, <1>b DEF Types, Ring
      <3> QED
        BY <3>2, <3>4 DEF Without
    <2> QED
      BY <1>1, <1>14, <2>1 DEF Types
  <1>16. Types' /\ Turns'
    BY <1>1, <1>9, <1>13, <1>15 DEF Types, Turns
  <1>17. Roles'
    <2>1. RoleOf(t)'
      BY <1>2, <1>3, <1>10, <1>m, <1>13, Names, DeadIs DEF RoleOf, Boxes
    <2> QED
      BY <1>1, <1>13, <2>1, RolesKept
  <1>18. RequestPagesNotShared'
    BY <1>1, <1>3, <1>9, <1>13, Names, PagesKept
  <1>19. Counts' /\ QueueStep
    <2>1. ASSUME NEW n \in Boxes \ {m}
          PROVE  CalmAt(n)
      <3>1. Queued(n) \in Sems /\ Free(n) \in Sems /\ Queued(n) # Free(m) /\ Free(n) # Free(m)
        BY SemsOf, SemsApart
      <3>2. sem'[Queued(n)] = sem[Queued(n)] /\ sem'[Free(n)] = sem[Free(n)]
        BY <1>1, <1>12, <1>13, <3>1 DEF Types
      <3>3. ASSUME NEW pc \in {"take", "store"} PROVE At(pc, n)' = At(pc, n)
        <4>1. ~IsAt(t, pc, n) /\ ~IsAt(t, pc, n)'
          BY <1>10, <1>13, <1>m DEF IsAt
        <4> QED
          BY <1>13, <4>1, Stays
      <3> QED
        BY <1>15, <3>2, <3>3 DEF CalmAt
    <2>2. At("take", m)' = At("take", m) - 1 /\ At("store", m)' = At("store", m)
      <3>1. IsAt(t, "take", m) /\ ~IsAt(t, "take", m)' /\ ~IsAt(t, "store", m) /\ ~IsAt(t, "store", m)'
        BY <1>2, <1>10, <1>13, <1>m DEF IsAt
      <3> QED
        BY <1>13, <3>1, Leaves, Stays
    <2>3. sem'[Free(m)].counter = sem[Free(m)].counter + 1 /\ sem'[Queued(m)] = sem[Queued(m)]
      BY <1>1, <1>12, <1>13 DEF Types
    <2>4. CountsOf(m)'
      <3>1. Long(mbox'[m]) = Long(b) - 1
        BY <1>14, <1>15
      <3>2. /\ sem[Queued(m)].counter + At("take", m) = Long(b)
            /\ sem[Free(m)].counter + At("store", m) + Long(b) = MBOXSLOTS
        BY <1>6, <1>b DEF CountsOf
      <3>3. /\ sem'[Queued(m)].counter + At("take", m)' = Long(mbox'[m])
            /\ sem'[Free(m)].counter + At("store", m)' + Long(mbox'[m]) = MBOXSLOTS
        BY <1>5, <2>2, <2>3, <3>1, <3>2
      <3> QED
        BY <3>3 DEF CountsOf
    <2>5. Counts'
      BY <1>1, <2>1, <2>4, CalmCounts DEF Counts
    <2>6. m # "recv" => Stands
      BY <2>1 DEF Stands, CalmAt, Boxes
    <2>7. m = "recv" => GetOne
      BY <1>4, <1>14, <1>15, <1>b, <2>2 DEF GetOne
    <2> QED
      BY <2>5, <2>6, <2>7 DEF QueueStep
  <1> QED
    BY <1>16, <1>17, <1>18, <1>19 DEF NetInv

(* The tcpip thread completes a call. *)
LEMMA CompleteInv ==
    ASSUME NetInv, Complete
    PROVE  NetInv' /\ QueueStep
  <1>1. Types /\ Roles /\ Turns /\ RequestPagesNotShared
    BY DEF NetInv
  <1>2. /\ RoleOf(Tcpip) /\ thread[Tcpip] \in ThreadRec /\ Tcpip \in Threads /\ Tcpip # Main
        /\ cur = Tcpip /\ thread[Tcpip].pc = "reply" /\ thread[Tcpip].box = "tcpip"
    BY <1>1, Names DEF Types, Roles, RoleOf, Complete
  <1>3. thread[Tcpip] # Dead
    BY <1>2, DeadIs
  <1> DEFINE r == [thread[Tcpip] EXCEPT !.pc = "fetch", !.msg = Now]
  <1>4. r \in ThreadRec /\ r.pc = "fetch" /\ r.box = "tcpip"
    BY <1>2 DEF ThreadRec, Pcs, Msgs
  <1>5. Signal([thread EXCEPT ![Tcpip] = r], Completed) /\ UNCHANGED <<buse, va, queue, cur, mbox>>
    <2>1. [thread EXCEPT ![cur].pc = "fetch", ![cur].msg = Now] = [thread EXCEPT ![Tcpip] = r]
      BY <1>1, <1>2 DEF Types
    <2> QED
      BY <2>1 DEF Complete, Ran
  <1> HIDE DEF r
  <1>6. /\ sem' = [sem EXCEPT ![Completed] = [counter |-> sem[Completed].counter + 1, waiters |-> 0]]
        /\ sem' \in [Sems -> SemRec]
        /\ thread' \in [Threads -> ThreadRec] /\ Only(Tcpip)
        /\ thread'[Tcpip].pc = "fetch" /\ thread'[Tcpip].box = "tcpip"
    BY <1>1, <1>2, <1>4, <1>5, SemNames, Signalled
  <1>7. Types' /\ Turns'
    BY <1>1, <1>5, <1>6 DEF Types, Turns
  <1>8. RoleOf(Tcpip)'
    BY <1>6, Names DEF RoleOf
  <1>9. RequestPagesNotShared'
    BY <1>1, <1>2, <1>3, <1>5, <1>6, PagesKept
  <1>10. SameCounters /\ Idles(Tcpip)
    BY <1>1, <1>2, <1>5, <1>6 DEF SameCounters, Idles, Types
  <1> QED
    BY <1>2, <1>6, <1>7, <1>8, <1>9, <1>10, CalmStep

(* or leaves it to the network, *)
LEMMA LeaveInv ==
    ASSUME NetInv, Leave
    PROVE  NetInv' /\ QueueStep
  <1>1. Types /\ Roles /\ Turns /\ RequestPagesNotShared
    BY DEF NetInv
  <1>2. /\ RoleOf(Tcpip) /\ thread[Tcpip] \in ThreadRec /\ Tcpip \in Threads /\ Tcpip # Main
        /\ cur = Tcpip /\ thread[Tcpip].pc = "reply" /\ thread[Tcpip].box = "tcpip"
    BY <1>1, Names DEF Types, Roles, RoleOf, Leave
  <1>3. thread[Tcpip] # Dead
    BY <1>2, DeadIs
  <1> DEFINE r == [thread[Tcpip] EXCEPT !.pc = "fetch", !.msg = Now]
  <1>4. r \in ThreadRec /\ r.pc = "fetch" /\ r.box = "tcpip"
    BY <1>2 DEF ThreadRec, Pcs, Msgs
  <1>5. thread' = [thread EXCEPT ![Tcpip] = r] /\ UNCHANGED <<buse, va, queue, cur, sem, mbox>>
    BY <1>1, <1>2 DEF Types, Leave, Ran
  <1> HIDE DEF r
  <1>6. thread' \in [Threads -> ThreadRec] /\ thread'[Tcpip] = r /\ Only(Tcpip)
    BY <1>1, <1>2, <1>4, <1>5, RunningOnly
  <1>7. Types' /\ Turns'
    BY <1>1, <1>5, <1>6 DEF Types, Turns
  <1>8. RoleOf(Tcpip)'
    BY <1>4, <1>6, Names DEF RoleOf
  <1>9. RequestPagesNotShared'
    BY <1>1, <1>2, <1>3, <1>5, <1>6, PagesKept
  <1>10. SameCounters /\ Idles(Tcpip)
    BY <1>2, <1>4, <1>5, <1>6 DEF SameCounters, Idles
  <1> QED
    BY <1>2, <1>6, <1>7, <1>8, <1>9, <1>10, CalmStep

(* which finishes it in the thread of a packet or of a timer.  *)
LEMMA DemuxInv ==
    ASSUME NetInv, Demux, NEW t \in Threads, t = cur
    PROVE  NetInv' /\ QueueStep
  <1>1. Types /\ Roles /\ Turns /\ RequestPagesNotShared
    BY DEF NetInv
  <1>2. /\ RoleOf(t) /\ thread[t] \in ThreadRec /\ thread[t].pc = "input" /\ thread[t] # Dead /\ t # Main
        /\ t \in Buffers /\ thread[t].box = "recv" /\ thread[t].msg \in Packets
    BY <1>1, Names, DeadIs DEF Types, Roles, RoleOf, Demux
  <1>3. PICK pc \in {"post", "done"} : thread' = [thread EXCEPT ![t].pc = pc]
    BY DEF Demux, Goto
  <1> DEFINE r == [thread[t] EXCEPT !.pc = pc]
  <1>4. r \in ThreadRec /\ r.pc = pc /\ r.box = "recv" /\ r.msg = thread[t].msg
    BY <1>2 DEF ThreadRec, Pcs
  <1>5. thread' = [thread EXCEPT ![t] = r] /\ UNCHANGED <<buse, va, queue, cur, sem, mbox>>
    BY <1>3 DEF Demux
  <1> HIDE DEF r
  <1>6. thread' \in [Threads -> ThreadRec] /\ thread'[t] = r /\ Only(t)
    BY <1>1, <1>4, <1>5, RunningOnly
  <1>7. Types' /\ Turns'
    BY <1>1, <1>5, <1>6 DEF Types, Turns
  <1>8. RoleOf(t)'
    BY <1>2, <1>4, <1>6, Names DEF RoleOf
  <1>9. RequestPagesNotShared'
    BY <1>1, <1>2, <1>5, <1>6, PagesKept
  <1>10. SameCounters /\ Idles(t)
    BY <1>2, <1>4, <1>5, <1>6 DEF SameCounters, Idles
  <1> QED
    BY <1>6, <1>7, <1>8, <1>9, <1>10, CalmStep

LEMMA CallBackInv ==
    ASSUME NetInv, CallBack, NEW t \in Threads, t = cur
    PROVE  NetInv' /\ QueueStep
  <1>1. Types /\ Roles /\ Turns /\ RequestPagesNotShared
    BY DEF NetInv
  <1>2. /\ RoleOf(t) /\ thread[t] \in ThreadRec /\ thread[t].pc \in {"input", "done", "wait"}
        /\ thread[t] # Dead /\ t # Main
    BY <1>1, DeadIs DEF Types, Roles, RoleOf, CallBack
  <1>3. thread = [thread EXCEPT ![t] = thread[t]]
    BY <1>1 DEF Types
  <1>4. Signal([thread EXCEPT ![t] = thread[t]], Completed) /\ UNCHANGED <<buse, va, queue, cur, mbox>>
    BY <1>3 DEF CallBack
  <1>5. /\ sem' = [sem EXCEPT ![Completed] = [counter |-> sem[Completed].counter + 1, waiters |-> 0]]
        /\ sem' \in [Sems -> SemRec]
        /\ thread' \in [Threads -> ThreadRec] /\ Only(t)
        /\ thread'[t].pc = thread[t].pc /\ thread'[t].box = thread[t].box /\ thread'[t].msg = thread[t].msg
    BY <1>1, <1>2, <1>4, SemNames, Signalled
  <1>6. Types' /\ Turns'
    BY <1>1, <1>4, <1>5 DEF Types, Turns
  <1>7. RoleOf(t)'
    BY <1>2, <1>5, DeadIs DEF RoleOf
  <1>8. RequestPagesNotShared'
    BY <1>1, <1>2, <1>4, <1>5, PagesKept
  <1>9. SameCounters /\ Idles(t)
    BY <1>1, <1>4, <1>5 DEF SameCounters, Idles, Types
  <1> QED
    BY <1>5, <1>6, <1>7, <1>8, <1>9, CalmStep

LEMMA TimerTurnInv ==
    ASSUME NetInv, TimerTurn
    PROVE  NetInv' /\ QueueStep
  <1>1. Types /\ Turns /\ Roles
    BY DEF NetInv
  <1>2. Yield /\ UNCHANGED <<buse, va, thread, sem, mbox>>
    BY DEF TimerTurn
  <1>3. Turns' /\ queue' \in Seq(Threads) /\ cur' \in Threads
    BY <1>1, <1>2, YieldTurns
  <1>4. Types' /\ RequestPagesNotShared' /\ RoleOf(NetTimer)'
    BY <1>1, <1>2, <1>3, Names DEF NetInv, Types, RequestPagesNotShared, Roles, RoleOf
  <1>5. SameCounters /\ Idles(NetTimer) /\ Only(NetTimer) /\ NetTimer \in Threads
    BY <1>2, Names DEF SameCounters, Idles, Only, SameJob
  <1> QED
    BY <1>3, <1>4, <1>5, CalmStep

-----------------------------------------------------------------------------
(* A request's thread ends. *)
LEMMA FinishInv ==
    ASSUME NetInv, Finish, NEW t \in Threads, t = cur
    PROVE  NetInv' /\ QueueStep
  <1>1. Types /\ Roles /\ Turns /\ RequestPagesNotShared
    BY DEF NetInv
  <1>2. /\ t \in Buffers /\ thread[t].pc \in {"reply", "done"}
        /\ buse' = [buse EXCEPT ![t] = FALSE] /\ thread' = [thread EXCEPT ![t] = Dead]
        /\ cur' = Head(queue) /\ queue' = Tail(queue)
        /\ UNCHANGED <<va, sem, mbox>>
    BY DEF Finish
  <1>3. thread' \in [Threads -> ThreadRec] /\ thread'[t] = Dead /\ Only(t)
    BY <1>1, <1>2, DeadIs, RunningOnly
  <1>4. Turns' /\ queue' \in Seq(Threads) /\ cur' \in Threads
    BY <1>1, <1>2, HaltTurns
  <1>5. Types'
    BY <1>1, <1>2, <1>3, <1>4 DEF Types
  <1>6. RoleOf(t)'
    BY <1>2, <1>3, Names DEF RoleOf
  <1>7. RequestPagesNotShared'
    <2>1. t # Main /\ Main \in Threads /\ Buffers \subseteq Threads
      BY <1>2, Names
    <2>2. /\ thread'[Main] = thread[Main]
          /\ \A b \in Buffers \ {t} : thread'[b] = thread[b] /\ buse'[b] = buse[b]
      BY <1>1, <1>2, <2>1 DEF Types
    <2>3. thread[va] = Dead => va # t
      BY <1>2, DeadIs
    <2> QED
      BY <1>1, <1>2, <1>3, <2>2, <2>3 DEF RequestPagesNotShared, Types
  <1>8. SameCounters /\ Idles(t)
    BY <1>2, <1>3, DeadIs DEF SameCounters, Idles
  <1> QED
    BY <1>3, <1>4, <1>5, <1>6, <1>7, <1>8, CalmStep

(* Main gives its turn away, *)
LEMMA GiveTurnInv ==
    ASSUME NetInv, GiveTurn
    PROVE  NetInv' /\ QueueStep
  <1>1. Types /\ Roles /\ Turns /\ RequestPagesNotShared
    BY DEF NetInv
  <1>2. Yield /\ UNCHANGED <<buse, va, thread, sem, mbox>>
    BY DEF GiveTurn
  <1>3. Turns' /\ queue' \in Seq(Threads) /\ cur' \in Threads
    BY <1>1, <1>2, YieldTurns
  <1>4. Types' /\ RequestPagesNotShared' /\ RoleOf(Main)'
    BY <1>1, <1>2, <1>3, Names DEF Types, RequestPagesNotShared, Roles, RoleOf
  <1>5. SameCounters /\ Idles(Main) /\ Only(Main) /\ Main \in Threads
    BY <1>2, Names DEF SameCounters, Idles, Only, SameJob
  <1> QED
    BY <1>3, <1>4, <1>5, CalmStep

(* What main does without giving it away. *)
MainGoes(pc) ==
    /\ thread' = [thread EXCEPT ![Main].pc = pc]
    /\ UNCHANGED <<sem, mbox>>
    /\ queue' \in Seq(Threads) /\ cur' \in Threads /\ Turns'
    /\ buse' \in [Buffers -> BOOLEAN] /\ va' \in Buffers

LEMMA MainStep ==
    ASSUME NetInv, NEW pc \in {"flush", "recv", "timer"}, MainGoes(pc), RequestPagesNotShared'
    PROVE  NetInv' /\ QueueStep
  <1>1. Types /\ Roles
    BY DEF NetInv
  <1>2. RoleOf(Main) /\ thread[Main] \in ThreadRec /\ Main \in Threads /\ Main # Tcpip /\ Main \notin Buffers
    BY <1>1, Names DEF Types, Roles
  <1> DEFINE r == [thread[Main] EXCEPT !.pc = pc]
  <1>3. r \in ThreadRec /\ r.pc = pc
    BY <1>2 DEF ThreadRec, Pcs
  <1>4. thread' = [thread EXCEPT ![Main] = r]
    BY DEF MainGoes
  <1> HIDE DEF r
  <1>5. thread' \in [Threads -> ThreadRec] /\ thread'[Main] = r /\ Only(Main)
    BY <1>1, <1>2, <1>3, <1>4, RunningOnly
  <1>6. Types' /\ Turns'
    BY <1>1, <1>5 DEF Types, MainGoes
  <1>7. RoleOf(Main)'
    BY <1>2, <1>3, <1>5 DEF RoleOf
  <1>8. SameCounters /\ Idles(Main)
    BY <1>2, <1>3, <1>5 DEF SameCounters, Idles, MainGoes, RoleOf
  <1> QED
    BY <1>2, <1>5, <1>6, <1>7, <1>8, CalmStep

LEMMA MainKeeps ==
    ASSUME Types, NEW pc, MainGoes(pc)
    PROVE  thread'[Main].pc = pc /\ \A b \in Buffers : thread'[b] = thread[b]
  BY Names DEF Types, ThreadRec, MainGoes

LEMMA Least ==
    ASSUME NEW S \in SUBSET Nat, S # {}
    PROVE  \E b \in S : \A c \in S : ~(c < b)
  <1>1. PICK b \in S : \A c \in S : <<c, b>> \notin OpToRel(<, Nat)
    BY NatLessThanWellFounded, WFMin, Zenon
  <1>2. ASSUME NEW c \in S, c < b PROVE FALSE
    <2>1. <<c, b>> \in OpToRel(<, Nat)
      BY <1>2, Zenon DEF OpToRel
    <2> QED
      BY <1>1, <2>1, Zenon
  <1> QED
    BY <1>2, Zenon

(* get_buffer finds the first buffer not in use. *)
LEMMA FirstFree ==
    ASSUME buse \in [Buffers -> BOOLEAN], ~ \A b \in Buffers : buse[b]
    PROVE  \E b \in Buffers : ~buse[b] /\ \A c \in 0 .. b - 1 : buse[c]
  <1> DEFINE S == {b \in Buffers : ~buse[b]}
  <1>1. S \in SUBSET Nat /\ S # {}
    BY DEF Buffers
  <1>2. PICK b \in S : \A c \in S : ~(c < b)
    BY <1>1, Least, Zenon
  <1>3. b \in 0 .. QUEUE_SIZE - 1 /\ QUEUE_SIZE \in Nat /\ ~buse[b]
    BY <1>2, NetAssumption DEF Buffers
  <1>4. \A c \in 0 .. b - 1 : c \in Buffers /\ c < b
    BY <1>3 DEF Buffers
  <1>5. \A c \in 0 .. b - 1 : buse[c]
    BY <1>2, <1>4
  <1> QED
    BY <1>2, <1>3, <1>5

LEMMA GetBufferInv ==
    ASSUME NetInv, GetBuffer
    PROVE  NetInv' /\ QueueStep
  <1>1. Types /\ Turns /\ RequestPagesNotShared /\ cur = Main /\ thread[Main].pc = "flush"
    BY DEF NetInv, GetBuffer
  <1>2. queue' \in Seq(Threads) /\ cur' \in Threads /\ Turns' /\ UNCHANGED <<sem, mbox>>
    BY <1>1 DEF GetBuffer, Types, Turns
  <1>3. CASE \A b \in Buffers : buse[b]
    <2>1. UNCHANGED <<va, buse, thread>>
      BY <1>3 DEF GetBuffer
    <2>2. MainGoes("flush")
      BY <1>1, <1>2, <2>1, Names DEF MainGoes, Types, ThreadRec
    <2>3. RequestPagesNotShared'
      BY <1>1, <2>1 DEF RequestPagesNotShared
    <2> QED
      BY <2>2, <2>3, MainStep
  <1>4. CASE ~ \A b \in Buffers : buse[b]
    <2>1. /\ va' = CHOOSE b \in Buffers : ~buse[b] /\ \A c \in 0 .. b - 1 : buse[c]
          /\ buse' = [buse EXCEPT ![va'] = TRUE] /\ thread' = [thread EXCEPT ![Main].pc = "recv"]
      BY <1>1, <1>4 DEF GetBuffer, Goto
    <2>2. PICK v \in Buffers : v = va' /\ ~buse[v]
      BY <1>1, <1>4, <2>1, FirstFree DEF Types
    <2>3. buse' = [buse EXCEPT ![v] = TRUE]
      BY <2>1, <2>2
    <2>4. MainGoes("recv")
      BY <1>1, <1>2, <2>1, <2>2, <2>3 DEF MainGoes, Types
    <2>5. \A b \in Buffers : thread'[b] = thread[b]
      BY <1>1, <2>4, MainKeeps
    <2>6. thread[v] = Dead
      BY <1>1, <2>2 DEF RequestPagesNotShared
    <2>7. RequestPagesNotShared'
      BY <1>1, <2>2, <2>3, <2>5, <2>6 DEF RequestPagesNotShared, Types
    <2> QED
      BY <2>4, <2>7, MainStep
  <1> QED
    BY <1>3, <1>4

(* receives a message of the timer and answers it, *)
LEMMA ReceiveTimerInv ==
    ASSUME NetInv, ReceiveTimer
    PROVE  NetInv' /\ QueueStep
  <1>1. Types /\ Turns /\ RequestPagesNotShared /\ thread[Main].pc = "recv"
    BY DEF NetInv, ReceiveTimer, Receiving
  <1>2. Yield /\ thread' = [thread EXCEPT ![Main].pc = "timer"] /\ UNCHANGED <<buse, va, sem, mbox>>
    BY DEF ReceiveTimer, Receiving, Goto
  <1>3. MainGoes("timer")
    BY <1>1, <1>2, YieldTurns DEF MainGoes, Types
  <1>4. RequestPagesNotShared'
    BY <1>1, <1>2, <1>3, MainKeeps DEF RequestPagesNotShared, Types
  <1> QED
    BY <1>3, <1>4, MainStep

LEMMA AnswerTimerInv ==
    ASSUME NetInv, AnswerTimer
    PROVE  NetInv' /\ QueueStep
  <1>1. Types /\ Turns /\ RequestPagesNotShared /\ thread[Main].pc = "timer"
    BY DEF NetInv, AnswerTimer
  <1>2. /\ thread' = [thread EXCEPT ![Main].pc = "flush"] /\ buse' = [buse EXCEPT ![va] = FALSE]
        /\ UNCHANGED <<va, queue, cur, sem, mbox>>
    BY DEF AnswerTimer, Goto
  <1>3. MainGoes("flush")
    BY <1>1, <1>2 DEF MainGoes, Types, Turns
  <1>4. RequestPagesNotShared'
    BY <1>1, <1>2, <1>3, MainKeeps DEF RequestPagesNotShared, Types
  <1> QED
    BY <1>3, <1>4, MainStep

(* or a request without a page. *)
LEMMA ReceiveNoPageInv ==
    ASSUME NetInv, ReceiveNoPage
    PROVE  NetInv' /\ QueueStep
  <1>1. Types /\ Turns /\ RequestPagesNotShared
    BY DEF NetInv
  <1>2. thread' = [thread EXCEPT ![Main].pc = "flush"] /\ UNCHANGED <<buse, va, queue, cur, sem, mbox>>
    BY DEF ReceiveNoPage, Receiving, Goto
  <1>3. MainGoes("flush")
    BY <1>1, <1>2 DEF MainGoes, Types, Turns
  <1>4. RequestPagesNotShared'
    BY <1>1, <1>2, <1>3, MainKeeps DEF RequestPagesNotShared
  <1> QED
    BY <1>3, <1>4, MainStep

(* Any other request becomes a thread r that asks for a semaphore first. *)
LEMMA ServeInv ==
    ASSUME NetInv, NEW r \in ThreadRec, Serve(r), r.pc \in {"fetch", "post", "input"},
           r.pc \in {"fetch", "input"} => r.box = "recv", r.pc = "post" => r.box = "tcpip",
           r.pc = "input" => r.msg \in Packets
    PROVE  NetInv' /\ QueueStep
  <1>1. Types /\ Roles /\ Turns /\ RequestPagesNotShared /\ Counts
    BY DEF NetInv
  <1>2. /\ cur = Main /\ thread[Main].pc = "recv"
        /\ thread' = [thread EXCEPT ![va] = r, ![Main].pc = "flush"]
        /\ queue' = Append(Tail(Append(queue, va)), Main) /\ cur' = Head(queue)
        /\ UNCHANGED <<buse, va, sem, mbox>>
    BY DEF Serve, Receiving
  <1>3. /\ va \in Buffers /\ va # Main /\ Main \in Threads /\ va # Tcpip /\ va \in Threads /\ Main # Tcpip
        /\ va # NetTimer
        /\ thread[va] = Dead /\ buse[va]
    BY <1>1, <1>2, Names DEF Types, RequestPagesNotShared
  <1>4. /\ [thread[Main] EXCEPT !.pc = "flush"] \in ThreadRec
        /\ [thread[Main] EXCEPT !.pc = "flush"].pc = "flush"
    BY <1>1, <1>3 DEF Types, ThreadRec, Pcs
  <1>5. /\ thread' \in [Threads -> ThreadRec] /\ thread'[va] = r
        /\ thread'[Main] = [thread[Main] EXCEPT !.pc = "flush"]
        /\ \A u \in Threads \ {va, Main} : thread'[u] = thread[u]
    BY <1>1, <1>2, <1>3, <1>4 DEF Types
  <1>6. Turns' /\ queue' \in Seq(Threads) /\ cur' \in Threads
    BY <1>1, <1>2, ServeTurns
  <1>7. Types'
    BY <1>1, <1>2, <1>5, <1>6 DEF Types
  <1>8. Roles'
    <2> SUFFICES ASSUME NEW u \in Threads PROVE RoleOf(u)'
      BY DEF Roles
    <2>1. CASE u = va
      <3>1. thread'[u] = r /\ u # Main /\ u # Tcpip /\ u # NetTimer
        BY <1>3, <1>5, <2>1
      <3>2. r.box \in {"recv", "tcpip"}
        BY DEF ThreadRec, Boxes
      <3> QED
        BY <3>1, <3>2 DEF RoleOf
    <2>2. CASE u = Main
      BY <1>3, <1>4, <1>5, <2>2, Names DEF RoleOf
    <2>3. CASE u # va /\ u # Main
      <3>1. thread'[u] = thread[u] /\ RoleOf(u)
        BY <1>1, <1>5, <2>3 DEF Roles
      <3> QED
        BY <3>1 DEF RoleOf
    <2> QED
      BY <2>1, <2>2, <2>3
  <1>9. RequestPagesNotShared'
    <2>1. thread'[Main].pc = "flush"
      BY <1>4, <1>5
    <2>2. \A b \in Buffers : thread'[b] # Dead => buse[b]
      BY <1>1, <1>3, <1>5, Names DEF RequestPagesNotShared
    <2> QED
      BY <1>2, <2>1, <2>2 DEF RequestPagesNotShared
  <1>10. \A u \in Threads : Idles(u)
    BY <1>2, <1>3, <1>4, <1>5, DeadIs DEF Idles
  <1>11. SameCounters
    BY <1>2 DEF SameCounters
  <1>12. Counts' /\ QueueStep
    BY <1>1, <1>10, <1>11, CalmAll
  <1> QED
    BY <1>6, <1>7, <1>8, <1>9, <1>12 DEF NetInv

-----------------------------------------------------------------------------
LEMMA InitInv == Init => NetInv /\ mbox["recv"].head = -1
                         /\ At("store", "recv") = 0 /\ At("take", "recv") = 0
  <1> SUFFICES ASSUME Init PROVE NetInv /\ mbox["recv"].head = -1
                                 /\ At("store", "recv") = 0 /\ At("take", "recv") = 0
    OBVIOUS
  <1>1. /\ Main \in Threads /\ Tcpip \in Threads /\ NetTimer \in Threads /\ 0 \in Buffers
        /\ Main # Tcpip /\ Main # NetTimer /\ Tcpip # NetTimer
        /\ \A b \in Buffers : b \in Threads /\ b # Main /\ b # Tcpip /\ b # NetTimer
        /\ \A t \in Threads : t = Main \/ t = Tcpip \/ t = NetTimer \/ t \in Buffers
    BY Names
  <1>2. /\ Thread("flush") \in ThreadRec /\ Thread("flush").pc = "flush"
        /\ Thread("wait") \in ThreadRec /\ Thread("wait").pc = "wait"
    BY DEF Thread, ThreadRec, Pcs, Boxes, Msgs
  <1> DEFINE r == [Thread("fetch") EXCEPT !.box = "tcpip", !.on = Queued("tcpip")]
  <1>3. r \in ThreadRec /\ r.pc = "fetch" /\ r.box = "tcpip"
    <2>1. Queued("tcpip") \in Sems
      BY SemsOf DEF Boxes
    <2> QED
      BY <2>1 DEF Thread, ThreadRec, Pcs, Boxes, Msgs
  <1>4. thread = [t \in Threads |-> IF t = Main THEN Thread("flush") ELSE IF t = Tcpip THEN r
                                     ELSE IF t = NetTimer THEN Thread("wait") ELSE Dead]
    BY DEF Init
  <1> HIDE DEF r
  <1>5. /\ thread \in [Threads -> ThreadRec] /\ thread[Main] = Thread("flush") /\ thread[Tcpip] = r
        /\ thread[NetTimer] = Thread("wait") /\ \A b \in Buffers : thread[b] = Dead
    BY <1>1, <1>2, <1>3, <1>4, DeadIs
  <1>6. \A s \in Sems : sem[s] = CASE s = Queued("tcpip") -> Asleep
                                 [] s[2] = "free_msg"    -> Sem(MBOXSLOTS)
                                 [] OTHER                -> Sem(0)
    BY DEF Init
  <1>7. \A n \in Nat : Sem(n) \in SemRec /\ Asleep \in SemRec /\ Sem(n).counter = n /\ Asleep.counter = 0
    BY DEF Sem, Asleep, SemRec
  <1>8. sem \in [Sems -> SemRec]
    <2>1. \A s \in Sems : sem[s] \in {Asleep, Sem(MBOXSLOTS), Sem(0)}
      BY <1>6
    <2>2. \A s \in Sems : sem[s] \in SemRec
      BY <1>7, <2>1, NetAssumption
    <2>3. sem = [s \in Sems |-> sem[s]]
      BY DEF Init
    <2> QED
      BY <2>2, <2>3
  <1>9. \A m \in Boxes : sem[Queued(m)].counter = 0 /\ sem[Free(m)].counter = MBOXSLOTS
    <2> SUFFICES ASSUME NEW m \in Boxes
                 PROVE  sem[Queued(m)].counter = 0 /\ sem[Free(m)].counter = MBOXSLOTS
      OBVIOUS
    <2>1. Queued(m) \in Sems /\ Free(m) \in Sems /\ Free(m) # Queued("tcpip")
      BY SemsOf, SemsApart DEF Boxes
    <2>2. Queued(m)[2] # "free_msg" /\ Free(m)[2] = "free_msg"
      BY DEF Queued, Free
    <2>3. sem[Queued(m)] \in {Asleep, Sem(0)}
      BY <1>6, <2>1, <2>2
    <2>4. sem[Free(m)] = Sem(MBOXSLOTS)
      BY <1>6, <2>1, <2>2
    <2> QED
      BY <1>7, <2>3, <2>4, NetAssumption
  <1>10. mbox \in [Boxes -> Ring] /\ \A m \in Boxes : mbox[m].head = -1
    <2>1. Mbox \in Ring /\ Mbox.head = -1
      BY NetAssumption DEF Mbox, Ring, Slots, Msgs
    <2>2. mbox = [m \in Boxes |-> Mbox]
      BY DEF Init, Boxes
    <2> QED
      BY <2>1, <2>2
  <1>11. Types /\ Turns
    <2>1. queue = <<Tcpip, NetTimer>> /\ cur = Main
      BY DEF Init
    <2>2. queue \in Seq(Threads) /\ Len(queue) = 2 /\ queue[1] = Tcpip
      BY <1>1, <2>1
    <2>3. buse \in [Buffers -> BOOLEAN] /\ va \in Buffers
      BY <1>1 DEF Init
    <2> QED
      BY <1>1, <1>5, <1>8, <1>10, <2>1, <2>2, <2>3 DEF Types, Turns, Among
  <1>12. Roles
    BY <1>1, <1>2, <1>3, <1>5 DEF Roles, RoleOf
  <1>13. RequestPagesNotShared
    BY <1>2, <1>5 DEF RequestPagesNotShared
  <1>14. ASSUME NEW m \in Boxes, NEW pc \in {"take", "store"}
         PROVE  At(pc, m) = 0
    <2>1. \A t \in Threads : thread[t].pc # pc
      BY <1>1, <1>2, <1>3, <1>5, DeadIs
    <2>2. Those(pc, m) = {}
      BY <2>1 DEF Those, IsAt
    <2> QED
      BY <2>2, AtFacts, FS_EmptySet
  <1>15. Counts
    <2>1. \A m \in Boxes : Long(mbox[m]) = 0
      BY <1>10 DEF Long
    <2> QED
      BY <1>9, <1>14, <2>1, NetAssumption DEF Counts, CountsOf
  <1> QED
    BY <1>10, <1>11, <1>12, <1>13, <1>14, <1>15 DEF NetInv, Boxes

LEMMA NextInv == NetInv /\ [Next]_vars => NetInv' /\ QueueStep
  <1> SUFFICES ASSUME NetInv, [Next]_vars PROVE NetInv' /\ QueueStep
    OBVIOUS
  <1>t. PICK t \in Threads : t = cur
    BY DEF NetInv, Types
  <1>1. ASSUME UNCHANGED <<buse, va, queue, cur, thread, sem, mbox>>
        PROVE  NetInv' /\ QueueStep
    <2>1. Types' /\ Turns' /\ RequestPagesNotShared' /\ RoleOf(Main)'
      BY <1>1, Names DEF NetInv, Types, Turns, RequestPagesNotShared, Roles, RoleOf
    <2>2. SameCounters /\ Idles(Main) /\ Only(Main) /\ Main \in Threads
      BY <1>1, Names DEF SameCounters, Idles, Only, SameJob
    <2> QED
      BY <2>1, <2>2, CalmStep
  <1>2. CASE Run
    BY <1>2, <1>t, SemTakeInv, SemSleepInv, PollInv, PostInv, FetchInv, CompleteInv, LeaveInv,
       DemuxInv, CallBackInv, TimerTurnInv, FinishInv, GiveTurnInv, GetBufferInv, AnswerTimerInv DEF Run
  <1>3. CASE ReceiveRecv
    <2> DEFINE r == Thread("fetch")
    <2>1. r \in ThreadRec /\ r.pc = "fetch" /\ r.box = "recv"
      BY DEF Thread, ThreadRec, Pcs, Boxes, Msgs
    <2>2. Serve(r)
      BY <1>3 DEF ReceiveRecv
    <2> HIDE DEF r
    <2> QED
      BY <2>1, <2>2, ServeInv
  <1>4. CASE ReceiveApi
    <2>1. PICK r \in {[Thread("post") EXCEPT !.box = "tcpip"],
                      [Thread("post") EXCEPT !.box = "tcpip", !.msg = Later]} : Serve(r)
      BY <1>4 DEF ReceiveApi
    <2>2. r \in ThreadRec /\ r.pc = "post" /\ r.box = "tcpip"
      BY DEF Thread, ThreadRec, Pcs, Boxes, Msgs
    <2> QED
      BY <2>1, <2>2, ServeInv
  <1>5. CASE ReceiveInput
    <2>1. PICK p \in Packets : Serve([Thread("input") EXCEPT !.msg = p])
      BY <1>5 DEF ReceiveInput
    <2> DEFINE r == [Thread("input") EXCEPT !.msg = p]
    <2>2. r \in ThreadRec /\ r.pc = "input" /\ r.msg = p /\ r.box = "recv"
      BY DEF Thread, ThreadRec, Pcs, Boxes, Msgs
    <2> HIDE DEF r
    <2>3. Serve(r)
      BY <2>1 DEF r
    <2> QED
      BY <2>2, <2>3, ServeInv
  <1>6. CASE Receive
    BY <1>3, <1>4, <1>5, <1>6, ReceiveTimerInv, ReceiveNoPageInv DEF Receive
  <1>7. CASE Tick
    BY <1>1, <1>7 DEF Tick
  <1>8. CASE UNCHANGED vars
    BY <1>1, <1>8 DEF vars
  <1> QED
    BY <1>2, <1>6, <1>7, <1>8 DEF Next, Stopped

(* What the theorems below rest on: the two counters of each mailbox are its     *)
(* ring and those let in, main and the tcpip thread are never off the queue, and *)
(* every thread of a request holds the buffer of its page.                       *)
THEOREM NetInvariant == Spec => []NetInv
  BY InitInv, NextInv, PTL DEF Spec

(* A request's page belongs to it from get_buffer to put_buffer: main never      *)
(* receives over a request some thread still reads, with any number of buffers.  *)
THEOREM NetRequestPagesNotShared == Spec => []RequestPagesNotShared
  <1>1. NetInv => RequestPagesNotShared
    BY DEF NetInv
  <1> QED
    BY <1>1, NetInvariant, PTL

(* Whoever sys_arch_sem_wait let into a mailbox finds its place or its message:  *)
(* the assertions of sys_mbox_post and sys_arch_mbox_fetch never fail.           *)
LetInFinds == \A t \in Threads :
    /\ thread[t].pc = "store" => mbox[thread[t].box].nextq # mbox[thread[t].box].head
    /\ thread[t].pc = "take"  => mbox[thread[t].box].head # -1

LEMMA FindsPlace ==
    ASSUME NetInv, NEW t \in Threads
    PROVE  /\ thread[t].pc = "store" => mbox[thread[t].box].nextq # mbox[thread[t].box].head
           /\ thread[t].pc = "take"  => mbox[thread[t].box].head # -1
  <1>m. PICK m \in Boxes : m = thread[t].box
    BY DEF NetInv, Types, ThreadRec
  <1>1. mbox[m] \in Ring /\ CountsOf(m)
    BY DEF NetInv, Types, Counts
  <1>2. /\ sem[Queued(m)].counter \in Nat /\ sem[Free(m)].counter \in Nat /\ Long(mbox[m]) \in Nat
        /\ At("take", m) \in Nat /\ At("store", m) \in Nat /\ MBOXSLOTS \in Nat
    BY Numbers, NetAssumption DEF NetInv
  <1>3. thread[t].pc = "store" => At("store", m) > 0
    BY <1>m, AtFacts DEF IsAt
  <1>4. thread[t].pc = "take" => At("take", m) > 0
    BY <1>m, AtFacts DEF IsAt
  <1>5. thread[t].pc = "store" => Long(mbox[m]) # MBOXSLOTS
    BY <1>1, <1>2, <1>3 DEF CountsOf
  <1>6. thread[t].pc = "take" => Long(mbox[m]) # 0
    BY <1>1, <1>2, <1>4 DEF CountsOf
  <1> QED
    BY <1>m, <1>1, <1>5, <1>6, RingFacts

THEOREM NetLetInFinds == Spec => []LetInFinds
  <1>1. NetInv => LetInFinds
    BY FindsPlace DEF LetInFinds
  <1> QED
    BY <1>1, NetInvariant, PTL

-----------------------------------------------------------------------------
(* The connection's mailbox is a bounded queue. *)

ContentIsHeld == Content("recv") = Held(mbox["recv"]) /\ Len(Content("recv")) = Long(mbox["recv"])

LEMMA ContentHeld == NetInv => ContentIsHeld
  <1> SUFFICES ASSUME NetInv PROVE ContentIsHeld
    OBVIOUS
  <1>b. PICK b \in Ring : b = mbox["recv"]
    BY DEF NetInv, Types, Boxes
  <1> DEFINE n == IF b.head = b.nextq THEN MBOXSLOTS ELSE (b.nextq + MBOXSLOTS - b.head) % MBOXSLOTS
  <1>1. Content("recv") = IF b.head = -1 THEN <<>>
                          ELSE [i \in 1 .. n |-> b.msg[(b.head + i - 1) % MBOXSLOTS]]
    BY <1>b DEF Content
  <1>2. CASE b.head = -1
    BY <1>1, <1>2, <1>b, RingFacts DEF ContentIsHeld, Held
  <1>3. CASE b.head # -1
    <2>1. b.head \in Slots /\ b.nextq \in Slots /\ MBOXSLOTS \in Nat \ {0}
      BY <1>3, NetAssumption DEF Ring
    <2>2. n = Long(b)
      <3>1. CASE b.head = b.nextq
        BY <1>3, <2>1, <3>1 DEF Long, Slots
      <3>2. CASE b.head # b.nextq
        <4> DEFINE y == b.nextq + MBOXSLOTS - b.head
        <4>1. y \in 0 .. (2 * MBOXSLOTS - 1)
          BY <2>1, <3>2 DEF Slots
        <4>2. Around(y) = Long(b)
          <5> DEFINE h == b.head
                     q == b.nextq
          <5>1. /\ h \in Slots /\ q \in Slots /\ h # q /\ y = q + MBOXSLOTS - h
                /\ Long(b) = IF q > h THEN q - h ELSE q - h + MBOXSLOTS
            BY <1>3, <2>1, <3>2 DEF Long
          <5> HIDE DEF h, q, y
          <5> QED
            BY <2>1, <5>1 DEF Around, Slots
        <4>3. n = y % MBOXSLOTS
          BY <3>2
        <4> HIDE DEF y, n
        <4> QED
          BY <4>1, <4>2, <4>3, Places
      <3> QED
        BY <3>1, <3>2
    <2> HIDE DEF n
    <2>3. n \in 1 .. MBOXSLOTS
      BY <1>3, <2>2, RingFacts
    <2>4. ASSUME NEW i \in 1 .. n
          PROVE  (b.head + i - 1) % MBOXSLOTS = Around(b.head + i - 1)
      <3> DEFINE y == b.head + i - 1
      <3>1. y \in 0 .. (2 * MBOXSLOTS - 1)
        BY <2>1, <2>3 DEF Slots
      <3> HIDE DEF y
      <3>2. y % MBOXSLOTS = Around(y)
        BY <3>1, Places
      <3> QED
        BY <3>2 DEF y
    <2>5. Content("recv") = [i \in 1 .. n |-> b.msg[(b.head + i - 1) % MBOXSLOTS]]
      BY <1>1, <1>3
    <2>6. Held(b) = [i \in 1 .. n |-> b.msg[Around(b.head + i - 1)]]
      BY <1>3, <2>2 DEF Held
    <2>7. Content("recv") = Held(b)
      BY <2>4, <2>5, <2>6, Zenon
    <2> QED
      BY <1>b, <2>7, RingFacts DEF ContentIsHeld
  <1> QED
    BY <1>2, <1>3

LEMMA QueueInit == Init => Queue!Init
  <1> SUFFICES ASSUME Init PROVE Queue!Init
    OBVIOUS
  <1>1. mbox["recv"].head = -1 /\ At("store", "recv") = 0 /\ At("take", "recv") = 0 /\ ContentIsHeld
    BY InitInv, ContentHeld
  <1> QED
    BY <1>1 DEF Queue!Init, ContentIsHeld, Held

LEMMA QueueNext == NetInv /\ NetInv' /\ [Next]_vars => [Queue!Next]_(Queue!vars)
  <1> SUFFICES ASSUME NetInv, NetInv', [Next]_vars PROVE [Queue!Next]_(Queue!vars)
    OBVIOUS
  <1>1. ContentIsHeld /\ QueueStep
    BY ContentHeld, NextInv
  <1>2. NetInv' => ContentIsHeld'
    BY ContentHeld, PTL
  <1>3. Content("recv")' = Held(mbox'["recv"])
    BY <1>2 DEF ContentIsHeld
  <1>4. CASE Stands
    BY <1>1, <1>3, <1>4 DEF Stands, ContentIsHeld, Queue!vars
  <1>5. CASE PosterIn
    BY <1>1, <1>3, <1>5 DEF PosterIn, ContentIsHeld, Queue!LetInPoster, Queue!Next
  <1>6. CASE FetcherIn
    BY <1>1, <1>3, <1>6 DEF FetcherIn, ContentIsHeld, Queue!LetInFetcher, Queue!Next
  <1>7. CASE GetOne
    BY <1>1, <1>3, <1>7 DEF GetOne, ContentIsHeld, Queue!Get, Queue!Next
  <1>8. CASE \E p \in Packets : PutOne(p)
    BY <1>1, <1>3, <1>8 DEF PutOne, ContentIsHeld, Queue!Put, Queue!Next
  <1> QED
    BY <1>1, <1>4, <1>5, <1>6, <1>7, <1>8 DEF QueueStep

(* The two semaphores and the ring of a connection's mailbox implement the queue *)
(* lwIP asks its port for, for any number of places and threads: nobody is let   *)
(* in too early, nothing is lost, and messages leave in the order they came.     *)
THEOREM NetImplementsQueue == Spec => ImplementsQueue
  BY QueueInit, QueueNext, NetInvariant, PTL DEF Spec, ImplementsQueue, Queue!Spec

-----------------------------------------------------------------------------
(* Who sleeps, and who has a turn. *)

(* A sleeper that nobody woke sleeps on a semaphore that it could not take,      *)
(* and that whoever signals next knows to have a waiter.                         *)
NoWakeupLost ==
    \A t \in Threads :
        thread[t].on # NoSem /\ ~thread[t].wakeup
            => sem[thread[t].on].counter = 0 /\ sem[thread[t].on].waiters = 1

(* Nobody is twice on the queue, and who runs or waits for a turn is alive.      *)
Once(q, c) ==
    /\ \A i \in 1 .. Len(q) : q[i] # c
    /\ \A i, j \in 1 .. Len(q) : q[i] = q[j] => i = j

TurnsOnce ==
    /\ Once(queue, cur) /\ thread[cur].pc # "dead"
    /\ \A i \in 1 .. Len(queue) : thread[queue[i]].pc # "dead"

(* Whoever is neither asleep nor running has just been created: its turn comes   *)
(* right before main's.                                                          *)
BeforeMain(t, q) == \E i \in 1 .. (Len(q) - 1) : q[i] = t /\ q[i + 1] = Main

NewFirst ==
    \A t \in Threads \ {Main, NetTimer, cur} :
        thread[t].pc # "dead" /\ thread[t].on = NoSem => BeforeMain(t, queue)

WakeInv == NoWakeupLost /\ TurnsOnce /\ NewFirst

LEMMA WakeInvInit == Init => WakeInv
  <1> SUFFICES ASSUME Init PROVE WakeInv
    OBVIOUS
  <1>1. /\ Main \in Threads /\ Tcpip \in Threads /\ NetTimer \in Threads
        /\ Main # Tcpip /\ Main # NetTimer /\ Tcpip # NetTimer
        /\ \A b \in Buffers : b \in Threads /\ b # Main /\ b # Tcpip /\ b # NetTimer
        /\ \A t \in Threads : t = Main \/ t = Tcpip \/ t = NetTimer \/ t \in Buffers
    BY Names
  <1> DEFINE r == [Thread("fetch") EXCEPT !.box = "tcpip", !.on = Queued("tcpip")]
  <1>2. r.pc = "fetch" /\ r.on = Queued("tcpip") /\ r.on # NoSem /\ Queued("tcpip") \in Sems
    <2>1. Queued("tcpip") \in Sems
      BY SemsOf DEF Boxes
    <2> QED
      BY <2>1, SemNames DEF Thread
  <1>3. /\ Thread("flush").pc = "flush" /\ Thread("flush").on = NoSem
        /\ Thread("wait").pc = "wait" /\ Thread("wait").on = NoSem
    BY DEF Thread
  <1>4. thread = [t \in Threads |-> IF t = Main THEN Thread("flush") ELSE IF t = Tcpip THEN r
                                     ELSE IF t = NetTimer THEN Thread("wait") ELSE Dead]
    BY DEF Init
  <1> HIDE DEF r
  <1>5. /\ thread[Main] = Thread("flush") /\ thread[Tcpip] = r
        /\ thread[NetTimer] = Thread("wait") /\ \A b \in Buffers : thread[b] = Dead
    BY <1>1, <1>4
  <1>6. queue = <<Tcpip, NetTimer>> /\ cur = Main
    BY DEF Init
  <1>7. sem[Queued("tcpip")].counter = 0 /\ sem[Queued("tcpip")].waiters = 1
    <2>1. \A s \in Sems : sem[s] = CASE s = Queued("tcpip") -> Asleep
                                   [] s[2] = "free_msg"    -> Sem(MBOXSLOTS)
                                   [] OTHER                -> Sem(0)
      BY DEF Init
    <2>2. Queued("tcpip")[2] # "free_msg"
      BY DEF Queued
    <2>3. sem[Queued("tcpip")] = Asleep
      BY <1>2, <2>1, <2>2
    <2> QED
      BY <2>3 DEF Asleep
  <1>8. NoWakeupLost
    BY <1>1, <1>2, <1>3, <1>5, <1>7, DeadIs DEF NoWakeupLost
  <1>9. TurnsOnce
    <2>1. Len(queue) = 2 /\ queue[1] = Tcpip /\ queue[2] = NetTimer
      BY <1>6
    <2> QED
      BY <1>1, <1>2, <1>3, <1>5, <1>6, <2>1 DEF TurnsOnce, Once
  <1>10. NewFirst
    BY <1>1, <1>2, <1>5, <1>6, DeadIs DEF NewFirst
  <1> QED
    BY <1>8, <1>9, <1>10 DEF WakeInv

-----------------------------------------------------------------------------
(* The queue goes round, and loses a thread that halts.                          *)
LEMMA TailOnce ==
    ASSUME NEW q \in Seq(Threads), NEW c \in Threads, q # <<>>, Once(q, c)
    PROVE  /\ Tail(q) \in Seq(Threads) /\ Len(Tail(q)) = Len(q) - 1 /\ Len(q) \in Nat /\ Len(q) > 0
           /\ Head(q) = q[1] /\ Head(q) \in Threads
           /\ \A i \in 1 .. (Len(q) - 1) : Tail(q)[i] = q[i + 1]
           /\ Once(Tail(q), Head(q))
           /\ \A t : t # Head(q) /\ BeforeMain(t, q) => BeforeMain(t, Tail(q))
  <1>1. /\ Tail(q) \in Seq(Threads) /\ Len(Tail(q)) = Len(q) - 1 /\ Head(q) = q[1] /\ Head(q) \in Threads
        /\ \A i \in 1 .. (Len(q) - 1) : Tail(q)[i] = q[i + 1]
        /\ Len(q) \in Nat /\ Len(q) > 0
    BY HeadTailProperties
  <1>2. PICK r : r = Tail(q)
    BY <1>1
  <1>3. Len(r) = Len(q) - 1 /\ \A i \in 1 .. (Len(q) - 1) : r[i] = q[i + 1]
    BY <1>1, <1>2
  <1>4. Once(r, q[1])
    BY <1>1, <1>2, <1>3 DEF Once
  <1>5. ASSUME NEW t, t # q[1], BeforeMain(t, q) PROVE BeforeMain(t, r)
    <2>1. PICK i \in 1 .. (Len(q) - 1) : q[i] = t /\ q[i + 1] = Main
      BY <1>2, <1>5 DEF BeforeMain
    <2>2. i # 1
      BY <1>5, <2>1
    <2>3. i - 1 \in 1 .. (Len(q) - 2) /\ (i - 1) + 1 = i
      BY <2>1, <2>2
    <2>4. r[i - 1] = t /\ r[(i - 1) + 1] = Main
      BY <1>3, <2>1, <2>3
    <2>5. i - 1 \in 1 .. (Len(r) - 1)
      BY <1>3, <2>3
    <2> QED
      BY <2>4, <2>5 DEF BeforeMain
  <1> QED
    BY <1>1, <1>2, <1>4, <1>5

Longer(r, q, c, h) ==
    /\ r \in Seq(Threads) /\ Len(r) = Len(q) + 1 /\ Len(q) \in Nat
    /\ \A i \in 1 .. Len(q) : r[i] = q[i]
    /\ r[Len(q) + 1] = c
    /\ Once(r, h)
    /\ \A t : BeforeMain(t, q) => BeforeMain(t, r)

LEMMA AppendOnce ==
    ASSUME NEW q \in Seq(Threads), NEW c \in Threads, NEW h, Once(q, h), c # h,
           \A i \in 1 .. Len(q) : q[i] # c
    PROVE  Longer(Append(q, c), q, c, h)
  <1>1. /\ Append(q, c) \in Seq(Threads) /\ Len(Append(q, c)) = Len(q) + 1 /\ Len(q) \in Nat
        /\ \A i \in 1 .. Len(q) : Append(q, c)[i] = q[i]
        /\ Append(q, c)[Len(q) + 1] = c
    BY AppendProperties
  <1>2. PICK r : r = Append(q, c)
    BY <1>1
  <1>3. Once(r, h)
    BY <1>1, <1>2 DEF Once
  <1>4. ASSUME NEW t, BeforeMain(t, q) PROVE BeforeMain(t, r)
    <2>1. PICK i \in 1 .. (Len(q) - 1) : q[i] = t /\ q[i + 1] = Main
      BY <1>2, <1>4 DEF BeforeMain
    <2>2. i \in 1 .. Len(q) /\ i + 1 \in 1 .. Len(q) /\ i \in 1 .. (Len(r) - 1)
      BY <1>1, <1>2, <2>1
    <2> QED
      BY <1>1, <1>2, <2>1, <2>2 DEF BeforeMain
  <1> QED
    BY <1>1, <1>2, <1>3, <1>4 DEF Longer

SameLives(t) ==
    /\ \A u \in Threads : thread'[u].pc = "dead" <=> thread[u].pc = "dead"
    /\ \A u \in Threads \ {t} : thread'[u].on = NoSem <=> thread[u].on = NoSem

(* The running thread goes on.                                                   *)
LEMMA GoesOn ==
    ASSUME Types, TurnsOnce, NewFirst, UNCHANGED <<queue, cur>>, SameLives(cur)
    PROVE  TurnsOnce' /\ NewFirst'
  <1>1. \A i \in 1 .. Len(queue) : queue[i] \in Threads
    BY ElementOfSeq DEF Types
  <1>2. TurnsOnce'
    BY <1>1 DEF TurnsOnce, SameLives, Types
  <1>3. NewFirst'
    BY DEF NewFirst, SameLives
  <1> QED
    BY <1>2, <1>3

(* It gives its turn away: it is main, or it is asleep.                          *)
LEMMA GivesTurn ==
    ASSUME Types, Turns, TurnsOnce, NewFirst, Yield, SameLives(cur),
           cur \in {Main, NetTimer} \/ thread'[cur].on # NoSem
    PROVE  TurnsOnce' /\ NewFirst'
  <1>1. queue \in Seq(Threads) /\ cur \in Threads /\ queue # <<>> /\ Once(queue, cur)
    BY Round DEF Types, Turns, TurnsOnce
  <1>2. PICK q, c, r : q = queue /\ c = cur /\ r = Tail(q)
    OBVIOUS
  <1>3. /\ r \in Seq(Threads) /\ Len(r) = Len(q) - 1 /\ Len(q) \in Nat /\ Len(q) > 0
        /\ Head(q) = q[1] /\ Head(q) \in Threads
        /\ \A i \in 1 .. (Len(q) - 1) : r[i] = q[i + 1]
        /\ Once(r, Head(q))
        /\ \A t : t # Head(q) /\ BeforeMain(t, q) => BeforeMain(t, r)
    BY <1>1, <1>2, TailOnce
  <1>4. c # Head(q) /\ \A i \in 1 .. Len(r) : r[i] # c
    BY <1>1, <1>2, <1>3 DEF Once
  <1>5. Longer(Append(r, c), r, c, Head(q))
    BY <1>1, <1>2, <1>3, <1>4, AppendOnce
  <1>6. queue' = Append(r, c) /\ cur' = Head(q)
    BY <1>2 DEF Yield
  <1>7. \A i \in 1 .. Len(q) : q[i] \in Threads /\ thread[q[i]].pc # "dead"
    BY <1>1, <1>2, ElementOfSeq DEF TurnsOnce
  <1>8. thread[c].pc # "dead" /\ c \in Threads
    BY <1>1, <1>2 DEF TurnsOnce
  <1>9. TurnsOnce'
    <2>1. Once(queue', cur')
      BY <1>5, <1>6 DEF Longer
    <2>2. cur' \in Threads /\ thread'[cur'].pc # "dead"
      BY <1>3, <1>6, <1>7 DEF SameLives
    <2>3. ASSUME NEW i \in 1 .. Len(queue') PROVE thread'[queue'[i]].pc # "dead"
      <3>1. CASE i = Len(r) + 1
        BY <1>5, <1>6, <1>8, <3>1 DEF SameLives, Longer
      <3>2. CASE i # Len(r) + 1
        <4>1. i \in 1 .. Len(r) /\ i + 1 \in 1 .. Len(q) /\ queue'[i] = q[i + 1]
          BY <1>3, <1>5, <1>6, <2>3, <3>2 DEF Longer
        <4> QED
          BY <1>7, <4>1 DEF SameLives
      <3> QED
        BY <3>1, <3>2
    <2> QED
      BY <2>1, <2>2, <2>3 DEF TurnsOnce
  <1>10. NewFirst'
    <2> SUFFICES ASSUME NEW t \in Threads \ {Main, NetTimer, cur'}, thread'[t].pc # "dead", thread'[t].on = NoSem
                 PROVE  BeforeMain(t, queue')
      BY DEF NewFirst
    <2>1. t # cur
      OBVIOUS
    <2>2. thread[t].pc # "dead" /\ thread[t].on = NoSem
      BY <2>1 DEF SameLives
    <2>3. BeforeMain(t, q) /\ t # Head(q)
      BY <1>2, <1>6, <2>1, <2>2 DEF NewFirst
    <2> QED
      BY <1>3, <1>5, <1>6, <2>3 DEF Longer
  <1> QED
    BY <1>9, <1>10

(* It halts.                                                                     *)
LEMMA Halts ==
    ASSUME Types, Turns, TurnsOnce, NewFirst, cur' = Head(queue), queue' = Tail(queue),
           \A u \in Threads \ {cur} : thread'[u] = thread[u], thread'[cur].pc = "dead"
    PROVE  TurnsOnce' /\ NewFirst'
  <1>1. queue \in Seq(Threads) /\ cur \in Threads /\ queue # <<>> /\ Once(queue, cur)
    BY Round DEF Types, Turns, TurnsOnce
  <1>2. PICK q, c, r : q = queue /\ c = cur /\ r = Tail(q)
    OBVIOUS
  <1>3. /\ r \in Seq(Threads) /\ Len(r) = Len(q) - 1 /\ Len(q) \in Nat /\ Len(q) > 0
        /\ Head(q) = q[1] /\ Head(q) \in Threads
        /\ \A i \in 1 .. (Len(q) - 1) : r[i] = q[i + 1]
        /\ Once(r, Head(q))
        /\ \A t : t # Head(q) /\ BeforeMain(t, q) => BeforeMain(t, r)
    BY <1>1, <1>2, TailOnce
  <1>4. \A i \in 1 .. Len(q) : q[i] \in Threads /\ q[i] # c /\ thread[q[i]].pc # "dead"
    BY <1>1, <1>2, ElementOfSeq DEF TurnsOnce, Once
  <1>5. \A i \in 1 .. Len(q) : thread'[q[i]].pc # "dead"
    BY <1>2, <1>4
  <1>6. TurnsOnce'
    <2>1. 1 \in 1 .. Len(q)
      BY <1>3
    <2>2. thread'[cur'].pc # "dead"
      BY <1>2, <1>3, <1>5, <2>1
    <2>3. ASSUME NEW i \in 1 .. Len(r) PROVE thread'[r[i]].pc # "dead"
      <3>1. i + 1 \in 1 .. Len(q) /\ r[i] = q[i + 1]
        BY <1>3
      <3> QED
        BY <1>5, <3>1
    <2> QED
      BY <1>2, <1>3, <2>2, <2>3 DEF TurnsOnce
  <1>7. NewFirst'
    <2> SUFFICES ASSUME NEW t \in Threads \ {Main, NetTimer, cur'}, thread'[t].pc # "dead", thread'[t].on = NoSem
                 PROVE  BeforeMain(t, queue')
      BY DEF NewFirst
    <2>1. t # cur /\ thread[t].pc # "dead" /\ thread[t].on = NoSem
      OBVIOUS
    <2>2. BeforeMain(t, q) /\ t # Head(q)
      BY <1>2, <2>1 DEF NewFirst
    <2> QED
      BY <1>2, <1>3, <2>2
  <1> QED
    BY <1>6, <1>7

(* When main runs everybody else is asleep.                                      *)
LEMMA MainAlone ==
    ASSUME Types, TurnsOnce, NewFirst, cur = Main
    PROVE  \A t \in Threads \ {Main, NetTimer} : thread[t].pc # "dead" => thread[t].on # NoSem
  <1> SUFFICES ASSUME NEW t \in Threads \ {Main, NetTimer}, thread[t].pc # "dead", thread[t].on = NoSem
               PROVE  FALSE
    OBVIOUS
  <1>1. BeforeMain(t, queue)
    BY DEF NewFirst
  <1>2. PICK i \in 1 .. (Len(queue) - 1) : queue[i] = t /\ queue[i + 1] = Main
    BY <1>1 DEF BeforeMain
  <1>3. Len(queue) \in Nat
    BY DEF Types
  <1>4. i + 1 \in 1 .. Len(queue)
    BY <1>2, <1>3
  <1> QED
    BY <1>2, <1>4 DEF TurnsOnce, Once

(* Main creates the thread v and gives its turn away.                            *)
LEMMA Creates ==
    ASSUME Types, Turns, TurnsOnce, NewFirst, cur = Main, NEW v \in Threads \ {Main}, thread[v].pc = "dead",
           cur' = Head(queue), queue' = Append(Tail(Append(queue, v)), Main),
           thread'[v].pc # "dead", thread'[Main].pc # "dead",
           \A u \in Threads \ {v, Main} : thread'[u] = thread[u]
    PROVE  TurnsOnce' /\ NewFirst'
  <1>1. queue \in Seq(Threads) /\ cur \in Threads /\ queue # <<>> /\ Once(queue, Main)
    BY Round DEF Types, Turns, TurnsOnce
  <1>2. PICK q, p, r : q = queue /\ p = Append(q, v) /\ r = Tail(p)
    OBVIOUS
  <1>3. \A i \in 1 .. Len(q) : q[i] \in Threads /\ q[i] # v /\ q[i] # Main /\ thread[q[i]].pc # "dead"
    BY <1>1, <1>2, ElementOfSeq DEF TurnsOnce, Once
  <1>4. Longer(p, q, v, Main)
    BY <1>1, <1>2, <1>3, AppendOnce
  <1>5. p \in Seq(Threads) /\ Len(p) = Len(q) + 1 /\ Len(q) \in Nat /\ Len(q) > 0 /\ Once(p, Main) /\ p # <<>>
    <2>1. Len(q) > 0
      BY <1>1, <1>2, EmptySeq
    <2> QED
      BY <1>4, <2>1, EmptySeq DEF Longer
  <1>6. Main \in Threads
    BY Names
  <1>7. /\ r \in Seq(Threads) /\ Len(r) = Len(p) - 1
        /\ Head(p) = p[1] /\ Head(p) \in Threads
        /\ \A i \in 1 .. (Len(p) - 1) : r[i] = p[i + 1]
        /\ Once(r, Head(p))
    BY <1>2, <1>5, <1>6, TailOnce
  <1>8. Head(p) = q[1] /\ Head(p) = Head(q) /\ Head(q) # Main /\ Head(q) # v
    <2>1. 1 \in 1 .. Len(q)
      BY <1>5
    <2>2. p[1] = q[1]
      BY <1>4, <2>1 DEF Longer
    <2>3. Head(q) = q[1]
      BY <1>1, <1>2
    <2> QED
      BY <1>3, <1>7, <2>1, <2>2, <2>3
  <1>9. \A i \in 1 .. Len(r) : r[i] # Main
    <2> SUFFICES ASSUME NEW i \in 1 .. Len(r) PROVE r[i] # Main
      OBVIOUS
    <2>1. r[i] = p[i + 1] /\ i + 1 \in 1 .. Len(p)
      BY <1>5, <1>7
    <2> QED
      BY <1>5, <2>1 DEF Once
  <1>10. Longer(Append(r, Main), r, Main, Head(q))
    BY <1>6, <1>7, <1>8, <1>9, AppendOnce
  <1>11. queue' = Append(r, Main) /\ cur' = Head(q)
    BY <1>2
  <1>12. /\ Once(queue', cur') /\ Len(queue') = Len(q) + 1
         /\ \A i \in 1 .. (Len(q) - 1) : queue'[i] = q[i + 1]
         /\ queue'[Len(q)] = v /\ queue'[Len(q) + 1] = Main
    <2>1. Len(r) = Len(q) /\ \A i \in 1 .. Len(q) : queue'[i] = p[i + 1]
      <3>1. Len(r) = Len(q)
        BY <1>5, <1>7
      <3>2. \A i \in 1 .. Len(r) : Append(r, Main)[i] = r[i]
        BY <1>10 DEF Longer
      <3>3. \A i \in 1 .. Len(q) : r[i] = p[i + 1]
        BY <1>5, <1>7
      <3> QED
        BY <1>11, <3>1, <3>2, <3>3
    <2>2. p[Len(q) + 1] = v /\ \A i \in 1 .. Len(q) : p[i] = q[i]
      BY <1>4 DEF Longer
    <2>3. \A i \in 1 .. (Len(q) - 1) : i \in 1 .. Len(q) /\ i + 1 \in 1 .. Len(q)
      BY <1>5
    <2>4. Len(q) \in 1 .. Len(q)
      BY <1>5
    <2> QED
      BY <1>10, <1>11, <2>1, <2>2, <2>3, <2>4 DEF Longer
  <1>13. \A i \in 1 .. Len(q) : thread'[q[i]].pc # "dead"
    BY <1>3
  <1>14. TurnsOnce'
    <2>1. 1 \in 1 .. Len(q)
      BY <1>5
    <2>2. thread'[cur'].pc # "dead"
      BY <1>8, <1>11, <1>13, <2>1
    <2>3. ASSUME NEW i \in 1 .. (Len(q) + 1) PROVE thread'[queue'[i]].pc # "dead"
      <3>1. CASE i = Len(q) \/ i = Len(q) + 1
        BY <1>12, <3>1
      <3>2. CASE ~(i = Len(q) \/ i = Len(q) + 1)
        <4>1. i \in 1 .. (Len(q) - 1) /\ i + 1 \in 1 .. Len(q)
          BY <1>5, <3>2
        <4> QED
          BY <1>12, <1>13, <4>1
      <3> QED
        BY <3>1, <3>2
    <2> QED
      BY <1>12, <2>2, <2>3 DEF TurnsOnce
  <1>15. NewFirst'
    <2> SUFFICES ASSUME NEW t \in Threads \ {Main, NetTimer, cur'}, thread'[t].pc # "dead", thread'[t].on = NoSem
                 PROVE  BeforeMain(t, queue')
      BY DEF NewFirst
    <2>1. t = v
      BY MainAlone
    <2>2. Len(q) \in 1 .. (Len(queue') - 1)
      BY <1>5, <1>12
    <2> QED
      BY <1>12, <2>1, <2>2 DEF BeforeMain
  <1> QED
    BY <1>14, <1>15

-----------------------------------------------------------------------------
(* Sleepers and semaphores. *)

(* A signal wakes every sleeper; there is none that its semaphore has forgotten. *)
LEMMA SignalKeeps ==
    ASSUME Types, NoWakeupLost, NEW t \in Threads, NEW r \in ThreadRec, NEW s \in Sems,
           r.on = thread[t].on, r.wakeup = thread[t].wakeup,
           r.pc = "dead" <=> thread[t].pc = "dead",
           Signal([thread EXCEPT ![t] = r], s)
    PROVE  NoWakeupLost' /\ SameLives(t)
  <1> DEFINE f == [thread EXCEPT ![t] = r]
  <1>1. /\ f \in [Threads -> ThreadRec] /\ f[t] = r /\ \A u \in Threads \ {t} : f[u] = thread[u]
    BY DEF Types
  <1>2. /\ sem' = [sem EXCEPT ![s] = [counter |-> sem[s].counter + 1, waiters |-> 0]]
        /\ thread' \in [Threads -> ThreadRec] /\ Only(t) /\ thread'[t].pc = r.pc
    BY Signalled
  <1>3. thread' = IF sem[s].waiters = 0 THEN f ELSE Woken(f, s)
    BY DEF Signal
  <1> HIDE DEF f
  <1>4. ASSUME NEW u \in Threads
        PROVE  /\ thread'[u].on = thread[u].on
               /\ thread[u].wakeup => thread'[u].wakeup
               /\ sem[s].waiters # 0 /\ thread[u].on = s => thread'[u].wakeup
    <2>1. f[u].on = thread[u].on /\ f[u].wakeup = thread[u].wakeup /\ f[u] \in ThreadRec
      BY <1>1
    <2>2. CASE sem[s].waiters = 0
      BY <1>3, <2>1, <2>2
    <2>3. CASE sem[s].waiters # 0
      <3>1. thread'[u] = IF f[u].on = s THEN [f[u] EXCEPT !.wakeup = TRUE] ELSE f[u]
        BY <1>3, <2>3 DEF Woken
      <3>2. CASE f[u].on = s
        <4>1. thread'[u] = [f[u] EXCEPT !.wakeup = TRUE]
          BY <3>1, <3>2
        <4>2. thread'[u].on = f[u].on /\ thread'[u].wakeup = TRUE
          BY <2>1, <4>1 DEF ThreadRec
        <4> QED
          BY <2>1, <4>2
      <3>3. CASE f[u].on # s
        BY <2>1, <3>1, <3>3
      <3> QED
        BY <3>2, <3>3
    <2> QED
      BY <2>2, <2>3
  <1>5. NoWakeupLost'
    <2> SUFFICES ASSUME NEW u \in Threads, thread'[u].on # NoSem, ~thread'[u].wakeup
                 PROVE  sem'[thread'[u].on].counter = 0 /\ sem'[thread'[u].on].waiters = 1
      BY DEF NoWakeupLost
    <2>1. thread'[u].on = thread[u].on /\ ~thread[u].wakeup
      BY <1>4
    <2>2. sem[thread[u].on].counter = 0 /\ sem[thread[u].on].waiters = 1
      BY <2>1 DEF NoWakeupLost
    <2>3. thread[u].on # s
      BY <1>4, <2>2
    <2>4. thread[u].on \in Sems
      BY <2>1 DEF Types, ThreadRec
    <2>5. sem'[thread[u].on] = sem[thread[u].on]
      BY <1>2, <2>3, <2>4 DEF Types
    <2> QED
      BY <2>1, <2>2, <2>5
  <1>6. SameLives(t)
    BY <1>2, <1>4 DEF SameLives, Only, SameJob
  <1> QED
    BY <1>5, <1>6

(* Steps that leave the semaphores alone and put nobody to sleep.                *)
LEMMA SleepersKept ==
    ASSUME NoWakeupLost, sem' = sem,
           \A u \in Threads : \/ thread'[u].on = thread[u].on /\ thread'[u].wakeup = thread[u].wakeup
                              \/ thread'[u].on = NoSem
    PROVE  NoWakeupLost'
  BY DEF NoWakeupLost

(* The running thread's record changes, and it stays alive.                      *)
LEMMA RecordKept ==
    ASSUME Types, NEW t \in Threads, NEW r \in ThreadRec, thread' = [thread EXCEPT ![t] = r],
           r.pc = "dead" <=> thread[t].pc = "dead"
    PROVE  SameLives(t) /\ thread'[t] = r /\ \A u \in Threads \ {t} : thread'[u] = thread[u]
  BY DEF Types, SameLives

LEMMA Alive ==
    ASSUME NetInv, WakeInv, NEW t \in Threads, t = cur
    PROVE  /\ thread[t] \in ThreadRec /\ thread[t].pc # "dead"
           /\ t = Main => thread[t].pc \in {"flush", "recv", "timer"}
  BY DEF NetInv, WakeInv, TurnsOnce, Types, Roles, RoleOf

(* Whoever sys_arch_sem_wait lets on took the semaphore from nobody.             *)
LEMMA SemTakeWake ==
    ASSUME NetInv, WakeInv, SemTake, NEW t \in Threads, t = cur
    PROVE  WakeInv'
  <1>1. thread[t] \in ThreadRec /\ thread[t].pc # "dead" /\ Types /\ NoWakeupLost /\ TurnsOnce /\ NewFirst
    BY Alive DEF NetInv, WakeInv
  <1> DEFINE r == [thread[t] EXCEPT !.pc = AfterWait]
  <1>2. AfterWait \in {"take", "store", "reply"}
    BY DEF AfterWait, SemTake, Wanted
  <1>3. r \in ThreadRec /\ r.pc # "dead" /\ r.on = thread[t].on /\ r.wakeup = thread[t].wakeup
    BY <1>1, <1>2 DEF ThreadRec, Pcs
  <1>4. thread' = [thread EXCEPT ![t] = r]
    BY DEF SemTake, Goto
  <1> HIDE DEF r
  <1>5. SameLives(t) /\ thread'[t] = r /\ \A u \in Threads \ {t} : thread'[u] = thread[u]
    BY <1>1, <1>3, <1>4, RecordKept
  <1>6. sem[Wanted].counter > 0 /\ sem' = [sem EXCEPT ![Wanted].counter = @ - 1]
        /\ queue' = queue /\ cur' = cur
    BY DEF SemTake
  <1>7. NoWakeupLost'
    <2> SUFFICES ASSUME NEW u \in Threads, thread'[u].on # NoSem, ~thread'[u].wakeup
                 PROVE  sem'[thread'[u].on].counter = 0 /\ sem'[thread'[u].on].waiters = 1
      BY DEF NoWakeupLost
    <2>1. thread'[u].on = thread[u].on /\ ~thread[u].wakeup
      BY <1>3, <1>5
    <2>2. sem[thread[u].on].counter = 0 /\ sem[thread[u].on].waiters = 1
      BY <1>1, <2>1 DEF NoWakeupLost
    <2>3. thread[u].on # Wanted /\ thread[u].on \in Sems
      BY <1>1, <1>6, <2>1, <2>2 DEF Types, ThreadRec
    <2>4. sem'[thread[u].on] = sem[thread[u].on]
      BY <1>1, <1>6, <2>3 DEF Types
    <2> QED
      BY <2>1, <2>2, <2>4
  <1> QED
    BY <1>1, <1>5, <1>6, <1>7, GoesOn DEF WakeInv

LEMMA SemSleepWake ==
    ASSUME NetInv, WakeInv, SemSleep, NEW t \in Threads, t = cur
    PROVE  WakeInv'
  <1>1. /\ thread[t] \in ThreadRec /\ thread[t].pc # "dead" /\ Types /\ Turns
        /\ NoWakeupLost /\ TurnsOnce /\ NewFirst
    BY Alive DEF NetInv, WakeInv
  <1>2. PICK s \in Sems : s = Wanted
    <2>1. thread[t].box \in Boxes
      BY <1>1 DEF ThreadRec
    <2>2. Queued(thread[t].box) \in Sems /\ Free(thread[t].box) \in Sems /\ Completed \in Sems
      BY <2>1, SemsOf, SemNames
    <2> QED
      BY <2>2 DEF SemSleep, Wanted
  <1> DEFINE r == [thread[t] EXCEPT !.on = s, !.wakeup = FALSE]
  <1>3. r \in ThreadRec /\ r.pc = thread[t].pc /\ r.on = s /\ r.wakeup = FALSE
    BY <1>1 DEF ThreadRec
  <1>4. thread' = [thread EXCEPT ![t] = r]
    BY <1>1, <1>2 DEF SemSleep, Types
  <1> HIDE DEF r
  <1>5. SameLives(t) /\ thread'[t] = r /\ \A u \in Threads \ {t} : thread'[u] = thread[u]
    BY <1>1, <1>3, <1>4, RecordKept
  <1>6. sem[s].counter = 0 /\ sem' = [sem EXCEPT ![s].waiters = 1] /\ Yield
    BY <1>2 DEF SemSleep
  <1>7. sem'[s].counter = 0 /\ sem'[s].waiters = 1 /\ \A x \in Sems \ {s} : sem'[x] = sem[x]
    BY <1>1, <1>6 DEF Types, SemRec
  <1>8. NoWakeupLost'
    <2> SUFFICES ASSUME NEW u \in Threads, thread'[u].on # NoSem, ~thread'[u].wakeup
                 PROVE  sem'[thread'[u].on].counter = 0 /\ sem'[thread'[u].on].waiters = 1
      BY DEF NoWakeupLost
    <2>1. CASE u = t
      BY <1>3, <1>5, <1>7, <2>1
    <2>2. CASE u # t
      <3>1. thread'[u] = thread[u]
        BY <1>5, <2>2
      <3>2. sem[thread[u].on].counter = 0 /\ sem[thread[u].on].waiters = 1 /\ thread[u].on \in Sems
        BY <1>1, <3>1 DEF NoWakeupLost, Types, ThreadRec
      <3> QED
        BY <1>7, <3>1, <3>2
    <2> QED
      BY <2>1, <2>2
  <1>9. thread'[cur].on # NoSem
    BY <1>3, <1>5, SemNames
  <1> QED
    BY <1>1, <1>5, <1>6, <1>8, <1>9, GivesTurn DEF WakeInv

LEMMA PollWake ==
    ASSUME NetInv, WakeInv, Poll, NEW t \in Threads, t = cur
    PROVE  WakeInv'
  <1>1. /\ thread[t] \in ThreadRec /\ thread[t].pc # "dead" /\ Types /\ Turns
        /\ NoWakeupLost /\ TurnsOnce /\ NewFirst
    BY Alive DEF NetInv, WakeInv
  <1>2. sem' = sem /\ thread[t].on # NoSem
    BY DEF Poll
  <1>3. CASE Yield /\ thread' = thread
    <2>1. SameLives(t) /\ NoWakeupLost'
      BY <1>1, <1>2, <1>3 DEF SameLives, NoWakeupLost
    <2> QED
      BY <1>1, <1>2, <1>3, <2>1, GivesTurn DEF WakeInv
  <1>4. CASE /\ thread' = [thread EXCEPT ![t].on = NoSem, ![t].wakeup = FALSE]
             /\ queue' = queue /\ cur' = cur
    <2> DEFINE r == [thread[t] EXCEPT !.on = NoSem, !.wakeup = FALSE]
    <2>1. r \in ThreadRec /\ r.pc = thread[t].pc /\ r.on = NoSem
      BY <1>1 DEF ThreadRec
    <2>2. thread' = [thread EXCEPT ![t] = r]
      BY <1>1, <1>4 DEF Types
    <2> HIDE DEF r
    <2>3. SameLives(t) /\ thread'[t] = r /\ \A u \in Threads \ {t} : thread'[u] = thread[u]
      BY <1>1, <2>1, <2>2, RecordKept
    <2>4. NoWakeupLost'
      BY <1>1, <1>2, <2>1, <2>3, SleepersKept
    <2> QED
      BY <1>1, <1>4, <2>3, <2>4, GoesOn DEF WakeInv
  <1> QED
    BY <1>3, <1>4 DEF Poll

(* Posting, fetching and completing: the thread goes on, and may signal.         *)
LEMMA SignalsWake ==
    ASSUME NetInv, WakeInv, NEW t \in Threads, t = cur, UNCHANGED <<queue, cur>>,
           NEW r \in ThreadRec, r.on = thread[t].on, r.wakeup = thread[t].wakeup, r.pc # "dead",
           \/ thread' = [thread EXCEPT ![t] = r] /\ sem' = sem
           \/ \E s \in Sems : Signal([thread EXCEPT ![t] = r], s)
    PROVE  WakeInv'
  <1>1. thread[t].pc # "dead" /\ Types /\ NoWakeupLost /\ TurnsOnce /\ NewFirst
    BY Alive DEF NetInv, WakeInv
  <1>2. CASE thread' = [thread EXCEPT ![t] = r] /\ sem' = sem
    <2>1. SameLives(t) /\ thread'[t] = r /\ \A u \in Threads \ {t} : thread'[u] = thread[u]
      BY <1>1, <1>2, RecordKept
    <2>2. NoWakeupLost'
      BY <1>1, <1>2, <2>1, SleepersKept
    <2> QED
      BY <1>1, <2>1, <2>2, GoesOn DEF WakeInv
  <1>3. CASE \E s \in Sems : Signal([thread EXCEPT ![t] = r], s)
    <2>1. NoWakeupLost' /\ SameLives(t)
      BY <1>1, <1>3, SignalKeeps
    <2> QED
      BY <1>1, <2>1, GoesOn DEF WakeInv
  <1> QED
    BY <1>2, <1>3

LEMMA PostWake ==
    ASSUME NetInv, WakeInv, Post, NEW t \in Threads, t = cur
    PROVE  WakeInv'
  <1>1. thread[t] \in ThreadRec /\ UNCHANGED <<queue, cur>>
    BY Alive DEF Post
  <1> DEFINE next == IF thread[t].box = "recv" THEN "done" ELSE "await"
             r    == [thread[t] EXCEPT !.pc = next]
  <1>2. r \in ThreadRec /\ r.on = thread[t].on /\ r.wakeup = thread[t].wakeup /\ r.pc # "dead"
    BY <1>1 DEF ThreadRec, Pcs
  <1>3. Queued(thread[t].box) \in Sems
    BY <1>1, SemsOf DEF ThreadRec
  <1>4. [thread EXCEPT ![t].pc = next] = [thread EXCEPT ![t] = r]
    OBVIOUS
  <1>5. \/ thread' = [thread EXCEPT ![t] = r] /\ sem' = sem
        \/ Signal([thread EXCEPT ![t] = r], Queued(thread[t].box))
    BY <1>4 DEF Post
  <1> HIDE DEF r
  <1> QED
    BY <1>1, <1>2, <1>3, <1>5, SignalsWake

LEMMA FetchWake ==
    ASSUME NetInv, WakeInv, Fetch, NEW t \in Threads, t = cur
    PROVE  WakeInv'
  <1>1. thread[t] \in ThreadRec /\ thread[t].pc # "dead" /\ UNCHANGED <<queue, cur>>
    BY Alive DEF Fetch
  <1>2. PICK m \in Boxes : m = thread[t].box
    BY <1>1 DEF ThreadRec
  <1>3. PICK b \in Ring : b = mbox[m]
    BY DEF NetInv, Types
  <1>4. Free(m) \in Sems
    BY SemsOf
  <1>5. CASE b.head = -1
    <2>1. thread' = thread /\ sem' = sem
      BY <1>2, <1>3, <1>5 DEF Fetch
    <2>2. thread' = [thread EXCEPT ![t] = thread[t]]
      BY <2>1 DEF NetInv, Types
    <2> QED
      BY <1>1, <2>1, <2>2, SignalsWake
  <1>6. CASE b.head # -1
    <2>1. b.msg[b.head] \in Msgs
      BY <1>6 DEF Ring
    <2>2. PICK r \in Fetched(b.msg[b.head]) : Signal([thread EXCEPT ![t] = r], Free(m))
      BY <1>2, <1>3, <1>6 DEF Fetch
    <2>3. r \in ThreadRec /\ r.on = thread[t].on /\ r.wakeup = thread[t].wakeup /\ r.pc # "dead"
      BY <1>1, <2>1, FetchedIs
    <2> QED
      BY <1>1, <1>4, <2>2, <2>3, SignalsWake
  <1> QED
    BY <1>5, <1>6

LEMMA RanIs ==
    ASSUME NetInv, NEW t \in Threads, t = cur, thread[t] \in ThreadRec
    PROVE  \E r \in ThreadRec : /\ Ran = [thread EXCEPT ![t] = r]
                               /\ r.on = thread[t].on /\ r.wakeup = thread[t].wakeup /\ r.pc # "dead"
  <1> DEFINE r == [thread[t] EXCEPT !.pc = "fetch", !.msg = Now]
  <1>1. r \in ThreadRec /\ r.on = thread[t].on /\ r.wakeup = thread[t].wakeup /\ r.pc # "dead"
    BY DEF ThreadRec, Pcs, Msgs
  <1>2. Ran = [thread EXCEPT ![t] = r]
    BY DEF NetInv, Types, Ran
  <1> HIDE DEF r
  <1> QED
    BY <1>1, <1>2

LEMMA CompleteWake ==
    ASSUME NetInv, WakeInv, Complete \/ Leave, NEW t \in Threads, t = cur
    PROVE  WakeInv'
  <1>1. thread[t] \in ThreadRec /\ UNCHANGED <<queue, cur>>
    BY Alive DEF Complete, Leave
  <1>2. PICK r \in ThreadRec : /\ Ran = [thread EXCEPT ![t] = r]
                              /\ r.on = thread[t].on /\ r.wakeup = thread[t].wakeup /\ r.pc # "dead"
    BY <1>1, RanIs
  <1>3. \/ thread' = [thread EXCEPT ![t] = r] /\ sem' = sem
        \/ Signal([thread EXCEPT ![t] = r], Completed)
    BY <1>2 DEF Complete, Leave
  <1>4. Completed \in Sems
    BY SemNames
  <1> QED
    BY <1>1, <1>2, <1>3, <1>4, SignalsWake

LEMMA NetworkWake ==
    ASSUME NetInv, WakeInv, Demux \/ CallBack, NEW t \in Threads, t = cur
    PROVE  WakeInv'
  <1>1. thread[t] \in ThreadRec /\ thread[t].pc # "dead" /\ UNCHANGED <<queue, cur>> /\ Completed \in Sems
    BY Alive, SemNames DEF Demux, CallBack
  <1>2. CASE Demux
    <2>1. PICK pc \in {"post", "done"} : thread' = [thread EXCEPT ![t].pc = pc]
      BY <1>2 DEF Demux, Goto
    <2> DEFINE r == [thread[t] EXCEPT !.pc = pc]
    <2>2. r \in ThreadRec /\ r.on = thread[t].on /\ r.wakeup = thread[t].wakeup /\ r.pc # "dead"
      BY <1>1 DEF ThreadRec, Pcs
    <2>3. thread' = [thread EXCEPT ![t] = r] /\ sem' = sem
      BY <1>2, <2>1 DEF Demux
    <2> HIDE DEF r
    <2> QED
      BY <1>1, <2>2, <2>3, SignalsWake
  <1>3. CASE CallBack
    <2>1. thread = [thread EXCEPT ![t] = thread[t]]
      BY DEF NetInv, Types
    <2>2. Signal([thread EXCEPT ![t] = thread[t]], Completed)
      BY <1>3, <2>1 DEF CallBack
    <2> QED
      BY <1>1, <2>2, SignalsWake
  <1> QED
    BY <1>2, <1>3

LEMMA TimerTurnWake ==
    ASSUME NetInv, WakeInv, TimerTurn
    PROVE  WakeInv'
  <1>1. Types /\ Turns /\ TurnsOnce /\ NewFirst /\ NoWakeupLost
    BY DEF NetInv, WakeInv
  <1>2. cur = NetTimer /\ Yield /\ UNCHANGED <<thread, sem>>
    BY DEF TimerTurn
  <1>3. SameLives(cur) /\ NoWakeupLost'
    BY <1>1, <1>2 DEF SameLives, NoWakeupLost
  <1> QED
    BY <1>1, <1>2, <1>3, GivesTurn DEF WakeInv

-----------------------------------------------------------------------------
(* The server's own steps. *)

LEMMA FinishWake ==
    ASSUME NetInv, WakeInv, Finish, NEW t \in Threads, t = cur
    PROVE  WakeInv'
  <1>1. Types /\ Turns /\ NoWakeupLost /\ TurnsOnce /\ NewFirst
    BY DEF NetInv, WakeInv
  <1>2. /\ thread' = [thread EXCEPT ![t] = Dead] /\ sem' = sem
        /\ cur' = Head(queue) /\ queue' = Tail(queue)
    BY DEF Finish
  <1>3. thread'[t] = Dead /\ \A u \in Threads \ {t} : thread'[u] = thread[u]
    BY <1>1, <1>2 DEF Types
  <1>4. thread'[t].pc = "dead" /\ thread'[t].on = NoSem
    BY <1>3, DeadIs
  <1>5. NoWakeupLost'
    BY <1>1, <1>2, <1>3, <1>4, SleepersKept
  <1>6. TurnsOnce' /\ NewFirst'
    BY <1>1, <1>2, <1>3, <1>4, Halts
  <1> QED
    BY <1>5, <1>6 DEF WakeInv

(* Main goes to another line, and may give its turn away.                        *)
LEMMA MainWake ==
    ASSUME NetInv, WakeInv, cur = Main, sem' = sem,
           \E pc \in {"flush", "recv", "timer"} : thread' = [thread EXCEPT ![Main].pc = pc],
           Yield \/ UNCHANGED <<queue, cur>>
    PROVE  WakeInv'
  <1>1. /\ Types /\ Turns /\ NoWakeupLost /\ TurnsOnce /\ NewFirst
        /\ Main \in Threads /\ thread[Main] \in ThreadRec /\ thread[Main].pc # "dead"
    BY Alive, Names DEF NetInv, WakeInv
  <1>2. PICK pc \in {"flush", "recv", "timer"} : thread' = [thread EXCEPT ![Main].pc = pc]
    OBVIOUS
  <1> DEFINE r == [thread[Main] EXCEPT !.pc = pc]
  <1>3. r \in ThreadRec /\ r.pc # "dead" /\ r.on = thread[Main].on /\ r.wakeup = thread[Main].wakeup
    BY <1>1 DEF ThreadRec, Pcs
  <1>4. thread' = [thread EXCEPT ![Main] = r]
    BY <1>2
  <1> HIDE DEF r
  <1>5. SameLives(Main) /\ thread'[Main] = r /\ \A u \in Threads \ {Main} : thread'[u] = thread[u]
    BY <1>1, <1>3, <1>4, RecordKept
  <1>6. NoWakeupLost'
    BY <1>1, <1>3, <1>5, SleepersKept
  <1>7. TurnsOnce' /\ NewFirst'
    BY <1>1, <1>5, GoesOn, GivesTurn
  <1> QED
    BY <1>6, <1>7 DEF WakeInv

LEMMA MainStays ==
    ASSUME NetInv, thread' = thread
    PROVE  cur = Main => \E pc \in {"flush", "recv", "timer"} : thread' = [thread EXCEPT ![Main].pc = pc]
  <1>1. Main \in Threads /\ thread[Main] \in ThreadRec /\ thread[Main].pc \in {"flush", "recv", "timer"}
    BY Names DEF NetInv, Types, Roles, RoleOf
  <1>2. thread = [thread EXCEPT ![Main].pc = thread[Main].pc]
    BY <1>1 DEF NetInv, Types, ThreadRec
  <1> QED
    BY <1>1, <1>2

LEMMA ServeWake ==
    ASSUME NetInv, WakeInv, NEW r, r.on = NoSem, r.pc # "dead", Serve(r)
    PROVE  WakeInv'
  <1>1. /\ Types /\ Turns /\ NoWakeupLost /\ TurnsOnce /\ NewFirst
        /\ Main \in Threads /\ thread[Main] \in ThreadRec
    BY Names DEF NetInv, WakeInv, Types
  <1>2. /\ cur = Main /\ thread[Main].pc = "recv" /\ sem' = sem
        /\ thread' = [thread EXCEPT ![va] = r, ![Main].pc = "flush"]
        /\ queue' = Append(Tail(Append(queue, va)), Main) /\ cur' = Head(queue)
    BY DEF Serve, Receiving
  <1>3. va \in Threads \ {Main} /\ thread[va].pc = "dead"
    BY <1>2, Names, DeadIs DEF NetInv, Types, RequestPagesNotShared
  <1>4. /\ thread'[va] = r /\ \A u \in Threads \ {va, Main} : thread'[u] = thread[u]
        /\ thread'[Main].pc = "flush" /\ thread'[Main].on = thread[Main].on
        /\ thread'[Main].wakeup = thread[Main].wakeup
    BY <1>1, <1>2, <1>3 DEF Types, ThreadRec
  <1>5. NoWakeupLost'
    BY <1>1, <1>2, <1>3, <1>4, SleepersKept
  <1>6. TurnsOnce' /\ NewFirst'
    BY <1>1, <1>2, <1>3, <1>4, Creates
  <1> QED
    BY <1>5, <1>6 DEF WakeInv

LEMMA WakeInvStep == NetInv /\ WakeInv /\ [Next]_vars => WakeInv'
  <1> SUFFICES ASSUME NetInv, WakeInv, [Next]_vars PROVE WakeInv'
    OBVIOUS
  <1>t. PICK t \in Threads : t = cur
    BY DEF NetInv, Types
  <1>1. CASE \/ SemTake \/ SemSleep \/ Poll \/ Post \/ Fetch \/ Complete \/ Leave \/ Demux \/ CallBack
             \/ TimerTurn \/ Finish
    BY <1>t, <1>1, SemTakeWake, SemSleepWake, PollWake, PostWake, FetchWake, CompleteWake, NetworkWake,
       TimerTurnWake, FinishWake
  <1>2. CASE GiveTurn
    <2>1. thread' = thread /\ cur = Main /\ sem' = sem /\ Yield
      BY <1>2 DEF GiveTurn
    <2> QED
      BY <2>1, MainStays, MainWake
  <1>3. CASE GetBuffer
    <2>1. cur = Main /\ sem' = sem /\ UNCHANGED <<queue, cur>>
          /\ (thread' = thread \/ thread' = [thread EXCEPT ![Main].pc = "recv"])
      BY <1>3 DEF GetBuffer, Goto
    <2> QED
      BY <2>1, MainStays, MainWake
  <1>4. CASE ReceiveTimer
    <2>1. cur = Main /\ sem' = sem /\ Yield /\ thread' = [thread EXCEPT ![Main].pc = "timer"]
      BY <1>4 DEF ReceiveTimer, Receiving, Goto
    <2> QED
      BY <2>1, MainWake
  <1>5. CASE AnswerTimer \/ ReceiveNoPage
    <2>1. cur = Main /\ sem' = sem /\ UNCHANGED <<queue, cur>> /\ thread' = [thread EXCEPT ![Main].pc = "flush"]
      BY <1>5 DEF AnswerTimer, ReceiveNoPage, Receiving, Goto
    <2> QED
      BY <2>1, MainWake
  <1>6. CASE ReceiveRecv \/ ReceiveApi \/ ReceiveInput
    <2>1. CASE ReceiveRecv
      <3>1. Thread("fetch").on = NoSem /\ Thread("fetch").pc # "dead"
        BY DEF Thread
      <3> QED
        BY <2>1, <3>1, ServeWake DEF ReceiveRecv
    <2>2. CASE ReceiveApi
      <3>1. PICK r \in {[Thread("post") EXCEPT !.box = "tcpip"],
                        [Thread("post") EXCEPT !.box = "tcpip", !.msg = Later]} : Serve(r)
        BY <2>2 DEF ReceiveApi
      <3>2. r.on = NoSem /\ r.pc # "dead"
        BY DEF Thread
      <3> QED
        BY <3>1, <3>2, ServeWake
    <2>3. CASE ReceiveInput
      <3>1. PICK p \in Packets : Serve([Thread("input") EXCEPT !.msg = p])
        BY <2>3 DEF ReceiveInput
      <3> DEFINE r == [Thread("input") EXCEPT !.msg = p]
      <3>2. r.on = NoSem /\ r.pc # "dead"
        BY DEF Thread
      <3>3. Serve(r)
        BY <3>1
      <3> HIDE DEF r
      <3> QED
        BY <3>2, <3>3, ServeWake
    <2> QED
      BY <1>6, <2>1, <2>2, <2>3
  <1>7. CASE UNCHANGED <<queue, cur, thread, sem>>
    <2>1. SameLives(cur) /\ NoWakeupLost'
      BY <1>7 DEF SameLives, NoWakeupLost, WakeInv
    <2> QED
      BY <1>7, <2>1, GoesOn DEF WakeInv, NetInv
  <1>8. CASE Tick \/ UNCHANGED vars
    BY <1>7, <1>8 DEF Tick, vars
  <1> QED
    BY <1>1, <1>2, <1>3, <1>4, <1>5, <1>6, <1>8 DEF Next, Stopped, Run, Receive

(* No wakeup is lost, and none is needed: a thread that sys_sem_signal did not   *)
(* wake sleeps on a semaphore that has nothing for it, and that still knows that *)
(* somebody waits.                                                               *)
THEOREM NetNoWakeupLost == Spec => []NoWakeupLost
  <1>1. Init => NetInv /\ WakeInv
    BY InitInv, WakeInvInit
  <1>2. NetInv /\ WakeInv /\ [Next]_vars => (NetInv /\ WakeInv)'
    BY NextInv, WakeInvStep
  <1>3. WakeInv => NoWakeupLost
    BY DEF WakeInv
  <1> QED
    BY <1>1, <1>2, <1>3, PTL DEF Spec

(* "ipc_recv will block the entire process, so we flush all pending work": when  *)
(* main blocks without a woken thread every other thread sleeps on a semaphore   *)
(* that it could not take. So serve() can only block work if its turns run out.  *)
THEOREM NetBlocksFlushed == Spec => [](~Pending => NothingPendingWhenBlocked)
  <1>1. Init => NetInv /\ WakeInv
    BY InitInv, WakeInvInit
  <1>2. NetInv /\ WakeInv /\ [Next]_vars => (NetInv /\ WakeInv)'
    BY NextInv, WakeInvStep
  <1>3. NetInv /\ WakeInv => (~Pending => NothingPendingWhenBlocked)
    <2> SUFFICES ASSUME NetInv, WakeInv, ~Pending, Receiving,
                        NEW t \in Threads \ {Main, NetTimer}, thread[t] # Dead
                 PROVE  thread[t].on # NoSem /\ sem[thread[t].on].counter = 0
      BY DEF NothingPendingWhenBlocked
    <2>1. thread[t].pc # "dead"
      <3>1. RoleOf(t) /\ (t = Tcpip \/ t \in Buffers)
        BY Names DEF NetInv, Roles
      <3> QED
        BY <3>1 DEF RoleOf
    <2>2. thread[t].on # NoSem
      BY <2>1, MainAlone DEF NetInv, WakeInv, Receiving
    <2>3. ~thread[t].wakeup
      BY DEF Pending
    <2> QED
      BY <2>2, <2>3 DEF WakeInv, NoWakeupLost
  <1> QED
    BY <1>1, <1>2, <1>3, PTL DEF Spec
=============================================================================
