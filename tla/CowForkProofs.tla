------------------------- MODULE CowForkProofs -------------------------
(***************************************************************************)
(* For any number of environments and frames, a page that two environments *)
(* share is never writable (CowFork's SharedIsReadOnly), and each behaves  *)
(* as if it had a memory of its own (ImplementsPrivateMemory).             *)
(*                                                                         *)
(* The argument goes in a circle, which is why it takes an invariant: what *)
(* a handler does depends on the addresses on its exception stack, those   *)
(* stay as they are because nobody else can write to that page, and that   *)
(* is so because handlers and forks share no page that is writable.        *)
(***************************************************************************)
EXTENDS CowFork, SequenceTheorems, TLAPS

Copyable == {"data", "stack"}
HandlerSteps == {"alloc", "copy", "map", "unmap", "return"}
LoopSteps == {"look", "map", "mark", "share"}

Types ==
    /\ env \in [Proc -> {"free", "made", "live"}]
    /\ pte \in [Proc -> [Va -> Mapping \cup {None}]]
    /\ mem \in [Frame -> Val \cup Seq(Va)]
    /\ fork \in [Proc -> {None} \cup ForkCall]
    /\ faults \in [Proc -> Seq(HandlerSteps)]

(* Who does not run is in no call and no handler; a free slot has no pages.*)
QuietOf(e) ==
    /\ env[e] # "live" => fork[e] = None /\ faults[e] = <<>>
    /\ env[e] = "free" => \A va \in Va : pte[e][va] = None

Quiet == \A e \in Proc : QuietOf(e)

(* What is mapped where, and how.                                          *)
PermsOf(e) ==
    /\ Perm(e, "text") \in {None, "RO"}
    /\ \A va \in Copyable : Perm(e, va) \in {None, "W", "COW"}
    /\ \A va \in {"PFTEMP", "xstack"} : Perm(e, va) \in {None, "W"}

Perms == \A e \in Proc : PermsOf(e)

(* A fork has its child for itself, and an exception stack.                *)
ForkOk(e) ==
    fork[e] # None =>
        /\ env[fork[e].child] = "made"
        /\ Perm(e, "xstack") = "W"
        /\ fork[e].step \in LoopSteps <=> fork[e].at \in 1..5
        /\ fork[e].step \in {"map", "mark"} => At(e) \in Copyable /\ pte[e][At(e)] # None
        /\ fork[e].step = "share" => At(e) = "text" /\ pte[e][At(e)] # None
        /\ fork[e].step = "start" => Perm(fork[e].child, "xstack") = "W"

Forks ==
    /\ \A e \in Proc : ForkOk(e)
    /\ \A e, d \in Proc : fork[e] # None /\ fork[d] # None /\ fork[d].child = fork[e].child => d = e

(* A handler has its address on the exception stack; only the return of    *)
(* one faults again; PFTEMP is there while the innermost uses it.          *)
HandlerOk(e) ==
    /\ Depth(e) \in 0..2
    /\ Depth(e) = 2 => faults[e][1] = "return"
    /\ Depth(e) # 0 =>
          /\ Perm(e, "xstack") = "W"
          /\ mem[XFrame(e)] \in Seq(Copyable)
          /\ Len(mem[XFrame(e)]) = Depth(e)
    /\ Depth(e) # 0 /\ faults[e][Depth(e)] \in {"copy", "map"} => Perm(e, FaultVa(e)) = "COW"
    /\ pte[e]["PFTEMP"] # None <=> Depth(e) # 0 /\ faults[e][Depth(e)] \in {"copy", "map", "unmap"}

Handlers == \A e \in Proc : HandlerOk(e)

XStackOf(e) == env[e] = "live" /\ (\E va \in Va : Perm(e, va) = "COW") => Perm(e, "xstack") = "W"

XStacks == \A e \in Proc : XStackOf(e)

Apart ==
    \A e, d \in Proc, va, wa \in Va :
        SameFrame(e, va, d, wa) /\ <<e, va>> # <<d, wa>> /\ Perm(e, va) = "W"
            => (e = d /\ Moving(e, va, wa)) \/ Marking(e, va, d, wa)

CowInv == Types /\ Quiet /\ Perms /\ Forks /\ Handlers /\ XStacks /\ Apart


-----------------------------------------------------------------------------
LEMMA Addresses ==
    /\ Va = {"PFTEMP", "text", "data", "stack", "xstack"}
    /\ Scan[1] = "PFTEMP" /\ Scan[2] = "text" /\ Scan[3] = "data"
    /\ Scan[4] = "stack" /\ Scan[5] = "xstack"
  <1>1. Va = {Scan[1], Scan[2], Scan[3], Scan[4], Scan[5]}
    BY DEF Va
  <1> QED
    BY <1>1 DEF Scan

LEMMA Mapped ==
    ASSUME Types, NEW e \in Proc, NEW va \in Va
    PROVE  /\ pte[e][va] # None <=> Perm(e, va) # None
           /\ pte[e][va] # None => /\ pte[e][va] \in Mapping /\ pte[e][va].frame \in Frame
                                   /\ Perm(e, va) = pte[e][va].perm
                                   /\ Perm(e, va) \in {"RO", "W", "COW"}
  <1>1. CASE pte[e][va] = None
    BY <1>1 DEF Perm
  <1>2. CASE pte[e][va] # None
    <2>1. pte[e][va] \in Mapping
      BY <1>2 DEF Types
    <2>2. pte[e][va].frame \in Frame /\ pte[e][va].perm \in {"RO", "W", "COW"}
      BY <2>1 DEF Mapping
    <2> QED
      BY <1>2, <2>1, <2>2, CowAssumption DEF Perm
  <1> QED
    BY <1>1, <1>2

LEMMA FreshFrame ==
    ASSUME NEW use \in Va, NEW f \in NextFrame(use, Free)
    PROVE  f \in Frame /\ \A e \in Proc, va \in Va : pte[e][va] # None => pte[e][va].frame # f
  <1>1. Free \in SUBSET Frame
    BY DEF Free
  <1>2. f \in Free
    BY <1>1, CowAssumption
  <1> QED
    BY <1>2 DEF Free

LEMMA StackOfOne ==
    ASSUME CowInv, NEW e \in Proc, Perm(e, "xstack") = "W",
           NEW d \in Proc, NEW wa \in Va, SameFrame(d, wa, e, "xstack")
    PROVE  d = e /\ wa = "xstack"
  <1>1. SameFrame(e, "xstack", d, wa)
    BY DEF SameFrame
  <1>2. ~Moving(e, "xstack", wa)
    <2> SUFFICES ASSUME Moving(e, "xstack", wa) PROVE FALSE
      OBVIOUS
    <2>1. Depth(e) # 0 /\ Depth(e) \in 0..2 /\ mem[XFrame(e)] \in Seq(Copyable) /\ Len(mem[XFrame(e)]) = Depth(e)
      BY DEF CowInv, Handlers, HandlerOk, Moving, Handling, Depth, Types
    <2>2. FaultVa(e) \in Copyable
      BY <2>1 DEF FaultVa
    <2> QED
      BY <2>2 DEF Moving, Copyable
  <1>3. ~Marking(e, "xstack", d, wa)
    BY DEF CowInv, Forks, ForkOk, Marking, Copyable
  <1> QED
    BY <1>1, <1>2, <1>3, Addresses DEF CowInv, Apart


LEMMA HandlerOkFacts ==
    ASSUME CowInv, NEW e \in Proc, Depth(e) # 0
    PROVE  /\ Depth(e) \in 1..2
           /\ faults[e] \in Seq(HandlerSteps) /\ Len(faults[e]) = Depth(e)
           /\ mem[XFrame(e)] \in Seq(Copyable) /\ Len(mem[XFrame(e)]) = Depth(e)
           /\ FaultVa(e) \in Copyable
           /\ Perm(e, "xstack") = "W" /\ XFrame(e) \in Frame
           /\ env[e] = "live"
  <1>1. /\ faults[e] \in Seq(HandlerSteps) /\ Len(faults[e]) = Depth(e)
    BY DEF CowInv, Types, Depth
  <1>2. /\ Depth(e) \in 1..2
        /\ mem[XFrame(e)] \in Seq(Copyable) /\ Len(mem[XFrame(e)]) = Depth(e)
        /\ Perm(e, "xstack") = "W"
    BY DEF CowInv, Handlers, HandlerOk
  <1>3. FaultVa(e) \in Copyable
    BY <1>2 DEF FaultVa
  <1>4. XFrame(e) \in Frame
    <2>1. pte[e]["xstack"] # None
      BY <1>2, Addresses, Mapped, CowAssumption DEF CowInv
    <2> QED
      BY <2>1, Addresses, Mapped DEF CowInv, XFrame
  <1>5. env[e] = "live"
    BY <1>1, <1>2 DEF CowInv, Quiet, QuietOf
  <1> QED
    BY <1>1, <1>2, <1>3, <1>4, <1>5

(* A handler that a step does not touch.                                   *)
LEMMA HandlerUntouched ==
    ASSUME CowInv, NEW d \in Proc, pte'[d] = pte[d], faults'[d] = faults[d],
           Depth(d) # 0 => mem'[XFrame(d)] = mem[XFrame(d)]
    PROVE  /\ HandlerOk(d)'
           /\ \A va, wa \in Va : env'[d] = env[d] /\ Moving(d, va, wa) => Moving(d, va, wa)'
           /\ Depth(d) # 0 => FaultVa(d)' = FaultVa(d)
  <1>1. XFrame(d)' = XFrame(d) /\ Depth(d)' = Depth(d) /\ \A va : Perm(d, va)' = Perm(d, va)
    BY DEF XFrame, Depth, Perm
  <1>2. Depth(d) # 0 => FaultVa(d)' = FaultVa(d)
    BY <1>1 DEF FaultVa
  <1>3. HandlerOk(d)'
    <2>1. HandlerOk(d)
      BY DEF CowInv, Handlers
    <2> QED
      BY <2>1, <1>1, <1>2 DEF HandlerOk
  <1>4. ASSUME NEW va \in Va, NEW wa \in Va, env'[d] = env[d], Moving(d, va, wa)
        PROVE  Moving(d, va, wa)'
    <2>1. faults[d] # <<>> /\ Handling(d, "unmap") /\ {va, wa} = {"PFTEMP", FaultVa(d)}
      BY <1>4 DEF Moving, Handling
    <2>2. Depth(d) # 0
      BY <2>1 DEF CowInv, Types, Depth
    <2> QED
      BY <2>1, <2>2, <1>2, <1>1, <1>4 DEF Moving, Handling
  <1> QED
    BY <1>2, <1>3, <1>4

(* What a step stores in a page of e is not on anybody's exception stack.  *)
LEMMA StackKept ==
    ASSUME CowInv, NEW e \in Proc, NEW va \in Va, va # "xstack", pte[e][va] # None,
           NEW x, mem' = [mem EXCEPT ![pte[e][va].frame] = x],
           NEW d \in Proc, Depth(d) # 0
    PROVE  mem'[XFrame(d)] = mem[XFrame(d)]
  <1>1. Perm(d, "xstack") = "W" /\ XFrame(d) \in Frame
    BY HandlerOkFacts
  <1>2. pte[d]["xstack"] # None
    BY <1>1, Addresses, Mapped, CowAssumption DEF CowInv
  <1>3. XFrame(d) # pte[e][va].frame
    BY <1>1, <1>2, StackOfOne, Addresses DEF SameFrame, XFrame
  <1> QED
    BY <1>1, <1>3 DEF CowInv, Types

(* What a step stores on one exception stack is on no other.               *)
LEMMA OtherStackKept ==
    ASSUME CowInv, NEW e \in Proc, Perm(e, "xstack") = "W",
           NEW x, mem' = [mem EXCEPT ![XFrame(e)] = x],
           NEW d \in Proc, d # e, Depth(d) # 0
    PROVE  mem'[XFrame(d)] = mem[XFrame(d)]
  <1>1. Perm(d, "xstack") = "W" /\ XFrame(d) \in Frame
    BY HandlerOkFacts
  <1>2. pte[d]["xstack"] # None /\ pte[e]["xstack"] # None
    BY <1>1, Addresses, Mapped, CowAssumption DEF CowInv
  <1>3. XFrame(d) # XFrame(e)
    BY <1>1, <1>2, StackOfOne, Addresses DEF SameFrame, XFrame
  <1> QED
    BY <1>1, <1>3 DEF CowInv, Types


(* A call of fork.                                                         *)
LEMMA ForkFacts ==
    ASSUME CowInv, NEW e \in Proc, fork[e] # None
    PROVE  /\ fork[e] \in ForkCall /\ env[e] = "live"
           /\ fork[e].child \in Proc /\ fork[e].child # e /\ env[fork[e].child] = "made"
           /\ \A d \in Proc : fork[d] # None /\ fork[d].child = fork[e].child => d = e
           /\ fork[e].step \in LoopSteps <=> fork[e].at \in 1..5
           /\ fork[e].step \in LoopSteps => At(e) \in Va
           /\ Perm(e, "xstack") = "W"
  <1>1. fork[e] \in ForkCall
    BY DEF CowInv, Types
  <1>2. fork[e].child \in Proc /\ fork[e].at \in 1..6
    BY <1>1 DEF ForkCall
  <1>3. ForkOk(e) /\ env[e] = "live" /\ \A d \in Proc : fork[d] # None /\ fork[d].child = fork[e].child => d = e
    BY DEF CowInv, Forks, Quiet, QuietOf
  <1>4. fork[e].at \in 1..5 => At(e) \in Va
    BY DEF At, Va
  <1> QED
    BY <1>1, <1>2, <1>3, <1>4 DEF ForkOk

(* What a step leaves of an environment it has nothing to do with.         *)
Undisturbed(d) ==
    /\ ForkOk(d)' /\ HandlerOk(d)'
    /\ \A va, wa \in Va : Moving(d, va, wa) => Moving(d, va, wa)'
    /\ \A va, wa \in Va, b \in Proc : Marking(d, va, b, wa) => Marking(d, va, b, wa)'

(* A step of e that may also touch c, which is nobody else's child.        *)
Touches(e, c) ==
    /\ \A d \in Proc \ {e} : fork[d] # None => fork[d].child # c
    /\ \A d \in Proc \ {e} : fork'[d] = fork[d] /\ faults'[d] = faults[d]
    /\ \A d \in Proc \ {e, c} : /\ pte'[d] = pte[d] /\ env'[d] = env[d]
                                /\ Depth(d) # 0 => mem'[XFrame(d)] = mem[XFrame(d)]

LEMMA TouchesFacts ==
    ASSUME NEW e, NEW c, Touches(e, c), NEW d \in Proc \ {e, c}
    PROVE  /\ fork'[d] = fork[d] /\ faults'[d] = faults[d] /\ pte'[d] = pte[d] /\ env'[d] = env[d]
           /\ Depth(d) # 0 => mem'[XFrame(d)] = mem[XFrame(d)]
  <1>1. d \in Proc \ {e}
    OBVIOUS
  <1>2. fork'[d] = fork[d] /\ faults'[d] = faults[d]
    BY <1>1 DEF Touches
  <1>3. pte'[d] = pte[d] /\ env'[d] = env[d] /\ (Depth(d) # 0 => mem'[XFrame(d)] = mem[XFrame(d)])
    BY DEF Touches
  <1> QED
    BY <1>2, <1>3

LEMMA OthersOk ==
    ASSUME CowInv, NEW e \in Proc, NEW c \in Proc, env[e] = "live", Touches(e, c)
    PROVE  \A d \in Proc \ {e, c} : Undisturbed(d)
  <1> SUFFICES ASSUME NEW d \in Proc \ {e, c}
               PROVE  Undisturbed(d)
    OBVIOUS
  <1>0. /\ fork'[d] = fork[d] /\ faults'[d] = faults[d] /\ pte'[d] = pte[d] /\ env'[d] = env[d]
        /\ Depth(d) # 0 => mem'[XFrame(d)] = mem[XFrame(d)]
    BY TouchesFacts
  <1>1. /\ HandlerOk(d)'
        /\ \A va, wa \in Va : Moving(d, va, wa) => Moving(d, va, wa)'
    BY <1>0, HandlerUntouched
  <1>2. At(d)' = At(d) /\ \A va : Perm(d, va)' = Perm(d, va)
    BY <1>0 DEF At, Perm
  <1>3. ForkOk(d)'
    <2>1. CASE fork[d] = None
      BY <1>0, <2>1 DEF ForkOk
    <2>2. CASE fork[d] # None
      <3>1. fork[d].child \in Proc \ {e, c}
        BY <2>2, ForkFacts DEF Touches
      <3>2. env'[fork[d].child] = env[fork[d].child] /\ \A va : Perm(fork[d].child, va)' = Perm(fork[d].child, va)
        BY <3>1, TouchesFacts DEF Perm
      <3>3. ForkOk(d)
        BY DEF CowInv, Forks
      <3> QED
        BY <1>0, <3>2, <3>3, <1>2 DEF ForkOk
    <2> QED
      BY <2>1, <2>2
  <1>4. ASSUME NEW va \in Va, NEW wa \in Va, NEW b \in Proc, Marking(d, va, b, wa)
        PROVE  Marking(d, va, b, wa)'
    BY <1>0, <1>2, <1>4 DEF Marking
  <1> QED
    BY <1>1, <1>3, <1>4 DEF Undisturbed

(* The same for a step that touches nobody but e.                          *)
Alone(e) ==
    \A d \in Proc \ {e} : /\ fork'[d] = fork[d] /\ faults'[d] = faults[d] /\ pte'[d] = pte[d] /\ env'[d] = env[d]
                          /\ Depth(d) # 0 => mem'[XFrame(d)] = mem[XFrame(d)]

LEMMA OthersOkAlone ==
    ASSUME CowInv, NEW e \in Proc, env[e] = "live", Alone(e)
    PROVE  \A d \in Proc \ {e} : Undisturbed(d)
  <1>1. \A d \in Proc \ {e} : fork[d] # None => fork[d].child # e
    BY ForkFacts
  <1>2. Touches(e, e)
    BY <1>1 DEF Alone, Touches
  <1>3. \A d \in Proc \ {e, e} : Undisturbed(d)
    BY <1>2, OthersOk
  <1> QED
    BY <1>3

-----------------------------------------------------------------------------
(* One lemma for each action.                                              *)

LEMMA ExitInv ==
    ASSUME CowInv, NEW e \in Proc, Exit(e)
    PROVE  CowInv'
  <1>1. /\ env[e] = "live" /\ env' = [env EXCEPT ![e] = "free"]
        /\ pte' = [pte EXCEPT ![e] = Unmapped]
        /\ fork' = [fork EXCEPT ![e] = None] /\ faults' = [faults EXCEPT ![e] = <<>>]
        /\ mem' = Cleared(mem, pte')
    BY DEF Exit
  <1>2. /\ \A va \in Va : pte'[e][va] = None /\ Perm(e, va)' = None
        /\ env'[e] = "free" /\ fork'[e] = None /\ faults'[e] = <<>> /\ Depth(e)' = 0
    BY <1>1 DEF CowInv, Types, Unmapped, Perm, Depth
  <1>3. \A d \in Proc \ {e} : pte'[d] = pte[d] /\ env'[d] = env[d] /\ fork'[d] = fork[d] /\ faults'[d] = faults[d]
    BY <1>1 DEF CowInv, Types
  <1>4. ASSUME NEW d \in Proc \ {e}, Depth(d) # 0
        PROVE  mem'[XFrame(d)] = mem[XFrame(d)]
    <2>1. XFrame(d) \in Frame /\ pte'[d]["xstack"] # None /\ pte'[d]["xstack"].frame = XFrame(d)
      BY <1>4, <1>3, HandlerOkFacts, Addresses, Mapped, CowAssumption DEF CowInv, XFrame
    <2> QED
      BY <2>1, <1>1, Addresses DEF Cleared
  <1>5. Alone(e)
    BY <1>3, <1>4 DEF Alone
  <1>6. \A d \in Proc \ {e} : Undisturbed(d)
    BY <1>1, <1>5, OthersOkAlone
  <1>7. Types'
    <2>1. mem' \in [Frame -> Val \cup Seq(Va)]
      BY <1>1, CowAssumption DEF Cleared, CowInv, Types
    <2>2. Unmapped \in [Va -> Mapping \cup {None}]
      BY DEF Unmapped
    <2>3. <<>> \in Seq(HandlerSteps)
      OBVIOUS
    <2>4. Types
      BY DEF CowInv
    <2> QED
      BY <1>1, <2>1, <2>2, <2>3, <2>4 DEF Types
  <1>8. Quiet'
    BY <1>2, <1>3 DEF CowInv, Quiet, QuietOf
  <1>9. \A d \in Proc \ {e}, va \in Va : Perm(d, va)' = Perm(d, va)
    BY <1>3 DEF Perm
  <1>10. Perms'
    BY <1>2, <1>9, Addresses DEF CowInv, Perms, PermsOf, Copyable
  <1>11. Forks'
    BY <1>2, <1>3, <1>6 DEF CowInv, Forks, ForkOk, Undisturbed
  <1>12. Handlers'
    <2>1. HandlerOk(e)'
      BY <1>2, Addresses DEF HandlerOk
    <2> QED
      BY <2>1, <1>6 DEF Handlers, Undisturbed
  <1>13. XStacks'
    BY <1>2, <1>3, <1>9, Addresses DEF CowInv, XStacks, XStackOf
  <1>14. Apart'
    <2> SUFFICES ASSUME NEW d \in Proc, NEW b \in Proc, NEW va \in Va, NEW wa \in Va,
                        SameFrame(d, va, b, wa)', <<d, va>> # <<b, wa>>, Perm(d, va)' = "W"
                 PROVE  (d = b /\ Moving(d, va, wa)') \/ Marking(d, va, b, wa)'
      BY DEF Apart
    <2>1. d # e /\ b # e
      BY <1>2 DEF SameFrame
    <2>2. SameFrame(d, va, b, wa) /\ Perm(d, va) = "W"
      BY <2>1, <1>3, <1>9 DEF SameFrame
    <2> QED
      BY <2>1, <2>2, <1>6 DEF CowInv, Apart, Undisturbed
  <1> QED
    BY <1>7, <1>8, <1>10, <1>11, <1>12, <1>13, <1>14 DEF CowInv

(* Steps that leave the mappings and who runs as they are.                 *)
LEMMA NothingMapped ==
    ASSUME CowInv, NEW e \in Proc, env[e] = "live", pte' = pte, env' = env, fork' = fork,
           \A d \in Proc \ {e} : faults'[d] = faults[d] /\ (Depth(d) # 0 => mem'[XFrame(d)] = mem[XFrame(d)]),
           Types', HandlerOk(e)',
           \A va, wa \in Va : ~Moving(e, va, wa)
    PROVE  CowInv'
  <1>1. \A d \in Proc \ {e} : Undisturbed(d)
    <2>1. Alone(e)
      BY DEF Alone
    <2> QED
      BY <2>1, OthersOkAlone
  <1>2. /\ \A d \in Proc, va \in Va : Perm(d, va)' = Perm(d, va)
        /\ \A d \in Proc : At(d)' = At(d)
    BY DEF Perm, At
  <1>3. Quiet' /\ Perms' /\ XStacks'
    BY <1>2, Addresses DEF CowInv, Quiet, QuietOf, Perms, PermsOf, XStacks, XStackOf, Copyable
  <1>4. Forks'
    BY <1>2, Addresses, ForkFacts DEF CowInv, Forks, ForkOk
  <1>5. Handlers'
    BY <1>1 DEF Handlers, Undisturbed
  <1>6. Apart'
    <2> SUFFICES ASSUME NEW d \in Proc, NEW b \in Proc, NEW va \in Va, NEW wa \in Va,
                        SameFrame(d, va, b, wa)', <<d, va>> # <<b, wa>>, Perm(d, va)' = "W"
                 PROVE  (d = b /\ Moving(d, va, wa)') \/ Marking(d, va, b, wa)'
      BY DEF Apart
    <2>1. SameFrame(d, va, b, wa) /\ Perm(d, va) = "W"
      BY <1>2 DEF SameFrame
    <2>2. (d = b /\ Moving(d, va, wa)) \/ Marking(d, va, b, wa)
      BY <2>1 DEF CowInv, Apart
    <2>3. Marking(d, va, b, wa) => Marking(d, va, b, wa)'
      BY <1>2 DEF Marking
    <2> QED
      BY <2>2, <2>3, <1>1 DEF Undisturbed
  <1> QED
    BY <1>3, <1>4, <1>5, <1>6 DEF CowInv


(* A step of a handler that is not the move of the copy.                   *)
LEMMA NotMoving ==
    ASSUME CowInv, NEW e \in Proc, Depth(e) = 0 \/ faults[e][Depth(e)] # "unmap"
    PROVE  \A va, wa \in Va : ~Moving(e, va, wa)
  BY DEF Moving, Handling, Depth, CowInv, Types

LEMMA PageFaultInv ==
    ASSUME CowInv, NEW e \in Proc, NEW va \in Copyable, env[e] = "live",
           Depth(e) = 0 \/ (Depth(e) = 1 /\ faults[e][1] = "return"), PageFault(e, va)
    PROVE  CowInv'
  <1>1. CASE Perm(e, "xstack") # "W"
    BY <1>1, ExitInv DEF PageFault
  <1>2. CASE Perm(e, "xstack") = "W"
    <2>1. /\ mem' = [mem EXCEPT ![XFrame(e)] = IF faults[e] = <<>> THEN <<va>> ELSE Append(@, va)]
          /\ faults' = [faults EXCEPT ![e] = Append(@, "alloc")]
          /\ env' = env /\ pte' = pte /\ fork' = fork
      BY <1>2 DEF PageFault
    <2>2. XFrame(e) \in Frame
      BY <1>2, Addresses, Mapped, CowAssumption DEF CowInv, XFrame
    <2>3. faults[e] \in Seq(HandlerSteps) /\ Depth(e) = Len(faults[e]) /\ (faults[e] = <<>> <=> Depth(e) = 0)
      BY DEF CowInv, Types, Depth
    <2>4. /\ faults'[e] = Append(faults[e], "alloc") /\ faults' \in [Proc -> Seq(HandlerSteps)]
          /\ \A d \in Proc \ {e} : faults'[d] = faults[d]
      BY <2>1, <2>3 DEF CowInv, Types, HandlerSteps
    <2>5. /\ Depth(e)' = Depth(e) + 1 /\ faults'[e][Depth(e) + 1] = "alloc"
          /\ Depth(e) = 1 => faults'[e][1] = "return"
      BY <2>3, <2>4 DEF Depth, HandlerSteps
    <2>6. mem'[XFrame(e)] \in Seq(Copyable) /\ Len(mem'[XFrame(e)]) = Depth(e) + 1
      <3>1. CASE Depth(e) = 0
        <4>1. mem'[XFrame(e)] = <<va>>
          BY <2>1, <2>2, <2>3, <3>1 DEF CowInv, Types
        <4> QED
          BY <4>1, <3>1
      <3>2. CASE Depth(e) = 1
        <4>1. mem'[XFrame(e)] = Append(mem[XFrame(e)], va)
          BY <2>1, <2>2, <2>3, <3>2 DEF CowInv, Types
        <4>2. mem[XFrame(e)] \in Seq(Copyable) /\ Len(mem[XFrame(e)]) = 1
          <5>1. Depth(e) # 0
            BY <3>2
          <5> QED
            BY <5>1, <3>2, HandlerOkFacts
        <4> QED
          BY <4>1, <4>2, <3>2
      <3> QED
        BY <3>1, <3>2
    <2>7. Types'
      <3>1. Copyable \subseteq Va
        BY Addresses DEF Copyable
      <3>2. mem'[XFrame(e)] \in Seq(Va)
        BY <2>6, <3>1
      <3>3. mem' \in [Frame -> Val \cup Seq(Va)]
        BY <2>1, <3>2, <2>2 DEF CowInv, Types
      <3> QED
        BY <2>1, <2>4, <3>3 DEF CowInv, Types
    <2>8. \A d \in Proc \ {e} : Depth(d) # 0 => mem'[XFrame(d)] = mem[XFrame(d)]
      BY <2>1, <1>2, OtherStackKept
    <2>9. HandlerOk(e)'
      <3>1. XFrame(e)' = XFrame(e) /\ Perm(e, "xstack")' = "W"
        BY <2>1, <1>2 DEF XFrame, Perm
      <3>2. pte[e]["PFTEMP"] = None
        BY DEF CowInv, Handlers, HandlerOk
      <3> QED
        BY <2>1, <2>5, <2>6, <3>1, <3>2 DEF HandlerOk
    <2> QED
      BY <2>1, <2>4, <2>7, <2>8, <2>9, NotMoving, NothingMapped
  <1> QED
    BY <1>1, <1>2

LEMMA StoreInv ==
    ASSUME CowInv, NEW e \in Proc, NEW va \in UserPage, NEW v \in Val, Store(e, va, v)
    PROVE  CowInv'
  <1>1. env[e] = "live" /\ faults[e] = <<>> /\ va # "text"
    BY DEF Store, Runs
  <1>2. Depth(e) = 0 /\ va \in Copyable /\ va \in Va
    BY <1>1, Addresses DEF Depth, UserPage, Copyable
  <1>3. CASE Perm(e, va) # "W"
    BY <1>1, <1>2, <1>3, PageFaultInv DEF Store
  <1>4. CASE Perm(e, va) = "W"
    <2>1. /\ mem' = [mem EXCEPT ![pte[e][va].frame] = v]
          /\ env' = env /\ pte' = pte /\ fork' = fork /\ faults' = faults
      BY <1>4 DEF Store
    <2>2. pte[e][va] # None /\ pte[e][va].frame \in Frame /\ va # "xstack"
      BY <1>2, <1>4, Mapped, CowAssumption DEF CowInv, Copyable
    <2>3. Types'
      BY <2>1, <2>2 DEF CowInv, Types
    <2>4. \A d \in Proc : Depth(d) # 0 => mem'[XFrame(d)] = mem[XFrame(d)]
      BY <2>1, <2>2, <1>2, StackKept
    <2>5. HandlerOk(e)'
      BY <2>1, <2>4, HandlerUntouched
    <2> QED
      BY <1>1, <1>2, <2>1, <2>3, <2>4, <2>5, NotMoving, NothingMapped
  <1> QED
    BY <1>3, <1>4
(* All that the invariant says of one environment by itself.               *)
Local(d) == QuietOf(d) /\ PermsOf(d) /\ ForkOk(d) /\ HandlerOk(d) /\ XStackOf(d)

(* What is left to show of a step of e that may also touch c.              *)
LEMMA Assemble ==
    ASSUME CowInv, NEW e \in Proc, NEW c \in Proc, env[e] = "live", Touches(e, c),
           fork'[e] # None => fork'[e].child = c \/ (fork[e] # None /\ fork'[e].child = fork[e].child),
           Types', Local(e)', Local(c)', Apart'
    PROVE  CowInv'
  <1>1. \A d \in Proc \ {e, c} : Undisturbed(d)
    BY OthersOk
  <1>2. ASSUME NEW d \in Proc PROVE Local(d)'
    <2>1. CASE d \in {e, c}
      BY <2>1
    <2>2. CASE d \notin {e, c}
      <3>1. ForkOk(d)' /\ HandlerOk(d)'
        BY <1>1, <2>2 DEF Undisturbed
      <3>2. pte'[d] = pte[d] /\ env'[d] = env[d] /\ fork'[d] = fork[d] /\ faults'[d] = faults[d]
        BY <2>2, TouchesFacts
      <3>3. \A va : Perm(d, va)' = Perm(d, va)
        BY <3>2 DEF Perm
      <3>4. QuietOf(d) /\ PermsOf(d) /\ XStackOf(d)
        BY DEF CowInv, Quiet, Perms, XStacks
      <3>5. QuietOf(d)' /\ PermsOf(d)' /\ XStackOf(d)'
        BY <3>2, <3>3, <3>4 DEF QuietOf, PermsOf, XStackOf
      <3> QED
        BY <3>1, <3>5 DEF Local
    <2> QED
      BY <2>1, <2>2
  <1>3. Quiet' /\ Perms' /\ Handlers' /\ XStacks' /\ \A d \in Proc : ForkOk(d)'
    BY <1>2 DEF Local, Quiet, Perms, Handlers, XStacks
  <1>4. ASSUME NEW a \in Proc, NEW d \in Proc, fork'[a] # None, fork'[d] # None, fork'[d].child = fork'[a].child
        PROVE  d = a
    <2>1. \A x, y \in Proc : fork[x] # None /\ fork[y] # None /\ fork[x].child = fork[y].child => x = y
      BY DEF CowInv, Forks
    <2> QED
      BY <1>4, <2>1 DEF Touches
  <1>5. Forks'
    BY <1>3, <1>4 DEF Forks
  <1> QED
    BY <1>3, <1>5 DEF CowInv

LEMMA AssembleAlone ==
    ASSUME CowInv, NEW e \in Proc, env[e] = "live", Alone(e),
           fork'[e] # None => fork[e] # None /\ fork'[e].child = fork[e].child,
           Types', Local(e)', Apart'
    PROVE  CowInv'
  <1>1. \A d \in Proc \ {e} : fork[d] # None => fork[d].child # e
    BY ForkFacts
  <1> QED
    <2>1. Touches(e, e)
      BY <1>1 DEF Alone, Touches
    <2> QED
      BY <2>1, Assemble

(* A new page at a place where handlers and fork keep nothing they share.  *)
LEMMA AllocFacts ==
    ASSUME CowInv, NEW c \in Proc, NEW va \in {"PFTEMP", "xstack"}, NEW use \in Va, Alloc(c, va, use)
    PROVE  /\ Perm(c, va)' = "W" /\ pte'[c][va] # None
           /\ \A wa \in Va \ {va} : pte'[c][wa] = pte[c][wa] /\ Perm(c, wa)' = Perm(c, wa)
           /\ \A d \in Proc \ {c} : pte'[d] = pte[d]
           /\ pte' \in [Proc -> [Va -> Mapping \cup {None}]]
           /\ mem' \in [Frame -> Val \cup Seq(Va)]
           /\ \A d \in Proc, wa \in Va : pte[d][wa] # None => mem'[pte[d][wa].frame] = mem[pte[d][wa].frame]
           /\ \A d, b \in Proc, wa, xa \in Va :
                 SameFrame(d, wa, b, xa)' => <<d, wa>> = <<b, xa>>
                    \/ (SameFrame(d, wa, b, xa) /\ <<d, wa>> # <<c, va>> /\ <<b, xa>> # <<c, va>>)
  <1>1. PICK f \in NextFrame(use, Free) :
            pte' = [pte EXCEPT ![c][va] = [frame |-> f, perm |-> "W"]] /\ mem' = [mem EXCEPT ![f] = Zero]
    BY DEF Alloc
  <1>2. f \in Frame /\ \A d \in Proc, wa \in Va : pte[d][wa] # None => pte[d][wa].frame # f
    BY FreshFrame
  <1>3. va \in Va /\ Types
    BY Addresses DEF CowInv
  <1>4. pte'[c][va] = [frame |-> f, perm |-> "W"]
    BY <1>1, <1>3 DEF Types
  <1>5. [frame |-> f, perm |-> "W"] \in Mapping /\ [frame |-> f, perm |-> "W"] # None
    BY <1>2, CowAssumption DEF Mapping
  <1>6. Perm(c, va)' = "W"
    BY <1>4, <1>5 DEF Perm
  <1>7. \A d \in Proc, wa \in Va : <<d, wa>> # <<c, va>> => pte'[d][wa] = pte[d][wa]
    BY <1>1, <1>3 DEF Types
  <1>8. \A wa \in Va \ {va} : pte'[c][wa] = pte[c][wa] /\ Perm(c, wa)' = Perm(c, wa)
    BY <1>7 DEF Perm
  <1>9. \A d \in Proc \ {c} : pte'[d] = pte[d]
    BY <1>1, <1>3 DEF Types
  <1>10. pte' \in [Proc -> [Va -> Mapping \cup {None}]]
    BY <1>1, <1>3, <1>5 DEF Types
  <1>11. mem' \in [Frame -> Val \cup Seq(Va)]
    BY <1>1, <1>2, <1>3, CowAssumption DEF Types
  <1>12. \A d \in Proc, wa \in Va : pte[d][wa] # None => mem'[pte[d][wa].frame] = mem[pte[d][wa].frame]
    BY <1>1, <1>2, <1>3, Mapped DEF Types
  <1>13. ASSUME NEW d \in Proc, NEW b \in Proc, NEW wa \in Va, NEW xa \in Va,
                SameFrame(d, wa, b, xa)', <<d, wa>> # <<b, xa>>
         PROVE  SameFrame(d, wa, b, xa) /\ <<d, wa>> # <<c, va>> /\ <<b, xa>> # <<c, va>>
    BY <1>2, <1>4, <1>7, <1>13 DEF SameFrame
  <1> QED
    BY <1>4, <1>5, <1>6, <1>8, <1>9, <1>10, <1>11, <1>12, <1>13

(* Nothing becomes shared when a page is new.                              *)
LEMMA AllocApart ==
    ASSUME CowInv, NEW c \in Proc, NEW va \in {"PFTEMP", "xstack"}, NEW use \in Va, Alloc(c, va, use),
           \A d \in Proc, wa, xa \in Va : Moving(d, wa, xa) => Moving(d, wa, xa)',
           \A d, b \in Proc, wa, xa \in Va : Marking(d, wa, b, xa) => Marking(d, wa, b, xa)'
    PROVE  Apart'
  <1> SUFFICES ASSUME NEW d \in Proc, NEW b \in Proc, NEW wa \in Va, NEW xa \in Va,
                      SameFrame(d, wa, b, xa)', <<d, wa>> # <<b, xa>>, Perm(d, wa)' = "W"
               PROVE  (d = b /\ Moving(d, wa, xa)') \/ Marking(d, wa, b, xa)'
    BY DEF Apart
  <1>1. SameFrame(d, wa, b, xa) /\ <<d, wa>> # <<c, va>>
    BY AllocFacts
  <1>2. Perm(d, wa) = "W"
    BY <1>1, AllocFacts DEF Perm
  <1> QED
    BY <1>1, <1>2 DEF CowInv, Apart
(* The facts every step of a handler starts from.                          *)
LEMMA HandlingFacts ==
    ASSUME CowInv, NEW e \in Proc, NEW step, Handling(e, step)
    PROVE  /\ Depth(e) # 0 /\ faults[e][Depth(e)] = step /\ env[e] = "live"
           /\ FaultVa(e) \in Copyable /\ FaultVa(e) \in Va /\ pte[e]["xstack"] # None
           /\ step \in {"copy", "map"} => Perm(e, FaultVa(e)) = "COW" /\ pte[e][FaultVa(e)] # None
           /\ pte[e]["PFTEMP"] # None <=> step \in {"copy", "map", "unmap"}
           /\ step # "unmap" => \A va, wa \in Va : ~Moving(e, va, wa)
  <1>1. Depth(e) # 0 /\ faults[e][Depth(e)] = step /\ env[e] = "live"
    BY DEF CowInv, Types, Handling, Depth
  <1>2. FaultVa(e) \in Copyable /\ Perm(e, "xstack") = "W"
    BY <1>1, HandlerOkFacts
  <1>3. FaultVa(e) \in Va
    BY <1>2, Addresses DEF Copyable
  <1>4. pte[e]["xstack"] # None
    BY <1>2, Addresses, Mapped, CowAssumption DEF CowInv
  <1>5. HandlerOk(e)
    BY DEF CowInv, Handlers
  <1>6. step \in {"copy", "map"} => Perm(e, FaultVa(e)) = "COW"
    BY <1>1, <1>5 DEF HandlerOk
  <1>7. step \in {"copy", "map"} => pte[e][FaultVa(e)] # None
    BY <1>6, <1>3, Mapped, CowAssumption DEF CowInv
  <1>8. pte[e]["PFTEMP"] # None <=> step \in {"copy", "map", "unmap"}
    BY <1>1, <1>5 DEF HandlerOk
  <1>9. step # "unmap" => \A va, wa \in Va : ~Moving(e, va, wa)
    BY <1>1, NotMoving
  <1> QED
    BY <1>1, <1>2, <1>3, <1>4, <1>6, <1>7, <1>8, <1>9

(* The innermost handler takes its next step.                              *)
LEMMA HandlerStepFacts ==
    ASSUME CowInv, NEW e \in Proc, Depth(e) # 0, NEW step \in HandlerSteps, HandlerStep(e, step)
    PROVE  /\ faults' \in [Proc -> Seq(HandlerSteps)]
           /\ \A d \in Proc \ {e} : faults'[d] = faults[d]
           /\ Depth(e)' = Depth(e) /\ faults'[e][Depth(e)] = step /\ faults'[e] # <<>>
           /\ Depth(e) = 2 => faults'[e][1] = "return"
  <1>1. faults[e] \in Seq(HandlerSteps) /\ Len(faults[e]) = Depth(e) /\ Depth(e) \in 1..2
    BY HandlerOkFacts
  <1>2. faults'[e] = [faults[e] EXCEPT ![Depth(e)] = step] /\ \A d \in Proc \ {e} : faults'[d] = faults[d]
    BY DEF CowInv, Types, HandlerStep
  <1>3. faults'[e] \in Seq(HandlerSteps) /\ Len(faults'[e]) = Depth(e) /\ faults'[e][Depth(e)] = step
    BY <1>1, <1>2
  <1>4. faults' \in [Proc -> Seq(HandlerSteps)]
    BY <1>3 DEF HandlerStep, CowInv, Types
  <1>5. Depth(e) = 2 => faults[e][1] = "return"
    BY DEF CowInv, Handlers, HandlerOk
  <1>6. Depth(e) = 2 => faults'[e][1] = faults[e][1]
    BY <1>1, <1>2
  <1>7. faults'[e] # <<>> /\ Depth(e)' = Depth(e)
    BY <1>1, <1>3 DEF Depth
  <1> QED
    BY <1>2, <1>3, <1>4, <1>5, <1>6, <1>7

LEMMA HandlerAllocInv ==
    ASSUME CowInv, NEW e \in Proc, HandlerAlloc(e)
    PROVE  CowInv'
  <1>1. Handling(e, "alloc")
    BY DEF HandlerAlloc
  <1>2. CASE Perm(e, FaultVa(e)) # "COW"
    BY <1>2, ExitInv DEF HandlerAlloc
  <1>3. CASE Perm(e, FaultVa(e)) = "COW"
    <2>1. Alloc(e, "PFTEMP", FaultVa(e)) /\ HandlerStep(e, "copy") /\ env' = env /\ fork' = fork
      BY <1>3 DEF HandlerAlloc
    <2>2. /\ Depth(e) # 0 /\ env[e] = "live" /\ FaultVa(e) \in Copyable /\ FaultVa(e) \in Va
          /\ pte[e]["xstack"] # None /\ \A va, wa \in Va : ~Moving(e, va, wa)
      BY <1>1, HandlingFacts
    <2>3. /\ faults' \in [Proc -> Seq(HandlerSteps)] /\ \A d \in Proc \ {e} : faults'[d] = faults[d]
          /\ Depth(e)' = Depth(e) /\ faults'[e][Depth(e)] = "copy" /\ faults'[e] # <<>>
          /\ Depth(e) = 2 => faults'[e][1] = "return"
      BY <2>1, <2>2, HandlerStepFacts DEF HandlerSteps
    <2>4. /\ Perm(e, "PFTEMP")' = "W" /\ pte'[e]["PFTEMP"] # None
          /\ \A wa \in Va \ {"PFTEMP"} : pte'[e][wa] = pte[e][wa] /\ Perm(e, wa)' = Perm(e, wa)
          /\ \A d \in Proc \ {e} : pte'[d] = pte[d]
          /\ pte' \in [Proc -> [Va -> Mapping \cup {None}]]
          /\ mem' \in [Frame -> Val \cup Seq(Va)]
          /\ \A d \in Proc, wa \in Va : pte[d][wa] # None => mem'[pte[d][wa].frame] = mem[pte[d][wa].frame]
      BY <2>1, <2>2, AllocFacts
    <2>5. \A d \in Proc : Depth(d) # 0 => mem'[XFrame(d)] = mem[XFrame(d)]
      BY <2>4, HandlerOkFacts, Addresses, Mapped, CowAssumption DEF XFrame, CowInv
    <2>6. \A d \in Proc \ {e} : Undisturbed(d)
      <3>1. Alone(e)
        BY <2>1, <2>3, <2>4, <2>5 DEF Alone
      <3> QED
        BY <2>2, <3>1, OthersOkAlone
    <2>7. Apart'
      <3>1. \A d \in Proc, wa, xa \in Va : Moving(d, wa, xa) => Moving(d, wa, xa)'
        BY <2>2, <2>6 DEF Undisturbed
      <3>2. \A d, b \in Proc, wa, xa \in Va : Marking(d, wa, b, xa) => Marking(d, wa, b, xa)'
        BY <2>1 DEF Marking, At
      <3> QED
        BY <3>1, <3>2, <2>1, <2>2, AllocApart
    <2>8. Types'
      BY <2>1, <2>3, <2>4 DEF CowInv, Types
    <2>9. Local(e)'
      <3>1. HandlerOk(e)'
        <4>1. XFrame(e)' = XFrame(e) /\ FaultVa(e)' = FaultVa(e)
          BY <2>2, <2>3, <2>4, <2>5, Addresses DEF XFrame, FaultVa
        <4>2. Perm(e, "xstack")' = Perm(e, "xstack") /\ Perm(e, FaultVa(e))' = "COW"
          BY <1>3, <2>2, <2>4, <4>1, Addresses DEF Copyable
        <4>3. HandlerOk(e)
          BY DEF CowInv, Handlers
        <4> QED
          BY <2>2, <2>3, <2>4, <2>5, <4>1, <4>2, <4>3 DEF HandlerOk
      <3>2. ForkOk(e)'
        <4>1. ForkOk(e)
          BY DEF CowInv, Forks
        <4>2. fork[e] # None => Perm(fork[e].child, "xstack")' = Perm(fork[e].child, "xstack")
          BY <2>1, <2>4, ForkFacts DEF Perm
        <4> QED
          BY <2>1, <2>4, <4>1, <4>2, Addresses DEF ForkOk, At, Copyable
      <3>3. QuietOf(e)' /\ PermsOf(e)' /\ XStackOf(e)'
        <4>1. PermsOf(e) /\ Perm(e, "xstack") = "W"
          BY <2>2, HandlerOkFacts DEF CowInv, Perms
        <4> QED
          BY <4>1, <2>1, <2>2, <2>4, Addresses DEF QuietOf, PermsOf, XStackOf, Copyable
      <3> QED
        BY <3>1, <3>2, <3>3 DEF Local
    <2> QED
      <3>1. Alone(e)
        BY <2>1, <2>3, <2>4, <2>5 DEF Alone
      <3> QED
        BY <2>1, <2>2, <2>7, <2>8, <2>9, <3>1, AssembleAlone
  <1> QED
    BY <1>2, <1>3

LEMMA HandlerCopyInv ==
    ASSUME CowInv, NEW e \in Proc, HandlerCopy(e)
    PROVE  CowInv'
  <1>1. /\ Handling(e, "copy") /\ HandlerStep(e, "map")
        /\ mem' = [mem EXCEPT ![pte[e]["PFTEMP"].frame] = mem[pte[e][FaultVa(e)].frame]]
        /\ env' = env /\ pte' = pte /\ fork' = fork
    BY DEF HandlerCopy
  <1>2. /\ Depth(e) # 0 /\ env[e] = "live" /\ FaultVa(e) \in Va /\ Perm(e, FaultVa(e)) = "COW"
        /\ pte[e][FaultVa(e)] # None /\ pte[e]["PFTEMP"] # None /\ \A va, wa \in Va : ~Moving(e, va, wa)
    BY <1>1, HandlingFacts
  <1>3. /\ faults' \in [Proc -> Seq(HandlerSteps)] /\ \A d \in Proc \ {e} : faults'[d] = faults[d]
        /\ Depth(e)' = Depth(e) /\ faults'[e][Depth(e)] = "map" /\ faults'[e] # <<>>
        /\ Depth(e) = 2 => faults'[e][1] = "return"
    BY <1>1, <1>2, HandlerStepFacts DEF HandlerSteps
  <1>4. \A d \in Proc : Depth(d) # 0 => mem'[XFrame(d)] = mem[XFrame(d)]
    BY <1>1, <1>2, StackKept, Addresses
  <1>5. Types'
    <2>1. pte[e][FaultVa(e)].frame \in Frame
      BY <1>2, Mapped DEF CowInv
    <2> QED
      BY <1>1, <1>3, <2>1 DEF CowInv, Types
  <1>6. HandlerOk(e)'
    <2>1. XFrame(e)' = XFrame(e) /\ FaultVa(e)' = FaultVa(e) /\ \A va : Perm(e, va)' = Perm(e, va)
      BY <1>1, <1>2, <1>3, <1>4 DEF XFrame, FaultVa, Perm
    <2>2. HandlerOk(e)
      BY DEF CowInv, Handlers
    <2> QED
      BY <1>1, <1>2, <1>3, <1>4, <2>1, <2>2 DEF HandlerOk
  <1> QED
    BY <1>1, <1>2, <1>3, <1>4, <1>5, <1>6, NothingMapped

LEMMA Popped ==
    ASSUME NEW S, NEW s \in Seq(S), Len(s) \in 1..2
    PROVE  /\ SubSeq(s, 1, Len(s) - 1) \in Seq(S) /\ Len(SubSeq(s, 1, Len(s) - 1)) = Len(s) - 1
           /\ Len(s) = 2 => SubSeq(s, 1, Len(s) - 1)[1] = s[1]
  <1> DEFINE n == Len(s) - 1
  <1>1. n \in {0, 1} /\ \A i \in 1..n : s[i] \in S
    OBVIOUS
  <1> HIDE DEF n
  <1>2. /\ SubSeq(s, 1, n) \in Seq(S)
        /\ Len(SubSeq(s, 1, n)) = IF 1 <= n THEN n - 1 + 1 ELSE 0
        /\ \A i \in 1..(n - 1 + 1) : SubSeq(s, 1, n)[i] = s[1 + i - 1]
    BY <1>1, SubSeqProperties
  <1>3. /\ SubSeq(s, 1, n) \in Seq(S) /\ Len(SubSeq(s, 1, n)) = n
        /\ n = 1 => SubSeq(s, 1, n)[1] = s[1]
    BY <1>1, <1>2
  <1>4. Len(s) = 2 => n = 1
    BY DEF n
  <1>5. Len(s) = 2 => SubSeq(s, 1, n)[1] = s[1]
    BY <1>3, <1>4
  <1> QED
    BY <1>3, <1>5, Zenon DEF n

LEMMA HandlerReturnInv ==
    ASSUME CowInv, NEW e \in Proc, HandlerReturn(e)
    PROVE  CowInv'
  <1>1. Handling(e, "return")
    BY DEF HandlerReturn
  <1>2. /\ Depth(e) # 0 /\ env[e] = "live" /\ faults[e][Depth(e)] = "return"
        /\ pte[e]["PFTEMP"] = None /\ \A va, wa \in Va : ~Moving(e, va, wa)
    BY <1>1, HandlingFacts
  <1>3. CASE Depth(e) = 1 /\ Perm(e, "stack") # "W"
    BY <1>2, <1>3, PageFaultInv DEF HandlerReturn, Copyable
  <1>4. CASE ~(Depth(e) = 1 /\ Perm(e, "stack") # "W")
    <2>1. /\ mem' = [mem EXCEPT ![XFrame(e)] = SubSeq(@, 1, Depth(e) - 1)]
          /\ faults' = [faults EXCEPT ![e] = SubSeq(@, 1, Depth(e) - 1)]
          /\ env' = env /\ pte' = pte /\ fork' = fork
      BY <1>4 DEF HandlerReturn
    <2>2. /\ Depth(e) \in 1..2 /\ faults[e] \in Seq(HandlerSteps) /\ Len(faults[e]) = Depth(e)
          /\ mem[XFrame(e)] \in Seq(Copyable) /\ Len(mem[XFrame(e)]) = Depth(e)
          /\ Perm(e, "xstack") = "W" /\ XFrame(e) \in Frame
      BY <1>2, HandlerOkFacts
    <2>3. /\ mem'[XFrame(e)] = SubSeq(mem[XFrame(e)], 1, Depth(e) - 1)
          /\ faults'[e] = SubSeq(faults[e], 1, Depth(e) - 1)
          /\ \A d \in Proc \ {e} : faults'[d] = faults[d]
      BY <2>1, <2>2 DEF CowInv, Types
    <2>4. /\ faults'[e] \in Seq(HandlerSteps) /\ Len(faults'[e]) = Depth(e) - 1
          /\ Depth(e) = 2 => faults'[e][1] = faults[e][1]
      <3>1. Len(faults[e]) \in 1..2
        BY <2>2
      <3>2. LET s == SubSeq(faults[e], 1, Len(faults[e]) - 1)
            IN  s \in Seq(HandlerSteps) /\ Len(s) = Len(faults[e]) - 1 /\ (Len(faults[e]) = 2 => s[1] = faults[e][1])
        BY <2>2, <3>1, Popped
      <3> QED
        BY <2>2, <2>3, <3>2
    <2>5. mem'[XFrame(e)] \in Seq(Copyable) /\ Len(mem'[XFrame(e)]) = Depth(e) - 1
      <3>1. Len(mem[XFrame(e)]) \in 1..2
        BY <2>2
      <3>2. LET s == SubSeq(mem[XFrame(e)], 1, Len(mem[XFrame(e)]) - 1)
            IN  s \in Seq(Copyable) /\ Len(s) = Len(mem[XFrame(e)]) - 1
        BY <2>2, <3>1, Popped
      <3> QED
        BY <2>2, <2>3, <3>2
    <2>6. Types'
      <3>1. Copyable \subseteq Va
        BY Addresses DEF Copyable
      <3>2. mem'[XFrame(e)] \in Seq(Va)
        BY <2>5, <3>1
      <3>3. mem' \in [Frame -> Val \cup Seq(Va)]
        BY <2>1, <2>2, <3>2 DEF CowInv, Types
      <3>4. faults' \in [Proc -> Seq(HandlerSteps)]
        BY <2>1, <2>4 DEF CowInv, Types
      <3> QED
        BY <2>1, <3>3, <3>4 DEF CowInv, Types
    <2>7. \A d \in Proc \ {e} : Depth(d) # 0 => mem'[XFrame(d)] = mem[XFrame(d)]
      BY <2>1, <2>2, OtherStackKept
    <2>8. HandlerOk(e)'
      <3>1. XFrame(e)' = XFrame(e) /\ Perm(e, "xstack")' = "W"
        BY <2>1, <2>2 DEF XFrame, Perm
      <3>2. Depth(e)' = Depth(e) - 1
        BY <2>4 DEF Depth
      <3>3. Depth(e) = 2 => faults[e][1] = "return"
        BY DEF CowInv, Handlers, HandlerOk
      <3>4. Depth(e)' # 0 => faults'[e][Depth(e)'] = "return"
        BY <2>2, <2>4, <3>2, <3>3
      <3>5. Depth(e)' \in 0..1 /\ pte'[e]["PFTEMP"] = None
        BY <1>2, <2>1, <2>2, <3>2
      <3>6. mem'[XFrame(e)'] \in Seq(Copyable) /\ Len(mem'[XFrame(e)']) = Depth(e)'
        BY <2>5, <3>1, <3>2
      <3> QED
        BY <3>1, <3>4, <3>5, <3>6 DEF HandlerOk
    <2> QED
      BY <1>2, <2>1, <2>3, <2>6, <2>7, <2>8, NothingMapped
  <1> QED
    BY <1>3, <1>4
(* One mapping is set.                                                     *)
Sets(c, va, m) == pte' = [pte EXCEPT ![c][va] = m]

LEMMA MapFacts ==
    ASSUME Types, NEW c \in Proc, NEW va \in Va, NEW m \in Mapping \cup {None}, Sets(c, va, m)
    PROVE  /\ pte'[c][va] = m
           /\ \A wa \in Va \ {va} : pte'[c][wa] = pte[c][wa] /\ Perm(c, wa)' = Perm(c, wa)
           /\ \A d \in Proc \ {c} : pte'[d] = pte[d] /\ \A wa \in Va : Perm(d, wa)' = Perm(d, wa)
           /\ pte' \in [Proc -> [Va -> Mapping \cup {None}]]
           /\ \A d \in Proc, wa \in Va : <<d, wa>> # <<c, va>> =>
                 pte'[d][wa] = pte[d][wa] /\ Perm(d, wa)' = Perm(d, wa)
  <1>1. pte'[c][va] = m /\ \A d \in Proc \ {c} : pte'[d] = pte[d]
    BY DEF Types, Sets
  <1>2. \A wa \in Va \ {va} : pte'[c][wa] = pte[c][wa]
    BY DEF Types, Sets
  <1>3. pte' \in [Proc -> [Va -> Mapping \cup {None}]]
    BY DEF Types, Sets
  <1> QED
    BY <1>1, <1>2, <1>3 DEF Perm

LEMMA HandlerMapInv ==
    ASSUME CowInv, NEW e \in Proc, HandlerMap(e)
    PROVE  CowInv'
  <1> DEFINE m == [frame |-> pte[e]["PFTEMP"].frame, perm |-> "W"]
  <1>1. /\ Handling(e, "map") /\ HandlerStep(e, "unmap") /\ mem' = Cleared(mem, pte')
        /\ pte' = [pte EXCEPT ![e][FaultVa(e)] = m] /\ env' = env /\ fork' = fork
    BY DEF HandlerMap
  <1>2. /\ Depth(e) # 0 /\ env[e] = "live" /\ FaultVa(e) \in Va /\ FaultVa(e) \in Copyable
        /\ FaultVa(e) # "xstack" /\ FaultVa(e) # "PFTEMP" /\ FaultVa(e) # "text"
        /\ pte[e]["PFTEMP"] # None /\ pte[e]["xstack"] # None /\ \A va, wa \in Va : ~Moving(e, va, wa)
    BY <1>1, HandlingFacts DEF Copyable
  <1>3. /\ faults' \in [Proc -> Seq(HandlerSteps)] /\ \A d \in Proc \ {e} : faults'[d] = faults[d]
        /\ Depth(e)' = Depth(e) /\ faults'[e][Depth(e)] = "unmap" /\ faults'[e] # <<>>
        /\ Depth(e) = 2 => faults'[e][1] = "return"
    BY <1>1, <1>2, HandlerStepFacts DEF HandlerSteps
  <1>4. m \in Mapping /\ m # None /\ m.frame = pte[e]["PFTEMP"].frame
    BY <1>2, Mapped, Addresses, CowAssumption DEF CowInv, Mapping
  <1>5. Perm(e, "PFTEMP") = "W"
    BY <1>2, Mapped, Addresses DEF CowInv, Perms, PermsOf
  <1>6. /\ pte'[e][FaultVa(e)] = m
        /\ \A d \in Proc \ {e} : pte'[d] = pte[d]
        /\ pte' \in [Proc -> [Va -> Mapping \cup {None}]]
        /\ \A d \in Proc, wa \in Va : <<d, wa>> # <<e, FaultVa(e)>> =>
                 pte'[d][wa] = pte[d][wa] /\ Perm(d, wa)' = Perm(d, wa)
    <2>1. Types /\ m \in Mapping \cup {None} /\ Sets(e, FaultVa(e), m)
      BY <1>1, <1>4 DEF CowInv, Sets
    <2> HIDE DEF m
    <2> QED
      BY <1>2, <2>1, MapFacts
  <1> HIDE DEF m
  <1>7. Perm(e, FaultVa(e))' = "W"
    <2>1. \A va : pte'[e][va] = m => IF pte'[e][va] = None THEN FALSE ELSE pte'[e][va].perm = "W"
      BY <1>4 DEF m
    <2>2. \A va : Perm(e, va)' = IF pte'[e][va] = None THEN None ELSE pte'[e][va].perm
      BY DEF Perm
    <2>3. FaultVa(e)' = FaultVa(e)
      <3>1. XFrame(e) \in Frame /\ pte'[e]["xstack"] = pte[e]["xstack"]
        BY <1>2, <1>6, HandlerOkFacts, Addresses
      <3>2. mem'[XFrame(e)] = mem[XFrame(e)]
        BY <1>1, <1>2, <3>1, Addresses DEF Cleared, XFrame
      <3> QED
        BY <1>3, <3>1, <3>2 DEF FaultVa, XFrame
    <2> QED
      BY <1>6, <2>1, <2>2, <2>3
  <1>8. \A d \in Proc : Depth(d) # 0 => mem'[XFrame(d)] = mem[XFrame(d)]
    <2> SUFFICES ASSUME NEW d \in Proc, Depth(d) # 0 PROVE mem'[XFrame(d)] = mem[XFrame(d)]
      OBVIOUS
    <2>1. XFrame(d) \in Frame /\ pte[d]["xstack"] # None /\ pte'[d]["xstack"] = pte[d]["xstack"]
      BY <1>2, <1>6, HandlerOkFacts, Mapped, Addresses, CowAssumption DEF CowInv
    <2> QED
      BY <1>1, <2>1, Addresses DEF Cleared, XFrame
  <1>9. XFrame(e)' = XFrame(e) /\ FaultVa(e)' = FaultVa(e)
    BY <1>2, <1>3, <1>6, <1>8, Addresses DEF XFrame, FaultVa
  <1>10. \A d \in Proc \ {e} : Undisturbed(d)
    <2>1. Alone(e)
      BY <1>1, <1>3, <1>6, <1>8 DEF Alone
    <2> QED
      BY <1>2, <2>1, OthersOkAlone
  <1>11. Apart'
    <2>1. ASSUME NEW b \in Proc, NEW xa \in Va, <<b, xa>> # <<e, "PFTEMP">>
          PROVE  ~SameFrame(e, "PFTEMP", b, xa)
      <3>1. ~Moving(e, "PFTEMP", xa)
        BY <1>2, Addresses
      <3>2. ~Marking(e, "PFTEMP", b, xa)
        BY DEF CowInv, Forks, ForkOk, Marking, Copyable
      <3> QED
        BY <1>5, <2>1, <3>1, <3>2, Addresses DEF CowInv, Apart
    <2> SUFFICES ASSUME NEW d \in Proc, NEW b \in Proc, NEW wa \in Va, NEW xa \in Va,
                        SameFrame(d, wa, b, xa)', <<d, wa>> # <<b, xa>>, Perm(d, wa)' = "W"
                 PROVE  (d = b /\ Moving(d, wa, xa)') \/ Marking(d, wa, b, xa)'
      BY DEF Apart
    <2>2. Moving(e, FaultVa(e), "PFTEMP")' /\ Moving(e, "PFTEMP", FaultVa(e))'
      BY <1>1, <1>2, <1>3, <1>9 DEF Moving, Handling
    <2>3. CASE <<d, wa>> = <<e, FaultVa(e)>>
      <3>1. SameFrame(e, "PFTEMP", b, xa)
        BY <1>2, <1>4, <1>6, <2>3 DEF SameFrame
      <3>2. b = e /\ xa = "PFTEMP"
        BY <2>1, <3>1
      <3> QED
        BY <1>9, <2>2, <2>3, <3>2
    <2>4. CASE <<b, xa>> = <<e, FaultVa(e)>>
      <3>1. SameFrame(e, "PFTEMP", d, wa)
        BY <1>2, <1>4, <1>6, <2>4 DEF SameFrame
      <3>2. d = e /\ wa = "PFTEMP"
        BY <2>1, <3>1
      <3> QED
        BY <1>9, <2>2, <2>4, <3>2
    <2>5. CASE <<d, wa>> # <<e, FaultVa(e)>> /\ <<b, xa>> # <<e, FaultVa(e)>>
      <3>1. SameFrame(d, wa, b, xa) /\ Perm(d, wa) = "W"
        BY <1>6, <2>5 DEF SameFrame
      <3>2. (d = b /\ Moving(d, wa, xa)) \/ Marking(d, wa, b, xa)
        BY <3>1 DEF CowInv, Apart
      <3>3. Marking(d, wa, b, xa) => Marking(d, wa, b, xa)'
        BY <1>1 DEF Marking, At
      <3> QED
        BY <1>2, <1>10, <3>2, <3>3 DEF Undisturbed
    <2> QED
      BY <2>3, <2>4, <2>5
  <1>12. Types'
    <2>1. mem' \in [Frame -> Val \cup Seq(Va)]
      BY <1>1, CowAssumption DEF Cleared, CowInv, Types
    <2> QED
      BY <1>1, <1>3, <1>6, <2>1 DEF CowInv, Types
  <1>13. Local(e)'
    <2>1. Perm(e, "xstack")' = "W" /\ pte'[e]["PFTEMP"] = pte[e]["PFTEMP"]
      BY <1>2, <1>6, HandlerOkFacts, Addresses
    <2>2. \A va \in Va : va # FaultVa(e) => Perm(e, va)' = Perm(e, va)
      BY <1>6
    <2>3. HandlerOk(e)'
      <3>1. mem'[XFrame(e)'] \in Seq(Copyable) /\ Len(mem'[XFrame(e)']) = Depth(e) /\ Depth(e) \in 1..2
        BY <1>2, <1>8, <1>9, HandlerOkFacts
      <3> QED
        BY <1>2, <1>3, <2>1, <3>1 DEF HandlerOk
    <2>4. ForkOk(e)'
      <3>1. ForkOk(e)
        BY DEF CowInv, Forks
      <3>2. fork[e] # None => Perm(fork[e].child, "xstack")' = Perm(fork[e].child, "xstack")
        BY <1>1, <1>6, ForkFacts DEF Perm
      <3>3. \A va \in Va : pte[e][va] # None => pte'[e][va] # None
        BY <1>4, <1>6
      <3>4. At(e)' = At(e) /\ (At(e) \in Copyable => At(e) \in Va)
        BY <1>1, Addresses DEF At, Copyable
      <3> QED
        BY <1>1, <2>1, <3>1, <3>2, <3>3, <3>4, Addresses DEF ForkOk
    <2>5. PermsOf(e)'
      <3>1. PermsOf(e)
        BY DEF CowInv, Perms
      <3>2. \A va \in Copyable : Perm(e, va)' \in {None, "W", "COW"}
        <4> TAKE va \in Copyable
        <4>1. CASE va = FaultVa(e)
          BY <1>6, <1>7, <1>9, <4>1
        <4>2. CASE va # FaultVa(e)
          BY <2>2, <3>1, <4>2, Addresses DEF PermsOf, Copyable
        <4> QED
          BY <4>1, <4>2
      <3> QED
        BY <1>2, <2>2, <3>1, <3>2, Addresses DEF PermsOf
    <2>6. QuietOf(e)' /\ XStackOf(e)'
      BY <1>1, <1>2, <2>1 DEF QuietOf, XStackOf
    <2> QED
      BY <2>3, <2>4, <2>5, <2>6 DEF Local
  <1> QED
    <2>1. Alone(e)
      BY <1>1, <1>3, <1>6, <1>8 DEF Alone
    <2> QED
      BY <1>1, <1>2, <1>11, <1>12, <1>13, <2>1, AssembleAlone

LEMMA HandlerUnmapInv ==
    ASSUME CowInv, NEW e \in Proc, HandlerUnmap(e)
    PROVE  CowInv'
  <1>1. /\ Handling(e, "unmap") /\ HandlerStep(e, "return") /\ mem' = mem
        /\ pte' = [pte EXCEPT ![e]["PFTEMP"] = None] /\ env' = env /\ fork' = fork
    BY DEF HandlerUnmap
  <1>2. /\ Depth(e) # 0 /\ env[e] = "live" /\ FaultVa(e) \in Va /\ FaultVa(e) # "PFTEMP" /\ FaultVa(e) \in Copyable
    BY <1>1, HandlingFacts DEF Copyable
  <1>3. /\ faults' \in [Proc -> Seq(HandlerSteps)] /\ \A d \in Proc \ {e} : faults'[d] = faults[d]
        /\ Depth(e)' = Depth(e) /\ faults'[e][Depth(e)] = "return" /\ faults'[e] # <<>>
        /\ Depth(e) = 2 => faults'[e][1] = "return"
    BY <1>1, <1>2, HandlerStepFacts DEF HandlerSteps
  <1>4. /\ pte'[e]["PFTEMP"] = None /\ \A d \in Proc \ {e} : pte'[d] = pte[d]
        /\ \A wa \in Va \ {"PFTEMP"} : pte'[e][wa] = pte[e][wa] /\ Perm(e, wa)' = Perm(e, wa)
        /\ pte' \in [Proc -> [Va -> Mapping \cup {None}]]
        /\ \A d \in Proc, wa \in Va : <<d, wa>> # <<e, "PFTEMP">> =>
                 pte'[d][wa] = pte[d][wa] /\ Perm(d, wa)' = Perm(d, wa)
    <2>1. Types /\ "PFTEMP" \in Va /\ Sets(e, "PFTEMP", None)
      BY <1>1, Addresses DEF CowInv, Sets
    <2> QED
      BY <2>1, MapFacts
  <1>5. Perm(e, "PFTEMP")' = None
    BY <1>4 DEF Perm
  <1>6. \A d \in Proc \ {e} : Undisturbed(d)
    <2>1. Alone(e)
      BY <1>1, <1>3, <1>4 DEF Alone
    <2> QED
      BY <1>2, <2>1, OthersOkAlone
  <1>7. Apart'
    <2> SUFFICES ASSUME NEW d \in Proc, NEW b \in Proc, NEW wa \in Va, NEW xa \in Va,
                        SameFrame(d, wa, b, xa)', <<d, wa>> # <<b, xa>>, Perm(d, wa)' = "W"
                 PROVE  (d = b /\ Moving(d, wa, xa)') \/ Marking(d, wa, b, xa)'
      BY DEF Apart
    <2>1. <<d, wa>> # <<e, "PFTEMP">> /\ <<b, xa>> # <<e, "PFTEMP">>
      BY <1>4 DEF SameFrame
    <2>2. SameFrame(d, wa, b, xa) /\ Perm(d, wa) = "W"
      BY <1>4, <2>1 DEF SameFrame
    <2>3. (d = b /\ Moving(d, wa, xa)) \/ Marking(d, wa, b, xa)
      BY <2>2 DEF CowInv, Apart
    <2>4. Marking(d, wa, b, xa) => Marking(d, wa, b, xa)'
      BY <1>1 DEF Marking, At
    <2>5. ~(d = e /\ b = e /\ Moving(e, wa, xa))
      BY <2>1 DEF Moving
    <2> QED
      BY <1>6, <2>3, <2>4, <2>5 DEF Undisturbed
  <1>8. Types'
    BY <1>1, <1>3, <1>4 DEF CowInv, Types
  <1>9. Local(e)'
    <2>1. XFrame(e)' = XFrame(e) /\ Perm(e, "xstack")' = "W"
      BY <1>2, <1>4, HandlerOkFacts, Addresses DEF XFrame
    <2>2. HandlerOk(e)'
      <3>1. mem'[XFrame(e)'] \in Seq(Copyable) /\ Len(mem'[XFrame(e)']) = Depth(e) /\ Depth(e) \in 1..2
        BY <1>1, <1>2, <2>1, HandlerOkFacts
      <3> QED
        BY <1>2, <1>3, <1>4, <2>1, <3>1 DEF HandlerOk
    <2>3. ForkOk(e)'
      <3>1. ForkOk(e)
        BY DEF CowInv, Forks
      <3>2. fork[e] # None => Perm(fork[e].child, "xstack")' = Perm(fork[e].child, "xstack")
        BY <1>1, <1>4, ForkFacts DEF Perm
      <3> QED
        BY <1>1, <1>4, <2>1, <3>1, <3>2, Addresses DEF ForkOk, At, Copyable
    <2>4. PermsOf(e)'
      BY <1>4, <1>5, Addresses DEF CowInv, Perms, PermsOf, Copyable
    <2>5. QuietOf(e)' /\ XStackOf(e)'
      BY <1>1, <1>2, <2>1 DEF QuietOf, XStackOf
    <2> QED
      BY <2>2, <2>3, <2>4, <2>5 DEF Local
  <1> QED
    <2>1. Alone(e)
      BY <1>1, <1>3, <1>4 DEF Alone
    <2> QED
      BY <1>1, <1>2, <1>7, <1>8, <1>9, <2>1, AssembleAlone
LEMMA RunsFacts ==
    ASSUME CowInv, NEW e \in Proc, Runs(e)
    PROVE  /\ env[e] = "live" /\ faults[e] = <<>> /\ Depth(e) = 0 /\ pte[e]["PFTEMP"] = None
           /\ \A va, wa \in Va : ~Moving(e, va, wa)
           /\ Local(e)
  <1>1. env[e] = "live" /\ faults[e] = <<>> /\ Depth(e) = 0
    BY DEF Runs, Depth
  <1>2. \A va, wa \in Va : ~Moving(e, va, wa)
    BY <1>1, NotMoving
  <1>3. Local(e)
    BY DEF CowInv, Quiet, Perms, Forks, Handlers, XStacks, Local
  <1>4. pte[e]["PFTEMP"] = None
    BY <1>1, <1>3 DEF Local, HandlerOk
  <1> QED
    BY <1>1, <1>2, <1>3, <1>4

LEMMA SetHandlerInv ==
    ASSUME CowInv, NEW e \in Proc, SetHandler(e)
    PROVE  CowInv'
  <1>1. /\ fork[e] = None /\ Alloc(e, "xstack", "xstack")
        /\ env' = env /\ fork' = fork /\ faults' = faults
    BY DEF SetHandler
  <1>2. /\ env[e] = "live" /\ faults[e] = <<>> /\ Depth(e) = 0 /\ pte[e]["PFTEMP"] = None
        /\ \A va, wa \in Va : ~Moving(e, va, wa)
        /\ Local(e)
    BY RunsFacts DEF SetHandler
  <1>3. /\ Perm(e, "xstack")' = "W"
        /\ \A wa \in Va \ {"xstack"} : pte'[e][wa] = pte[e][wa] /\ Perm(e, wa)' = Perm(e, wa)
        /\ \A d \in Proc \ {e} : pte'[d] = pte[d]
        /\ pte' \in [Proc -> [Va -> Mapping \cup {None}]]
        /\ mem' \in [Frame -> Val \cup Seq(Va)]
        /\ \A d \in Proc, wa \in Va : pte[d][wa] # None => mem'[pte[d][wa].frame] = mem[pte[d][wa].frame]
    BY <1>1, Addresses, AllocFacts
  <1>4. \A d \in Proc : Depth(d) # 0 => mem'[XFrame(d)] = mem[XFrame(d)]
    BY <1>3, HandlerOkFacts, Addresses, Mapped, CowAssumption DEF XFrame, CowInv
  <1>5. Alone(e)
    BY <1>1, <1>3, <1>4 DEF Alone
  <1>6. Apart'
    <2>1. \A d \in Proc \ {e} : Undisturbed(d)
      BY <1>2, <1>5, OthersOkAlone
    <2>2. \A d \in Proc, wa, xa \in Va : Moving(d, wa, xa) => Moving(d, wa, xa)'
      BY <1>2, <2>1 DEF Undisturbed
    <2>3. \A d, b \in Proc, wa, xa \in Va : Marking(d, wa, b, xa) => Marking(d, wa, b, xa)'
      BY <1>1 DEF Marking, At
    <2> QED
      BY <1>1, <2>2, <2>3, Addresses, AllocApart
  <1>7. Types'
    BY <1>1, <1>3 DEF CowInv, Types
  <1>8. Local(e)'
    <2>1. QuietOf(e)' /\ ForkOk(e)' /\ XStackOf(e)'
      BY <1>1, <1>2, <1>3 DEF QuietOf, ForkOk, XStackOf
    <2>2. PermsOf(e)'
      BY <1>2, <1>3, Addresses DEF Local, PermsOf, Copyable
    <2>3. HandlerOk(e)'
      <3>1. Depth(e)' = 0 /\ pte'[e]["PFTEMP"] = None
        BY <1>1, <1>2, <1>3, Addresses DEF Depth
      <3> QED
        BY <3>1 DEF HandlerOk
    <2> QED
      BY <2>1, <2>2, <2>3 DEF Local
  <1> QED
    BY <1>1, <1>2, <1>5, <1>6, <1>7, <1>8, AssembleAlone

LEMMA SysExoforkInv ==
    ASSUME CowInv, NEW e \in Proc, NEW c \in Proc, SysExofork(e, c)
    PROVE  CowInv'
  <1>1. /\ fork[e] = None /\ Perm(e, "xstack") # None /\ env[c] = "free"
        /\ env' = [env EXCEPT ![c] = "made"]
        /\ fork' = [fork EXCEPT ![e] = [child |-> c, at |-> 1, step |-> "look"]]
        /\ pte' = pte /\ mem' = mem /\ faults' = faults
    BY DEF SysExofork
  <1>2. /\ env[e] = "live" /\ faults[e] = <<>> /\ Depth(e) = 0 /\ Local(e) /\ c # e
        /\ \A va, wa \in Va : ~Moving(e, va, wa)
    BY <1>1, RunsFacts DEF SysExofork
  <1>3. [child |-> c, at |-> 1, step |-> "look"] \in ForkCall
    BY DEF ForkCall, ForkSteps
  <1>4. /\ fork'[e] = [child |-> c, at |-> 1, step |-> "look"] /\ env'[c] = "made" /\ env'[e] = "live"
        /\ \A d \in Proc \ {e} : fork'[d] = fork[d] /\ faults'[d] = faults[d]
        /\ \A d \in Proc \ {e, c} : pte'[d] = pte[d] /\ env'[d] = env[d]
    BY <1>1, <1>2 DEF CowInv, Types
  <1>5. \A d \in Proc, va \in Va : Perm(d, va)' = Perm(d, va)
    BY <1>1 DEF Perm
  <1>6. \A d \in Proc \ {e} : fork[d] # None => fork[d].child # c
    BY <1>1, ForkFacts
  <1>7. Touches(e, c)
    BY <1>1, <1>4, <1>6 DEF Touches
  <1>8. Types'
    BY <1>1, <1>3 DEF CowInv, Types
  <1>9. Apart'
    <2> SUFFICES ASSUME NEW d \in Proc, NEW b \in Proc, NEW wa \in Va, NEW xa \in Va,
                        SameFrame(d, wa, b, xa)', <<d, wa>> # <<b, xa>>, Perm(d, wa)' = "W"
                 PROVE  (d = b /\ Moving(d, wa, xa)') \/ Marking(d, wa, b, xa)'
      BY DEF Apart
    <2>1. SameFrame(d, wa, b, xa) /\ Perm(d, wa) = "W"
      BY <1>1, <1>5 DEF SameFrame
    <2>2. d # c
      BY <1>1, <2>1 DEF SameFrame, CowInv, Quiet, QuietOf
    <2>3. (d = b /\ Moving(d, wa, xa)) \/ Marking(d, wa, b, xa)
      BY <2>1 DEF CowInv, Apart
    <2>4. d # e
      BY <1>1, <1>2, <2>3 DEF Marking
    <2>5. \A x \in Proc \ {e, c} : Undisturbed(x)
      BY <1>2, <1>7, OthersOk
    <2> QED
      BY <2>2, <2>3, <2>4, <2>5 DEF Undisturbed
  <1>10. Local(c)'
    <2>1. /\ fork[c] = None /\ faults[c] = <<>> /\ PermsOf(c) /\ \A va \in Va : pte[c][va] = None
      BY <1>1, <1>2 DEF CowInv, Quiet, QuietOf, Perms
    <2>2. QuietOf(c)' /\ ForkOk(c)' /\ XStackOf(c)'
      BY <1>1, <1>2, <1>4, <2>1 DEF QuietOf, ForkOk, XStackOf
    <2>3. PermsOf(c)'
      BY <1>5, <2>1, Addresses DEF PermsOf, Copyable
    <2>4. HandlerOk(c)'
      <3>1. Depth(c)' = 0 /\ pte'[c]["PFTEMP"] = None
        BY <1>1, <2>1, Addresses DEF Depth
      <3> QED
        BY <3>1 DEF HandlerOk
    <2> QED
      BY <2>2, <2>3, <2>4 DEF Local
  <1>11. Local(e)'
    <2>1. QuietOf(e)' /\ XStackOf(e)' /\ PermsOf(e)'
      BY <1>1, <1>2, <1>4, <1>5, Addresses DEF Local, QuietOf, XStackOf, PermsOf, Copyable
    <2>2. ForkOk(e)'
      <3>1. Perm(e, "xstack") = "W"
        BY <1>1, <1>2 DEF Local, PermsOf
      <3> QED
        BY <1>4, <1>5, <3>1, Addresses DEF ForkOk, LoopSteps
    <2>3. HandlerOk(e)'
      BY <1>1, <1>2 DEF Local, HandlerOk, Depth, XFrame, FaultVa, Perm
    <2> QED
      BY <2>1, <2>2, <2>3 DEF Local
  <1> QED
    BY <1>2, <1>4, <1>7, <1>8, <1>9, <1>10, <1>11, Assemble

(* The calls fork makes when it looks at a page.                           *)
LEMMA ForkingFacts ==
    ASSUME CowInv, NEW e \in Proc, NEW step, Forking(e, step)
    PROVE  /\ Runs(e) /\ fork[e] # None /\ fork[e].step = step
           /\ fork[e] \in ForkCall /\ fork[e].child \in Proc /\ fork[e].child # e
           /\ env[fork[e].child] = "made" /\ Perm(e, "xstack") = "W"
           /\ \A d \in Proc \ {e} : fork[d] # None => fork[d].child # fork[e].child
           /\ step \in LoopSteps <=> fork[e].at \in 1..5
           /\ step \in LoopSteps => At(e) \in Va
  BY ForkFacts DEF Forking

LEMMA NextPageFacts ==
    ASSUME NEW f \in ForkCall, f.at \in 1..5
    PROVE  /\ NextPage(f) \in ForkCall /\ NextPage(f).child = f.child
           /\ NextPage(f).at = f.at + 1 /\ NextPage(f).step = (IF f.at = 5 THEN "xstack" ELSE "look")
           /\ NextPage(f).step \in LoopSteps <=> NextPage(f).at \in 1..5
  <1>1. NextPage(f).child = f.child
    BY DEF NextPage, ForkCall
  <1>2. NextPage(f).at = f.at + 1
    BY DEF NextPage, ForkCall
  <1>3. NextPage(f).step = (IF f.at = 5 THEN "xstack" ELSE "look")
    BY DEF NextPage, ForkCall
  <1>4. NextPage(f) \in ForkCall
    <2> DEFINE step == IF f.at = 5 THEN "xstack" ELSE "look"
    <2>1. NextPage(f) = [f EXCEPT !.at = f.at + 1, !.step = step]
      BY DEF NextPage
    <2>2. f.at + 1 \in 1..6 /\ step \in ForkSteps
      BY DEF ForkSteps
    <2> HIDE DEF step
    <2> QED
      BY <2>1, <2>2 DEF ForkCall
  <1> QED
    BY <1>1, <1>2, <1>3, <1>4 DEF LoopSteps

LEMMA LookInv ==
    ASSUME CowInv, NEW e \in Proc, Look(e)
    PROVE  CowInv'
  <1>1. /\ Forking(e, "look") /\ env' = env /\ pte' = pte /\ mem' = mem /\ faults' = faults
    BY DEF Look
  <1>2. /\ Runs(e) /\ fork[e] # None /\ fork[e].step = "look"
        /\ fork[e] \in ForkCall /\ fork[e].at \in 1..5 /\ At(e) \in Va
        /\ env[fork[e].child] = "made" /\ Perm(e, "xstack") = "W"
    BY <1>1, ForkingFacts DEF LoopSteps
  <1>3. /\ env[e] = "live" /\ faults[e] = <<>> /\ pte[e]["PFTEMP"] = None /\ Local(e)
        /\ \A va, wa \in Va : ~Moving(e, va, wa)
    BY <1>2, RunsFacts
  <1>4. /\ \A d \in Proc, va \in Va : Perm(d, va)' = Perm(d, va)
    BY <1>1 DEF Perm
  <1>5. /\ fork'[e] \in ForkCall /\ fork'[e].child = fork[e].child
        /\ fork'[e].step \in LoopSteps <=> fork'[e].at \in 1..5
        /\ fork'[e].step \in {"map", "mark"} => At(e)' \in Copyable /\ pte[e][At(e)'] # None
        /\ fork'[e].step = "share" => At(e)' = "text" /\ pte[e][At(e)'] # None
        /\ fork'[e].step # "start"
        /\ fork' = [fork EXCEPT ![e] = fork'[e]]
    <2>1. CASE pte[e][At(e)] = None \/ At(e) = "xstack"
      <3>1. fork' = [fork EXCEPT ![e] = NextPage(@)]
        <4>1. ~(At(e) # "xstack" /\ Perm(e, At(e)) \in {"W", "COW"})
          BY <2>1, CowAssumption DEF Perm
        <4> QED
          BY <2>1, <4>1 DEF Look
      <3>2. fork'[e] = NextPage(fork[e]) /\ fork' = [fork EXCEPT ![e] = fork'[e]]
        BY <3>1 DEF CowInv, Types
      <3> QED
        BY <1>2, <3>2, NextPageFacts
    <2>2. CASE At(e) # "xstack" /\ Perm(e, At(e)) \in {"W", "COW"}
      <3>1. Perm(e, At(e)) # None /\ pte[e][At(e)] # None
        BY <1>2, <2>2, Mapped, CowAssumption DEF CowInv
      <3>2. fork' = [fork EXCEPT ![e].step = "map"]
        BY <2>2, <3>1 DEF Look, ForkStep
      <3>3. fork'[e] = [fork[e] EXCEPT !.step = "map"] /\ fork' = [fork EXCEPT ![e] = fork'[e]]
        BY <3>2 DEF CowInv, Types
      <3>4. fork'[e] \in ForkCall /\ fork'[e].child = fork[e].child /\ fork'[e].at = fork[e].at /\ fork'[e].step = "map"
        BY <1>2, <3>3 DEF ForkCall, ForkSteps
      <3>5. At(e)' = At(e)
        BY <3>4 DEF At
      <3>6. At(e) \in Copyable
        BY <1>2, <1>3, <2>2, <3>1, Addresses DEF Local, PermsOf, Copyable
      <3> QED
        BY <1>2, <3>1, <3>3, <3>4, <3>5, <3>6 DEF LoopSteps
    <2>3. CASE /\ ~(pte[e][At(e)] = None \/ At(e) = "xstack")
               /\ ~(At(e) # "xstack" /\ Perm(e, At(e)) \in {"W", "COW"})
      <3>2. fork' = [fork EXCEPT ![e].step = "share"]
        BY <2>3 DEF Look, ForkStep
      <3>3. fork'[e] = [fork[e] EXCEPT !.step = "share"] /\ fork' = [fork EXCEPT ![e] = fork'[e]]
        BY <3>2 DEF CowInv, Types
      <3>4. fork'[e] \in ForkCall /\ fork'[e].child = fork[e].child /\ fork'[e].at = fork[e].at /\ fork'[e].step = "share"
        BY <1>2, <3>3 DEF ForkCall, ForkSteps
      <3>5. At(e)' = At(e)
        BY <3>4 DEF At
      <3>6. Perm(e, At(e)) # None
        BY <1>2, <2>3, Mapped DEF CowInv
      <3>7. At(e) = "text"
        BY <1>2, <1>3, <2>3, <3>6, Addresses DEF Local, PermsOf, Copyable
      <3> QED
        BY <1>2, <2>3, <3>3, <3>4, <3>5, <3>7 DEF LoopSteps
    <2> QED
      BY <2>1, <2>2, <2>3
  <1>6. fork' \in [Proc -> {None} \cup ForkCall] /\ \A d \in Proc \ {e} : fork'[d] = fork[d]
    <2> DEFINE F == fork'[e]
    <2>1. F \in ForkCall /\ fork' = [fork EXCEPT ![e] = F]
      BY <1>5
    <2> HIDE DEF F
    <2> QED
      BY <2>1 DEF CowInv, Types
  <1>7. Alone(e)
    BY <1>1, <1>6 DEF Alone
  <1>8. Apart'
    <2> SUFFICES ASSUME NEW d \in Proc, NEW b \in Proc, NEW wa \in Va, NEW xa \in Va,
                        SameFrame(d, wa, b, xa)', <<d, wa>> # <<b, xa>>, Perm(d, wa)' = "W"
                 PROVE  (d = b /\ Moving(d, wa, xa)') \/ Marking(d, wa, b, xa)'
      BY DEF Apart
    <2>1. SameFrame(d, wa, b, xa) /\ Perm(d, wa) = "W"
      BY <1>1, <1>4 DEF SameFrame
    <2>2. (d = b /\ Moving(d, wa, xa)) \/ Marking(d, wa, b, xa)
      BY <2>1 DEF CowInv, Apart
    <2>3. d # e
      BY <1>2, <1>3, <2>2 DEF Marking
    <2> QED
      BY <1>3, <1>7, <2>2, <2>3, OthersOkAlone DEF Undisturbed
  <1>9. Types'
    BY <1>1, <1>6 DEF CowInv, Types
  <1>10. Local(e)'
    <2>1. QuietOf(e)' /\ XStackOf(e)' /\ PermsOf(e)'
      BY <1>1, <1>3, <1>4, Addresses DEF Local, QuietOf, XStackOf, PermsOf, Copyable
    <2>2. ForkOk(e)'
      BY <1>1, <1>2, <1>4, <1>5, Addresses DEF ForkOk
    <2>3. HandlerOk(e)'
      BY <1>1, <1>3 DEF Local, HandlerOk, Depth, XFrame, FaultVa, Perm
    <2> QED
      BY <2>1, <2>2, <2>3 DEF Local
  <1> QED
    BY <1>2, <1>3, <1>5, <1>7, <1>8, <1>9, <1>10, AssembleAlone
(* The step of fork that follows one of duppage's calls.                   *)
LEMMA ForkStepFacts ==
    ASSUME CowInv, NEW e \in Proc, fork[e] # None, NEW step \in ForkSteps, ForkStep(e, step)
    PROVE  /\ fork' \in [Proc -> {None} \cup ForkCall] /\ \A d \in Proc \ {e} : fork'[d] = fork[d]
           /\ fork'[e] \in ForkCall /\ fork'[e].child = fork[e].child /\ fork'[e].at = fork[e].at
           /\ fork'[e].step = step
  <1>1. fork[e] \in ForkCall
    BY DEF CowInv, Types
  <1>2. fork'[e] = [fork[e] EXCEPT !.step = step] /\ \A d \in Proc \ {e} : fork'[d] = fork[d]
    BY DEF ForkStep, CowInv, Types
  <1>3. fork'[e] \in ForkCall /\ fork'[e].child = fork[e].child /\ fork'[e].at = fork[e].at /\ fork'[e].step = step
    BY <1>1, <1>2 DEF ForkCall
  <1>4. fork' \in [Proc -> {None} \cup ForkCall]
    BY <1>3 DEF ForkStep, CowInv, Types
  <1> QED
    BY <1>2, <1>3, <1>4

LEMMA ForkNextFacts ==
    ASSUME CowInv, NEW e \in Proc, fork[e] # None, fork[e].at \in 1..5,
           fork' = [fork EXCEPT ![e] = NextPage(@)]
    PROVE  /\ fork' \in [Proc -> {None} \cup ForkCall] /\ \A d \in Proc \ {e} : fork'[d] = fork[d]
           /\ fork'[e] \in ForkCall /\ fork'[e].child = fork[e].child
           /\ fork'[e].step \in LoopSteps <=> fork'[e].at \in 1..5
           /\ fork'[e].step \in {"look", "xstack"}
  <1>1. fork[e] \in ForkCall
    BY DEF CowInv, Types
  <1>2. fork'[e] = NextPage(fork[e]) /\ \A d \in Proc \ {e} : fork'[d] = fork[d]
    BY DEF CowInv, Types
  <1>3. /\ fork'[e] \in ForkCall /\ fork'[e].child = fork[e].child
        /\ fork'[e].step \in LoopSteps <=> fork'[e].at \in 1..5
        /\ fork'[e].step \in {"look", "xstack"}
    BY <1>1, <1>2, NextPageFacts
  <1>4. fork' \in [Proc -> {None} \cup ForkCall]
    <2> DEFINE F == fork'[e]
    <2>1. F \in ForkCall /\ fork' = [fork EXCEPT ![e] = F]
      BY <1>2, <1>3 DEF CowInv, Types
    <2> HIDE DEF F
    <2> QED
      BY <2>1 DEF CowInv, Types
  <1> QED
    BY <1>2, <1>3, <1>4

(* A call of fork that maps a page in the child, read-only or to be copied.*)
LEMMA ChildMapped ==
    ASSUME CowInv, NEW e \in Proc, NEW step \in {"map", "share"}, Forking(e, step),
           NEW perm \in {"RO", "COW"}, perm = "COW" <=> step = "map", MapChild(e, perm),
           NEW c \in Proc, c = fork[e].child, NEW at \in Va, at = At(e),
           env' = env, mem' = mem, faults' = faults,
           fork' \in [Proc -> {None} \cup ForkCall], \A d \in Proc \ {e} : fork'[d] = fork[d],
           fork'[e] \in ForkCall, fork'[e].child = fork[e].child,
           fork'[e].step \in LoopSteps <=> fork'[e].at \in 1..5,
           fork'[e].step \in {"mark", "look", "xstack"},
           fork'[e].step = "mark" <=> step = "map", fork'[e].step = "mark" => fork'[e].at = fork[e].at
    PROVE  CowInv'
  <1> DEFINE m == [frame |-> pte[e][at].frame, perm |-> perm]
  <1>1. /\ Runs(e) /\ fork[e] # None /\ fork[e].step = step /\ fork[e].at \in 1..5
        /\ c \in Proc /\ c # e /\ env[c] = "made" /\ Perm(e, "xstack") = "W"
        /\ \A d \in Proc \ {e} : fork[d] # None => fork[d].child # c
    BY ForkingFacts DEF LoopSteps
  <1>2. /\ env[e] = "live" /\ faults[e] = <<>> /\ Depth(e) = 0 /\ pte[e]["PFTEMP"] = None /\ Local(e)
        /\ \A va, wa \in Va : ~Moving(e, va, wa)
    BY <1>1, RunsFacts
  <1>3. /\ step = "map" => at \in Copyable
        /\ step = "share" => at = "text"
        /\ at # "xstack" /\ at # "PFTEMP"
    BY <1>1, <1>2 DEF Local, ForkOk, Copyable
  <1>4. fork[c] = None /\ faults[c] = <<>> /\ Depth(c) = 0 /\ Local(c) /\ pte[c]["PFTEMP"] = None
    <2>1. Local(c)
      BY <1>1 DEF CowInv, Quiet, Perms, Forks, Handlers, XStacks, Local
    <2>2. fork[c] = None /\ faults[c] = <<>> /\ Depth(c) = 0
      BY <1>1, <2>1 DEF Local, QuietOf, Depth
    <2> QED
      BY <2>1, <2>2 DEF Local, HandlerOk
  <1>5. m \in Mapping /\ m # None /\ m.frame = pte[e][at].frame /\ m.perm = perm /\ pte[e][at] # None
    <2>1. pte[e][at] # None
      BY <1>1, <1>2 DEF Local, ForkOk
    <2> QED
      BY <1>1, <2>1, Mapped, CowAssumption DEF CowInv, Mapping
  <1>6. /\ pte'[c][at] = m
        /\ \A wa \in Va \ {at} : pte'[c][wa] = pte[c][wa] /\ Perm(c, wa)' = Perm(c, wa)
        /\ \A d \in Proc \ {c} : pte'[d] = pte[d] /\ \A wa \in Va : Perm(d, wa)' = Perm(d, wa)
        /\ pte' \in [Proc -> [Va -> Mapping \cup {None}]]
        /\ \A d \in Proc, wa \in Va : <<d, wa>> # <<c, at>> =>
                 pte'[d][wa] = pte[d][wa] /\ Perm(d, wa)' = Perm(d, wa)
    <2>1. Types /\ m \in Mapping \cup {None} /\ Sets(c, at, m)
      BY <1>5 DEF CowInv, Sets, MapChild
    <2> HIDE DEF m
    <2> QED
      BY <1>1, <2>1, MapFacts
  <1> HIDE DEF m
  <1>7. \A d \in Proc, va \in Va : Perm(d, va)' = IF pte'[d][va] = None THEN None ELSE pte'[d][va].perm
    BY DEF Perm
  <1>8. \A va \in Va : va = at => Perm(c, va)' = perm
    BY <1>1, <1>5, <1>6, <1>7
  <1>9. Touches(e, c)
    BY <1>1, <1>6 DEF Touches
  <1>10. Types'
    BY <1>6 DEF CowInv, Types
  <1>11. At(e)' = at \/ fork'[e].step # "mark"
    BY DEF At
  <1>12. Apart'
    <2> SUFFICES ASSUME NEW d \in Proc, NEW b \in Proc, NEW wa \in Va, NEW xa \in Va,
                        SameFrame(d, wa, b, xa)', <<d, wa>> # <<b, xa>>, Perm(d, wa)' = "W"
                 PROVE  (d = b /\ Moving(d, wa, xa)') \/ Marking(d, wa, b, xa)'
      BY DEF Apart
    <2>1. <<d, wa>> # <<c, at>>
      BY <1>8
    <2>2. Perm(d, wa) = "W"
      BY <1>6, <2>1
    <2>3. CASE <<b, xa>> = <<c, at>>
      <3>1. SameFrame(d, wa, e, at)
        BY <1>1, <1>5, <1>6, <2>1, <2>3 DEF SameFrame
      <3>2. CASE <<d, wa>> = <<e, at>>
        <4>1. step = "map"
          BY <1>2, <1>3, <2>2, <3>2, CowAssumption DEF Local, PermsOf
        <4>2. fork'[e] # None /\ fork'[e].child = c /\ fork'[e].step = "mark" /\ At(e)' = at
          BY <1>1, <1>11, <4>1, CowAssumption
        <4> QED
          BY <2>3, <3>2, <4>2 DEF Marking
      <3>3. CASE <<d, wa>> # <<e, at>>
        <4>1. (d = e /\ Moving(d, wa, at)) \/ Marking(d, wa, e, at)
          BY <1>1, <2>2, <3>1, <3>3 DEF CowInv, Apart
        <4>2. ~Marking(d, wa, e, at)
          BY <1>2, ForkFacts DEF Marking
        <4> QED
          BY <1>1, <1>2, <4>1, <4>2
      <3> QED
        BY <3>2, <3>3
    <2>4. CASE <<b, xa>> # <<c, at>>
      <3>1. SameFrame(d, wa, b, xa)
        BY <1>6, <2>1, <2>4 DEF SameFrame
      <3>2. (d = b /\ Moving(d, wa, xa)) \/ Marking(d, wa, b, xa)
        BY <2>2, <2>4, <3>1 DEF CowInv, Apart
      <3>3. d # e
        BY <1>1, <1>2, <3>2 DEF Marking
      <3>4. d # c
        BY <1>1, <1>4, <3>2, NotMoving DEF Marking
      <3> QED
        BY <1>2, <1>9, <3>2, <3>3, <3>4, OthersOk DEF Undisturbed
    <2> QED
      BY <2>3, <2>4
  <1>13. Local(e)'
    <2>1. QuietOf(e)' /\ XStackOf(e)' /\ PermsOf(e)'
      BY <1>1, <1>2, <1>6, Addresses DEF Local, QuietOf, XStackOf, PermsOf, Copyable
    <2>2. ForkOk(e)'
      <3>1. At(e)' = at \/ fork'[e].step \in {"look", "xstack"}
        BY <1>11
      <3>2. env'[fork'[e].child] = "made" /\ Perm(e, "xstack")' = "W"
        BY <1>1, <1>6, Addresses
      <3>3. fork'[e].step = "mark" => At(e)' \in Copyable /\ pte'[e][At(e)'] # None
        BY <1>1, <1>3, <1>5, <1>6, <1>11
      <3> QED
        BY <3>2, <3>3 DEF ForkOk
    <2>3. HandlerOk(e)'
      <3>1. Depth(e)' = 0 /\ pte'[e]["PFTEMP"] = None
        BY <1>1, <1>2, <1>6 DEF Depth
      <3> QED
        BY <3>1 DEF HandlerOk
    <2> QED
      BY <2>1, <2>2, <2>3 DEF Local
  <1>14. Local(c)'
    <2>1. QuietOf(c)' /\ XStackOf(c)' /\ ForkOk(c)'
      BY <1>1, <1>4 DEF QuietOf, XStackOf, ForkOk
    <2>2. PermsOf(c)'
      <3>1. PermsOf(c) /\ \A va \in Va \ {at} : Perm(c, va)' = Perm(c, va)
        BY <1>4, <1>6 DEF Local
      <3>2. CASE step = "map"
        <4>1. perm = "COW" /\ at \in Copyable
          BY <1>3, <3>2
        <4> QED
          BY <1>8, <3>1, <4>1, Addresses DEF PermsOf, Copyable
      <3>3. CASE step = "share"
        <4>1. perm = "RO" /\ at = "text"
          BY <1>3, <3>3
        <4> QED
          BY <1>8, <3>1, <4>1, Addresses DEF PermsOf, Copyable
      <3> QED
        BY <3>2, <3>3
    <2>3. HandlerOk(c)'
      <3>1. Depth(c)' = 0 /\ pte'[c]["PFTEMP"] = None
        BY <1>1, <1>3, <1>4, <1>6, Addresses DEF Depth
      <3> QED
        BY <3>1 DEF HandlerOk
    <2> QED
      BY <2>1, <2>2, <2>3 DEF Local
  <1> QED
    <2>1. fork'[e].child = c
      OBVIOUS
    <2> QED
      BY <1>2, <1>9, <1>10, <1>12, <1>13, <1>14, <2>1, Assemble

LEMMA DupMapInv ==
    ASSUME CowInv, NEW e \in Proc, DupMap(e)
    PROVE  CowInv'
  <1>1. Forking(e, "map") /\ MapChild(e, "COW") /\ ForkStep(e, "mark") /\ env' = env /\ mem' = mem /\ faults' = faults
    BY DEF DupMap
  <1>2. fork[e] # None /\ fork[e].child \in Proc /\ At(e) \in Va /\ fork[e].at \in 1..5
    BY <1>1, ForkingFacts DEF LoopSteps
  <1>3. /\ fork' \in [Proc -> {None} \cup ForkCall] /\ \A d \in Proc \ {e} : fork'[d] = fork[d]
        /\ fork'[e] \in ForkCall /\ fork'[e].child = fork[e].child /\ fork'[e].at = fork[e].at
        /\ fork'[e].step = "mark"
    BY <1>1, <1>2, ForkStepFacts DEF ForkSteps
  <1>4. fork'[e].step \in LoopSteps <=> fork'[e].at \in 1..5
    BY <1>2, <1>3 DEF LoopSteps
  <1> QED
    BY <1>1, <1>2, <1>3, <1>4, ChildMapped

LEMMA DupShareInv ==
    ASSUME CowInv, NEW e \in Proc, DupShare(e)
    PROVE  CowInv'
  <1>1. /\ Forking(e, "share") /\ MapChild(e, "RO") /\ fork' = [fork EXCEPT ![e] = NextPage(@)]
        /\ env' = env /\ mem' = mem /\ faults' = faults
    BY DEF DupShare
  <1>2. fork[e] # None /\ fork[e].child \in Proc /\ At(e) \in Va /\ fork[e].at \in 1..5
    BY <1>1, ForkingFacts DEF LoopSteps
  <1>3. /\ fork' \in [Proc -> {None} \cup ForkCall] /\ \A d \in Proc \ {e} : fork'[d] = fork[d]
        /\ fork'[e] \in ForkCall /\ fork'[e].child = fork[e].child
        /\ fork'[e].step \in LoopSteps <=> fork'[e].at \in 1..5
        /\ fork'[e].step \in {"look", "xstack"}
    BY <1>1, <1>2, ForkNextFacts
  <1> QED
    BY <1>1, <1>2, <1>3, ChildMapped

LEMMA DupMarkInv ==
    ASSUME CowInv, NEW e \in Proc, DupMark(e)
    PROVE  CowInv'
  <1>1. /\ Forking(e, "mark") /\ pte' = [pte EXCEPT ![e][At(e)].perm = "COW"]
        /\ fork' = [fork EXCEPT ![e] = NextPage(@)] /\ env' = env /\ mem' = mem /\ faults' = faults
    BY DEF DupMark
  <1> DEFINE m == [pte[e][At(e)] EXCEPT !.perm = "COW"]
  <1>2. /\ Runs(e) /\ fork[e] # None /\ fork[e].step = "mark" /\ fork[e].child # e
        /\ env[fork[e].child] = "made" /\ Perm(e, "xstack") = "W" /\ fork[e].at \in 1..5
    BY <1>1, ForkingFacts DEF LoopSteps
  <1>3. /\ env[e] = "live" /\ faults[e] = <<>> /\ pte[e]["PFTEMP"] = None /\ Local(e)
        /\ \A va, wa \in Va : ~Moving(e, va, wa)
    BY <1>2, RunsFacts
  <1>4. PICK at \in Copyable : at = At(e) /\ at \in Va /\ at # "xstack" /\ at # "PFTEMP" /\ at # "text" /\ pte[e][at] # None
    BY <1>2, <1>3, Addresses DEF Local, ForkOk, Copyable
  <1>5. m \in Mapping /\ m # None /\ m.frame = pte[e][at].frame /\ m.perm = "COW"
    <2>1. pte[e][at] \in Mapping
      BY <1>4, Mapped DEF CowInv
    <2> QED
      BY <1>4, <2>1, CowAssumption DEF Mapping
  <1>6. /\ pte'[e][at] = m
        /\ \A wa \in Va \ {at} : pte'[e][wa] = pte[e][wa] /\ Perm(e, wa)' = Perm(e, wa)
        /\ \A d \in Proc \ {e} : pte'[d] = pte[d] /\ \A wa \in Va : Perm(d, wa)' = Perm(d, wa)
        /\ pte' \in [Proc -> [Va -> Mapping \cup {None}]]
        /\ \A d \in Proc, wa \in Va : <<d, wa>> # <<e, at>> =>
                 pte'[d][wa] = pte[d][wa] /\ Perm(d, wa)' = Perm(d, wa)
    <2>1. Types /\ m \in Mapping \cup {None} /\ Sets(e, at, m)
      BY <1>1, <1>4, <1>5 DEF CowInv, Sets, Types
    <2> HIDE DEF m
    <2> QED
      BY <1>4, <2>1, MapFacts
  <1> HIDE DEF m
  <1>7. Perm(e, at)' = "COW"
    BY <1>4, <1>5, <1>6 DEF Perm
  <1>8. /\ fork' \in [Proc -> {None} \cup ForkCall] /\ \A d \in Proc \ {e} : fork'[d] = fork[d]
        /\ fork'[e] \in ForkCall /\ fork'[e].child = fork[e].child
        /\ fork'[e].step \in LoopSteps <=> fork'[e].at \in 1..5
        /\ fork'[e].step \in {"look", "xstack"}
    BY <1>1, <1>2, ForkNextFacts
  <1>9. Alone(e)
    BY <1>1, <1>6, <1>8 DEF Alone
  <1>10. Types'
    BY <1>1, <1>6, <1>8 DEF CowInv, Types
  <1>11. Apart'
    <2> SUFFICES ASSUME NEW d \in Proc, NEW b \in Proc, NEW wa \in Va, NEW xa \in Va,
                        SameFrame(d, wa, b, xa)', <<d, wa>> # <<b, xa>>, Perm(d, wa)' = "W"
                 PROVE  (d = b /\ Moving(d, wa, xa)') \/ Marking(d, wa, b, xa)'
      BY DEF Apart
    <2>1. <<d, wa>> # <<e, at>>
      BY <1>7
    <2>2. SameFrame(d, wa, b, xa) /\ Perm(d, wa) = "W"
      BY <1>4, <1>5, <1>6, <2>1 DEF SameFrame
    <2>3. (d = b /\ Moving(d, wa, xa)) \/ Marking(d, wa, b, xa)
      BY <2>2 DEF CowInv, Apart
    <2>4. d # e
      BY <1>3, <1>4, <2>1, <2>3 DEF Marking
    <2> QED
      BY <1>3, <1>9, <2>3, <2>4, OthersOkAlone DEF Undisturbed
  <1>12. Local(e)'
    <2>1. Perm(e, "xstack")' = "W"
      BY <1>2, <1>4, <1>6, Addresses
    <2>2. QuietOf(e)' /\ XStackOf(e)'
      BY <1>1, <1>3, <2>1 DEF QuietOf, XStackOf
    <2>3. PermsOf(e)'
      BY <1>3, <1>4, <1>6, <1>7, Addresses DEF Local, PermsOf, Copyable
    <2>4. ForkOk(e)'
      BY <1>1, <1>2, <1>8, <2>1 DEF ForkOk
    <2>5. HandlerOk(e)'
      <3>1. Depth(e)' = 0 /\ pte'[e]["PFTEMP"] = None
        BY <1>1, <1>3, <1>4, <1>6, Addresses DEF Depth
      <3> QED
        BY <3>1 DEF HandlerOk
    <2> QED
      BY <2>2, <2>3, <2>4, <2>5 DEF Local
  <1> QED
    BY <1>2, <1>3, <1>8, <1>9, <1>10, <1>11, <1>12, AssembleAlone

(* The child gets an exception stack of its own.                           *)
LEMMA GiveXStackInv ==
    ASSUME CowInv, NEW e \in Proc, GiveXStack(e)
    PROVE  CowInv'
  <1>1. /\ Forking(e, "xstack") /\ Alloc(fork[e].child, "xstack", "xstack") /\ ForkStep(e, "start")
        /\ env' = env /\ faults' = faults
    BY DEF GiveXStack
  <1>2. /\ Runs(e) /\ fork[e] # None /\ fork[e].step = "xstack" /\ fork[e].at \notin 1..5 /\ Perm(e, "xstack") = "W"
    BY <1>1, ForkingFacts DEF LoopSteps
  <1>3. PICK c \in Proc : /\ c = fork[e].child /\ c # e /\ env[c] = "made" /\ Alloc(c, "xstack", "xstack")
                          /\ \A d \in Proc \ {e} : fork[d] # None => fork[d].child # c
    BY <1>1, ForkingFacts
  <1>4. /\ env[e] = "live" /\ faults[e] = <<>> /\ pte[e]["PFTEMP"] = None /\ Local(e)
        /\ \A va, wa \in Va : ~Moving(e, va, wa)
    BY <1>2, RunsFacts
  <1>5. fork[c] = None /\ faults[c] = <<>> /\ Depth(c) = 0 /\ Local(c) /\ pte[c]["PFTEMP"] = None
    <2>1. Local(c)
      BY DEF CowInv, Quiet, Perms, Forks, Handlers, XStacks, Local
    <2>2. fork[c] = None /\ faults[c] = <<>> /\ Depth(c) = 0
      BY <1>3, <2>1 DEF Local, QuietOf, Depth
    <2> QED
      BY <2>1, <2>2 DEF Local, HandlerOk
  <1>6. /\ Perm(c, "xstack")' = "W"
        /\ \A wa \in Va \ {"xstack"} : pte'[c][wa] = pte[c][wa] /\ Perm(c, wa)' = Perm(c, wa)
        /\ \A d \in Proc \ {c} : pte'[d] = pte[d]
        /\ pte' \in [Proc -> [Va -> Mapping \cup {None}]]
        /\ mem' \in [Frame -> Val \cup Seq(Va)]
        /\ \A d \in Proc, wa \in Va : pte[d][wa] # None => mem'[pte[d][wa].frame] = mem[pte[d][wa].frame]
    BY <1>3, Addresses, AllocFacts
  <1>7. \A d \in Proc : Depth(d) # 0 => mem'[XFrame(d)] = mem[XFrame(d)]
    BY <1>6, HandlerOkFacts, Addresses, Mapped, CowAssumption DEF XFrame, CowInv
  <1>8. /\ fork' \in [Proc -> {None} \cup ForkCall] /\ \A d \in Proc \ {e} : fork'[d] = fork[d]
        /\ fork'[e] \in ForkCall /\ fork'[e].child = c /\ fork'[e].at = fork[e].at
        /\ fork'[e].step = "start"
    BY <1>1, <1>2, <1>3, ForkStepFacts DEF ForkSteps
  <1>9. Touches(e, c)
    BY <1>1, <1>3, <1>6, <1>7, <1>8 DEF Touches
  <1>10. Apart'
    <2>1. \A d \in Proc, wa, xa \in Va : Moving(d, wa, xa) => Moving(d, wa, xa)'
      BY <1>4, <1>5, <1>9, NotMoving, OthersOk DEF Undisturbed
    <2>2. \A d, b \in Proc, wa, xa \in Va : Marking(d, wa, b, xa) => Marking(d, wa, b, xa)'
      BY <1>2, <1>4, <1>5, <1>9, OthersOk DEF Undisturbed, Marking
    <2> QED
      BY <1>3, <2>1, <2>2, Addresses, AllocApart
  <1>11. Types'
    BY <1>1, <1>6, <1>8 DEF CowInv, Types
  <1>12. Local(e)'
    <2>1. \A va \in Va : Perm(e, va)' = Perm(e, va)
      BY <1>3, <1>6 DEF Perm
    <2>2. QuietOf(e)' /\ XStackOf(e)' /\ PermsOf(e)'
      BY <1>1, <1>2, <1>4, <2>1, Addresses DEF Local, QuietOf, XStackOf, PermsOf, Copyable
    <2>3. ForkOk(e)'
      <3>1. env'[fork'[e].child] = "made" /\ Perm(e, "xstack")' = "W"
        BY <1>1, <1>2, <1>3, <1>8, <2>1, Addresses
      <3>2. Perm(fork[e].child, "xstack")' = "W"
        BY <1>3, <1>6, <1>8
      <3> QED
        BY <1>2, <1>8, <3>1, <3>2 DEF ForkOk, LoopSteps
    <2>4. HandlerOk(e)'
      <3>1. Depth(e)' = 0 /\ pte'[e]["PFTEMP"] = None
        BY <1>1, <1>3, <1>4, <1>6 DEF Depth
      <3> QED
        BY <3>1 DEF HandlerOk
    <2> QED
      BY <2>2, <2>3, <2>4 DEF Local
  <1>13. Local(c)'
    <2>1. QuietOf(c)' /\ XStackOf(c)' /\ ForkOk(c)'
      BY <1>1, <1>3, <1>5, <1>8 DEF QuietOf, XStackOf, ForkOk
    <2>2. PermsOf(c)'
      BY <1>5, <1>6, Addresses DEF Local, PermsOf, Copyable
    <2>3. HandlerOk(c)'
      <3>1. Depth(c)' = 0 /\ pte'[c]["PFTEMP"] = None
        BY <1>1, <1>5, <1>6, Addresses DEF Depth
      <3> QED
        BY <3>1 DEF HandlerOk
    <2> QED
      BY <2>1, <2>2, <2>3 DEF Local
  <1> QED
    <2>1. fork'[e].child = c /\ env[e] = "live"
      BY <1>4, <1>8
    <2> QED
      BY <1>9, <1>10, <1>11, <1>12, <1>13, <2>1, Assemble

LEMMA StartInv ==
    ASSUME CowInv, NEW e \in Proc, Start(e)
    PROVE  CowInv'
  <1>1. /\ Forking(e, "start") /\ env' = [env EXCEPT ![fork[e].child] = "live"]
        /\ fork' = [fork EXCEPT ![e] = None] /\ pte' = pte /\ mem' = mem /\ faults' = faults
    BY DEF Start
  <1>2. /\ Runs(e) /\ fork[e] # None /\ fork[e].step = "start" /\ Perm(e, "xstack") = "W"
    BY <1>1, ForkingFacts
  <1>3. /\ env[e] = "live" /\ faults[e] = <<>> /\ pte[e]["PFTEMP"] = None /\ Local(e)
        /\ \A va, wa \in Va : ~Moving(e, va, wa)
    BY <1>2, RunsFacts
  <1>4. PICK c \in Proc : /\ c = fork[e].child /\ c # e /\ env[c] = "made" /\ Perm(c, "xstack") = "W"
                          /\ \A d \in Proc \ {e} : fork[d] # None => fork[d].child # c
    <2>1. Perm(fork[e].child, "xstack") = "W"
      BY <1>2, <1>3 DEF Local, ForkOk
    <2> QED
      BY <1>1, <2>1, ForkingFacts
  <1>5. fork[c] = None /\ faults[c] = <<>> /\ Local(c)
    <2>1. Local(c)
      BY DEF CowInv, Quiet, Perms, Forks, Handlers, XStacks, Local
    <2> QED
      BY <1>4, <2>1 DEF Local, QuietOf
  <1>6. /\ fork'[e] = None /\ \A d \in Proc \ {e} : fork'[d] = fork[d] /\ faults'[d] = faults[d]
        /\ env'[c] = "live" /\ \A d \in Proc \ {c} : env'[d] = env[d]
        /\ \A d \in Proc, va \in Va : Perm(d, va)' = Perm(d, va)
    BY <1>1, <1>4 DEF CowInv, Types, Perm
  <1>7. Touches(e, c)
    BY <1>1, <1>4, <1>6 DEF Touches
  <1>8. \A d \in Proc \ {e, c} : Undisturbed(d)
    BY <1>3, <1>7, OthersOk
  <1>9. Types'
    BY <1>1 DEF CowInv, Types
  <1>10. Apart'
    <2> SUFFICES ASSUME NEW d \in Proc, NEW b \in Proc, NEW wa \in Va, NEW xa \in Va,
                        SameFrame(d, wa, b, xa)', <<d, wa>> # <<b, xa>>, Perm(d, wa)' = "W"
                 PROVE  (d = b /\ Moving(d, wa, xa)') \/ Marking(d, wa, b, xa)'
      BY DEF Apart
    <2>1. SameFrame(d, wa, b, xa) /\ Perm(d, wa) = "W"
      BY <1>1, <1>6 DEF SameFrame
    <2>2. (d = b /\ Moving(d, wa, xa)) \/ Marking(d, wa, b, xa)
      BY <2>1 DEF CowInv, Apart
    <2>3. d # e
      BY <1>2, <1>3, <2>2 DEF Marking
    <2>4. d # c
      BY <1>5, <2>2 DEF Marking, Moving, Handling
    <2> QED
      BY <1>8, <2>2, <2>3, <2>4 DEF Undisturbed
  <1>11. ASSUME NEW d \in {e, c} PROVE Local(d)'
    <2>1. d \in Proc /\ Local(d) /\ faults[d] = <<>> /\ env'[d] = "live" /\ fork'[d] = None /\ Perm(d, "xstack") = "W"
      BY <1>2, <1>3, <1>4, <1>5, <1>6
    <2>2. QuietOf(d)' /\ ForkOk(d)' /\ XStackOf(d)' /\ PermsOf(d)'
      BY <1>1, <1>6, <2>1, Addresses DEF Local, QuietOf, ForkOk, XStackOf, PermsOf, Copyable
    <2>3. HandlerOk(d)'
      BY <1>1, <2>1 DEF Local, HandlerOk, Depth, XFrame, FaultVa, Perm
    <2> QED
      BY <2>2, <2>3 DEF Local
  <1> QED
    <2>1. Local(e)' /\ Local(c)' /\ fork'[e] = None /\ env[e] = "live"
      BY <1>3, <1>6, <1>11
    <2> QED
      BY <1>7, <1>9, <1>10, <2>1, Assemble

-----------------------------------------------------------------------------
LEMMA HandlerOfNone ==
    ASSUME NEW e \in Proc, pte[e]["PFTEMP"] = None, Depth(e) = 0
    PROVE  HandlerOk(e)
  BY DEF HandlerOk

LEMMA InitInv == Init => CowInv
  <1> SUFFICES ASSUME Init PROVE CowInv
    OBVIOUS
  <1>1. PICK f \in [UserPage -> Frame] :
            /\ \A v, w \in UserPage : f[v] = f[w] => v = w
            /\ pte = [e \in Proc |->
                      IF e = First
                      THEN [va \in Va |-> IF va \notin UserPage THEN None
                                          ELSE [frame |-> f[va], perm |-> IF va = "text" THEN "RO" ELSE "W"]]
                      ELSE Unmapped]
    BY DEF Init
  <1>2. /\ env = [e \in Proc |-> IF e = First THEN "live" ELSE "free"]
        /\ mem = [x \in Frame |-> Zero] /\ fork = [e \in Proc |-> None] /\ faults = [e \in Proc |-> <<>>]
    BY DEF Init
  <1>3. \A e \in Proc : /\ fork[e] = None /\ faults[e] = <<>> /\ Depth(e) = 0
                        /\ env[e] = IF e = First THEN "live" ELSE "free"
    BY <1>2 DEF Depth
  <1>4. \A e \in Proc, va \in Va : e # First \/ va \notin UserPage => pte[e][va] = None /\ Perm(e, va) = None
    BY <1>1, Addresses DEF Unmapped, Perm
  <1>5. \A va \in UserPage : /\ pte[First][va] = [frame |-> f[va], perm |-> IF va = "text" THEN "RO" ELSE "W"]
                             /\ pte[First][va] \in Mapping
                             /\ Perm(First, va) = IF va = "text" THEN "RO" ELSE "W"
    <2> SUFFICES ASSUME NEW va \in UserPage
                 PROVE  /\ pte[First][va] = [frame |-> f[va], perm |-> IF va = "text" THEN "RO" ELSE "W"]
                        /\ pte[First][va] \in Mapping
                        /\ Perm(First, va) = IF va = "text" THEN "RO" ELSE "W"
      OBVIOUS
    <2>1. pte[First][va] = [frame |-> f[va], perm |-> IF va = "text" THEN "RO" ELSE "W"]
      BY <1>1, CowAssumption, Addresses DEF UserPage
    <2>2. pte[First][va] \in Mapping
      BY <2>1 DEF Mapping
    <2> QED
      BY <2>1, <2>2, CowAssumption DEF Perm
  <1>f. \A va \in UserPage : pte[First][va].frame = f[va]
    <2> TAKE va \in UserPage
    <2>1. pte[First][va] = [frame |-> f[va], perm |-> IF va = "text" THEN "RO" ELSE "W"]
      BY <1>5
    <2> QED
      BY <2>1
  <1>6. Types
    <2>1. \A e \in Proc : pte[e] \in [Va -> Mapping \cup {None}]
      <3> TAKE e \in Proc
      <3>1. \A va \in Va : pte[e][va] \in Mapping \cup {None}
        BY <1>4, <1>5
      <3>2. pte[e] = [va \in Va |-> pte[e][va]]
        BY <1>1 DEF Unmapped
      <3> QED
        BY <3>1, <3>2
    <2>2. pte \in [Proc -> [Va -> Mapping \cup {None}]]
      BY <1>1, <2>1
    <2>3. mem \in [Frame -> Val \cup Seq(Va)]
      BY <1>2, CowAssumption
    <2>4. env \in [Proc -> {"free", "made", "live"}] /\ fork \in [Proc -> {None} \cup ForkCall]
      BY <1>2
    <2>5. faults \in [Proc -> Seq(HandlerSteps)]
      BY <1>2
    <2> QED
      BY <2>2, <2>3, <2>4, <2>5 DEF Types
  <1>7. Quiet
    BY <1>3, <1>4 DEF Quiet, QuietOf
  <1>8. Perms
    BY <1>4, <1>5, Addresses DEF Perms, PermsOf, Copyable, UserPage
  <1>9. Forks
    BY <1>3 DEF Forks, ForkOk
  <1>10. Handlers
    <2>1. \A e \in Proc : pte[e]["PFTEMP"] = None /\ Depth(e) = 0
      BY <1>3, <1>4, Addresses DEF UserPage
    <2> QED
      BY <2>1, HandlerOfNone DEF Handlers
  <1>11. XStacks
    BY <1>4, <1>5, CowAssumption DEF XStacks, XStackOf
  <1>12. Apart
    <2> SUFFICES ASSUME NEW e \in Proc, NEW d \in Proc, NEW va \in Va, NEW wa \in Va,
                        SameFrame(e, va, d, wa), <<e, va>> # <<d, wa>>
                 PROVE  FALSE
      BY DEF Apart
    <2>1. e = First /\ d = First /\ va \in UserPage /\ wa \in UserPage
      BY <1>4 DEF SameFrame
    <2>2. f[va] = f[wa]
      <3>1. pte[First][va].frame = pte[First][wa].frame
        BY <2>1 DEF SameFrame
      <3> QED
        BY <1>f, <2>1, <3>1
    <2>3. \A v, w \in UserPage : f[v] = f[w] => v = w
      BY <1>1
    <2>4. va = wa
      BY <2>1, <2>2, <2>3
    <2> QED
      BY <2>1, <2>4
  <1> QED
    BY <1>6, <1>7, <1>8, <1>9, <1>10, <1>11, <1>12 DEF CowInv

LEMMA NextInv == CowInv /\ [Next]_vars => CowInv'
  <1> SUFFICES ASSUME CowInv, [Next]_vars PROVE CowInv'
    OBVIOUS
  <1>1. CASE UNCHANGED vars
    <2>1. UNCHANGED <<env, pte, mem, fork, faults>>
      BY <1>1 DEF vars
    <2>2. Types' /\ Quiet' /\ Perms' /\ XStacks'
      BY <2>1 DEF CowInv, Types, Quiet, QuietOf, Perms, PermsOf, XStacks, XStackOf, Perm
    <2>3. Forks'
      BY <2>1 DEF CowInv, Forks, ForkOk, Perm, At
    <2>4. Handlers'
      BY <2>1 DEF CowInv, Handlers, HandlerOk, Perm, Depth, XFrame, FaultVa
    <2>5. Apart'
      <3>1. \A e, d \in Proc, va, wa \in Va :
               /\ SameFrame(e, va, d, wa)' = SameFrame(e, va, d, wa) /\ Perm(e, va)' = Perm(e, va)
               /\ Marking(e, va, d, wa)' = Marking(e, va, d, wa)
        BY <2>1 DEF SameFrame, Perm, Marking, At
      <3>2. \A e \in Proc, va, wa \in Va : Moving(e, va, wa)' = Moving(e, va, wa)
        BY <2>1 DEF Moving, Handling, Depth, XFrame, FaultVa
      <3> QED
        BY <3>1, <3>2 DEF CowInv, Apart
    <2> QED
      BY <2>2, <2>3, <2>4, <2>5 DEF CowInv
  <1>2. CASE Next
    <2>1. PICK e \in Proc :
             \/ Exit(e) \/ SetHandler(e)
             \/ \E va \in UserPage, v \in Val : Store(e, va, v)
             \/ HandlerAlloc(e) \/ HandlerCopy(e) \/ HandlerMap(e) \/ HandlerUnmap(e) \/ HandlerReturn(e)
             \/ \E c \in Proc : SysExofork(e, c)
             \/ Look(e) \/ DupMap(e) \/ DupMark(e) \/ DupShare(e) \/ GiveXStack(e) \/ Start(e)
      BY <1>2 DEF Next
    <2> QED
      BY <2>1, ExitInv, SetHandlerInv, StoreInv, HandlerAllocInv, HandlerCopyInv, HandlerMapInv, HandlerUnmapInv,
         HandlerReturnInv, SysExoforkInv, LookInv, DupMapInv, DupMarkInv, DupShareInv, GiveXStackInv, StartInv
  <1> QED
    BY <1>1, <1>2

(* The invariant the others rest on: what handlers and forks in progress   *)
(* rely on while other environments run.                                   *)
THEOREM ForkInvariant == Spec => []CowInv
  BY InitInv, NextInv, PTL DEF Spec

(* Whatever the number of environments, the page faults in the middle of a *)
(* fork and the forks of forked environments: no page that two of them map *)
(* can be written by either, and every fault on one will be handled.       *)
THEOREM ForkSharesReadOnly == Spec => []SharedIsReadOnly
  <1>1. CowInv => SharedIsReadOnly
    BY DEF CowInv, Apart, XStacks, XStackOf, SharedIsReadOnly
  <1> QED
    BY <1>1, ForkInvariant, PTL

-----------------------------------------------------------------------------
(* What the refinement needs beyond CowInv. An environment that runs has   *)
(* all its pages; a child that is being made has those that fork has been  *)
(* through; and until the handler has moved its copy, it is a true copy,   *)
(* however long ago it was made.                                           *)
Full(e) == env[e] = "live" => \A va \in UserPage : pte[e][va] # None

ChildPages(e) ==
    fork[e] # None => \A i \in 2..4 :
        pte[fork[e].child][Scan[i]] # None <=> i < fork[e].at \/ (i = fork[e].at /\ fork[e].step = "mark")

CopyOf(e) == Handling(e, "map") => mem[pte[e]["PFTEMP"].frame] = mem[pte[e][FaultVa(e)].frame]

PrivateOf(e) == Full(e) /\ ChildPages(e) /\ CopyOf(e)
Private == \A e \in Proc : PrivateOf(e)

(* These pages of d are mapped as they were, and hold what they held.      *)
Kept(d, pages) ==
    \A va \in pages : /\ pte'[d][va] = pte[d][va]
                      /\ pte[d][va] # None => mem'[pte[d][va].frame] = mem[pte[d][va].frame]

(* A step of e, or of e and the child c, which nobody else makes.          *)
Confined(e, c) ==
    /\ \A d \in Proc \ {e} : /\ fork'[d] = fork[d] /\ faults'[d] = faults[d]
                             /\ fork[d] # None => fork[d].child # c
    /\ \A d \in Proc \ {e, c} : env'[d] = env[d] /\ pte'[d] = pte[d] /\ Kept(d, Va)
    /\ c # e => env[c] # "live"

LEMMA ConfinedFacts ==
    ASSUME NEW e, NEW c, Confined(e, c), NEW d \in Proc \ {e, c}
    PROVE  /\ fork'[d] = fork[d] /\ faults'[d] = faults[d]
           /\ env'[d] = env[d] /\ pte'[d] = pte[d] /\ Kept(d, Va)
           /\ fork[d] # None => fork[d].child # c
  <1>1. d \in Proc \ {e}
    OBVIOUS
  <1>2. fork'[d] = fork[d] /\ faults'[d] = faults[d] /\ (fork[d] # None => fork[d].child # c)
    BY <1>1 DEF Confined
  <1>3. env'[d] = env[d] /\ pte'[d] = pte[d] /\ Kept(d, Va)
    BY DEF Confined
  <1> QED
    BY <1>2, <1>3

LEMMA KeptUser ==
    ASSUME NEW d, Kept(d, Va)
    PROVE  Kept(d, UserPage)
  <1>1. UserPage \subseteq Va
    BY Addresses DEF UserPage
  <1> QED
    BY <1>1 DEF Kept

LEMMA MemoryKept ==
    ASSUME Private, NEW d \in Proc, env'[d] = env[d], Kept(d, UserPage)
    PROVE  Memories'[d] = Memories[d] /\ Full(d)'
  <1>1. Memories[d] = IF env[d] = "live" THEN [va \in UserPage |-> mem[pte[d][va].frame]] ELSE None
    BY DEF Memories, Contents
  <1>2. Memories'[d] = IF env'[d] = "live" THEN [va \in UserPage |-> mem'[pte'[d][va].frame]] ELSE None
    BY DEF Memories, Contents
  <1>3. Full(d)
    BY DEF Private, PrivateOf
  <1>4. env[d] = "live" => \A va \in UserPage : mem'[pte'[d][va].frame] = mem[pte[d][va].frame]
    BY <1>3 DEF Full, Kept
  <1>5. Full(d)'
    BY <1>3 DEF Full, Kept
  <1> QED
    BY <1>1, <1>2, <1>4, <1>5

(* A call of fork whose child's and whose own pages stay as they are.      *)
LEMMA ImageKept ==
    ASSUME NEW d \in Proc, fork[d] # None, fork'[d] # None, NEW c \in Proc,
           fork[d].child = c, fork'[d].child = c, Kept(d, UserPage), Kept(c, UserPage)
    PROVE  Copied(d)' = Copied(d) /\ Images'[d] = Images[d]
  <1>1. ASSUME NEW va \in UserPage
        PROVE  Perm(d, va)' = Perm(d, va) /\ SameFrame(d, va, c, va)' = SameFrame(d, va, c, va)
    BY DEF Perm, SameFrame, Kept
  <1>2. \A va \in UserPage : pte'[c][va] = pte[c][va]
    BY DEF Kept
  <1>3. Copied(d)' = Copied(d)
    <2>1. Copied(d) = {va \in UserPage : pte[c][va] # None /\ ~(SameFrame(d, va, c, va) /\ Perm(d, va) = "W")}
      BY DEF Copied
    <2>2. Copied(d)' = {va \in UserPage : pte'[c][va] # None /\ ~(SameFrame(d, va, c, va)' /\ Perm(d, va)' = "W")}
      BY DEF Copied
    <2> QED
      BY <1>1, <1>2, <2>1, <2>2
  <1>4. Images[d] = [va \in Copied(d) |-> mem[pte[c][va].frame]]
    BY DEF Images, Contents
  <1>5. Images'[d] = [va \in Copied(d)' |-> mem'[pte'[c][va].frame]]
    BY DEF Images, Contents
  <1>6. \A va \in Copied(d) : mem'[pte'[c][va].frame] = mem[pte[c][va].frame]
    BY DEF Copied, Kept
  <1> QED
    BY <1>3, <1>4, <1>5, <1>6

LEMMA CopyKept ==
    ASSUME CowInv, Private, NEW d \in Proc, env'[d] = env[d], faults'[d] = faults[d], pte'[d] = pte[d], Kept(d, Va)
    PROVE  CopyOf(d)'
  <1> SUFFICES ASSUME Handling(d, "map")'
               PROVE  mem'[pte'[d]["PFTEMP"].frame] = mem'[pte'[d][FaultVa(d)'].frame]
    BY DEF CopyOf
  <1>1. Handling(d, "map")
    BY DEF Handling, Depth
  <1>2. /\ FaultVa(d) \in Va /\ pte[d]["xstack"] # None /\ pte[d]["PFTEMP"] # None
        /\ pte[d][FaultVa(d)] # None
    BY <1>1, HandlingFacts
  <1>3. FaultVa(d)' = FaultVa(d)
    BY <1>2, Addresses DEF Kept, FaultVa, XFrame, Depth
  <1>4. CopyOf(d)
    BY DEF Private, PrivateOf
  <1> QED
    BY <1>1, <1>2, <1>3, <1>4, Addresses DEF CopyOf, Kept

(* Nobody else notices such a step.                                        *)
LEMMA OthersPrivate ==
    ASSUME CowInv, Private, NEW e \in Proc, NEW c \in Proc, env[e] = "live", Confined(e, c),
           NEW d \in Proc \ {e, c}
    PROVE  PrivateOf(d)' /\ Memories'[d] = Memories[d] /\ Images'[d] = Images[d]
  <1>1. /\ fork'[d] = fork[d] /\ faults'[d] = faults[d] /\ env'[d] = env[d] /\ pte'[d] = pte[d] /\ Kept(d, Va)
        /\ fork[d] # None => fork[d].child # c
    BY ConfinedFacts
  <1>2. Kept(d, UserPage)
    BY <1>1, KeptUser
  <1>3. Memories'[d] = Memories[d] /\ Full(d)'
    BY <1>1, <1>2, MemoryKept
  <1>4. CopyOf(d)'
    BY <1>1, CopyKept
  <1>5. CASE fork[d] = None
    <2>1. Images'[d] = Images[d] /\ ChildPages(d)'
      BY <1>1, <1>5 DEF Images, ChildPages
    <2> QED
      BY <1>3, <1>4, <2>1 DEF PrivateOf
  <1>6. CASE fork[d] # None
    <2>1. PICK b \in Proc : b = fork[d].child
      BY <1>6, ForkFacts
    <2>2. b # c /\ b # e
      BY <1>1, <1>6, <2>1, ForkFacts
    <2>3. Kept(b, Va)
      BY <2>2, ConfinedFacts
    <2>4. Kept(b, UserPage)
      BY <2>3, KeptUser
    <2>5. Images'[d] = Images[d]
      BY <1>1, <1>2, <1>6, <2>1, <2>4, ImageKept
    <2>6. ChildPages(d)
      BY DEF Private, PrivateOf
    <2>7. \A i \in 2..4 : Scan[i] \in Va
      BY DEF Va
    <2>8. ChildPages(d)'
      BY <1>1, <2>1, <2>3, <2>6, <2>7 DEF ChildPages, Kept
    <2> QED
      BY <1>3, <1>4, <2>5, <2>8 DEF PrivateOf
  <1> QED
    BY <1>5, <1>6

(* A child that is not started by the step has no memory and no call.      *)
LEMMA ChildPrivate ==
    ASSUME CowInv, NEW e \in Proc, NEW c \in Proc \ {e}, Confined(e, c), env'[c] # "live"
    PROVE  PrivateOf(c)' /\ Memories'[c] = Memories[c] /\ Images'[c] = Images[c]
  <1>1. env[c] # "live" /\ fork'[c] = fork[c] /\ faults'[c] = faults[c]
    BY DEF Confined
  <1>2. fork[c] = None
    BY <1>1 DEF CowInv, Quiet, QuietOf
  <1>3. PrivateOf(c)'
    BY <1>1, <1>2 DEF PrivateOf, Full, ChildPages, CopyOf, Handling
  <1>4. Memories'[c] = Memories[c]
    BY <1>1 DEF Memories
  <1>5. Images'[c] = Images[c]
    BY <1>1, <1>2 DEF Images
  <1> QED
    BY <1>3, <1>4, <1>5

LEMMA OthersAlike ==
    ASSUME CowInv, Private, NEW e \in Proc, NEW c \in Proc, env[e] = "live", Confined(e, c),
           c # e => env'[c] # "live", PrivateOf(e)'
    PROVE  /\ Private'
           /\ \A d \in Proc \ {e} : Memories'[d] = Memories[d] /\ Images'[d] = Images[d]
  <1>1. ASSUME NEW d \in Proc \ {e}
        PROVE  PrivateOf(d)' /\ Memories'[d] = Memories[d] /\ Images'[d] = Images[d]
    <2>1. CASE d = c
      BY <2>1, ChildPrivate
    <2>2. CASE d # c
      BY <2>2, OthersPrivate
    <2> QED
      BY <2>1, <2>2
  <1> QED
    BY <1>1 DEF Private

LEMMA WholeMaps ==
    /\ DOMAIN Memories = Proc /\ DOMAIN Images = Proc
    /\ DOMAIN Memories' = Proc /\ DOMAIN Images' = Proc
    /\ Memories = [p \in Proc |-> Memories[p]] /\ Images = [p \in Proc |-> Images[p]]
    /\ Memories' = [p \in Proc |-> Memories'[p]] /\ Images' = [p \in Proc |-> Images'[p]]
  BY DEF Memories, Images

(* What is shown of every step.                                            *)
Simulated == Private' /\ (UNCHANGED Abstract!pmVars \/ Abstract!Next)

LEMMA Stutters ==
    ASSUME Private', NEW e \in Proc,
           \A d \in Proc \ {e} : Memories'[d] = Memories[d] /\ Images'[d] = Images[d],
           Memories'[e] = Memories[e], Images'[e] = Images[e]
    PROVE  Simulated
  <1>1. \A d \in Proc : Memories'[d] = Memories[d] /\ Images'[d] = Images[d]
    OBVIOUS
  <1>2. Memories' = Memories /\ Images' = Images
    BY <1>1, WholeMaps, Zenon
  <1> QED
    BY <1>2 DEF Simulated, Abstract!pmVars

(* A step of e by itself that leaves its pages, its child's and fork.      *)
LEMMA SamePages ==
    ASSUME CowInv, Private, NEW e \in Proc, env[e] = "live",
           env' = env, fork' = fork, \A d \in Proc \ {e} : faults'[d] = faults[d],
           \A d \in Proc \ {e} : pte'[d] = pte[d] /\ Kept(d, Va),
           Kept(e, UserPage), CopyOf(e)'
    PROVE  Simulated
  <1>1. \A d \in Proc \ {e} : fork[d] # None => fork[d].child # e
    BY ForkFacts
  <1>2. Confined(e, e)
    BY <1>1 DEF Confined
  <1>3. Memories'[e] = Memories[e] /\ Full(e)'
    BY MemoryKept
  <1>4. Images'[e] = Images[e] /\ ChildPages(e)'
    <2>1. CASE fork[e] = None
      BY <2>1 DEF Images, ChildPages
    <2>2. CASE fork[e] # None
      <3>1. PICK b \in Proc : b = fork[e].child /\ b # e
        BY <2>2, ForkFacts
      <3>2. Kept(b, Va) /\ pte'[b] = pte[b]
        BY <3>1
      <3>3. Kept(b, UserPage)
        BY <3>2, KeptUser
      <3>4. Images'[e] = Images[e]
        BY <2>2, <3>1, <3>3, ImageKept
      <3>5. ChildPages(e)
        BY DEF Private, PrivateOf
      <3>6. ChildPages(e)'
        BY <3>1, <3>2, <3>5 DEF ChildPages
      <3> QED
        BY <3>4, <3>6
    <2> QED
      BY <2>1, <2>2
  <1>5. PrivateOf(e)'
    BY <1>3, <1>4 DEF PrivateOf
  <1>6. /\ Private'
        /\ \A d \in Proc \ {e} : Memories'[d] = Memories[d] /\ Images'[d] = Images[d]
    BY <1>2, <1>5, OthersAlike
  <1> QED
    BY <1>3, <1>4, <1>6, Stutters

-----------------------------------------------------------------------------
(* What is stored in a page that e may write to is seen there only, and by *)
(* the child that fork is about to mark it for.                            *)
LEMMA WrittenThere ==
    ASSUME CowInv, NEW e \in Proc, NEW va \in Va, Perm(e, va) = "W",
           \A va1, wa1 \in Va : ~Moving(e, va1, wa1),
           NEW x, mem' = [mem EXCEPT ![pte[e][va].frame] = x]
    PROVE  \A d \in Proc, wa \in Va :
              pte[d][wa] # None /\ (d # e \/ wa # va) /\ ~(Marking(e, va, d, wa) /\ SameFrame(e, va, d, wa))
                 => mem'[pte[d][wa].frame] = mem[pte[d][wa].frame]
  <1> SUFFICES ASSUME NEW d \in Proc, NEW wa \in Va, pte[d][wa] # None, d # e \/ wa # va,
                      ~(Marking(e, va, d, wa) /\ SameFrame(e, va, d, wa))
               PROVE  mem'[pte[d][wa].frame] = mem[pte[d][wa].frame]
    OBVIOUS
  <1>1. pte[e][va] # None
    BY Mapped, CowAssumption DEF CowInv
  <1>2. ~SameFrame(e, va, d, wa)
    BY DEF CowInv, Apart
  <1>3. pte[d][wa].frame # pte[e][va].frame /\ pte[d][wa].frame \in Frame
    BY <1>1, <1>2, Mapped DEF SameFrame, CowInv
  <1> QED
    BY <1>3 DEF CowInv, Types

(* The pages that fork does not copy.                                      *)
LEMMA WrittenOutside ==
    ASSUME CowInv, NEW e \in Proc, NEW va \in {"PFTEMP", "xstack"}, Perm(e, va) = "W",
           \A va1, wa1 \in Va : ~Moving(e, va1, wa1),
           NEW x, mem' = [mem EXCEPT ![pte[e][va].frame] = x]
    PROVE  \A d \in Proc, wa \in Va : pte[d][wa] # None /\ (d # e \/ wa # va)
              => mem'[pte[d][wa].frame] = mem[pte[d][wa].frame]
  <1>1. va \in Va
    BY Addresses
  <1>2. \A d \in Proc, wa \in Va : ~Marking(e, va, d, wa)
    BY DEF CowInv, Forks, ForkOk, Marking, Copyable
  <1>3. \A d \in Proc, wa \in Va :
              pte[d][wa] # None /\ (d # e \/ wa # va) /\ ~(Marking(e, va, d, wa) /\ SameFrame(e, va, d, wa))
                 => mem'[pte[d][wa].frame] = mem[pte[d][wa].frame]
    BY <1>1, WrittenThere
  <1> QED
    BY <1>2, <1>3

LEMMA WriteOutsideSimulated ==
    ASSUME CowInv, Private, NEW e \in Proc, env[e] = "live",
           NEW va \in {"PFTEMP", "xstack"}, Perm(e, va) = "W",
           \A va1, wa1 \in Va : ~Moving(e, va1, wa1),
           NEW x, mem' = [mem EXCEPT ![pte[e][va].frame] = x],
           env' = env, fork' = fork, pte' = pte, \A d \in Proc \ {e} : faults'[d] = faults[d],
           CopyOf(e)'
    PROVE  Simulated
  <1>0. \A d \in Proc, wa \in Va : pte[d][wa] # None /\ (d # e \/ wa # va)
              => mem'[pte[d][wa].frame] = mem[pte[d][wa].frame]
    BY WrittenOutside
  <1>1. \A d \in Proc \ {e} : Kept(d, Va)
    BY <1>0 DEF Kept
  <1>2. \A wa \in UserPage : wa \in Va /\ wa # va
    BY Addresses DEF UserPage
  <1>3. Kept(e, UserPage)
    BY <1>0, <1>2 DEF Kept
  <1> QED
    BY <1>1, <1>3, SamePages

LEMMA PageFaultSimulated ==
    ASSUME CowInv, Private, NEW e \in Proc, NEW va \in Copyable, env[e] = "live",
           Perm(e, "xstack") = "W", Depth(e) = 0 \/ (Depth(e) = 1 /\ faults[e][1] = "return"), PageFault(e, va)
    PROVE  Simulated
  <1> DEFINE x == IF faults[e] = <<>> THEN <<va>> ELSE Append(mem[XFrame(e)], va)
  <1>1. /\ mem' = [mem EXCEPT ![pte[e]["xstack"].frame] = x]
        /\ faults' = [faults EXCEPT ![e] = Append(@, "alloc")]
        /\ env' = env /\ pte' = pte /\ fork' = fork
    BY DEF PageFault, XFrame
  <1> HIDE DEF x
  <1>2. faults[e] \in Seq(HandlerSteps) /\ faults \in [Proc -> Seq(HandlerSteps)]
    BY DEF CowInv, Types
  <1>3. \A d \in Proc \ {e} : faults'[d] = faults[d]
    BY <1>1, <1>2
  <1>4. faults'[e] = Append(faults[e], "alloc")
    BY <1>1, <1>2
  <1>5. faults'[e][Len(faults'[e])] = "alloc"
    BY <1>2, <1>4
  <1>6. CopyOf(e)'
    BY <1>5 DEF CopyOf, Handling, Depth
  <1>7. \A va1, wa1 \in Va : ~Moving(e, va1, wa1)
    BY NotMoving
  <1> QED
    BY <1>1, <1>3, <1>6, <1>7, WriteOutsideSimulated

LEMMA HandlerCopySimulated ==
    ASSUME CowInv, Private, NEW e \in Proc, HandlerCopy(e)
    PROVE  Simulated
  <1> DEFINE x == mem[pte[e][FaultVa(e)].frame]
  <1>1. /\ Handling(e, "copy") /\ HandlerStep(e, "map")
        /\ mem' = [mem EXCEPT ![pte[e]["PFTEMP"].frame] = x]
        /\ env' = env /\ pte' = pte /\ fork' = fork
    BY DEF HandlerCopy
  <1>2. /\ Depth(e) # 0 /\ env[e] = "live" /\ FaultVa(e) \in Va /\ FaultVa(e) \in Copyable
        /\ pte[e][FaultVa(e)] # None /\ pte[e]["PFTEMP"] # None /\ pte[e]["xstack"] # None
        /\ \A va, wa \in Va : ~Moving(e, va, wa)
    BY <1>1, HandlingFacts
  <1>3. \A d \in Proc \ {e} : faults'[d] = faults[d]
    BY <1>1, <1>2, HandlerStepFacts DEF HandlerSteps
  <1>4. Depth(e)' = Depth(e)
    BY <1>1, <1>2, HandlerStepFacts DEF HandlerSteps
  <1>5. Perm(e, "PFTEMP") = "W" /\ pte[e]["PFTEMP"].frame \in Frame
    BY <1>2, Mapped, Addresses DEF CowInv, Perms, PermsOf
  <1>6. mem'[pte[e]["xstack"].frame] = mem[pte[e]["xstack"].frame]
    BY <1>1, <1>2, <1>5, Addresses, WrittenOutside
  <1>7. FaultVa(e)' = FaultVa(e)
    BY <1>1, <1>4, <1>6 DEF FaultVa, XFrame
  <1>8. mem'[pte[e][FaultVa(e)].frame] = x
    BY <1>1, <1>2, <1>5, WrittenOutside DEF Copyable
  <1>9. mem'[pte[e]["PFTEMP"].frame] = x
    BY <1>1, <1>5 DEF CowInv, Types
  <1> HIDE DEF x
  <1>10. CopyOf(e)'
    BY <1>1, <1>7, <1>8, <1>9 DEF CopyOf
  <1> QED
    BY <1>1, <1>2, <1>3, <1>5, <1>10, WriteOutsideSimulated

(* A new page for PFTEMP or for the exception stack.                       *)
LEMMA AllocKept ==
    ASSUME CowInv, NEW c \in Proc, NEW va \in {"PFTEMP", "xstack"}, NEW use \in Va, Alloc(c, va, use)
    PROVE  Kept(c, UserPage) /\ \A d \in Proc \ {c} : pte'[d] = pte[d] /\ Kept(d, Va)
  <1>1. \A wa \in UserPage : wa \in Va \ {va}
    BY Addresses DEF UserPage
  <1>2. /\ \A wa \in Va \ {va} : pte'[c][wa] = pte[c][wa]
        /\ \A d \in Proc \ {c} : pte'[d] = pte[d]
        /\ \A d \in Proc, wa \in Va : pte[d][wa] # None => mem'[pte[d][wa].frame] = mem[pte[d][wa].frame]
    BY AllocFacts
  <1> QED
    BY <1>1, <1>2 DEF Kept

LEMMA HandlerAllocSimulated ==
    ASSUME CowInv, Private, NEW e \in Proc, Handling(e, "alloc"), Alloc(e, "PFTEMP", FaultVa(e)),
           HandlerStep(e, "copy"), env' = env, fork' = fork
    PROVE  Simulated
  <1>1. Depth(e) # 0 /\ env[e] = "live" /\ FaultVa(e) \in Va
    BY HandlingFacts
  <1>2. \A d \in Proc \ {e} : faults'[d] = faults[d]
    BY <1>1, HandlerStepFacts DEF HandlerSteps
  <1>3. Depth(e)' = Depth(e) /\ faults'[e][Depth(e)] = "copy"
    BY <1>1, HandlerStepFacts DEF HandlerSteps
  <1>4. CopyOf(e)'
    BY <1>3 DEF CopyOf, Handling
  <1>5. Kept(e, UserPage) /\ \A d \in Proc \ {e} : pte'[d] = pte[d] /\ Kept(d, Va)
    BY <1>1, AllocKept
  <1> QED
    BY <1>1, <1>2, <1>4, <1>5, SamePages

LEMMA SetHandlerSimulated ==
    ASSUME CowInv, Private, NEW e \in Proc, SetHandler(e)
    PROVE  Simulated
  <1>1. /\ Alloc(e, "xstack", "xstack") /\ env' = env /\ fork' = fork /\ faults' = faults
        /\ env[e] = "live" /\ faults[e] = <<>>
    BY DEF SetHandler, Runs
  <1>2. CopyOf(e)'
    BY <1>1 DEF CopyOf, Handling
  <1>3. Kept(e, UserPage) /\ \A d \in Proc \ {e} : pte'[d] = pte[d] /\ Kept(d, Va)
    BY <1>1, Addresses, AllocKept
  <1> QED
    BY <1>1, <1>2, <1>3, SamePages

LEMMA HandlerUnmapSimulated ==
    ASSUME CowInv, Private, NEW e \in Proc, HandlerUnmap(e)
    PROVE  Simulated
  <1>1. /\ Handling(e, "unmap") /\ HandlerStep(e, "return") /\ mem' = mem
        /\ pte' = [pte EXCEPT ![e]["PFTEMP"] = None] /\ env' = env /\ fork' = fork
    BY DEF HandlerUnmap
  <1>2. Depth(e) # 0 /\ env[e] = "live"
    BY <1>1, HandlingFacts
  <1>3. \A d \in Proc \ {e} : faults'[d] = faults[d]
    BY <1>1, <1>2, HandlerStepFacts DEF HandlerSteps
  <1>4. Depth(e)' = Depth(e) /\ faults'[e][Depth(e)] = "return"
    BY <1>1, <1>2, HandlerStepFacts DEF HandlerSteps
  <1>5. CopyOf(e)'
    BY <1>4 DEF CopyOf, Handling
  <1>6. /\ \A d \in Proc \ {e} : pte'[d] = pte[d]
        /\ \A wa \in Va \ {"PFTEMP"} : pte'[e][wa] = pte[e][wa]
    <2>1. Types /\ "PFTEMP" \in Va /\ Sets(e, "PFTEMP", None)
      BY <1>1, Addresses DEF CowInv, Sets
    <2> QED
      BY <2>1, MapFacts
  <1>7. Kept(e, UserPage) /\ \A d \in Proc \ {e} : Kept(d, Va)
    <2>1. \A wa \in UserPage : wa \in Va \ {"PFTEMP"}
      BY Addresses DEF UserPage
    <2> QED
      BY <1>1, <1>6, <2>1 DEF Kept
  <1> QED
    BY <1>1, <1>2, <1>3, <1>5, <1>6, <1>7, SamePages

LEMMA HandlerReturnSimulated ==
    ASSUME CowInv, Private, NEW e \in Proc, HandlerReturn(e)
    PROVE  Simulated
  <1>1. Handling(e, "return")
    BY DEF HandlerReturn
  <1>2. /\ Depth(e) # 0 /\ env[e] = "live" /\ faults[e][Depth(e)] = "return"
        /\ \A va, wa \in Va : ~Moving(e, va, wa)
    BY <1>1, HandlingFacts
  <1>3. /\ Depth(e) \in 1..2 /\ faults[e] \in Seq(HandlerSteps) /\ Len(faults[e]) = Depth(e)
        /\ Perm(e, "xstack") = "W"
    BY <1>2, HandlerOkFacts
  <1>4. CASE Depth(e) = 1 /\ Perm(e, "stack") # "W"
    <2>1. PageFault(e, "stack") /\ faults[e][1] = "return"
      BY <1>2, <1>4 DEF HandlerReturn
    <2> QED
      BY <1>2, <1>3, <1>4, <2>1, PageFaultSimulated DEF Copyable
  <1>5. CASE ~(Depth(e) = 1 /\ Perm(e, "stack") # "W")
    <2> DEFINE x == SubSeq(mem[XFrame(e)], 1, Depth(e) - 1)
    <2>1. /\ mem' = [mem EXCEPT ![pte[e]["xstack"].frame] = x]
          /\ faults' = [faults EXCEPT ![e] = SubSeq(@, 1, Depth(e) - 1)]
          /\ env' = env /\ pte' = pte /\ fork' = fork
      BY <1>5 DEF HandlerReturn, XFrame
    <2> HIDE DEF x
    <2>2. /\ faults'[e] = SubSeq(faults[e], 1, Depth(e) - 1)
          /\ \A d \in Proc \ {e} : faults'[d] = faults[d]
      BY <2>1 DEF CowInv, Types
    <2>3. Len(faults'[e]) = Depth(e) - 1 /\ (Depth(e) = 2 => faults'[e][1] = faults[e][1])
      <3>1. Len(faults[e]) \in 1..2
        BY <1>3
      <3>2. LET s == SubSeq(faults[e], 1, Len(faults[e]) - 1)
            IN  Len(s) = Len(faults[e]) - 1 /\ (Len(faults[e]) = 2 => s[1] = faults[e][1])
        BY <1>3, <3>1, Popped
      <3> QED
        BY <1>3, <2>2, <3>2
    <2>4. Depth(e) = 2 => faults[e][1] = "return"
      BY DEF CowInv, Handlers, HandlerOk
    <2>5. Depth(e)' = Depth(e) - 1
      BY <2>3 DEF Depth
    <2>6. ~Handling(e, "map")'
      <3>1. CASE Depth(e) = 1
        <4>1. faults'[e] = <<>>
          BY <1>3, <2>2, <3>1
        <4> QED
          BY <4>1 DEF Handling
      <3>2. CASE Depth(e) = 2
        <4>1. faults'[e][Depth(e)'] = "return"
          BY <2>3, <2>4, <2>5, <3>2
        <4> QED
          BY <4>1 DEF Handling
      <3> QED
        BY <1>3, <3>1, <3>2
    <2>7. CopyOf(e)'
      BY <2>6 DEF CopyOf
    <2> QED
      BY <1>2, <1>3, <2>1, <2>2, <2>7, WriteOutsideSimulated
  <1> QED
    BY <1>4, <1>5

-----------------------------------------------------------------------------
LEMMA OneMemory ==
    ASSUME NEW e \in Proc, NEW m, Memories'[e] = m,
           \A d \in Proc \ {e} : Memories'[d] = Memories[d]
    PROVE  Memories' = [Memories EXCEPT ![e] = m]
  <1>1. \A d \in Proc : Memories'[d] = [Memories EXCEPT ![e] = m][d]
    BY WholeMaps
  <1> QED
    BY <1>1, WholeMaps

LEMMA OneImage ==
    ASSUME NEW e \in Proc, NEW m, Images'[e] = m,
           \A d \in Proc \ {e} : Images'[d] = Images[d]
    PROVE  Images' = [Images EXCEPT ![e] = m]
  <1>1. \A d \in Proc : Images'[d] = [Images EXCEPT ![e] = m][d]
    BY WholeMaps
  <1> QED
    BY <1>1, WholeMaps

LEMMA SameMemories ==
    ASSUME \A d \in Proc : Memories'[d] = Memories[d]
    PROVE  Memories' = Memories
  BY WholeMaps, Zenon

LEMMA SameImages ==
    ASSUME \A d \in Proc : Images'[d] = Images[d]
    PROVE  Images' = Images
  BY WholeMaps, Zenon

LEMMA LiveMemory ==
    ASSUME CowInv, Private, NEW e \in Proc, env[e] = "live"
    PROVE  Abstract!Live(e) /\ Memories[e] = [va \in UserPage |-> mem[pte[e][va].frame]]
  <1>1. Memories[e] = [va \in UserPage |-> mem[pte[e][va].frame]]
    BY DEF Memories, Contents
  <1>2. \A va \in UserPage : mem[pte[e][va].frame] \in Val \cup Seq(Va)
    <2> TAKE va \in UserPage
    <2>1. va \in Va /\ pte[e][va] # None
      BY Addresses DEF UserPage, Private, PrivateOf, Full
    <2> QED
      BY <2>1, Mapped DEF CowInv, Types
  <1>3. Memories[e] \in [UserPage -> Val \cup Seq(Va)]
    BY <1>1, <1>2
  <1>4. Memories[e] # None
    BY <1>3, CowAssumption
  <1> QED
    BY <1>1, <1>4 DEF Abstract!Live

LEMMA ImageThere ==
    ASSUME CowInv, NEW e \in Proc, fork[e] # None, NEW c \in Proc, c = fork[e].child
    PROVE  /\ Images[e] = [va \in Copied(e) |-> mem[pte[c][va].frame]]
           /\ Images[e] # None /\ DOMAIN Images[e] = Copied(e)
           /\ Copied(e) \subseteq UserPage
  <1>1. Images[e] = [va \in Copied(e) |-> mem[pte[c][va].frame]]
    BY DEF Images, Contents
  <1>2. \A va \in Copied(e) : mem[pte[c][va].frame] \in Val \cup Seq(Va)
    <2> TAKE va \in Copied(e)
    <2>1. va \in Va /\ pte[c][va] # None
      BY Addresses DEF UserPage, Copied
    <2> QED
      BY <2>1, Mapped DEF CowInv, Types
  <1>3. Copied(e) \in SUBSET UserPage
    BY DEF Copied
  <1>4. Images[e] \in [Copied(e) -> Val \cup Seq(Va)]
    BY <1>1, <1>2
  <1>5. Images[e] # None
    BY <1>3, <1>4, CowAssumption
  <1> QED
    BY <1>1, <1>3, <1>5

LEMMA ExitSimulated ==
    ASSUME CowInv, Private, NEW e \in Proc, Exit(e)
    PROVE  Simulated
  <1>1. /\ env[e] = "live" /\ env' = [env EXCEPT ![e] = "free"]
        /\ pte' = [pte EXCEPT ![e] = Unmapped]
        /\ fork' = [fork EXCEPT ![e] = None] /\ faults' = [faults EXCEPT ![e] = <<>>]
        /\ mem' = Cleared(mem, pte')
    BY DEF Exit
  <1>2. env'[e] = "free" /\ fork'[e] = None
    BY <1>1 DEF CowInv, Types
  <1>3. \A d \in Proc \ {e} : pte'[d] = pte[d] /\ env'[d] = env[d] /\ fork'[d] = fork[d] /\ faults'[d] = faults[d]
    BY <1>1 DEF CowInv, Types
  <1>4. \A d \in Proc \ {e} : Kept(d, Va)
    <2>1. ASSUME NEW d \in Proc \ {e}, NEW va \in Va, pte[d][va] # None
          PROVE  mem'[pte[d][va].frame] = mem[pte[d][va].frame]
      <3>1. pte[d][va].frame \in Frame
        BY <2>1, Mapped DEF CowInv
      <3>2. pte'[d][va] # None /\ pte'[d][va].frame = pte[d][va].frame
        BY <1>3, <2>1
      <3> QED
        BY <1>1, <3>1, <3>2 DEF Cleared
    <2> QED
      BY <1>3, <2>1 DEF Kept
  <1>5. \A d \in Proc \ {e} : fork[d] # None => fork[d].child # e
    BY <1>1, ForkFacts
  <1>6. Confined(e, e)
    BY <1>3, <1>4, <1>5 DEF Confined
  <1>7. PrivateOf(e)'
    BY <1>2 DEF PrivateOf, Full, ChildPages, CopyOf, Handling
  <1>8. Private' /\ \A d \in Proc \ {e} : Memories'[d] = Memories[d] /\ Images'[d] = Images[d]
    BY <1>1, <1>6, <1>7, OthersAlike
  <1>9. Memories'[e] = None /\ Images'[e] = None
    BY <1>2 DEF Memories, Images
  <1>10. Memories' = [Memories EXCEPT ![e] = None] /\ Images' = [Images EXCEPT ![e] = None]
    BY <1>8, <1>9, OneMemory, OneImage
  <1>11. Abstract!Exit(e)
    BY <1>1, <1>10, LiveMemory DEF Abstract!Exit
  <1> QED
    BY <1>8, <1>11 DEF Simulated, Abstract!Next

(* The child of a call of fork, or nobody: whose pages a step of e may     *)
(* touch besides its own.                                                  *)
LEMMA ForkConfined ==
    ASSUME CowInv, NEW e \in Proc, fork[e] # None, NEW c \in Proc, c = fork[e].child,
           \A d \in Proc \ {e} : fork'[d] = fork[d] /\ faults'[d] = faults[d],
           \A d \in Proc \ {e, c} : env'[d] = env[d] /\ pte'[d] = pte[d] /\ Kept(d, Va)
    PROVE  Confined(e, c) /\ c # e /\ env[c] = "made" /\ env[e] = "live"
  <1>1. c # e /\ env[c] = "made" /\ env[e] = "live"
    BY ForkFacts
  <1>2. \A d \in Proc \ {e} : fork[d] # None => fork[d].child # c
    BY ForkFacts
  <1> QED
    BY <1>1, <1>2 DEF Confined

(* A store to a page that is writable.                                     *)
LEMMA StoreMemory ==
    ASSUME CowInv, Private, NEW e \in Proc, env[e] = "live", faults[e] = <<>>,
           NEW va \in UserPage, NEW v, Perm(e, va) = "W",
           mem' = [mem EXCEPT ![pte[e][va].frame] = v], UNCHANGED <<env, pte, fork, faults>>
    PROVE  /\ Private'
           /\ \A d \in Proc \ {e} : Memories'[d] = Memories[d] /\ Images'[d] = Images[d]
           /\ Images'[e] = Images[e]
           /\ Memories'[e] = [Memories[e] EXCEPT ![va] = v]
  <1>1. va \in Va /\ \A wa \in UserPage : wa \in Va
    BY Addresses DEF UserPage
  <1>2. \A va1, wa1 \in Va : ~Moving(e, va1, wa1)
    BY RunsFacts DEF Runs
  <1>3. \A d \in Proc, wa \in Va :
           pte[d][wa] # None /\ (d # e \/ wa # va) /\ ~(Marking(e, va, d, wa) /\ SameFrame(e, va, d, wa))
              => mem'[pte[d][wa].frame] = mem[pte[d][wa].frame]
    BY <1>1, <1>2, WrittenThere
  <1>4. pte[e][va] # None /\ pte[e][va].frame \in Frame
    BY <1>1, Mapped, CowAssumption DEF CowInv
  <1>5. \A d \in Proc, wa \in Va : Marking(e, va, d, wa) => fork[e] # None /\ d = fork[e].child /\ d # e /\ wa = va
    BY ForkFacts DEF Marking
  <1>6. \A wa \in UserPage : wa # va => mem'[pte[e][wa].frame] = mem[pte[e][wa].frame]
    BY <1>1, <1>3, <1>5 DEF Private, PrivateOf, Full
  <1>7. mem'[pte[e][va].frame] = v
    BY <1>4 DEF CowInv, Types
  <1>8. Memories'[e] = [Memories[e] EXCEPT ![va] = v]
    <2>1. Memories[e] = [wa \in UserPage |-> mem[pte[e][wa].frame]]
      BY DEF Memories, Contents
    <2>2. Memories'[e] = [wa \in UserPage |-> mem'[pte[e][wa].frame]]
      BY DEF Memories, Contents
    <2>3. \A wa \in UserPage : mem'[pte[e][wa].frame] = IF wa = va THEN v ELSE mem[pte[e][wa].frame]
      BY <1>6, <1>7
    <2> QED
      BY <2>1, <2>2, <2>3
  <1>9. PrivateOf(e)'
    <2>1. PrivateOf(e)
      BY DEF Private
    <2> QED
      BY <2>1 DEF PrivateOf, Full, ChildPages, CopyOf, Handling
  <1>10. CASE fork[e] = None
    <2>1. \A d \in Proc \ {e} : Kept(d, Va)
      BY <1>3, <1>5, <1>10 DEF Kept
    <2>2. \A d \in Proc \ {e} : fork[d] # None => fork[d].child # e
      BY ForkFacts
    <2>3. Confined(e, e)
      BY <2>1, <2>2 DEF Confined
    <2>4. Private' /\ \A d \in Proc \ {e} : Memories'[d] = Memories[d] /\ Images'[d] = Images[d]
      BY <1>9, <2>3, OthersAlike
    <2>5. Images'[e] = Images[e]
      BY <1>10 DEF Images
    <2> QED
      BY <1>8, <2>4, <2>5
  <1>11. CASE fork[e] # None
    <2>1. PICK c \in Proc : c = fork[e].child
      BY <1>11, ForkFacts
    <2>2. \A d \in Proc \ {e, c} : Kept(d, Va)
      BY <1>3, <1>5, <2>1 DEF Kept
    <2>3. Confined(e, c) /\ c # e /\ env[c] = "made"
      BY <1>11, <2>1, <2>2, ForkConfined
    <2>4. env'[c] # "live"
      BY <2>3
    <2>5. Private' /\ \A d \in Proc \ {e} : Memories'[d] = Memories[d] /\ Images'[d] = Images[d]
      BY <1>9, <2>3, <2>4, OthersAlike
    <2>6. Images'[e] = Images[e]
      <3>1. Copied(e)' = Copied(e)
        BY DEF Copied, SameFrame, Perm
      <3>2. Images[e] = [wa \in Copied(e) |-> mem[pte[c][wa].frame]]
        BY <1>11, <2>1 DEF Images, Contents
      <3>3. Images'[e] = [wa \in Copied(e)' |-> mem'[pte[c][wa].frame]]
        BY <1>11, <2>1 DEF Images, Contents
      <3>4. ASSUME NEW wa \in Copied(e)
            PROVE  mem'[pte[c][wa].frame] = mem[pte[c][wa].frame]
        <4>1. wa \in Va /\ pte[c][wa] # None /\ ~(SameFrame(e, wa, c, wa) /\ Perm(e, wa) = "W")
          BY <1>1, <2>1 DEF Copied
        <4> QED
          BY <1>3, <1>5, <2>3, <4>1
      <3> QED
        BY <3>1, <3>2, <3>3, <3>4
    <2> QED
      BY <1>8, <2>5, <2>6
  <1> QED
    BY <1>10, <1>11

LEMMA StoreSimulated ==
    ASSUME CowInv, Private, NEW e \in Proc, NEW va \in UserPage, NEW v \in Val, Store(e, va, v)
    PROVE  Simulated
  <1>1. env[e] = "live" /\ faults[e] = <<>> /\ va # "text"
    BY DEF Store, Runs
  <1>2. Depth(e) = 0 /\ va \in Copyable /\ va \in Va
    BY <1>1, Addresses DEF Depth, UserPage, Copyable
  <1>3. CASE Perm(e, va) # "W" /\ Perm(e, "xstack") # "W"
    BY <1>3, ExitSimulated DEF Store, PageFault
  <1>4. CASE Perm(e, va) # "W" /\ Perm(e, "xstack") = "W"
    BY <1>1, <1>2, <1>4, PageFaultSimulated DEF Store
  <1>5. CASE Perm(e, va) = "W"
    <2>1. mem' = [mem EXCEPT ![pte[e][va].frame] = v] /\ UNCHANGED <<env, pte, fork, faults>>
      BY <1>5 DEF Store
    <2>2. /\ Private'
          /\ \A d \in Proc \ {e} : Memories'[d] = Memories[d] /\ Images'[d] = Images[d]
          /\ Images'[e] = Images[e]
          /\ Memories'[e] = [Memories[e] EXCEPT ![va] = v]
      BY <1>1, <1>5, <2>1, StoreMemory
    <2>3. Memories' = [Memories EXCEPT ![e] = [Memories[e] EXCEPT ![va] = v]]
      BY <2>2, OneMemory
    <2>4. Images' = Images
      BY <2>2, SameImages
    <2>5. Abstract!Store(e, va, v)
      BY <1>1, <2>3, <2>4, LiveMemory DEF Abstract!Store
    <2> QED
      BY <2>2, <2>5 DEF Simulated, Abstract!Next
  <1> QED
    BY <1>3, <1>4, <1>5

LEMMA HandlerMapSimulated ==
    ASSUME CowInv, Private, NEW e \in Proc, HandlerMap(e)
    PROVE  Simulated
  <1> DEFINE m == [frame |-> pte[e]["PFTEMP"].frame, perm |-> "W"]
  <1>1. /\ Handling(e, "map") /\ HandlerStep(e, "unmap") /\ mem' = Cleared(mem, pte')
        /\ pte' = [pte EXCEPT ![e][FaultVa(e)] = m] /\ env' = env /\ fork' = fork
    BY DEF HandlerMap
  <1>2. PICK va \in Copyable : va = FaultVa(e)
    BY <1>1, HandlingFacts
  <1>3. /\ Depth(e) # 0 /\ env[e] = "live" /\ va \in Va /\ va \in UserPage /\ va # "PFTEMP" /\ "PFTEMP" \in Va
        /\ pte[e]["PFTEMP"] # None /\ pte[e][va] # None /\ Perm(e, va) = "COW"
        /\ \A va1, wa1 \in Va : ~Moving(e, va1, wa1)
    BY <1>1, <1>2, HandlingFacts, Addresses DEF Copyable, UserPage
  <1>4. \A d \in Proc \ {e} : faults'[d] = faults[d]
    BY <1>1, <1>3, HandlerStepFacts DEF HandlerSteps
  <1>5. Depth(e)' = Depth(e) /\ faults'[e][Depth(e)] = "unmap"
    BY <1>1, <1>3, HandlerStepFacts DEF HandlerSteps
  <1>6. CopyOf(e)'
    BY <1>5 DEF CopyOf, Handling
  <1>7. m \in Mapping /\ m # None /\ m.frame = pte[e]["PFTEMP"].frame
    BY <1>3, Mapped, CowAssumption DEF CowInv, Mapping
  <1>8. Perm(e, "PFTEMP") = "W"
    BY <1>3, Mapped DEF CowInv, Perms, PermsOf
  <1> HIDE DEF m
  <1>9. /\ pte'[e][va] = m
        /\ \A d \in Proc \ {e} : pte'[d] = pte[d]
        /\ \A d \in Proc, wa \in Va : <<d, wa>> # <<e, va>> => pte'[d][wa] = pte[d][wa]
    <2>1. Types /\ m \in Mapping \cup {None} /\ Sets(e, va, m)
      BY <1>1, <1>2, <1>7 DEF CowInv, Sets
    <2> QED
      BY <1>3, <2>1, MapFacts
  <1>10. \A d \in Proc, wa \in Va : pte'[d][wa] # None /\ pte'[d][wa].frame \in Frame
            => mem'[pte'[d][wa].frame] = mem[pte'[d][wa].frame]
    BY <1>1 DEF Cleared
  <1>11. \A d \in Proc, wa \in Va : pte[d][wa] # None /\ (d # e \/ wa # va)
            => pte'[d][wa] = pte[d][wa] /\ mem'[pte[d][wa].frame] = mem[pte[d][wa].frame]
    BY <1>9, <1>10, Mapped DEF CowInv
  <1>12. \A d \in Proc \ {e} : Kept(d, Va)
    BY <1>9, <1>11 DEF Kept
  <1>13. mem'[pte'[e][va].frame] = mem[pte[e][va].frame]
    <2>1. pte'[e][va].frame = pte[e]["PFTEMP"].frame /\ pte'[e][va] # None
      BY <1>7, <1>9
    <2>2. mem'[pte'[e][va].frame] = mem[pte[e]["PFTEMP"].frame]
      BY <1>3, <1>10, <2>1, Mapped DEF CowInv
    <2>3. CopyOf(e)
      BY DEF Private, PrivateOf
    <2> QED
      BY <1>1, <1>2, <2>2, <2>3 DEF CopyOf
  <1>14. \A wa \in UserPage : wa \in Va /\ pte[e][wa] # None
    BY <1>3, Addresses DEF UserPage, Private, PrivateOf, Full
  <1>15. Full(e)' /\ Memories'[e] = Memories[e]
    <2>1. \A wa \in UserPage : pte'[e][wa] # None /\ mem'[pte'[e][wa].frame] = mem[pte[e][wa].frame]
      BY <1>7, <1>9, <1>11, <1>13, <1>14
    <2>2. Memories[e] = [wa \in UserPage |-> mem[pte[e][wa].frame]]
      BY <1>3 DEF Memories, Contents
    <2>3. Memories'[e] = [wa \in UserPage |-> mem'[pte'[e][wa].frame]]
      BY <1>1, <1>3 DEF Memories, Contents
    <2> QED
      BY <2>1, <2>2, <2>3 DEF Full
  <1>16. ChildPages(e)' /\ Images'[e] = Images[e]
    <2>1. CASE fork[e] = None
      BY <1>1, <2>1 DEF ChildPages, Images
    <2>2. CASE fork[e] # None
      <3>1. PICK c \in Proc : c = fork[e].child /\ c # e
        BY <2>2, ForkFacts
      <3>2. pte'[c] = pte[c] /\ Kept(c, Va)
        BY <1>9, <1>12, <3>1
      <3>3. ChildPages(e)'
        BY <1>1, <3>1, <3>2 DEF Private, PrivateOf, ChildPages
      <3>4. ~SameFrame(e, "PFTEMP", c, va)
        <4>1. ~Marking(e, "PFTEMP", c, va)
          BY <1>3 DEF Marking
        <4> QED
          BY <1>3, <1>8, <3>1, <4>1 DEF CowInv, Apart
      <3>5. ~SameFrame(e, va, c, va)'
        BY <1>3, <1>7, <1>9, <3>2, <3>4 DEF SameFrame
      <3>6. \A wa \in UserPage : wa # va => Perm(e, wa)' = Perm(e, wa) /\ SameFrame(e, wa, c, wa)' = SameFrame(e, wa, c, wa)
        BY <1>9, <1>14, <3>2 DEF Perm, SameFrame
      <3>7. Copied(e)' = Copied(e)
        <4>1. Copied(e) = {wa \in UserPage : pte[c][wa] # None /\ ~(SameFrame(e, wa, c, wa) /\ Perm(e, wa) = "W")}
          BY <3>1 DEF Copied
        <4>2. Copied(e)' = {wa \in UserPage : pte[c][wa] # None /\ ~(SameFrame(e, wa, c, wa)' /\ Perm(e, wa)' = "W")}
          BY <1>1, <3>1, <3>2 DEF Copied
        <4> QED
          BY <1>3, <3>5, <3>6, <4>1, <4>2
      <3>8. Images[e] = [wa \in Copied(e) |-> mem[pte[c][wa].frame]]
        BY <2>2, <3>1 DEF Images, Contents
      <3>9. Images'[e] = [wa \in Copied(e)' |-> mem'[pte'[c][wa].frame]]
        BY <1>1, <2>2, <3>1 DEF Images, Contents
      <3>10. \A wa \in Copied(e) : mem'[pte'[c][wa].frame] = mem[pte[c][wa].frame]
        BY <1>14, <3>1, <3>2 DEF Kept, Copied
      <3> QED
        BY <3>3, <3>7, <3>8, <3>9, <3>10
    <2> QED
      BY <2>1, <2>2
  <1>17. Confined(e, e)
    <2>1. \A d \in Proc \ {e} : fork[d] # None => fork[d].child # e
      BY <1>3, ForkFacts
    <2> QED
      BY <1>1, <1>4, <1>9, <1>12, <2>1 DEF Confined
  <1>18. PrivateOf(e)'
    BY <1>6, <1>15, <1>16 DEF PrivateOf
  <1>19. Private' /\ \A d \in Proc \ {e} : Memories'[d] = Memories[d] /\ Images'[d] = Images[d]
    BY <1>3, <1>17, <1>18, OthersAlike
  <1> QED
    BY <1>15, <1>16, <1>19, Stutters

-----------------------------------------------------------------------------
LEMMA SysExoforkSimulated ==
    ASSUME CowInv, Private, NEW e \in Proc, NEW c \in Proc, SysExofork(e, c)
    PROVE  Simulated
  <1>1. /\ env[e] = "live" /\ faults[e] = <<>> /\ fork[e] = None /\ env[c] = "free"
        /\ env' = [env EXCEPT ![c] = "made"]
        /\ fork' = [fork EXCEPT ![e] = [child |-> c, at |-> 1, step |-> "look"]]
        /\ pte' = pte /\ mem' = mem /\ faults' = faults
    BY DEF SysExofork, Runs
  <1>2. /\ env'[c] = "made" /\ env'[e] = "live" /\ c # e
        /\ \A d \in Proc \ {e, c} : env'[d] = env[d]
        /\ \A d \in Proc \ {e} : fork'[d] = fork[d]
    BY <1>1 DEF CowInv, Types
  <1>3. fork'[e] = [child |-> c, at |-> 1, step |-> "look"]
    BY <1>1 DEF CowInv, Types
  <1>4. fork'[e] # None
    <2>1. [child |-> c, at |-> 1, step |-> "look"] \in ForkCall
      BY DEF ForkCall, ForkSteps
    <2> QED
      BY <1>3, <2>1, CowAssumption
  <1>5. \A d \in Proc \ {e} : fork[d] # None => fork[d].child # c
    BY <1>1, ForkFacts
  <1>6. Confined(e, c)
    BY <1>1, <1>2, <1>5 DEF Confined, Kept
  <1>7. \A va \in Va : pte[c][va] = None
    BY <1>1 DEF CowInv, Quiet, QuietOf
  <1>8. PrivateOf(e)'
    <2>1. Full(e)'
      BY <1>1 DEF Private, PrivateOf, Full
    <2>2. fork'[e].child = c /\ fork'[e].at = 1 /\ fork'[e].step = "look"
      BY <1>3
    <2>3. \A i \in 2..4 : Scan[i] \in Va /\ ~(i < 1) /\ i # 1
      BY DEF Va
    <2>4. ChildPages(e)'
      BY <1>1, <1>7, <2>2, <2>3 DEF ChildPages
    <2>5. CopyOf(e)'
      BY <1>1 DEF CopyOf, Handling
    <2> QED
      BY <2>1, <2>4, <2>5 DEF PrivateOf
  <1>9. Private' /\ \A d \in Proc \ {e} : Memories'[d] = Memories[d] /\ Images'[d] = Images[d]
    BY <1>1, <1>2, <1>6, <1>8, OthersAlike
  <1>10. Memories'[e] = Memories[e]
    BY <1>1, <1>2 DEF Memories, Contents
  <1>11. Images[e] = None
    BY <1>1 DEF Images
  <1>12. Images'[e] = [va \in {} |-> Zero]
    <2>1. Copied(e)' = {}
      BY <1>1, <1>3, <1>7, Addresses DEF Copied, UserPage
    <2>2. Images'[e] = [va \in Copied(e)' |-> mem'[pte'[fork'[e].child][va].frame]]
      BY <1>4 DEF Images, Contents
    <2> QED
      BY <2>1, <2>2
  <1>13. Memories' = Memories
    BY <1>9, <1>10, SameMemories
  <1>14. Images' = [Images EXCEPT ![e] = [va \in {} |-> Zero]]
    BY <1>9, <1>12, OneImage
  <1>15. Abstract!Fork(e)
    BY <1>1, <1>11, <1>13, <1>14, LiveMemory DEF Abstract!Fork
  <1> QED
    BY <1>9, <1>15 DEF Simulated, Abstract!Next

(* The calls of fork that neither map a page of the program nor mark one.  *)
LEMMA ForkGoesOn ==
    ASSUME CowInv, Private, NEW e \in Proc, fork[e] # None, fork'[e] # None, faults[e] = <<>>,
           NEW c \in Proc, c = fork[e].child, fork'[e].child = c,
           env' = env, faults' = faults, \A d \in Proc \ {e} : fork'[d] = fork[d],
           pte'[e] = pte[e], Kept(e, UserPage), Kept(c, UserPage),
           \A d \in Proc \ {e, c} : pte'[d] = pte[d] /\ Kept(d, Va),
           ChildPages(e)'
    PROVE  Simulated
  <1>1. Confined(e, c) /\ c # e /\ env[c] = "made" /\ env[e] = "live"
    BY ForkConfined
  <1>2. Memories'[e] = Memories[e] /\ Full(e)'
    BY MemoryKept
  <1>3. Images'[e] = Images[e]
    BY ImageKept
  <1>4. CopyOf(e)'
    BY DEF CopyOf, Handling
  <1>5. PrivateOf(e)'
    BY <1>2, <1>4 DEF PrivateOf
  <1>6. Private' /\ \A d \in Proc \ {e} : Memories'[d] = Memories[d] /\ Images'[d] = Images[d]
    BY <1>1, <1>5, OthersAlike
  <1> QED
    BY <1>2, <1>3, <1>6, Stutters

LEMMA LookSimulated ==
    ASSUME CowInv, Private, NEW e \in Proc, Look(e)
    PROVE  Simulated
  <1>1. /\ Forking(e, "look") /\ env' = env /\ pte' = pte /\ mem' = mem /\ faults' = faults
    BY DEF Look
  <1>2. /\ fork[e] # None /\ fork[e].step = "look" /\ faults[e] = <<>> /\ env[e] = "live"
        /\ fork[e] \in ForkCall /\ fork[e].at \in 1..5 /\ At(e) \in Va
    BY <1>1, ForkingFacts DEF LoopSteps, Runs
  <1>3. PICK c \in Proc : c = fork[e].child
    BY <1>1, ForkingFacts
  <1>4. \A d \in Proc : Kept(d, Va)
    BY <1>1 DEF Kept
  <1>5. \A d \in Proc : Kept(d, UserPage)
    BY <1>4, KeptUser
  <1>6. ChildPages(e)
    BY DEF Private, PrivateOf
  <1>7. CASE \/ ForkStep(e, "map") \/ ForkStep(e, "share")
    <2>1. PICK step \in {"map", "share"} : ForkStep(e, step)
      BY <1>7
    <2>2. step \in ForkSteps
      BY DEF ForkSteps
    <2>3. /\ \A d \in Proc \ {e} : fork'[d] = fork[d]
          /\ fork'[e] \in ForkCall /\ fork'[e].child = fork[e].child /\ fork'[e].at = fork[e].at
          /\ fork'[e].step = step
      BY <1>2, <2>1, <2>2, ForkStepFacts
    <2>4. ChildPages(e)'
      BY <1>1, <1>2, <1>6, <2>3 DEF ChildPages
    <2>5. fork'[e] # None
      BY <2>3, CowAssumption
    <2> QED
      BY <1>1, <1>2, <1>3, <1>4, <1>5, <2>3, <2>4, <2>5, ForkGoesOn
  <1>8. CASE (pte[e][At(e)] = None \/ At(e) = "xstack") /\ fork' = [fork EXCEPT ![e] = NextPage(@)]
    <2>1. fork[e].at \in {1, 5}
      <3>1. fork[e].at \in 2..4 => At(e) \in UserPage /\ At(e) # "xstack"
        BY Addresses DEF At, UserPage
      <3>2. \A va \in UserPage : pte[e][va] # None
        BY <1>2 DEF Private, PrivateOf, Full
      <3> QED
        BY <1>2, <1>8, <3>1, <3>2
    <2>2. fork'[e] = NextPage(fork[e]) /\ \A d \in Proc \ {e} : fork'[d] = fork[d]
      BY <1>8 DEF CowInv, Types
    <2>3. /\ NextPage(fork[e]) \in ForkCall /\ NextPage(fork[e]).child = fork[e].child
          /\ NextPage(fork[e]).at = fork[e].at + 1
          /\ NextPage(fork[e]).step = (IF fork[e].at = 5 THEN "xstack" ELSE "look")
      BY <1>2, NextPageFacts
    <2>4. /\ fork'[e] \in ForkCall /\ fork'[e].child = fork[e].child /\ fork'[e].at = fork[e].at + 1
          /\ fork'[e].step # "mark"
      BY <2>2, <2>3
    <2>5. ChildPages(e)'
      <3>1. \A i \in 2..4 : i < fork'[e].at <=> i < fork[e].at
        BY <2>1, <2>4
      <3> QED
        BY <1>1, <1>2, <1>6, <2>4, <3>1 DEF ChildPages
    <2>6. fork'[e] # None
      BY <2>4, CowAssumption
    <2> QED
      BY <1>1, <1>2, <1>3, <1>4, <1>5, <2>2, <2>4, <2>5, <2>6, ForkGoesOn
  <1> QED
    BY <1>7, <1>8 DEF Look

LEMMA GiveXStackSimulated ==
    ASSUME CowInv, Private, NEW e \in Proc, GiveXStack(e)
    PROVE  Simulated
  <1>1. /\ Forking(e, "xstack") /\ Alloc(fork[e].child, "xstack", "xstack") /\ ForkStep(e, "start")
        /\ env' = env /\ faults' = faults
    BY DEF GiveXStack
  <1>2. /\ fork[e] # None /\ fork[e].step = "xstack" /\ faults[e] = <<>>
    BY <1>1, ForkingFacts DEF Runs
  <1>3. PICK c \in Proc : c = fork[e].child /\ c # e /\ Alloc(c, "xstack", "xstack")
    BY <1>1, ForkingFacts
  <1>4. Kept(c, UserPage) /\ \A d \in Proc \ {c} : pte'[d] = pte[d] /\ Kept(d, Va)
    BY <1>3, Addresses, AllocKept
  <1>5. Kept(e, UserPage) /\ pte'[e] = pte[e]
    BY <1>3, <1>4, KeptUser
  <1>6. /\ \A d \in Proc \ {e} : fork'[d] = fork[d]
        /\ fork'[e] \in ForkCall /\ fork'[e].child = fork[e].child /\ fork'[e].at = fork[e].at
        /\ fork'[e].step = "start"
    BY <1>1, <1>2, ForkStepFacts DEF ForkSteps
  <1>7. ChildPages(e)'
    <2>1. ChildPages(e)
      BY DEF Private, PrivateOf
    <2>2. \A i \in 2..4 : pte'[c][Scan[i]] = pte[c][Scan[i]]
      <3>1. \A i \in 2..4 : Scan[i] \in UserPage
        BY Addresses DEF UserPage
      <3> QED
        BY <1>4, <3>1 DEF Kept
    <2> QED
      BY <1>2, <1>3, <1>6, <2>1, <2>2 DEF ChildPages
  <1>8. fork'[e] # None
    BY <1>6, CowAssumption
  <1> QED
    BY <1>1, <1>2, <1>3, <1>4, <1>5, <1>6, <1>7, <1>8, ForkGoesOn

-----------------------------------------------------------------------------
(* A step of fork at one page of the program: either the image has the     *)
(* page afterwards as it had it before, or it gets the page as it is now.  *)
LEMMA PageCopied ==
    ASSUME CowInv, Private, NEW e \in Proc, fork[e] # None, fork'[e] # None, faults[e] = <<>>,
           NEW c \in Proc, c = fork[e].child, fork'[e].child = c, NEW at \in UserPage,
           env' = env, mem' = mem, faults' = faults, \A d \in Proc \ {e} : fork'[d] = fork[d],
           \A d \in Proc \ {e, c} : pte'[d] = pte[d],
           \A wa \in UserPage : wa # at => pte'[e][wa] = pte[e][wa] /\ pte'[c][wa] = pte[c][wa],
           pte'[e][at] # None, pte'[e][at].frame = pte[e][at].frame,
           at \in Copied(e) => at \in Copied(e)' /\ pte'[c][at].frame = pte[c][at].frame,
           at \in Copied(e)' /\ at \notin Copied(e) => pte'[c][at].frame = pte[e][at].frame,
           ChildPages(e)'
    PROVE  Simulated
  <1>1. \A d \in Proc \ {e, c} : Kept(d, Va)
    BY DEF Kept
  <1>2. Confined(e, c) /\ c # e /\ env[c] = "made" /\ env[e] = "live"
    BY <1>1, ForkConfined
  <1>3. Full(e)'
    BY <1>2 DEF Private, PrivateOf, Full
  <1>4. CopyOf(e)'
    BY DEF CopyOf, Handling
  <1>5. PrivateOf(e)'
    BY <1>3, <1>4 DEF PrivateOf
  <1>6. Private' /\ \A d \in Proc \ {e} : Memories'[d] = Memories[d] /\ Images'[d] = Images[d]
    BY <1>2, <1>5, OthersAlike
  <1>7. Memories[e] = [va \in UserPage |-> mem[pte[e][va].frame]]
    BY <1>2, LiveMemory
  <1>8. Memories'[e] = Memories[e]
    <2>1. Memories'[e] = [va \in UserPage |-> mem[pte'[e][va].frame]]
      BY <1>2 DEF Memories, Contents
    <2>2. \A va \in UserPage : pte'[e][va].frame = pte[e][va].frame
      OBVIOUS
    <2> QED
      BY <1>7, <2>1, <2>2
  <1>9. /\ Images[e] = [va \in Copied(e) |-> mem[pte[c][va].frame]]
        /\ Images[e] # None /\ DOMAIN Images[e] = Copied(e)
        /\ Copied(e) \subseteq UserPage
    BY ImageThere
  <1>10. Images'[e] = [va \in Copied(e)' |-> mem[pte'[c][va].frame]]
    BY DEF Images, Contents
  <1>11. \A wa \in UserPage : wa # at => (wa \in Copied(e)' <=> wa \in Copied(e))
    BY DEF Copied, SameFrame, Perm
  <1>12. Copied(e)' \subseteq UserPage
    BY DEF Copied
  <1>13. Memories' = Memories
    BY <1>6, <1>8, SameMemories
  <1>14. CASE at \in Copied(e) \/ at \notin Copied(e)'
    <2>1. Copied(e)' = Copied(e)
      BY <1>9, <1>11, <1>12, <1>14
    <2>2. \A wa \in Copied(e) : mem[pte'[c][wa].frame] = mem[pte[c][wa].frame]
      BY <1>9, <1>14, <2>1
    <2>3. Images'[e] = [wa \in Copied(e) |-> mem[pte'[c][wa].frame]]
      BY <1>10, <2>1
    <2>4. Images'[e] = Images[e]
      BY <1>9, <2>2, <2>3
    <2> QED
      BY <1>6, <1>8, <2>4, Stutters
  <1>15. CASE at \notin Copied(e) /\ at \in Copied(e)'
    <2>1. Copied(e)' = Copied(e) \cup {at}
      BY <1>9, <1>11, <1>12, <1>15
    <2>2. Images'[e] = [w \in DOMAIN Images[e] \cup {at} |-> IF w = at THEN Memories[e][at] ELSE Images[e][w]]
      <3>1. Memories[e][at] = mem[pte[e][at].frame]
        BY <1>7
      <3>2. ASSUME NEW w \in Copied(e) PROVE w # at /\ mem[pte'[c][w].frame] = Images[e][w]
        <4>1. w # at /\ w \in UserPage
          BY <1>9, <1>15
        <4>2. pte'[c][w] = pte[c][w]
          BY <4>1
        <4>3. Images[e][w] = mem[pte[c][w].frame]
          BY <1>9
        <4> QED
          BY <4>1, <4>2, <4>3
      <3>3. mem[pte'[c][at].frame] = Memories[e][at]
        BY <1>15, <3>1
      <3>4. \A w \in Copied(e) \cup {at} :
               mem[pte'[c][w].frame] = IF w = at THEN Memories[e][at] ELSE Images[e][w]
        BY <3>2, <3>3
      <3> QED
        BY <1>9, <1>10, <2>1, <3>4
    <2>3. Images' = [Images EXCEPT ![e] =
                        [w \in DOMAIN Images[e] \cup {at} |-> IF w = at THEN Memories[e][at] ELSE Images[e][w]]]
      BY <1>6, <2>2, OneImage
    <2>4. Abstract!Copy(e, at)
      BY <1>2, <1>9, <1>13, <1>15, <2>3, LiveMemory DEF Abstract!Copy
    <2> QED
      BY <1>6, <2>4 DEF Simulated, Abstract!Next
  <1> QED
    BY <1>14, <1>15

(* sys_page_map into the child, of a page to be copied or read only.       *)
LEMMA ChildMappedSimulated ==
    ASSUME CowInv, Private, NEW e \in Proc, NEW step \in {"map", "share"}, Forking(e, step),
           NEW perm \in {"RO", "COW"}, MapChild(e, perm),
           env' = env, mem' = mem, faults' = faults, \A d \in Proc \ {e} : fork'[d] = fork[d],
           fork'[e] \in ForkCall, fork'[e].child = fork[e].child,
           \A i \in 2..4 : i < fork'[e].at \/ (i = fork'[e].at /\ fork'[e].step = "mark") <=> i =< fork[e].at
    PROVE  Simulated
  <1>1. /\ fork[e] # None /\ fork[e].step = step /\ fork[e].at \in 1..5 /\ faults[e] = <<>>
        /\ fork[e] \in ForkCall /\ fork'[e] # None
    BY ForkingFacts, CowAssumption DEF LoopSteps, Runs
  <1>2. PICK c \in Proc : c = fork[e].child /\ c # e
    BY ForkingFacts
  <1>3. PICK at \in UserPage : at = At(e) /\ pte[e][at] # None
    BY <1>1 DEF CowInv, Forks, ForkOk, Copyable, UserPage
  <1>4. at \in Va /\ \A wa \in UserPage : wa \in Va
    BY Addresses DEF UserPage
  <1> DEFINE m == [frame |-> pte[e][at].frame, perm |-> perm]
  <1>5. m \in Mapping /\ m # None /\ m.frame = pte[e][at].frame
    BY <1>3, <1>4, Mapped, CowAssumption DEF CowInv, Mapping
  <1>6. pte' = [pte EXCEPT ![c][at] = m]
    BY <1>2, <1>3 DEF MapChild
  <1> HIDE DEF m
  <1>7. /\ pte'[c][at] = m
        /\ \A wa \in Va \ {at} : pte'[c][wa] = pte[c][wa]
        /\ \A d \in Proc \ {c} : pte'[d] = pte[d]
    <2>1. Types /\ m \in Mapping \cup {None} /\ Sets(c, at, m)
      BY <1>5, <1>6 DEF CowInv, Sets
    <2> QED
      BY <1>4, <2>1, MapFacts
  <1>8. \A i \in 2..4 : pte[c][Scan[i]] # None <=> i < fork[e].at
    BY <1>1, <1>2 DEF Private, PrivateOf, ChildPages
  <1>9. \A i \in 2..4 : Scan[i] \in Va /\ (Scan[i] = at <=> i = fork[e].at)
    BY <1>1, <1>3, Addresses DEF At, UserPage
  <1>10. fork[e].at \in 2..4
    BY <1>1, <1>3, Addresses DEF At, UserPage
  <1>11. at \notin Copied(e)
    <2>1. pte[c][at] = None
      BY <1>8, <1>9, <1>10
    <2> QED
      BY <1>2, <2>1 DEF Copied
  <1>12. ChildPages(e)'
    <2>1. \A i \in 2..4 : pte'[c][Scan[i]] # None <=> i =< fork[e].at
      BY <1>5, <1>7, <1>8, <1>9, <1>10
    <2> QED
      BY <1>2, <2>1 DEF ChildPages
  <1> QED
    BY <1>1, <1>2, <1>3, <1>4, <1>5, <1>7, <1>11, <1>12, PageCopied

LEMMA DupMapSimulated ==
    ASSUME CowInv, Private, NEW e \in Proc, DupMap(e)
    PROVE  Simulated
  <1>1. Forking(e, "map") /\ MapChild(e, "COW") /\ ForkStep(e, "mark") /\ env' = env /\ mem' = mem /\ faults' = faults
    BY DEF DupMap
  <1>2. fork[e] # None /\ fork[e] \in ForkCall /\ fork[e].at \in 1..5
    BY <1>1, ForkingFacts DEF LoopSteps
  <1>3. /\ \A d \in Proc \ {e} : fork'[d] = fork[d]
        /\ fork'[e] \in ForkCall /\ fork'[e].child = fork[e].child /\ fork'[e].at = fork[e].at
        /\ fork'[e].step = "mark"
    BY <1>1, <1>2, ForkStepFacts DEF ForkSteps
  <1>4. \A i \in 2..4 : i < fork'[e].at \/ (i = fork'[e].at /\ fork'[e].step = "mark") <=> i =< fork[e].at
    BY <1>2, <1>3
  <1> QED
    BY <1>1, <1>3, <1>4, ChildMappedSimulated

(* The call goes on to the next page.                                      *)
LEMMA NextPageTaken ==
    ASSUME CowInv, NEW e \in Proc, fork[e] # None, fork[e].at \in 1..5,
           fork' = [fork EXCEPT ![e] = NextPage(@)]
    PROVE  /\ \A d \in Proc \ {e} : fork'[d] = fork[d]
           /\ fork'[e] \in ForkCall /\ fork'[e].child = fork[e].child /\ fork'[e].at = fork[e].at + 1
           /\ fork'[e].step # "mark"
  <1>1. fork'[e] = NextPage(fork[e]) /\ \A d \in Proc \ {e} : fork'[d] = fork[d]
    BY DEF CowInv, Types
  <1>2. fork[e] \in ForkCall
    BY DEF CowInv, Types
  <1>3. /\ NextPage(fork[e]) \in ForkCall /\ NextPage(fork[e]).child = fork[e].child
        /\ NextPage(fork[e]).at = fork[e].at + 1
        /\ NextPage(fork[e]).step = (IF fork[e].at = 5 THEN "xstack" ELSE "look")
    BY <1>2, NextPageFacts
  <1> QED
    BY <1>1, <1>3

LEMMA DupShareSimulated ==
    ASSUME CowInv, Private, NEW e \in Proc, DupShare(e)
    PROVE  Simulated
  <1>1. /\ Forking(e, "share") /\ MapChild(e, "RO") /\ fork' = [fork EXCEPT ![e] = NextPage(@)]
        /\ env' = env /\ mem' = mem /\ faults' = faults
    BY DEF DupShare
  <1>2. fork[e] # None /\ fork[e].at \in 1..5
    BY <1>1, ForkingFacts DEF LoopSteps
  <1>3. /\ \A d \in Proc \ {e} : fork'[d] = fork[d]
        /\ fork'[e] \in ForkCall /\ fork'[e].child = fork[e].child /\ fork'[e].at = fork[e].at + 1
        /\ fork'[e].step # "mark"
    BY <1>1, <1>2, NextPageTaken
  <1>4. \A i \in 2..4 : i < fork'[e].at \/ (i = fork'[e].at /\ fork'[e].step = "mark") <=> i =< fork[e].at
    BY <1>2, <1>3
  <1> QED
    BY <1>1, <1>3, <1>4, ChildMappedSimulated

LEMMA DupMarkSimulated ==
    ASSUME CowInv, Private, NEW e \in Proc, DupMark(e)
    PROVE  Simulated
  <1>1. /\ Forking(e, "mark") /\ pte' = [pte EXCEPT ![e][At(e)].perm = "COW"]
        /\ fork' = [fork EXCEPT ![e] = NextPage(@)] /\ env' = env /\ mem' = mem /\ faults' = faults
    BY DEF DupMark
  <1>2. /\ fork[e] # None /\ fork[e].step = "mark" /\ fork[e].at \in 1..5 /\ faults[e] = <<>>
    BY <1>1, ForkingFacts DEF LoopSteps, Runs
  <1>3. /\ \A d \in Proc \ {e} : fork'[d] = fork[d]
        /\ fork'[e] \in ForkCall /\ fork'[e].child = fork[e].child /\ fork'[e].at = fork[e].at + 1
        /\ fork'[e].step # "mark"
    BY <1>1, <1>2, NextPageTaken
  <1>4. fork'[e] # None
    BY <1>3, CowAssumption
  <1>5. PICK c \in Proc : c = fork[e].child /\ c # e
    BY <1>1, ForkingFacts
  <1>6. PICK at \in UserPage : at = At(e) /\ pte[e][at] # None
    BY <1>2 DEF CowInv, Forks, ForkOk, Copyable, UserPage
  <1>7. at \in Va /\ \A wa \in UserPage : wa \in Va
    BY Addresses DEF UserPage
  <1> DEFINE m == [pte[e][at] EXCEPT !.perm = "COW"]
  <1>8. m \in Mapping /\ m # None /\ m.frame = pte[e][at].frame /\ m.perm = "COW"
    <2>1. pte[e][at] \in Mapping
      BY <1>6, <1>7, Mapped DEF CowInv
    <2> QED
      BY <2>1, CowAssumption DEF Mapping
  <1>9. pte' = [pte EXCEPT ![e][at] = m]
    BY <1>1, <1>6, <1>7 DEF CowInv, Types
  <1> HIDE DEF m
  <1>10. /\ pte'[e][at] = m
         /\ \A wa \in Va \ {at} : pte'[e][wa] = pte[e][wa]
         /\ \A d \in Proc \ {e} : pte'[d] = pte[d]
    <2>1. Types /\ m \in Mapping \cup {None} /\ Sets(e, at, m)
      BY <1>8, <1>9 DEF CowInv, Sets
    <2> QED
      BY <1>7, <2>1, MapFacts
  <1>11. fork[e].at \in 2..4 /\ Scan[fork[e].at] = at
    BY <1>2, <1>6, Addresses DEF At, UserPage
  <1>12. \A i \in 2..4 : pte[c][Scan[i]] # None <=> i < fork[e].at \/ i = fork[e].at
    BY <1>2, <1>5 DEF Private, PrivateOf, ChildPages
  <1>13. pte[c][at] # None
    BY <1>11, <1>12
  <1>14. ChildPages(e)'
    <2>1. \A i \in 2..4 : i < fork'[e].at <=> i < fork[e].at \/ i = fork[e].at
      BY <1>2, <1>3
    <2> QED
      BY <1>3, <1>5, <1>10, <1>12, <2>1 DEF ChildPages
  <1>15. Perm(e, at)' # "W"
    BY <1>8, <1>10 DEF Perm
  <1>16. at \in Copied(e)'
    BY <1>3, <1>5, <1>10, <1>13, <1>15 DEF Copied
  <1>17. at \notin Copied(e) => pte[c][at].frame = pte[e][at].frame
    BY <1>5, <1>13 DEF Copied, SameFrame
  <1> QED
    BY <1>1, <1>2, <1>3, <1>4, <1>5, <1>7, <1>8, <1>10, <1>14, <1>16, <1>17, PageCopied

LEMMA StartSimulated ==
    ASSUME CowInv, Private, NEW e \in Proc, Start(e)
    PROVE  Simulated
  <1>1. /\ Forking(e, "start") /\ env' = [env EXCEPT ![fork[e].child] = "live"]
        /\ fork' = [fork EXCEPT ![e] = None] /\ pte' = pte /\ mem' = mem /\ faults' = faults
    BY DEF Start
  <1>2. /\ fork[e] # None /\ fork[e].step = "start" /\ faults[e] = <<>> /\ env[e] = "live"
        /\ fork[e] \in ForkCall /\ ~(fork[e].at \in 1..5)
    BY <1>1, ForkingFacts DEF LoopSteps, Runs
  <1>3. fork[e].at = 6
    BY <1>2 DEF ForkCall
  <1>4. PICK c \in Proc : c = fork[e].child /\ c # e /\ env[c] = "made"
    BY <1>1, ForkingFacts
  <1>5. /\ fork'[e] = None /\ env'[c] = "live"
        /\ \A d \in Proc \ {e} : fork'[d] = fork[d]
        /\ \A d \in Proc \ {c} : env'[d] = env[d]
    BY <1>1, <1>4 DEF CowInv, Types
  <1>6. Confined(e, c)
    <2>1. \A d \in Proc : Kept(d, Va)
      BY <1>1 DEF Kept
    <2> QED
      BY <1>1, <1>2, <1>4, <1>5, <2>1, ForkConfined
  <1>7. fork[c] = None /\ faults[c] = <<>>
    BY <1>4 DEF CowInv, Quiet, QuietOf
  <1>8. \A va \in UserPage : pte[c][va] # None
    <2>1. \A i \in 2..4 : pte[c][Scan[i]] # None
      BY <1>2, <1>3, <1>4 DEF Private, PrivateOf, ChildPages
    <2>2. pte[c][Scan[2]] # None /\ pte[c][Scan[3]] # None /\ pte[c][Scan[4]] # None
      BY <2>1
    <2> QED
      BY <2>2, Addresses DEF UserPage
  <1>9. PrivateOf(c)'
    BY <1>1, <1>4, <1>5, <1>7, <1>8 DEF PrivateOf, Full, ChildPages, CopyOf, Handling
  <1>10. PrivateOf(e)'
    BY <1>1, <1>2, <1>4, <1>5 DEF PrivateOf, Full, ChildPages, CopyOf, Handling, Private
  <1>11. \A d \in Proc \ {e, c} : PrivateOf(d)' /\ Memories'[d] = Memories[d] /\ Images'[d] = Images[d]
    BY <1>2, <1>6, OthersPrivate
  <1>12. Private'
    BY <1>9, <1>10, <1>11 DEF Private
  <1>13. Copied(e) = UserPage
    <2>1. ASSUME NEW va \in UserPage PROVE ~(SameFrame(e, va, c, va) /\ Perm(e, va) = "W")
      <3>1. va \in Va
        BY Addresses DEF UserPage
      <3>2. ~Marking(e, va, c, va)
        BY <1>2 DEF Marking
      <3> QED
        BY <1>4, <3>1, <3>2 DEF CowInv, Apart
    <2> QED
      BY <1>4, <1>8, <2>1 DEF Copied
  <1>14. /\ Images[e] = [va \in UserPage |-> mem[pte[c][va].frame]]
         /\ Images[e] # None /\ DOMAIN Images[e] = UserPage
    BY <1>2, <1>4, <1>13, ImageThere
  <1>15. Memories'[c] = Images[e]
    <2>1. Memories'[c] = [va \in UserPage |-> mem[pte[c][va].frame]]
      BY <1>1, <1>5 DEF Memories, Contents
    <2> QED
      BY <1>14, <2>1
  <1>16. Memories'[e] = Memories[e]
    BY <1>1, <1>4, <1>5 DEF Memories, Contents
  <1>17. Memories[c] = None
    BY <1>4 DEF Memories
  <1>18. Images'[e] = None /\ Images'[c] = Images[c]
    BY <1>4, <1>5, <1>7 DEF Images
  <1>19. Memories' = [Memories EXCEPT ![c] = Images[e]]
    BY <1>11, <1>15, <1>16, OneMemory
  <1>20. Images' = [Images EXCEPT ![e] = None]
    BY <1>11, <1>18, OneImage
  <1>21. Abstract!Live(e) /\ ~Abstract!Live(c)
    BY <1>2, <1>17, LiveMemory DEF Abstract!Live
  <1>22. Abstract!Start(e, c)
    BY <1>14, <1>19, <1>20, <1>21 DEF Abstract!Start
  <1> QED
    BY <1>12, <1>22 DEF Simulated, Abstract!Next

-----------------------------------------------------------------------------
LEMMA PrivateInit == Init => Private /\ Abstract!Init
  <1> SUFFICES ASSUME Init PROVE Private /\ Abstract!Init
    OBVIOUS
  <1>1. PICK f \in [UserPage -> Frame] :
            pte = [e \in Proc |->
                      IF e = First
                      THEN [va \in Va |-> IF va \notin UserPage THEN None
                                          ELSE [frame |-> f[va], perm |-> IF va = "text" THEN "RO" ELSE "W"]]
                      ELSE Unmapped]
    BY DEF Init
  <1>2. /\ env = [e \in Proc |-> IF e = First THEN "live" ELSE "free"]
        /\ mem = [x \in Frame |-> Zero] /\ fork = [e \in Proc |-> None] /\ faults = [e \in Proc |-> <<>>]
    BY DEF Init
  <1>3. \A e \in Proc : fork[e] = None /\ faults[e] = <<>> /\ (env[e] = "live" <=> e = First)
    BY <1>2
  <1>4. \A va \in UserPage : pte[First][va] = [frame |-> f[va], perm |-> IF va = "text" THEN "RO" ELSE "W"]
    BY <1>1, CowAssumption, Addresses DEF UserPage
  <1>5. \A va \in UserPage : pte[First][va] # None /\ mem[pte[First][va].frame] = Zero
    <2> TAKE va \in UserPage
    <2>1. [frame |-> f[va], perm |-> IF va = "text" THEN "RO" ELSE "W"] \in Mapping
      BY DEF Mapping
    <2>2. pte[First][va] # None
      BY <1>4, <2>1, CowAssumption
    <2>3. pte[First][va].frame = f[va]
      <3>1. pte[First][va] = [frame |-> f[va], perm |-> IF va = "text" THEN "RO" ELSE "W"]
        BY <1>4
      <3> QED
        BY <3>1
    <2> QED
      BY <1>2, <2>2, <2>3
  <1>6. Private
    BY <1>3, <1>5 DEF Private, PrivateOf, Full, ChildPages, CopyOf, Handling
  <1>7. Memories = [e \in Proc |-> IF e = First THEN [va \in UserPage |-> Zero] ELSE None]
    <2>1. Contents(First, UserPage) = [va \in UserPage |-> Zero]
      BY <1>5 DEF Contents
    <2> QED
      BY <1>3, <2>1 DEF Memories
  <1>8. Images = [e \in Proc |-> None]
    BY <1>3 DEF Images
  <1> QED
    BY <1>6, <1>7, <1>8 DEF Abstract!Init

LEMMA PrivateNext == CowInv /\ Private /\ [Next]_vars => Simulated
  <1> SUFFICES ASSUME CowInv, Private, [Next]_vars PROVE Simulated
    OBVIOUS
  <1>1. CASE UNCHANGED vars
    <2>1. UNCHANGED <<env, pte, mem, fork, faults>>
      BY <1>1 DEF vars
    <2>2. Private'
      BY <2>1 DEF Private, PrivateOf, Full, ChildPages, CopyOf, Handling, Depth, FaultVa, XFrame
    <2>3. Memories' = Memories /\ Images' = Images
      BY <2>1 DEF Memories, Images, Contents, Copied, SameFrame, Perm
    <2> QED
      BY <2>2, <2>3 DEF Simulated, Abstract!pmVars
  <1>2. ASSUME NEW e \in Proc, HandlerAlloc(e) PROVE Simulated
    BY <1>2, ExitSimulated, HandlerAllocSimulated DEF HandlerAlloc
  <1>3. CASE Next
    <2>1. PICK e \in Proc :
             \/ Exit(e) \/ SetHandler(e)
             \/ \E va \in UserPage, v \in Val : Store(e, va, v)
             \/ HandlerAlloc(e) \/ HandlerCopy(e) \/ HandlerMap(e) \/ HandlerUnmap(e) \/ HandlerReturn(e)
             \/ \E c \in Proc : SysExofork(e, c)
             \/ Look(e) \/ DupMap(e) \/ DupMark(e) \/ DupShare(e) \/ GiveXStack(e) \/ Start(e)
      BY <1>3 DEF Next
    <2> QED
      BY <1>2, <2>1, ExitSimulated, SetHandlerSimulated, StoreSimulated, HandlerCopySimulated,
         HandlerMapSimulated, HandlerUnmapSimulated, HandlerReturnSimulated, SysExoforkSimulated,
         LookSimulated, DupMapSimulated, DupMarkSimulated, DupShareSimulated, GiveXStackSimulated, StartSimulated
  <1> QED
    BY <1>1, <1>3

(* Whatever the faults and forks of the others, an environment's memory    *)
(* changes by its own stores only, and a child starts with a copy of each  *)
(* page its parent had: copy-on-write is not seen.                         *)
THEOREM ForkImplementsPrivateMemory == Spec => ImplementsPrivateMemory
  <1>1. Init => Private /\ Abstract!Init
    BY PrivateInit
  <1>2. CowInv /\ Private /\ [Next]_vars => Private' /\ [Abstract!Next]_(Abstract!pmVars)
    BY PrivateNext DEF Simulated
  <1> QED
    BY <1>1, <1>2, ForkInvariant, PTL DEF Spec, ImplementsPrivateMemory, Abstract!Spec
=======================================================================
