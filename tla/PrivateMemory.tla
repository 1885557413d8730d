------------------------- MODULE PrivateMemory -------------------------
(***************************************************************************)
(* What fork promises: every environment has a memory of its own, which    *)
(* only its own stores change. The child's is a copy of the parent's, page *)
(* by page as it was at some moment of the fork, complete when the child   *)
(* starts.                                                                 *)
(***************************************************************************)
CONSTANTS Proc, First, Page, Val, Zero, None

VARIABLES
    memory,     (* what each environment that has started has in its pages *)
    image       (* the copy each environment that forks is making          *)

pmVars == <<memory, image>>

Init ==
    /\ memory = [p \in Proc |-> IF p = First THEN [va \in Page |-> Zero] ELSE None]
    /\ image = [p \in Proc |-> None]

Live(p) == memory[p] # None

Store(p, va, v) ==
    /\ Live(p)
    /\ memory' = [memory EXCEPT ![p][va] = v]
    /\ UNCHANGED image

Fork(p) ==
    /\ Live(p) /\ image[p] = None
    /\ image' = [image EXCEPT ![p] = [va \in {} |-> Zero]]
    /\ UNCHANGED memory

Copy(p, va) ==
    /\ Live(p) /\ image[p] # None /\ va \notin DOMAIN image[p]
    /\ image' = [image EXCEPT ![p] = [w \in DOMAIN @ \cup {va} |->
                                        IF w = va THEN memory[p][va] ELSE @[w]]]
    /\ UNCHANGED memory

Start(p, c) ==
    /\ Live(p) /\ ~Live(c) /\ image[p] # None /\ DOMAIN image[p] = Page
    /\ memory' = [memory EXCEPT ![c] = image[p]]
    /\ image' = [image EXCEPT ![p] = None]

Exit(p) ==
    /\ Live(p)
    /\ memory' = [memory EXCEPT ![p] = None]
    /\ image' = [image EXCEPT ![p] = None]

Next ==
    \E p \in Proc :
        \/ Fork(p) \/ Exit(p)
        \/ \E va \in Page : Copy(p, va) \/ \E v \in Val : Store(p, va, v)
        \/ \E c \in Proc : Start(p, c)

Spec == Init /\ [][Next]_pmVars
=======================================================================
