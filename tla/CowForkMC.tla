--------------------------- MODULE CowForkMC ---------------------------
(* A small instance of CowFork. Frames differ in nothing: they are set     *)
(* aside for the pages they will be, and then one free frame stands for    *)
(* all.                                                                    *)
EXTENDS CowFork, TLC

CONSTANTS Text, Data, Stack, XStack     \* the frames set aside

Frames == Text \cup Data \cup Stack \cup XStack

For(va) == CASE va = "text" -> Text [] va = "data" -> Data [] va = "stack" -> Stack [] OTHER -> XStack

AnyFrame(va, S) ==
    IF S \cap For(va) = {} THEN {} ELSE {CHOOSE f \in S \cap For(va) : TRUE}

FirstPlaces == Init /\ \A va \in UserPage : pte[First][va].frame = CHOOSE f \in For(va) : TRUE

OneSpec == FirstPlaces /\ [][Next]_vars

FrameSymmetry == Permutations(Data) \cup Permutations(Stack) \cup Permutations(XStack)
=======================================================================
