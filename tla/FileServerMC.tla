------------------------- MODULE FileServerMC --------------------------
(* A small instance of FileServer: free frames differ in nothing.          *)
EXTENDS FileServer, TLC

AnyFrame(S) == IF S = {} THEN {} ELSE {CHOOSE f \in S : TRUE}

FrameSymmetry == Permutations(Frame) \cup Permutations(File)
=======================================================================
