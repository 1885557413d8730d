------------------------------ MODULE FsMC ------------------------------
(* A small instance of Fs: file a may have an indirect block.              *)
EXTENDS Fs

Sizes == [n \in Name \cup {Unnamed} |-> IF n = "a" THEN 2 ELSE 1]

(* Bound: after a restart it goes on if there was a flushed file to find,  *)
(* and if at most one block was lost.                                      *)
Lost ==
    DataBlock \ (FreeBlocks(mem)
                    \cup {BlockOf(mem, f, n) : f \in AllFiles(mem) \cup {Root}, n \in 0..MAXFILESIZE})

FewLost ==
    restarts > 0 => Cardinality(Lost) <= 1 /\ \E n \in Name : saved[n] # {}
=========================================================================
