---------------------------- MODULE PmapMC ----------------------------
(* A small instance of Pmap. Free pages differ in nothing, so that it is   *)
(* enough to hand out one of them: giving out another one leads to the     *)
(* same state with these two pages exchanged.                              *)
EXTENDS Pmap, TLC

AnyPage(S) == IF S = {} THEN {} ELSE {CHOOSE p \in S : TRUE}

OneTable == [va \in Va |-> "pde1"]

CpuPageSymmetry == Permutations(CPU) \cup Permutations(Page)
=======================================================================
