---------------------------- MODULE EnvMC -----------------------------
(* Small instances of Env.                                                 *)
EXTENDS Env

(* Liveness is checked without symmetry; one choice of the boot time page  *)
(* directories, with Pgdir = 1..NENV, stands for all of them.              *)
OneBootInit ==
    Init /\ env_pgdir = [e \in Slot |-> IF e \in Created THEN e + 1 ELSE None]

OneBootSpec == OneBootInit /\ [][Next]_envVars /\ Fairness

(* page_alloc may return any free page.                                    *)
AnyPgdir(S) == S
=======================================================================
