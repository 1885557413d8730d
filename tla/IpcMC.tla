---------------------------- MODULE IpcMC -----------------------------
(* A small instance of Ipc.                                                *)
EXTENDS Ipc

(* IPC does not look at page directories: one choice stands for all. With  *)
(* a page in every call, what envs[] held before boot makes no difference  *)
(* either: one initial value of env_ipc_dstva.                             *)
OneInit ==
    /\ IpcInit
    /\ env_pgdir = [e \in Slot |-> IF e \in Created THEN e + 1 ELSE None]
    /\ dstva = [e \in Slot |-> FALSE]

OneSpec == OneInit /\ [][IpcNext]_vars

LeastPgdir(S) == {p \in S : \A q \in S : p <= q}

(* Bound: either three environments and the first CPU alone, or two of     *)
(* them and both CPUs; and two are created after the first.  One of those  *)
(* that run on the first CPU alone may send to envid 0.                    *)
Last == NENV - 1
Few ==
    /\ up = {0} \/ env_gen[Last] = 0
    /\ env_gen[Last - 2] + env_gen[Last - 1] + env_gen[Last] <= 3
    /\ unheard # {} => up = {0} /\ Cardinality(unheard) = 1
=======================================================================
