-------------------------- MODULE Rendezvous --------------------------
(***************************************************************************)
(* What the IPC system calls promise, without slots, CPUs or a scheduler:  *)
(* a sender waits until its message is taken, a receiver until it gets     *)
(* one, a message goes into one mailbox, once, and both stop waiting.      *)
(***************************************************************************)
CONSTANTS Env, Id, Value, None

VARIABLES
    name,       (* the id of each environment, None for a free slot        *)
    offer,      (* what each environment waits to send, None or a message, *)
                (* which may be a message to None                          *)
    listening,  (* the environments that wait for a message                *)
    mailbox     (* the last message each environment received              *)

rvVars == <<name, offer, listening, mailbox>>

Waiting(e) == offer[e] # None \/ e \in listening

Init ==
    /\ name \in [Env -> Id \cup {None}]
    /\ offer = [e \in Env |-> None]
    /\ listening = {}
    /\ mailbox = [e \in Env |-> None]

Live(e) == name[e] # None /\ ~Waiting(e)

(* The receiver is already waiting: the message changes hands at once.     *)
SendNow(a, b, v) ==
    /\ Live(a)
    /\ b \in listening
    /\ mailbox' = [mailbox EXCEPT ![b] = [from |-> name[a], value |-> v]]
    /\ listening' = listening \ {b}
    /\ UNCHANGED <<name, offer>>

SendLater(a, b, v) ==
    /\ Live(a)
    /\ name[b] # None
    /\ b \notin listening
    /\ offer' = [offer EXCEPT ![a] = [to |-> name[b], value |-> v]]
    /\ UNCHANGED <<name, listening, mailbox>>

(* A message to nobody is never taken.                                     *)
SendToNobody(a, v) ==
    /\ Live(a)
    /\ offer' = [offer EXCEPT ![a] = [to |-> None, value |-> v]]
    /\ UNCHANGED <<name, listening, mailbox>>

ReceiveNow(a, b) ==
    /\ Live(b)
    /\ offer[a] # None
    /\ offer[a].to = name[b]
    /\ mailbox' = [mailbox EXCEPT ![b] = [from |-> name[a], value |-> offer[a].value]]
    /\ offer' = [offer EXCEPT ![a] = None]
    /\ UNCHANGED <<name, listening>>

ReceiveLater(b) ==
    /\ Live(b)
    /\ \A a \in Env : offer[a] # None => offer[a].to # name[b]
    /\ listening' = listening \cup {b}
    /\ UNCHANGED <<name, offer, mailbox>>

(* An environment is born, waiting for nothing, or dies, with whatever it  *)
(* was offering.                                                           *)
Born(e) ==
    /\ name[e] = None
    /\ name'[e] \in Id
    /\ name' = [name EXCEPT ![e] = name'[e]]
    /\ UNCHANGED <<offer, listening, mailbox>>

Dies(e) ==
    /\ name[e] # None
    /\ name' = [name EXCEPT ![e] = None]
    /\ offer' = [offer EXCEPT ![e] = None]
    /\ listening' = listening \ {e}
    /\ UNCHANGED mailbox

Next ==
    \E a \in Env :
        \/ ReceiveLater(a) \/ Born(a) \/ Dies(a)
        \/ \E v \in Value : SendToNobody(a, v)
        \/ \E b \in Env : ReceiveNow(a, b)
                          \/ \E v \in Value : SendNow(a, b, v) \/ SendLater(a, b, v)

Spec == Init /\ [][Next]_rvVars
=======================================================================
