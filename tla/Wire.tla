----------------------------- MODULE Wire ------------------------------
(***************************************************************************)
(* What each of the driver's two rings promises: packets come out in the   *)
(* order they went in, each once and whole, and there is room for Cap.     *)
(***************************************************************************)
EXTENDS Naturals, Sequences

CONSTANTS Packet, None, Cap

VARIABLES
    queue,
    out         (* the packet that came out last                           *)

wireVars == <<queue, out>>

Init == queue = <<>> /\ out = None

Put(p) ==
    /\ Len(queue) < Cap
    /\ queue' = Append(queue, p)
    /\ UNCHANGED out

Get ==
    /\ queue # <<>>
    /\ out' = Head(queue)
    /\ queue' = Tail(queue)

Next == Get \/ \E p \in Packet : Put(p)

Spec == Init /\ [][Next]_wireVars
=======================================================================
