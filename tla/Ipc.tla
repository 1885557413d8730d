------------------------------ MODULE Ipc ------------------------------
(***************************************************************************)
(* sys_ipc_try_send and sys_ipc_recv (kern/syscall.c, the blocking version *)
(* of both) on top of Env: the environments that send and receive are      *)
(* scheduled, killed and replaced by others in the same slot meanwhile.    *)
(*                                                                         *)
(* Of a page only what IPC decides about it is modelled: whether one is    *)
(* offered, whether the receiver takes one, and the call that fails for it.*)
(* env_ipc_perm is left out: nothing in the kernel looks at it.            *)
(***************************************************************************)
EXTENDS Env

CONSTANTS
    Value,      (* the values that are sent                                *)
    PageArgs    (* whether calls name a page: {FALSE}, {TRUE} or both      *)

Message == [to : EnvId \cup {None}, value : Value]

ASSUME IpcAssumption ==
    /\ None \notin Value \cup EnvId \cup Message
    /\ PageArgs \subseteq BOOLEAN

VARIABLES
    recving,    (* env_ipc_recving                                         *)
    dstva,      (* TRUE when env_ipc_dstva < UTOP                          *)
    from,       (* env_ipc_from                                            *)
    value,      (* env_ipc_value, None before the first message            *)
    pendTo,     (* env_ipc_pending_envid                                   *)
    pendValue,  (* env_ipc_pending_value                                   *)
    pendPage,   (* TRUE when env_ipc_pending_page # NULL                   *)
    unheard     (* history: the slots whose environment sent to envid 0    *)

ipcVars == <<recving, dstva, from, value, pendTo, pendValue, pendPage, unheard>>
vars == <<envVars, ipcVars>>

IpcInit ==
    /\ Init
    /\ recving = [e \in Slot |-> FALSE]
    /\ dstva \in [Slot -> BOOLEAN]      (* envs[] is never cleared         *)
    /\ from = [e \in Slot |-> None]
    /\ value = [e \in Slot |-> None]
    /\ pendTo = [e \in Slot |-> None]
    /\ pendValue = [e \in Slot |-> None]
    /\ pendPage = [e \in Slot |-> FALSE]
    /\ unheard = {}

(* Mutant: env_alloc does not clear the ids of the slot's last owner.      *)
IpcResetNothing(e) == UNCHANGED ipcVars

(* env_alloc clears these two fields and no others.                        *)
IpcReset(e) ==
    /\ recving' = [recving EXCEPT ![e] = FALSE]
    /\ pendTo' = [pendTo EXCEPT ![e] = None]
    /\ unheard' = unheard \ {e}
    /\ UNCHANGED <<dstva, from, value, pendValue, pendPage>>

-----------------------------------------------------------------------------
(* sys_ipc_try_send(to, v, page or no page) by curenv of CPU c.            *)

(* envid2env: 0 names the caller, who is not listening, and still 0 is what*)
(* the sender stores as its receiver's id.                                 *)
Named(c, to) == IF to = None THEN curenv[c] ELSE to
SentTo(to) == IF to = None THEN None ELSE EnvIdOf(K, to)

Transfers(e, page) == page /\ (dstva[e] \/ ~recving[e])

(* A page argument that is wrong, or no memory for the receiver's page     *)
(* table: the call fails after its first assignments.                      *)
SendFails(c, g, e, page) ==
    /\ Transfers(e, page)
    /\ pendPage' = [pendPage EXCEPT ![curenv[c]] = @ /\ recving[e]]
    /\ Return(c, g, K)
    /\ UNCHANGED <<recving, dstva, from, value, pendTo, pendValue, unheard>>

(* The receiver is ready: it gets the message and is woken.                *)
Deliver(c, g, e, v) ==
    /\ recving[e]
    /\ recving' = [recving EXCEPT ![e] = FALSE]
    /\ from' = [from EXCEPT ![e] = EnvIdOf(K, curenv[c])]
    /\ value' = [value EXCEPT ![e] = v]
    /\ Return(c, g, [K EXCEPT !.status[e] = "RUNNABLE"])
    /\ UNCHANGED <<dstva, pendTo, pendValue, pendPage, unheard>>

(* The receiver is not ready: the sender sleeps on its message, for good   *)
(* when it has sent to 0, which no receiver has for its id.                *)
Enqueue(c, to, v, page) ==
    /\ ~recving[Named(c, to)]
    /\ pendTo' = [pendTo EXCEPT ![curenv[c]] = SentTo(to)]
    /\ pendValue' = [pendValue EXCEPT ![curenv[c]] = v]
    /\ pendPage' = [pendPage EXCEPT ![curenv[c]] = page]
    /\ unheard' = IF to = None THEN unheard \cup {curenv[c]} ELSE unheard
    /\ SchedYield(c, [K EXCEPT !.status[curenv[c]] = "NOT_RUNNABLE"])
    /\ UNCHANGED <<recving, dstva, from, value>>

(* The receiver is any live environment, the caller included, or the 0 that*)
(* ipc_find_env returns when there is none, which lib/file.c and           *)
(* lib/nsipc.c pass on.                                                    *)
SysIpcTrySend(c, g, to, v, page) ==
    /\ Enter(c, g, "ipc_send")
    /\ curenv[c] \in User
    /\ env_status[Named(c, to)] # "FREE"
    /\ \/ SendFails(c, g, Named(c, to), page)
       \/ Deliver(c, g, Named(c, to), v)
       \/ Enqueue(c, to, v, page)
    /\ UNCHANGED <<up, fresh>>

-----------------------------------------------------------------------------
(* sys_ipc_recv(dstva < UTOP or not) by curenv of CPU c.                   *)

(* Mutant: a dead sender's message counts too.                             *)
SendersToDead(b) == {a \in Slot : pendTo[a] = EnvIdOf(K, b)}

SendersTo(b) ==
    {a \in Slot : env_status[a] # "FREE" /\ pendTo[a] = EnvIdOf(K, b)}

(* The scan of envs[] starts at the front.                                 *)
FirstSender(a, b) ==
    a \in SendersTo(b) /\ \A x \in SendersTo(b) : a <= x

AskFor(b, page) == dstva' = [dstva EXCEPT ![b] = @ \/ page]

(* No memory to map the page: the message stays.                           *)
RecvFails(c, g, page) ==
    LET b == curenv[c]
    IN /\ \E a \in Slot : FirstSender(a, b) /\ pendPage[a] /\ page
       /\ Return(c, g, K)
       /\ UNCHANGED <<recving, from, value, pendTo, pendValue, pendPage, unheard>>

(* Somebody sleeps on a message for b: b gets it, the sender is woken.     *)
Take(c, g) ==
    LET b == curenv[c]
    IN \E a \in Slot :
        /\ FirstSender(a, b)
        /\ value' = [value EXCEPT ![b] = pendValue[a]]
        /\ from' = [from EXCEPT ![b] = EnvIdOf(K, a)]
        /\ pendTo' = [pendTo EXCEPT ![a] = None]
        /\ Return(c, g, [K EXCEPT !.status[a] = "RUNNABLE"])
        /\ UNCHANGED <<recving, pendValue, pendPage, unheard>>

(* Mutant: waits without looking for senders that already wait for it.     *)
ListenUnchecked(c) ==
    LET b == curenv[c]
    IN /\ recving' = [recving EXCEPT ![b] = TRUE]
       /\ SchedYield(c, [K EXCEPT !.status[b] = "NOT_RUNNABLE"])
       /\ UNCHANGED <<from, value, pendTo, pendValue, pendPage, unheard>>

Listen(c) ==
    LET b == curenv[c]
    IN /\ SendersTo(b) = {}
       /\ recving' = [recving EXCEPT ![b] = TRUE]
       /\ SchedYield(c, [K EXCEPT !.status[b] = "NOT_RUNNABLE"])
       /\ UNCHANGED <<from, value, pendTo, pendValue, pendPage, unheard>>

SysIpcRecv(c, g, page) ==
    /\ Enter(c, g, "ipc_recv")
    /\ curenv[c] \in User
    /\ AskFor(curenv[c], page)
    /\ RecvFails(c, g, page) \/ Take(c, g) \/ Listen(c)
    /\ UNCHANGED <<up, fresh>>

-----------------------------------------------------------------------------
(* The kernel entries of Env, with what they do to the IPC fields.         *)
OtherEntry(c) ==
    \/ BootCpu(c) \/ Interrupts(c) \/ TrapFault(c)
    \/ \E g \in Gates :
          \/ SysYield(c, g)
          \/ \E e \in User :
                \/ SysEnvDestroy(c, g, e)
                \/ SysExecCommit(c, g, e)
                \/ \E s \in {"RUNNABLE", "NOT_RUNNABLE"} :
                      SysEnvSetStatus(c, g, e, s)

IpcEntry(c) ==
    \/ OtherEntry(c) /\ UNCHANGED ipcVars
    \/ \E g \in Gates :
          \/ SysExofork(c, g) /\ IpcReset(Head(free_list))
          \/ \E page \in PageArgs :
                \/ SysIpcRecv(c, g, page)
                \/ \E to \in User \cup {None}, v \in Value : SysIpcTrySend(c, g, to, v, page)

IpcNext == \E c \in CPU : IpcEntry(c)

IpcSpec == IpcInit /\ [][IpcNext]_vars

-----------------------------------------------------------------------------
IpcTypeOK ==
    /\ recving \in [Slot -> BOOLEAN]
    /\ dstva \in [Slot -> BOOLEAN]
    /\ from \in [Slot -> EnvId \cup {None}]
    /\ value \in [Slot -> Value \cup {None}]
    /\ pendTo \in [Slot -> EnvId \cup {None}]
    /\ pendValue \in [Slot -> Value \cup {None}]
    /\ pendPage \in [Slot -> BOOLEAN]
    /\ unheard \subseteq User

Alive(e) == env_status[e] # "FREE"

(* A sender and a receiver that wait for each other have met: nobody       *)
(* listens while a message for it is pending.                              *)
NoMissedRendezvous ==
    \A a, b \in Slot :
        Alive(a) /\ Alive(b) /\ recving[b] => pendTo[a] # EnvIdOf(K, b)

(* An environment sleeps exactly when it is a child that is not started,   *)
(* waits in one of the two calls, or sent to envid 0 and will not be heard *)
(* of again: no wakeup is lost, none comes early, and nobody waits for two *)
(* of these at once.                                                       *)
SleepersWait ==
    \A e \in Slot : Alive(e) =>
        /\ env_status[e] = "NOT_RUNNABLE"
              <=> e \in fresh \/ recving[e] \/ pendTo[e] # None \/ e \in unheard
        /\ ~(recving[e] /\ pendTo[e] # None)
        /\ e \in unheard => ~recving[e] /\ pendTo[e] = None

(* What an environment, its message and its mailbox are in Rendezvous.      *)
Names == [e \in User |-> IF Alive(e) THEN <<e, env_gen[e]>> ELSE None]

Offers == [e \in User |-> IF Alive(e) /\ (pendTo[e] # None \/ e \in unheard)
                          THEN [to |-> pendTo[e], value |-> pendValue[e]]
                          ELSE None]

Listening == {e \in User : Alive(e) /\ recving[e]}

Mailboxes == [e \in User |-> IF value[e] = None THEN None
                             ELSE [from |-> from[e], value |-> value[e]]]

Abstract == INSTANCE Rendezvous WITH
    Env <- User, Id <- EnvId,
    name <- Names, offer <- Offers, listening <- Listening, mailbox <- Mailboxes

(* Every message that is taken is put into one mailbox, once, and the      *)
(* message whose sender returns is the one its receiver got: the two       *)
(* calls, scheduled and interrupted as they are, implement Rendezvous.     *)
ImplementsRendezvous == Abstract!Spec
=======================================================================
