------------------------------ MODULE Env ------------------------------
(***************************************************************************)
(* Environments and the scheduler: kern/env.c, kern/sched.c, the paths     *)
(* into the kernel of kern/trap.c and kern/syscall.c, and the system calls *)
(* that create, start, replace and destroy environments.                   *)
(*                                                                         *)
(* Every path into the kernel runs under the big kernel lock from its      *)
(* first access to shared state to its return to user mode (SpinLock shows *)
(* what the lock does), so a kernel entry is one action.  A C function is  *)
(* an operator from kernel states to kernel states: the kernel state is a  *)
(* record with one field per variable, K is its value before the entry and *)
(* Commit makes a value the one after it.                                  *)
(***************************************************************************)
EXTENDS Integers, Sequences, FiniteSets

CONSTANTS
    NCPU,       (* processors; envs[0..NCPU-1] are their idle envs         *)
    NENV,       (* slots of envs[]                                         *)
    Pgdir,      (* the pages that can become page directories              *)
    NextPgdir(_), (* those of the free ones that page_alloc may return     *)
    KernPgdir,  (* kern_pgdir                                              *)
    None,       (* a null pointer, or envid 0                              *)
    MaxGen,     (* generations of an envid before it wraps: 2^19 - 1       *)
    GenWraps,   (* TRUE: ids are reused; FALSE: a bound on the allocations *)
    Calls,      (* what the environments do: system calls, and "fault"     *)
    Gates,      (* how: "trap" (int $0x30), "sysenter", or both            *)
    LibraryUse  (* those of the calls that environments make only in the   *)
                (* way lib/fork.c, lib/spawn.c and lib/exit.c make them    *)

CPU  == 0..(NCPU - 1)
Slot == 0..(NENV - 1)
Idle == CPU                 (* ENV_TYPE_IDLE: envs[] is filled in order    *)
User == Slot \ Idle
EnvId == Slot \X (1..MaxGen)

ASSUME EnvAssumption ==
    /\ NCPU \in Nat \ {0}
    /\ NENV \in Nat
    /\ NCPU < NENV
    /\ KernPgdir \notin Pgdir
    /\ None \notin Pgdir \cup Slot
    /\ MaxGen \in Nat \ {0}
    /\ GenWraps \in BOOLEAN
    /\ LibraryUse \subseteq Calls
    /\ Calls \subseteq {"yield", "exofork", "set_status", "env_destroy",
                        "exec_commit", "ipc_send", "ipc_recv", "fault"}
    /\ Gates \subseteq {"trap", "sysenter"}

ASSUME PgdirAssumption == \A S \in SUBSET Pgdir : NextPgdir(S) \subseteq S

Status == {"FREE", "DYING", "RUNNABLE", "RUNNING", "NOT_RUNNABLE"}

VARIABLES
    env_status, (* of each slot                                            *)
    env_gen,    (* the generation in its env_id, 0 when never used         *)
    env_parent, (* its env_parent_id                                       *)
    env_pgdir,  (* its page directory                                      *)
    free_list,  (* env_free_list, first slot first                         *)
    curenv,     (* what each CPU runs                                      *)
    cr3,        (* the page directory loaded on each CPU                   *)
    up,         (* the CPUs that have entered the scheduler                *)
    halted,     (* TRUE when a CPU sits in the monitor, lock and all       *)
    fresh       (* history: made by exofork and not yet started            *)

envVars == <<env_status, env_gen, env_parent, env_pgdir, free_list,
             curenv, cr3, up, halted, fresh>>

K == [status |-> env_status, gen |-> env_gen, parent |-> env_parent,
      pgdir |-> env_pgdir, free |-> free_list, cur |-> curenv, cr3 |-> cr3]

Commit(k) ==
    /\ env_status' = k.status
    /\ env_gen' = k.gen
    /\ env_parent' = k.parent
    /\ env_pgdir' = k.pgdir
    /\ free_list' = k.free
    /\ curenv' = k.cur
    /\ cr3' = k.cr3

EnvIdOf(k, e) == <<e, k.gen[e]>>

-----------------------------------------------------------------------------
(* kern/env.c                                                              *)

(* env_setup_vm's page: any page that is no environment's directory.       *)
FreePgdirs(k) == Pgdir \ {k.pgdir[e] : e \in Slot}

NextGen(g) == IF g = MaxGen THEN 1 ELSE g + 1

(* Mutant: the allocation is not committed to the free list.               *)
EnvAllocUncommitted(k, p, parent) ==
    LET e == Head(k.free)
    IN [k EXCEPT !.status[e] = "RUNNABLE", !.parent[e] = parent,
                 !.gen[e] = NextGen(@), !.pgdir[e] = p]

EnvAlloc(k, p, parent) ==
    LET e == Head(k.free)
    IN [k EXCEPT !.status[e] = "RUNNABLE", !.parent[e] = parent,
                 !.gen[e] = NextGen(@), !.pgdir[e] = p, !.free = Tail(@)]

(* A CPU that frees the environment it runs leaves its address space first.*)
EnvFree(c, k, e) ==
    [k EXCEPT !.cr3[c] = IF k.cur[c] = e THEN KernPgdir ELSE @,
              !.pgdir[e] = None, !.status[e] = "FREE", !.free = <<e>> \o @]

(* Mutant: no zombies, the environment is freed wherever it runs.          *)
EnvDestroyAlways(c, k, e) ==
    [EnvFree(c, k, e) EXCEPT !.cur[c] = IF @ = e THEN None ELSE @]

(* The caller goes on to the scheduler when it destroyed itself.           *)
EnvDestroy(c, k, e) ==
    IF k.status[e] = "RUNNING" /\ k.cur[c] # e
    THEN [k EXCEPT !.status[e] = "DYING"]
    ELSE [EnvFree(c, k, e) EXCEPT !.cur[c] = IF @ = e THEN None ELSE @]

(* The statuses after a switch on this CPU from environment f to e.        *)
Switched(status, f, e) ==
    [x \in Slot |-> IF x = e THEN "RUNNING"
                    ELSE IF x = f /\ status[x] = "RUNNING" THEN "RUNNABLE"
                    ELSE status[x]]

(* Mutant: the environment switched from stays RUNNING.                    *)
EnvRunKeepsOld(c, k, e) ==
    [k EXCEPT !.status[e] = "RUNNING", !.cur[c] = e, !.cr3[c] = k.pgdir[e]]

EnvRun(c, k, e) ==
    IF k.cur[c] = e THEN k
    ELSE [k EXCEPT !.status = Switched(@, k.cur[c], e),
                   !.cur[c] = e, !.cr3[c] = k.pgdir[e]]

-----------------------------------------------------------------------------
(* kern/sched.c                                                            *)

(* Mutant: a test from before there were zombies.                          *)
ReadyUnlessBlocked(k) == {e \in User : k.status[e] \notin {"FREE", "RUNNING", "NOT_RUNNABLE"}}

Ready(k) == {e \in User : k.status[e] = "RUNNABLE"}

(* How far the scan of envs[], which starts after this CPU's curenv (after *)
(* envs[0] when it has none), goes before it reaches e.                    *)
Distance(f, e) == (e - (IF f = None THEN 0 ELSE f) - 1 + 2 * NENV) % NENV

FirstReady(k, f, e) ==
    e \in Ready(k) /\ \A x \in Ready(k) : Distance(f, e) <= Distance(f, x)

(* Line 41: this CPU's environment may go on when nobody else is ready.    *)
StillRunning(c, k) ==
    k.cur[c] \in User /\ k.status[k.cur[c]] = "RUNNING"

NothingLeft(k) ==
    \A e \in User : k.status[e] \notin {"RUNNABLE", "RUNNING"}

(* Mutant: takes the first of the environments that are not blocked, which *)
(* another CPU may be running.                                             *)
ChosenRunning(c, k, e) ==
    /\ e \in User /\ k.status[e] \in {"RUNNABLE", "RUNNING"}
    /\ \A x \in User : k.status[x] \in {"RUNNABLE", "RUNNING"} =>
            Distance(k.cur[c], e) <= Distance(k.cur[c], x)

(* Mutant: the scan starts at the front of envs[] every time.              *)
ChosenFromFront(c, k, e) ==
    \/ FirstReady(k, None, e)
    \/ Ready(k) = {} /\ StillRunning(c, k) /\ e = k.cur[c]
    \/ Ready(k) = {} /\ ~StillRunning(c, k) /\ ~NothingLeft(k) /\ e = c

Chosen(c, k, e) ==
    \/ FirstReady(k, k.cur[c], e)
    \/ Ready(k) = {} /\ StillRunning(c, k) /\ e = k.cur[c]
    \/ Ready(k) = {} /\ ~StillRunning(c, k) /\ ~NothingLeft(k) /\ e = c

(* With no user environment left that could run, the CPU stays in the      *)
(* monitor and never releases the lock.                                    *)
SchedYield(c, k) ==
    \/ \E e \in Slot : Chosen(c, k, e) /\ Commit(EnvRun(c, k, e)) /\ UNCHANGED halted
    \/ NothingLeft(k) /\ Commit(k) /\ halted' = TRUE

-----------------------------------------------------------------------------
(* kern/init.c                                                             *)

(* After env_init, mp_init and the ENV_CREATEs: the idle environments and  *)
(* the first user environments are RUNNABLE, and no CPU has scheduled yet. *)
CONSTANT Boot               (* how many user environments i386_init makes  *)

ASSUME BootAssumption == Boot \in 1..(NENV - NCPU)

Created == 0..(NCPU + Boot - 1)

Init ==
    /\ env_status = [e \in Slot |-> IF e \in Created THEN "RUNNABLE" ELSE "FREE"]
    /\ env_gen = [e \in Slot |-> IF e \in Created THEN 1 ELSE 0]
    /\ env_parent = [e \in Slot |-> None]
    /\ \E p \in [Created -> Pgdir] :
          /\ \A d, e \in Created : p[d] = p[e] => d = e
          /\ env_pgdir = [e \in Slot |-> IF e \in Created THEN p[e] ELSE None]
    /\ free_list = [i \in 1..(NENV - NCPU - Boot) |-> NCPU + Boot + i - 1]
    /\ curenv = [c \in CPU |-> None]
    /\ cr3 = [c \in CPU |-> KernPgdir]
    /\ up = {}
    /\ halted = FALSE
    /\ fresh = {}

(* The last line of i386_init on the boot CPU, which holds the lock until  *)
(* then, and of mp_main on the others.                                     *)
BootCpu(c) ==
    /\ ~halted
    /\ c \notin up
    /\ c = 0 \/ 0 \in up
    /\ up' = up \cup {c}
    /\ SchedYield(c, K)
    /\ UNCHANGED fresh

-----------------------------------------------------------------------------
(* kern/trap.c                                                             *)

InUser(c) == ~halted /\ c \in up

Zombie(c) == env_status[curenv[c]] = "DYING"

(* Any trap of a zombie, from user mode, after the lock is taken.          *)
TrapReap(c) ==
    /\ InUser(c)
    /\ Zombie(c)
    /\ SchedYield(c, [EnvFree(c, K, curenv[c]) EXCEPT !.cur[c] = None])
    /\ UNCHANGED <<up, fresh>>

TrapTimer(c) ==
    /\ InUser(c)
    /\ ~Zombie(c)
    /\ SchedYield(c, K)
    /\ UNCHANGED <<up, fresh>>

(* A page fault without an upcall, an exception nobody handles, and (also  *)
(* through sysenter) a system call given a bad pointer.  The idle program  *)
(* does none of these.                                                     *)
TrapFault(c) ==
    /\ InUser(c)
    /\ "fault" \in Calls
    /\ curenv[c] \in User
    /\ ~Zombie(c)
    /\ SchedYield(c, EnvDestroy(c, K, curenv[c]))
    /\ UNCHANGED <<up, fresh>>

-----------------------------------------------------------------------------
(* kern/syscall.c                                                          *)

(* Mutant: trap() without its check for zombies.                           *)
EnterUnchecked(c, g, call) ==
    InUser(c) /\ g \in Gates /\ call \in Calls

(* trap() reaps a zombie before it looks at the call; sysenter() does not. *)
Enter(c, g, call) ==
    /\ InUser(c)
    /\ g \in Gates
    /\ call \in Calls
    /\ g = "trap" => ~Zombie(c)

(* A call that returns to its caller: trap() ends with env_run(curenv) or, *)
(* when the call changed curenv's status, the scheduler; sysenter() just   *)
(* returns.                                                                *)
Return(c, g, k) ==
    IF g = "trap" /\ k.status[k.cur[c]] # "RUNNING"
    THEN SchedYield(c, k)
    ELSE Commit(k) /\ UNCHANGED halted

(* envid2env with checkperm set, for an id that is up to date.             *)
MayManage(c, e) ==
    /\ env_status[e] # "FREE"
    /\ e = curenv[c] \/ env_parent[e] = EnvIdOf(K, curenv[c])

SysYield(c, g) ==
    /\ Enter(c, g, "yield")
    /\ SchedYield(c, K)
    /\ UNCHANGED <<up, fresh>>

SysExofork(c, g) ==
    /\ Enter(c, g, "exofork")
    /\ curenv[c] \in User
    /\ free_list # <<>>
    /\ GenWraps \/ env_gen[Head(free_list)] < MaxGen
    /\ \E p \in NextPgdir(FreePgdirs(K)) :
          LET e == Head(free_list)
              k == EnvAlloc(K, p, EnvIdOf(K, curenv[c]))
          IN Return(c, g, [k EXCEPT !.status[e] = "NOT_RUNNABLE"])
    /\ fresh' = fresh \cup {Head(free_list)}
    /\ UNCHANGED up

(* fork() and spawn() only ever start the child they have just set up.     *)
SysEnvSetStatus(c, g, e, status) ==
    /\ Enter(c, g, "set_status")
    /\ curenv[c] \in User
    /\ MayManage(c, e)
    /\ "set_status" \in LibraryUse => e \in fresh /\ status = "RUNNABLE"
    /\ Return(c, g, [K EXCEPT !.status[e] = status])
    /\ fresh' = fresh \ {e}
    /\ UNCHANGED up

(* exit() destroys the caller; spawn() and user programs destroy a child,  *)
(* once.                                                                   *)
SysEnvDestroy(c, g, e) ==
    /\ Enter(c, g, "env_destroy")
    /\ curenv[c] \in User
    /\ MayManage(c, e)
    /\ "env_destroy" \in LibraryUse => e = curenv[c] \/ env_status[e] # "DYING"
    /\ IF e = curenv[c] THEN SchedYield(c, EnvDestroy(c, K, e))
                        ELSE Return(c, g, EnvDestroy(c, K, e))
    /\ fresh' = fresh \ {e}
    /\ UNCHANGED up

(* Mutant: exec_commit without its lcr3.                                   *)
PgdirsSwappedOnly(c, k, e) ==
    [k EXCEPT !.pgdir[e] = k.pgdir[k.cur[c]],
              !.pgdir[k.cur[c]] = k.pgdir[e]]

PgdirsSwapped(c, k, e) ==
    [k EXCEPT !.pgdir = [x \in Slot |-> IF x = e THEN k.pgdir[k.cur[c]]
                                        ELSE IF x = k.cur[c] THEN k.pgdir[e]
                                        ELSE k.pgdir[x]],
              !.cr3[c] = k.pgdir[e]]

(* exec() commits the child it has just loaded; the call ends with         *)
(* env_run(curenv), which changes nothing.                                 *)
SysExecCommit(c, g, e) ==
    /\ Enter(c, g, "exec_commit")
    /\ curenv[c] \in User
    /\ MayManage(c, e)
    /\ "exec_commit" \in LibraryUse => e \in fresh
    /\ LET k == EnvDestroy(c, PgdirsSwapped(c, K, e), e)
       IN IF e = curenv[c] THEN SchedYield(c, k)
                           ELSE Commit(k) /\ UNCHANGED halted
    /\ fresh' = fresh \ {e}
    /\ UNCHANGED up

-----------------------------------------------------------------------------
Interrupts(c) == TrapReap(c) \/ TrapTimer(c)

Entry(c) ==
    \/ BootCpu(c)
    \/ Interrupts(c)
    \/ TrapFault(c)
    \/ \E g \in Gates :
          \/ SysYield(c, g)
          \/ SysExofork(c, g)
          \/ \E e \in User :
                \/ SysEnvDestroy(c, g, e)
                \/ SysExecCommit(c, g, e)
                \/ \E s \in {"RUNNABLE", "NOT_RUNNABLE"} :
                      SysEnvSetStatus(c, g, e, s)

Next == \E c \in CPU : Entry(c)

Spec == Init /\ [][Next]_envVars

(* Every CPU's LAPIC timer keeps interrupting (lapic_init programs it to   *)
(* repeat), so a CPU in user mode traps again and again; that the trap then*)
(* gets the lock is NoStarvation of TicketLock (the exchange lock leaves it*)
(* to the hardware).                                                       *)
Fairness == \A c \in CPU : WF_envVars(BootCpu(c)) /\ WF_envVars(Interrupts(c))

FairSpec == Spec /\ Fairness

-----------------------------------------------------------------------------
TypeOK ==
    /\ env_status \in [Slot -> Status]
    /\ env_gen \in [Slot -> 0..MaxGen]
    /\ env_parent \in [Slot -> EnvId \cup {None}]
    /\ env_pgdir \in [Slot -> Pgdir \cup {None}]
    /\ free_list \in Seq(Slot)
    /\ curenv \in [CPU -> Slot \cup {None}]
    /\ cr3 \in [CPU -> Pgdir \cup {KernPgdir}]
    /\ up \subseteq CPU
    /\ halted \in BOOLEAN
    /\ fresh \subseteq User

(* No environment is ever run by two CPUs at once, although env_status is  *)
(* all the scheduler looks at to tell (kern/sched.c:25).                   *)
OneCpuPerEnv ==
    \A c, d \in CPU : curenv[c] # None /\ curenv[c] = curenv[d] => c = d

(* What a CPU in user mode executes is an environment marked RUNNING, or a *)
(* zombie: never a freed slot and never one that sleeps; and whatever is   *)
(* marked RUNNING is executed by some CPU, so it is not lost.              *)
RunningIsCurrent ==
    /\ \A c \in CPU : InUser(c) => /\ curenv[c] # None
                                   /\ env_status[curenv[c]] \in {"RUNNING", "DYING"}
    /\ \A e \in Slot : env_status[e] = "RUNNING" => \E c \in CPU : curenv[c] = e

(* The address space loaded on a CPU is that of the environment it runs,   *)
(* hence never a directory that env_free gave back: fork, exec, exit and   *)
(* kills from other CPUs included.                                         *)
AddressSpaceMatches ==
    \A c \in CPU : cr3[c] = IF curenv[c] = None THEN KernPgdir
                                                 ELSE env_pgdir[curenv[c]]

(* Live environments have directories of their own, free slots have none.  *)
PgdirsDistinct ==
    /\ \A e \in Slot : env_pgdir[e] = None <=> env_status[e] = "FREE"
    /\ \A d, e \in Slot : env_pgdir[d] = env_pgdir[e] /\ d # e
                             => env_pgdir[d] = None

(* env_free_list holds every free slot once and nothing else.              *)
FreeListExact ==
    /\ \A i, j \in DOMAIN free_list : free_list[i] = free_list[j] => i = j
    /\ {free_list[i] : i \in DOMAIN free_list}
          = {e \in Slot : env_status[e] = "FREE"}

(* Every CPU finds its idle environment when it needs it: idle ones are    *)
(* never destroyed and never taken to another CPU ("No idle environment!").*)
IdleAtHome ==
    \A e \in Idle : /\ env_status[e] \in {"RUNNABLE", "RUNNING"}
                    /\ \A c \in CPU : curenv[c] = e => c = e

(* A zombie is on the CPU that will free it: one that is on no CPU never   *)
(* traps again, and its memory is lost.                                    *)
ZombieOnCpu ==
    \A e \in Slot : env_status[e] = "DYING" => \E c \in CPU : curenv[c] = e

(* An environment that runs on one CPU is never freed by another: it turns *)
(* into a zombie, and goes when its own CPU leaves it (kern/env.c:521).    *)
FreedOnItsCpu ==
    [][\A c \in CPU : InUser(c) /\ env_status'[curenv[c]] = "FREE"
                         => curenv'[c] # curenv[c]]_envVars

(* None of the calls of this module brings a destroyed environment back: a *)
(* zombie only ever becomes free.  (Nor do those of Ipc when they come in  *)
(* through trap(); a zombie that goes to sleep in one of them, which it can*)
(* through sysenter, is woken like any other environment.)                 *)
DyingIsFinal ==
    [][\A e \in Slot : env_status[e] = "DYING"
                            => env_status'[e] \in {"DYING", "FREE"}]_envVars

(* Whoever is ready gets a CPU (or the whole system stops in the monitor). *)
ReadyRuns ==
    \A e \in User : env_status[e] = "RUNNABLE"
                        ~> env_status[e] # "RUNNABLE" \/ halted
=======================================================================
