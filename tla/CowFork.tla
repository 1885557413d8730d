---------------------------- MODULE CowFork ----------------------------
(***************************************************************************)
(* fork() in user space (lib/fork.c) and the page fault handler that gives *)
(* an environment its own copy of a page when it stores to one it shares.  *)
(*                                                                         *)
(* Both run as user code, one system call at a time: others run between    *)
(* two calls, and the environment's own stack is written between them too, *)
(* which is why a fault can come in the middle of a fork. The kernel's     *)
(* part is what sys_page_alloc, sys_page_map and sys_page_unmap do to the  *)
(* page tables (module Pmap), and the frame page_fault_handler pushes.     *)
(***************************************************************************)
EXTENDS Naturals, Sequences

CONSTANTS
    Proc,       (* the slots for environments                              *)
    First,      (* the one that is there at the start                      *)
    Frame,      (* pages of physical memory; bound: there are always some  *)
                (* free, for without memory fork and pgfault panic         *)
    NextFrame(_, _), (* those of the free ones that page_alloc may return, *)
                (* given the page they are for: its choice is anybody's    *)
    Val, Zero,  (* what a page may hold                                    *)
    None

(* An address space: the pages fork scans, in its order, which are PFTEMP, *)
(* read-only text, data, the stack and, at UXSTACKTOP, the stack that page *)
(* faults are handled on.                                                  *)
Scan == <<"PFTEMP", "text", "data", "stack", "xstack">>
Va == {Scan[i] : i \in 1..5}
UserPage == {"text", "data", "stack"}

Mapping == [frame : Frame, perm : {"RO", "W", "COW"}]

(* A call of fork: its child, the page it is at, and what it does next.    *)
ForkSteps == {"look", "map", "mark", "share", "xstack", "start"}
ForkCall == [child : Proc, at : 1..6, step : ForkSteps]

ASSUME CowAssumption ==
    /\ First \in Proc /\ Zero \in Val
    /\ None \notin {"RO", "W", "COW"} \cup Mapping \cup ForkCall
    /\ \A S \in SUBSET UserPage : None \notin [S -> Val \cup Seq(Va)]
    /\ \A S \in SUBSET Frame, va \in Va : NextFrame(va, S) \subseteq S

VARIABLES
    env,        (* "free", "made" by sys_exofork, or "live"                *)
    pte,        (* the mappings of each environment                        *)
    mem,        (* what each frame holds; an exception stack holds the     *)
                (* addresses of the faults being handled                   *)
    fork,       (* how far each environment's call of fork has got         *)
    faults      (* how far its handlers have got, the innermost last       *)

vars == <<env, pte, mem, fork, faults>>

Unmapped == [va \in Va |-> None]

Init ==
    /\ env = [e \in Proc |-> IF e = First THEN "live" ELSE "free"]
    /\ \E f \in [UserPage -> Frame] :
          /\ \A v, w \in UserPage : f[v] = f[w] => v = w
          /\ pte = [e \in Proc |->
                      IF e = First
                      THEN [va \in Va |-> IF va \notin UserPage THEN None
                                          ELSE [frame |-> f[va], perm |-> IF va = "text" THEN "RO" ELSE "W"]]
                      ELSE Unmapped]
    /\ mem = [f \in Frame |-> Zero]
    /\ fork = [e \in Proc |-> None]
    /\ faults = [e \in Proc |-> <<>>]

Perm(e, va) == IF pte[e][va] = None THEN None ELSE pte[e][va].perm
Free == {f \in Frame : \A e \in Proc, va \in Va : pte[e][va] # None => pte[e][va].frame # f}

(* sys_page_alloc at va, of a frame that will be the page use.             *)
Alloc(e, va, use) ==
    \E f \in NextFrame(use, Free) :
        /\ pte' = [pte EXCEPT ![e][va] = [frame |-> f, perm |-> "W"]]
        /\ mem' = [mem EXCEPT ![f] = Zero]

(* What a frame held is gone when its last mapping is: page_alloc clears   *)
(* it before anybody sees it again.                                        *)
Cleared(m, pt) ==
    [f \in Frame |-> IF \E e \in Proc, va \in Va : pt[e][va] # None /\ pt[e][va].frame = f
                     THEN m[f] ELSE Zero]

(* exit, sys_env_destroy from the parent, or the kernel when a page fault  *)
(* cannot be handled. A child that was not started stays as it is.         *)
Exit(e) ==
    /\ env[e] = "live"
    /\ env' = [env EXCEPT ![e] = "free"]
    /\ pte' = [pte EXCEPT ![e] = Unmapped]
    /\ fork' = [fork EXCEPT ![e] = None]
    /\ faults' = [faults EXCEPT ![e] = <<>>]
    /\ mem' = Cleared(mem, pte')

-----------------------------------------------------------------------------
(* A store hits a page that is not writable: the kernel pushes a frame on  *)
(* the exception stack, above those that are there, and starts the upcall. *)
XFrame(e) == pte[e]["xstack"].frame

PageFault(e, va) ==
    IF Perm(e, "xstack") # "W" THEN Exit(e)
    ELSE /\ mem' = [mem EXCEPT ![XFrame(e)] = IF faults[e] = <<>> THEN <<va>> ELSE Append(@, va)]
         /\ faults' = [faults EXCEPT ![e] = Append(@, "alloc")]
         /\ UNCHANGED <<env, pte, fork>>

Runs(e) == env[e] = "live" /\ faults[e] = <<>>

(* The program stores to a page of its own; inside fork only the calls     *)
(* themselves do, to the stack.                                            *)
Store(e, va, v) ==
    /\ Runs(e)
    /\ va # "text" /\ (fork[e] # None => va = "stack")
    /\ IF Perm(e, va) = "W"
       THEN mem' = [mem EXCEPT ![pte[e][va].frame] = v] /\ UNCHANGED <<env, pte, fork, faults>>
       ELSE PageFault(e, va)

Depth(e) == Len(faults[e])
Handling(e, step) == env[e] = "live" /\ faults[e] # <<>> /\ faults[e][Depth(e)] = step
FaultVa(e) == mem[XFrame(e)][Depth(e)]
HandlerStep(e, step) == faults' = [faults EXCEPT ![e][Depth(e)] = step]

(* pgfault: its checks and the allocation of PFTEMP.                       *)
HandlerAlloc(e) ==
    /\ Handling(e, "alloc")
    /\ IF Perm(e, FaultVa(e)) # "COW" THEN Exit(e)
       ELSE Alloc(e, "PFTEMP", FaultVa(e)) /\ HandlerStep(e, "copy") /\ UNCHANGED <<env, fork>>

HandlerCopy(e) ==
    /\ Handling(e, "copy")
    /\ mem' = [mem EXCEPT ![pte[e]["PFTEMP"].frame] = mem[pte[e][FaultVa(e)].frame]]
    /\ HandlerStep(e, "map")
    /\ UNCHANGED <<env, pte, fork>>

HandlerMap(e) ==
    /\ Handling(e, "map")
    /\ pte' = [pte EXCEPT ![e][FaultVa(e)] = [frame |-> pte[e]["PFTEMP"].frame, perm |-> "W"]]
    /\ HandlerStep(e, "unmap")
    /\ mem' = Cleared(mem, pte')
    /\ UNCHANGED <<env, fork>>

HandlerUnmap(e) ==
    /\ Handling(e, "unmap")
    /\ pte' = [pte EXCEPT ![e]["PFTEMP"] = None]
    /\ HandlerStep(e, "return")
    /\ UNCHANGED <<env, mem, fork>>

(* _pgfault_upcall pushes the address to return to on the stack that was   *)
(* in use, which may be shared itself: a fault inside the handler, whose   *)
(* own return goes through the exception stack.                            *)
HandlerReturn(e) ==
    /\ Handling(e, "return")
    /\ IF Depth(e) = 1 /\ Perm(e, "stack") # "W" THEN PageFault(e, "stack")
       ELSE /\ mem' = [mem EXCEPT ![XFrame(e)] = SubSeq(@, 1, Depth(e) - 1)]
            /\ faults' = [faults EXCEPT ![e] = SubSeq(@, 1, Depth(e) - 1)]
            /\ UNCHANGED <<env, pte, fork>>

-----------------------------------------------------------------------------
Forking(e, step) == Runs(e) /\ fork[e] # None /\ fork[e].step = step
At(e) == Scan[fork[e].at]
ForkStep(e, step) == fork' = [fork EXCEPT ![e].step = step]
NextPage(f) == [f EXCEPT !.at = @ + 1, !.step = IF f.at = 5 THEN "xstack" ELSE "look"]

(* set_pgfault_handler, which gives the first caller its exception stack.  *)
SetHandler(e) ==
    /\ Runs(e) /\ fork[e] = None /\ Perm(e, "xstack") = None
    /\ Alloc(e, "xstack", "xstack")
    /\ UNCHANGED <<env, fork, faults>>

SysExofork(e, c) ==
    /\ Runs(e) /\ fork[e] = None /\ Perm(e, "xstack") # None
    /\ env[c] = "free"
    /\ env' = [env EXCEPT ![c] = "made"]
    /\ fork' = [fork EXCEPT ![e] = [child |-> c, at |-> 1, step |-> "look"]]
    /\ UNCHANGED <<pte, mem, faults>>

(* Mutant: the exception stack is a page like the others.                  *)
LookAtAll(e) ==
    /\ Forking(e, "look")
    /\ CASE pte[e][At(e)] = None -> fork' = [fork EXCEPT ![e] = NextPage(@)]
         [] Perm(e, At(e)) \in {"W", "COW"} -> ForkStep(e, "map")
         [] OTHER -> ForkStep(e, "share")
    /\ UNCHANGED <<env, pte, mem, faults>>

(* The loop of fork and the test of duppage.                               *)
Look(e) ==
    /\ Forking(e, "look")
    /\ CASE pte[e][At(e)] = None \/ At(e) = "xstack" -> fork' = [fork EXCEPT ![e] = NextPage(@)]
         [] At(e) # "xstack" /\ Perm(e, At(e)) \in {"W", "COW"} -> ForkStep(e, "map")
         [] OTHER -> ForkStep(e, "share")
    /\ UNCHANGED <<env, pte, mem, faults>>

MapChild(e, perm) ==
    pte' = [pte EXCEPT ![fork[e].child][At(e)] = [frame |-> pte[e][At(e)].frame, perm |-> perm]]

(* Mutant: the parent's mapping is left as it is.                          *)
DupMapUnmarked(e) ==
    /\ Forking(e, "map")
    /\ MapChild(e, "COW")
    /\ fork' = [fork EXCEPT ![e] = NextPage(@)]
    /\ UNCHANGED <<env, mem, faults>>

DupMap(e) ==
    /\ Forking(e, "map")
    /\ MapChild(e, "COW")
    /\ ForkStep(e, "mark")
    /\ UNCHANGED <<env, mem, faults>>

DupMark(e) ==
    /\ Forking(e, "mark")
    /\ pte' = [pte EXCEPT ![e][At(e)].perm = "COW"]
    /\ fork' = [fork EXCEPT ![e] = NextPage(@)]
    /\ UNCHANGED <<env, mem, faults>>

DupShare(e) ==
    /\ Forking(e, "share")
    /\ MapChild(e, "RO")
    /\ fork' = [fork EXCEPT ![e] = NextPage(@)]
    /\ UNCHANGED <<env, mem, faults>>

GiveXStack(e) ==
    /\ Forking(e, "xstack")
    /\ Alloc(fork[e].child, "xstack", "xstack")
    /\ ForkStep(e, "start")
    /\ UNCHANGED <<env, faults>>

(* sys_env_set_pgfault_upcall and sys_env_set_status.                      *)
Start(e) ==
    /\ Forking(e, "start")
    /\ env' = [env EXCEPT ![fork[e].child] = "live"]
    /\ fork' = [fork EXCEPT ![e] = None]
    /\ UNCHANGED <<pte, mem, faults>>

Next ==
    \E e \in Proc :
        \/ Exit(e) \/ SetHandler(e)
        \/ \E va \in UserPage, v \in Val : Store(e, va, v)
        \/ HandlerAlloc(e) \/ HandlerCopy(e) \/ HandlerMap(e) \/ HandlerUnmap(e) \/ HandlerReturn(e)
        \/ \E c \in Proc : SysExofork(e, c)
        \/ Look(e) \/ DupMap(e) \/ DupMark(e) \/ DupShare(e) \/ GiveXStack(e) \/ Start(e)

Spec == Init /\ [][Next]_vars

-----------------------------------------------------------------------------
(* Two places that map one frame: nobody may write to it there, except     *)
(* where the handler has just moved its copy from PFTEMP, and where fork   *)
(* has mapped the page into a child and has not marked its own yet.        *)
Moving(e, va, wa) == Handling(e, "unmap") /\ {va, wa} = {"PFTEMP", FaultVa(e)}
Marking(e, va, d, wa) ==
    fork[e] # None /\ fork[e].step = "mark" /\ fork[e].child = d /\ va = At(e) /\ wa = va

SameFrame(e, va, d, wa) ==
    pte[e][va] # None /\ pte[d][wa] # None /\ pte[e][va].frame = pte[d][wa].frame

(* A page that two environments share is writable to neither, and whoever  *)
(* runs with one that is copy-on-write has an exception stack that is its  *)
(* own and writable, so that its fault will be handled.                    *)
SharedIsReadOnly ==
    /\ \A e, d \in Proc, va, wa \in Va :
          SameFrame(e, va, d, wa) /\ <<e, va>> # <<d, wa>> /\ Perm(e, va) = "W"
              => \/ e = d /\ Moving(e, va, wa)
                 \/ Marking(e, va, d, wa)
    /\ \A e \in Proc : env[e] = "live" /\ (\E va \in Va : Perm(e, va) = "COW")
                          => Perm(e, "xstack") = "W"

(* Environments behave as if each had a memory of its own from the start:  *)
(* a child's page counts as copied once its parent cannot write to it.     *)
Copied(p) ==
    {va \in UserPage : /\ pte[fork[p].child][va] # None
                       /\ ~(SameFrame(p, va, fork[p].child, va) /\ Perm(p, va) = "W")}

Contents(e, pages) == [va \in pages |-> mem[pte[e][va].frame]]

Memories == [e \in Proc |-> IF env[e] = "live" THEN Contents(e, UserPage) ELSE None]
Images == [e \in Proc |-> IF fork[e] = None THEN None ELSE Contents(fork[e].child, Copied(e))]

Abstract == INSTANCE PrivateMemory WITH Page <- UserPage, memory <- Memories, image <- Images

ImplementsPrivateMemory == Abstract!Spec
=======================================================================
