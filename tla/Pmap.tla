----------------------------- MODULE Pmap -----------------------------
(***************************************************************************)
(* Physical pages, page tables and TLBs: kern/pmap.c, and what uses it on  *)
(* behalf of environments: sys_page_alloc, sys_page_map, sys_page_unmap,   *)
(* sys_sbrk, sys_exec_commit, the pages that IPC passes on, env_setup_vm   *)
(* and env_free.                                                           *)
(*                                                                         *)
(* As in Env a kernel entry is one action, under the big kernel lock, and  *)
(* a C function an operator from kernel states to kernel states.  Which    *)
(* environment runs where, and its life, are abstracted from Env.          *)
(***************************************************************************)
EXTENDS Integers, FiniteSets

CONSTANTS
    CPU,
    Proc,       (* the slots of envs[] for user environments               *)
    First,      (* the environment i386_init creates                       *)
    Page,       (* the pages of physical memory                            *)
    NextPage(_),(* those of the free pages that page_alloc may return next:*)
                (* the order of page_free_list is not kept                 *)
    Va,         (* the pages of the address space below UTOP               *)
    PDX,        (* the page directory entry each of them lies under        *)
    FirstVa,    (* where the first environment's program is loaded         *)
    Perm,       (* the permissions calls ask for: "W" is PTE_W among them  *)
    None,
    Foreign     (* TRUE: parents map and unmap in children that have been  *)
                (* started; lib/ only does it before (fork.c, spawn.c)     *)

Pde == {PDX[va] : va \in Va}
Entry == [page : Page, perm : Perm]
Offer == [to : Proc \cup {None}, page : Page, perm : Perm]
Status == {"FREE", "NEW", "READY", "SEND", "RECV", "DYING"}

(* The places of an environment that hold a page: its mappings, its page   *)
(* directory's entries and its page directory.                             *)
Cell == Va \cup Pde \cup {"env_pgdir"}

ASSUME PmapAssumption ==
    /\ IsFiniteSet(Proc) /\ IsFiniteSet(Page) /\ IsFiniteSet(Va)
    /\ First \in Proc /\ FirstVa \in Va
    /\ DOMAIN PDX = Va
    /\ Va \cap Pde = {} /\ "env_pgdir" \notin Va \cup Pde
    /\ "W" \in Perm
    /\ Foreign \in BOOLEAN
    /\ None \notin Page \cup Proc \cup Va \cup Entry \cup Offer
    /\ \A S \in SUBSET Page : NextPage(S) \subseteq S

VARIABLES
    free,       (* the pages on page_free_list                             *)
    pp_ref,     (* the reference count of each page                        *)
    pgdir,      (* the page directory of each environment                  *)
    pgtbl,      (* its page tables                                         *)
    pte,        (* its mappings: an Entry or None                          *)
    status,     (* "FREE"; "NEW" from exofork; "READY" (ENV_RUNNABLE or    *)
                (* ENV_RUNNING); asleep in "SEND" or "RECV"; "DYING"       *)
    parent,     (* who may manage it                                       *)
    pending,    (* what a sleeping sender offers                           *)
    dstva,      (* where a sleeping receiver wants a page                  *)
    curenv,     (* what each CPU runs; None is its idle environment        *)
    tlb,        (* all that each CPU's TLB may hold of that address space  *)
    panicked    (* the kernel has stopped                                  *)

vars == <<free, pp_ref, pgdir, pgtbl, pte, status, parent, pending, dstva,
          curenv, tlb, panicked>>

K == [free |-> free, ref |-> pp_ref, dir |-> pgdir, tbl |-> pgtbl, pte |-> pte,
      status |-> status, parent |-> parent, pending |-> pending,
      dstva |-> dstva, cur |-> curenv, tlb |-> tlb]

Mapped(k, e) == {va \in Va : k.pte[e][va] # None}

Translations(k, e) ==
    IF e = None THEN {} ELSE {<<va, k.pte[e][va]>> : va \in Mapped(k, e)}

(* A CPU may load what its page tables say into its TLB at any time.       *)
Commit(k) ==
    /\ free' = k.free
    /\ pp_ref' = k.ref
    /\ pgdir' = k.dir
    /\ pgtbl' = k.tbl
    /\ pte' = k.pte
    /\ status' = k.status
    /\ parent' = k.parent
    /\ pending' = k.pending
    /\ dstva' = k.dstva
    /\ curenv' = k.cur
    /\ tlb' = [c \in CPU |-> k.tlb[c] \cup Translations(k, k.cur[c])]
    /\ UNCHANGED panicked

-----------------------------------------------------------------------------
(* kern/pmap.c                                                             *)

PageAlloc(k, p) == [k EXCEPT !.free = @ \ {p}]

PageFree(k, p) == [k EXCEPT !.free = @ \cup {p}]

PageDecref(k, p) ==
    [k EXCEPT !.ref[p] = @ - 1,
              !.free = IF k.ref[p] = 1 THEN @ \cup {p} ELSE @]

(* Mutant: the TLB is left as it is.                                       *)
TlbInvalidateNothing(c, k, e, va) == k

(* invlpg on this CPU, when it is in the address space that is changed.    *)
TlbInvalidate(c, k, e, va) ==
    IF k.cur[c] \in {None, e}
    THEN [k EXCEPT !.tlb[c] = {m \in @ : m[1] # va}]
    ELSE k

PageRemove(c, k, e, va) ==
    IF k.pte[e][va] = None THEN k
    ELSE LET d == PageDecref(k, k.pte[e][va].page)
         IN TlbInvalidate(c, [d EXCEPT !.pte[e][va] = None], e, va)

NeedsTable(k, e, va) == k.tbl[e][PDX[va]] = None

(* The pages pgdir_walk may take for a new page table; {} when none is     *)
(* left, {None} when it needs none.                                        *)
TablePages(k, e, va) == IF NeedsTable(k, e, va) THEN NextPage(k.free) ELSE {None}

PgdirWalk(k, e, va, t) ==
    IF NeedsTable(k, e, va)
    THEN [PageAlloc(k, t) EXCEPT !.ref[t] = @ + 1, !.tbl[e][PDX[va]] = t]
    ELSE k

(* Mutant: the old mapping goes before the new one is counted.             *)
PageInsertRemovesFirst(c, k, e, va, m, t) ==
    LET r == PageRemove(c, PgdirWalk(k, e, va, t), e, va)
    IN [r EXCEPT !.ref[m.page] = @ + 1, !.pte[e][va] = m]

(* The page is counted before the old mapping, perhaps of the same page,   *)
(* is removed.                                                             *)
PageInsert(c, k, e, va, m, t) ==
    LET w == [PgdirWalk(k, e, va, t) EXCEPT !.ref[m.page] = @ + 1]
    IN [PageRemove(c, w, e, va) EXCEPT !.pte[e][va] = m]

-----------------------------------------------------------------------------
(* kern/env.c and kern/sched.c, as far as they touch memory                *)

EnvSetupVm(k, e, d) ==
    [PageAlloc(k, d) EXCEPT !.ref[d] = @ + 1, !.dir[e] = d]

EnvAlloc(k, e, by, s, d) ==
    [EnvSetupVm(k, e, d) EXCEPT !.status[e] = s, !.parent[e] = by]

Held(k, e, x) ==
    IF x \in Va THEN (IF k.pte[e][x] = None THEN None ELSE k.pte[e][x].page)
    ELSE IF x \in Pde THEN k.tbl[e][x] ELSE k.dir[e]

Uses(k, e, p) == Cardinality({x \in Cell : Held(k, e, x) = p})

(* Mutant: env_free forgets the page tables.                               *)
UnusedButTables(k, e) ==
    [p \in Page |-> k.ref[p] - Cardinality({x \in Cell \ Pde : Held(k, e, x) = p})]

Unused(k, e) == [p \in Page |-> k.ref[p] - Uses(k, e, p)]

(* Nobody has the freed environment's id any more.                         *)
WithoutId(offer, e) ==
    IF offer = None THEN None
    ELSE [offer EXCEPT !.to = IF @ = e THEN None ELSE @]

(* Every mapping, page table and directory gives up its reference; a CPU   *)
(* that frees its own environment has loaded kern_pgdir before.            *)
EnvFree(c, k, e) ==
    LET ref == Unused(k, e)
    IN [k EXCEPT
          !.ref = ref,
          !.free = @ \cup {p \in Page : Uses(k, e, p) > 0 /\ ref[p] = 0},
          !.dir[e] = None,
          !.tbl[e] = [d \in Pde |-> None],
          !.pte[e] = [va \in Va |-> None],
          !.status[e] = "FREE",
          !.parent = [x \in Proc |-> IF x = e \/ @[x] = e THEN None ELSE @[x]],
          !.pending = [x \in Proc |-> IF x = e THEN None ELSE WithoutId(@[x], e)],
          !.dstva[e] = None,
          !.cur[c] = IF @ = e THEN None ELSE @,
          !.tlb[c] = IF k.cur[c] = e THEN {} ELSE @]

(* A switch loads cr3, and everything in the TLB is gone.                  *)
EnvRun(c, k, e) ==
    IF k.cur[c] = e THEN k ELSE [k EXCEPT !.cur[c] = e, !.tlb[c] = {}]

Ready(k) ==
    {e \in Proc : k.status[e] = "READY" /\ \A d \in CPU : k.cur[d] # e}

Chosen(c, k) ==
    IF Ready(k) # {} THEN Ready(k)
    ELSE IF k.cur[c] # None /\ k.status[k.cur[c]] = "READY" THEN {k.cur[c]}
    ELSE {None}

SchedYield(c, k) == \E e \in Chosen(c, k) : Commit(EnvRun(c, k, e))

-----------------------------------------------------------------------------
(* The machine after i386_init.                                            *)
Blank ==
    [free |-> Page, ref |-> [p \in Page |-> 0],
     dir |-> [e \in Proc |-> None],
     tbl |-> [e \in Proc |-> [d \in Pde |-> None]],
     pte |-> [e \in Proc |-> [va \in Va |-> None]],
     status |-> [e \in Proc |-> "FREE"],
     parent |-> [e \in Proc |-> None],
     pending |-> [e \in Proc |-> None],
     dstva |-> [e \in Proc |-> None],
     cur |-> [c \in CPU |-> None],
     tlb |-> [c \in CPU |-> {}]]

(* env_create: the first environment and one page of its program.          *)
Init ==
    \E c \in CPU, d \in NextPage(Page) :
        LET k0 == EnvAlloc(Blank, First, None, "READY", d)
        IN \E p \in NextPage(k0.free) :
            LET k1 == PageAlloc(k0, p)
            IN \E t \in TablePages(k1, First, FirstVa) :
                LET k == PageInsert(c, k1, First, FirstVa, [page |-> p, perm |-> "W"], t)
                IN /\ free = k.free
                   /\ pp_ref = k.ref
                   /\ pgdir = k.dir
                   /\ pgtbl = k.tbl
                   /\ pte = k.pte
                   /\ status = k.status
                   /\ parent = k.parent
                   /\ pending = k.pending
                   /\ dstva = k.dstva
                   /\ curenv = k.cur
                   /\ tlb = k.tlb
                   /\ panicked = FALSE

-----------------------------------------------------------------------------
(* Kernel entries. A call that fails without changing anything is no step. *)

(* curenv of CPU c makes a system call.  The stubs of lib/syscall.c enter  *)
(* by sysenter, which does not look for zombies as trap() does: a destroyed*)
(* environment goes on making calls until it traps, leaves the CPU by one  *)
(* of them, or sleeps in one and is no zombie any more.                    *)
Caller(c) ==
    ~panicked /\ curenv[c] # None /\ status[curenv[c]] \in {"READY", "DYING"}

(* Those it may map and unmap pages in.                                    *)
Managed(c) ==
    {e \in Proc : \/ e = curenv[c]
                  \/ /\ parent[e] = curenv[c]
                     /\ status[e] = "NEW" \/ (Foreign /\ status[e] # "FREE")}

Timer(c) ==
    /\ ~panicked
    /\ curenv[c] # None => status[curenv[c]] = "READY"
    /\ SchedYield(c, K)

(* A zombie that yields is on no CPU any more, and stays that way.         *)
SysYield(c) == Caller(c) /\ SchedYield(c, K)

(* A destroyed environment is freed when it traps.                         *)
Reap(c) ==
    /\ ~panicked /\ curenv[c] # None /\ status[curenv[c]] = "DYING"
    /\ SchedYield(c, EnvFree(c, K, curenv[c]))

SysPageAlloc(c, e, va, perm) ==
    /\ Caller(c) /\ e \in Managed(c)
    /\ \E p \in NextPage(free) :
          LET k == PageAlloc(K, p)
          IN \E t \in TablePages(k, e, va) :
                Commit(PageInsert(c, k, e, va, [page |-> p, perm |-> perm], t))

(* No page is left for the page table: the page goes back.                 *)
SysPageAllocFails(c, e, va) ==
    /\ Caller(c) /\ e \in Managed(c)
    /\ \E p \in NextPage(free) :
          /\ TablePages(PageAlloc(K, p), e, va) = {}
          /\ Commit(PageFree(PageAlloc(K, p), p))

(* Mutant: anybody may ask for write access.                               *)
MayPassAnyway(e, va, perm) == pte[e][va] # None

(* page_lookup, and the caller may pass the page on with perm.             *)
MayPass(e, va, perm) ==
    /\ pte[e][va] # None
    /\ perm = "W" => pte[e][va].perm = "W"

SysPageMap(c, s, sva, e, va, perm) ==
    /\ Caller(c) /\ s \in Managed(c) /\ e \in Managed(c)
    /\ MayPass(s, sva, perm)
    /\ \E t \in TablePages(K, e, va) :
          Commit(PageInsert(c, K, e, va, [page |-> pte[s][sva].page, perm |-> perm], t))

SysPageUnmap(c, e, va) ==
    /\ Caller(c) /\ e \in Managed(c) /\ pte[e][va] # None
    /\ Commit(PageRemove(c, K, e, va))

(* sys_sbrk: one more page of the heap, or the kernel panics. Where the    *)
(* heap ends is not kept.                                                  *)
SysSbrk(c, va) == SysPageAlloc(c, curenv[c], va, "W")

SbrkPanics(c, va) ==
    /\ Caller(c)
    /\ \A p \in NextPage(free) : TablePages(PageAlloc(K, p), curenv[c], va) = {}
    /\ panicked' = TRUE
    /\ UNCHANGED <<free, pp_ref, pgdir, pgtbl, pte, status, parent, pending,
                   dstva, curenv, tlb>>

(* The one stub that uses int $0x30 (inc/lib.h:73): no zombie gets here.   *)
SysExofork(c, e) ==
    /\ Caller(c) /\ status[curenv[c]] = "READY" /\ status[e] = "FREE"
    /\ \E d \in NextPage(free) : Commit(EnvAlloc(K, e, curenv[c], "NEW", d))

(* The parent starts the child.                                            *)
SysEnvSetStatus(c, e) ==
    /\ Caller(c) /\ parent[e] = curenv[c] /\ status[e] = "NEW"
    /\ Commit([K EXCEPT !.status[e] = "READY"])

(* Exit, a fault, or the parent destroys a child, once.                    *)
SysEnvDestroy(c, e) ==
    /\ Caller(c)
    /\ \/ /\ e = curenv[c]
          /\ SchedYield(c, EnvFree(c, K, e))
       \/ /\ e # curenv[c] /\ parent[e] = curenv[c]
          /\ status[e] \notin {"FREE", "DYING"}
          /\ Commit(IF \E d \in CPU : curenv[d] = e
                    THEN [K EXCEPT !.status[e] = "DYING"]
                    ELSE EnvFree(c, K, e))

SwapPgdirs(c, k, a, b) ==
    LET Swap(f) == [f EXCEPT ![a] = f[b], ![b] = f[a]]
    IN [k EXCEPT !.dir = Swap(@), !.tbl = Swap(@), !.pte = Swap(@), !.tlb[c] = {}]

(* The caller takes over the child's address space; the child goes.        *)
SysExecCommit(c, e) ==
    /\ Caller(c) /\ parent[e] = curenv[c] /\ status[e] = "NEW"
    /\ Commit(EnvFree(c, SwapPgdirs(c, K, curenv[c], e), e))

Enqueue(c, e, m) ==
    /\ status[e] # "RECV"
    /\ SchedYield(c, [K EXCEPT
          !.status[curenv[c]] = "SEND",
          !.pending[curenv[c]] = [to |-> e, page |-> m.page, perm |-> m.perm]])

Deliver(c, e, m) ==
    /\ status[e] = "RECV"
    /\ \E t \in TablePages(K, e, dstva[e]) :
          Commit([PageInsert(c, K, e, dstva[e], m, t) EXCEPT
                    !.status[e] = "READY", !.dstva[e] = None])

(* Messages without a page are in Ipc.                                     *)
SysIpcTrySend(c, e, va, perm) ==
    /\ Caller(c) /\ status[e] # "FREE"
    /\ MayPass(curenv[c], va, perm)
    /\ LET m == [page |-> pte[curenv[c]][va].page, perm |-> perm]
       IN Deliver(c, e, m) \/ Enqueue(c, e, m)

SendersTo(b) == {a \in Proc : pending[a] # None /\ pending[a].to = b}

Take(c, a, va) ==
    /\ a \in SendersTo(curenv[c])
    /\ LET m == [page |-> pending[a].page, perm |-> pending[a].perm]
       IN \E t \in TablePages(K, curenv[c], va) :
            Commit([PageInsert(c, K, curenv[c], va, m, t) EXCEPT
                      !.status[a] = "READY", !.pending[a] = None])

Listen(c, va) ==
    /\ SendersTo(curenv[c]) = {}
    /\ SchedYield(c, [K EXCEPT !.status[curenv[c]] = "RECV", !.dstva[curenv[c]] = va])

SysIpcRecv(c, va) ==
    /\ Caller(c)
    /\ (\E a \in Proc : Take(c, a, va)) \/ Listen(c, va)

KernelEntry(c) ==
    \/ Timer(c) \/ Reap(c) \/ SysYield(c)
    \/ \E va \in Va : SysSbrk(c, va) \/ SbrkPanics(c, va) \/ SysIpcRecv(c, va)
    \/ \E e \in Proc :
          \/ SysExofork(c, e) \/ SysEnvSetStatus(c, e)
          \/ SysEnvDestroy(c, e) \/ SysExecCommit(c, e)
          \/ \E va \in Va :
                \/ SysPageUnmap(c, e, va) \/ SysPageAllocFails(c, e, va)
                \/ \E perm \in Perm :
                      \/ SysPageAlloc(c, e, va, perm)
                      \/ SysIpcTrySend(c, e, va, perm)
                      \/ \E s \in Proc, sva \in Va : SysPageMap(c, s, sva, e, va, perm)

Next == \E c \in CPU : KernelEntry(c)

Spec == Init /\ [][Next]_vars

-----------------------------------------------------------------------------
PTypeOK ==
    /\ free \subseteq Page
    /\ pp_ref \in [Page -> Nat]
    /\ pgdir \in [Proc -> Page \cup {None}]
    /\ pgtbl \in [Proc -> [Pde -> Page \cup {None}]]
    /\ pte \in [Proc -> [Va -> Entry \cup {None}]]
    /\ status \in [Proc -> Status]
    /\ parent \in [Proc -> Proc \cup {None}]
    /\ pending \in [Proc -> Offer \cup {None}]
    /\ dstva \in [Proc -> Va \cup {None}]
    /\ curenv \in [CPU -> Proc \cup {None}]
    /\ tlb \in [CPU -> SUBSET (Va \X Entry)]
    /\ panicked \in BOOLEAN

(* The references to a page: every mapping, page table and page directory  *)
(* that lies in it.                                                        *)
References(p) == {r \in Proc \X Cell : Held(K, r[1], r[2]) = p}

(* No reference is lost and none is counted twice, whatever the order of   *)
(* mapping, replacing, sending, failing and freeing (inc/memlayout.h:187). *)
RefsCounted == \A p \in Page : pp_ref[p] = Cardinality(References(p))

(* A page that is in use is never handed out again, and none is lost.      *)
FreeExact == \A p \in Page : p \in free <=> References(p) = {}

(* No CPU translates an address in a way its page tables do not: none can  *)
(* reach a page that was taken away from it (kern/pmap.c:677, 688).        *)
TlbFresh == \A c \in CPU : tlb[c] \subseteq Translations(K, curenv[c])

Writers(p) ==
    {e \in Proc : \E va \in Va : pte[e][va] = [page |-> p, perm |-> "W"]}

(* A page in use that nobody can write, a page table above all, stays so   *)
(* until it is freed: no chain of calls grants what sys_page_map and       *)
(* sys_ipc_try_send refuse (kern/syscall.c:296, 419).                      *)
NobodyGainsWrite ==
    [][\A p \in Page \ free : Writers(p) = {} => Writers(p)' = {}]_vars
=======================================================================
