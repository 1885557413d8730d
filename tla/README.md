# TLA+ models of JOS

This directory holds TLA+ specifications of the JOS teaching kernel and its
user-level servers, TLC configurations that model-check them, and TLAPS proofs.
The code modelled is that of `src/lab6`, the last stage of the kernel; labs 1 to
5 are earlier stages of the same files. `PROJECT.json` maps every definition to
the lines it stands for.

## 1. The system

| Part | State | Operations | Talks to |
|---|---|---|---|
| Big kernel lock (`kern/spinlock.c`) | `locked`, or `own`/`next` with `USE_TICKET_SPIN_LOCK`; the debugging field `cpu` | `spin_lock`, `spin_unlock`, `holding` | every kernel entry and exit |
| Environments (`kern/env.c`) | `envs[]` (status, id, parent, page directory), `env_free_list`, `curenv` and cr3 of each CPU | `env_alloc`, `env_free`, `env_destroy`, `env_run` | scheduler, page allocator |
| Scheduler (`kern/sched.c`) | none | `sched_yield` | environments; ends in the monitor when nothing is left |
| Traps (`kern/trap.c`, `trapentry.S`) | trap frames | `trap`, faults, timer, `int $0x30`; `sysenter` enters `kern/syscall.c` directly | all of the above |
| System calls (`kern/syscall.c`) | the `env_ipc_*` fields | process, memory, IPC, device calls | all of the above |
| Pages (`kern/pmap.c`) | `pages[].pp_ref`, free list, page tables, TLBs | `page_alloc/free/insert/remove`, `pgdir_walk` | memory calls, IPC, `env_free` |
| SMP boot (`kern/init.c`, `mpentry.S`) | `cpu_status`, `mpentry_kstack` | `boot_aps`, `mp_main` | lock, scheduler |
| Fork (`lib/fork.c`) | page table entries with PTE_COW | `fork`, `duppage`, `pgfault` | memory calls |
| Heap (`lib/malloc.c`) | `mptr`, reference words | `malloc`, `free` | memory calls |
| File system (`fs/fs.c`, `fs/bc.c`) | bitmap, `struct File`s, block cache | block and file operations | disk |
| File server (`fs/serv.c`, `lib/fd.c`, `lib/file.c`) | `opentab`, Fd pages, whose reference counts tell which files are open | `serve_*`, client stubs | IPC, file system |
| E1000 (`kern/e1000.c`) | transmit and receive rings, head and tail registers | `e1000_transmit`, `e1000_receive` | the device |
| Network server (`net/*.c`) | request buffers, helper environments, threads | `serve`, `serve_thread`, `input`, `output`, `timer` | IPC, lwIP, E1000 calls |
| lwIP port (`net/lwip/jos/arch`) | semaphores, mailboxes, threads | `sys_sem_*`, `sys_mbox_*`, `thread_*` | lwIP |

The kernel is a monitor: each CPU takes the big lock on entry (`trap`,
`sysenter`) and gives it up in `env_run`, in the `sysenter` exit path or in the
idle loop of the monitor (never). User environments run between entries and meet
only in the kernel's tables, through shared pages and through IPC. Servers are
environments that receive requests by IPC and answer with `ipc_send`.

What is hard here, and therefore what the properties are about:

* **Several CPUs, one table.** `env_status` alone keeps two CPUs from running one
  environment. A CPU executes on state (page directory, environment) that another
  CPU may change between its entries: kills, `exec`, reuse of a slot or of a page
  directory.
* **Zombies.** An environment destroyed while another CPU runs it cannot be freed
  at once; the code leaves it `ENV_DYING` for its own CPU to find. Two gates lead
  into the kernel and only one of them looks.
* **Blocking IPC.** The calls were rewritten so that `ipc_send` need not loop: a
  pair that waits for each other must not miss, each wakeup is an assignment made
  by the other side, slots are reused under waiting partners, and calls fail half
  way.
* **A racy assertion.** `holding()` reads two or three fields of the lock without
  the lock.
* **Counters that wrap** (tickets, generations of environment ids), rings that
  fill, reference counts that other parties change, a disk written in an order.

What makes each part correct is listed with its module below; every hazard with
its line and the properties that would catch it is in `PROJECT.json`.

## 2. The modules

```
Mutex  <--refines--  SpinLock          SpinLockProofs
FifoMutex <--refines-- TicketLock      TicketLockProofs
                     Env
Rendezvous <--refines-- Ipc  (EXTENDS Env)   EnvIpcProofs, of both
                     Pmap  (its environments abstracted from Env)   PmapProofs
PrivateMemory <--refines-- CowFork  (its system calls abstracted from Pmap)   CowForkProofs
                     Fs
                     FileServer  (files abstracted from Fs, calls from Ipc, fork from CowFork)   FilesProofs, of both
Wire  <--refines--  E1000  (twice: each of its rings)   E1000Proofs
BoundedQueue  <--refines--  NetServer   NetServerProofs
```

`*MC` modules hold what the configurations need beside constants: symmetry sets,
specifications from a smaller set of initial states, fixed choices. Where
`page_alloc` hands out one of several free pages, and the order of the free list is
not kept, which pages it may return is a constant (`NextPgdir`, `NextPage`,
`NextFrame`): the theorems hold of every such choice, and an instance may let one
page stand for all.

**SpinLock** is `spin_lock`, `spin_unlock` and `holding()` as compiled by
default: one action per access to shared memory, with `pc[c]` the access CPU `c`
makes next. The body of `spinlock_test` stands for the critical section, so there
is something the lock can fail to protect: the load and the store of `test_ctr++`
are separate steps. `test_ctr` is kept modulo `Interval`, all that its assertion
looks at. `Mutex` is what a lock promises: one holder, granted to somebody who
asked. x86 keeps a CPU's stores in order and `xchg` drains them, so plain
interleaving of the accesses is the memory model this code needs.

**TicketLock** is the `USE_TICKET_SPIN_LOCK` build: an atomic fetch-and-add takes
a ticket and the CPU spins until `own` has it. Both counters wrap at `Tickets`
(2^32 in the code); the assumption is that there are more values than CPUs.
`FifoMutex` is the abstract queue.

**Env** is `kern/env.c`, `kern/sched.c`, the paths of `kern/trap.c` and
`kern/syscall.c` into the kernel, and the calls that create, start, replace and
destroy environments. Because the lock is held from the first access to shared
state to the return to user mode, one kernel entry is one action. A C function
becomes an operator from kernel states to kernel states (`EnvAlloc`, `EnvFree`,
`EnvDestroy`, `EnvRun`); an action applies to `K`, the state before the entry, what
its handler calls, in order, and `Commit`s the result. `SchedYield` ends almost
every one: the circular scan (`FirstReady`, with `Distance` for its order), staying
on the current environment, the idle environment, or the monitor, which keeps the
lock for ever (`halted`). `Enter` is the difference between the gates: `trap()`
looks for zombies first, `sysenter` does not.

| Code | Env |
|---|---|
| `env_status`, `env_id`, `env_parent_id`, `env_pgdir` of each slot | `env_status`, `env_gen` (an id is a slot and a generation), `env_parent`, `env_pgdir` |
| `env_free_list` | `free_list`, a sequence |
| `thiscpu->cpu_env`, cr3 | `curenv[c]`, `cr3[c]` |
| `i386_init` after the `ENV_CREATE`s; last line of `i386_init`, `mp_main` | `Init`; `BootCpu` |
| `trap`: zombie, timer, fault | `TrapReap`, `TrapTimer`, `TrapFault` |
| `sys_yield`, `sys_exofork`, `sys_env_set_status`, `sys_env_destroy`, `sys_exec_commit` | the actions of those names |

`fresh` is a history variable: the children that were not started yet.

*LibraryUse* is the one restriction on user code. The kernel accepts calls that
`lib/` never makes: starting a child that already runs, destroying it twice,
`sys_exec_commit` of a child that runs. `LibraryUse` is the set
of calls that are taken as `lib/fork.c:140`, `lib/spawn.c:136`, `lib/spawn.c:239` and `lib/exit.c:8` make
them. What the kernel does with the others is described below (after the runs).

**Ipc** adds `sys_ipc_try_send` and `sys_ipc_recv`, in the blocking form, to all
of Env: partners are scheduled, killed and replaced in their slot meanwhile. Of a
page only what IPC decides is kept: offered, accepted, given, or the failure of
the call in the middle. The receiver may be 0, what `ipc_find_env` returns when there
is no server and `lib/file.c` and `lib/nsipc.c` pass on: the kernel takes it for the
caller, stores it as `env_ipc_pending_envid`, where it also means "no message", and the
sender sleeps for good. The history variable `unheard` remembers who did that.
`Rendezvous` is the abstract specification: a sender waits
until its message is taken, a message goes into one mailbox once, and both sides
go on; a message to nobody is an action of its own (`SendToNobody`). The mapping reads
a pending message off `env_ipc_pending_envid` and a
listener off `env_ipc_recving`, of live environments only; its parties are
environments, a slot with its generation, so that a partner that is replaced in
its slot is not taken for the old one.

**Pmap** is `kern/pmap.c` and every call that goes through it: allocating, mapping,
unmapping, `sys_sbrk`, the page of an IPC message, `exec_commit`, and the memory
side of `env_alloc` and `env_free`. It is written as Env is: a C function is an
operator on kernel states, a kernel entry is one action that ends in `Commit`.
The life of an environment is cut down to `status` and `parent`. Calls come in through
sysenter, as `lib/syscall.c` makes them, so a destroyed environment goes on making
them (`Caller`) until it traps (`Reap`) or leaves its CPU. What is added is

| Code | Pmap |
|---|---|
| `page_free_list`, `pages[].pp_ref` | `free`, `pp_ref` |
| page directory, its entries, page tables of an environment | `pgdir`, `pgtbl`, `pte` |
| `env_ipc_pending_page`, `_perm`, `_envid` of a sleeping sender | `pending` |
| what the TLB of a CPU may hold | `tlb` |

Page directories and page tables are pages too: they are taken from `free`, are
counted, and run out. Three choices need a word. *The TLB*: the hardware may load
any translation of the page tables that are active, at any time. `tlb[c]` is
therefore all the CPU may have loaded since its last `lcr3` or `invlpg`: `Commit`
adds what the tables say, so `TlbFresh` is about the worst case. *Which page
`page_alloc` returns* is `NextPage`; in the run it is one arbitrary page, which
under symmetry of the pages is as good as all. *`Foreign`*: `sys_page_map` and `sys_page_unmap` let a parent
change the mappings of a child at any time, and `lib/` does so only before it starts the
child. With `Foreign = FALSE` the model does the same, and the run and the theorems are about
that (section 3 has what `Foreign = TRUE` breaks).

`Held` and `References` say what a reference is: each mapping, each page table
under a directory entry, and each page directory holds a page.

**CowFork** is `lib/fork.c`, `lib/pgfault.c` and the upcall of `lib/pfentry.S`:
user code, so an action is one system call, or one access to a page that can
fault. `fork[e]` is how far the loop over `uvpt` has got, page by page: looked at,
mapped into the child (`DupMap`), marked in the parent (`DupMark`), shared, then the
child's exception stack and its start. `faults[e]` is the stack of the handlers
that run, each at the call it makes next; the addresses they handle lie on the
exception stack itself (`mem` of its frame), as in the code, so sharing that page
by mistake shows. Stores come from the program and, inside `fork`, from the calls
themselves, which use the stack that `fork` has just marked. `PrivateMemory` says
what that is for: each environment has a memory of its own, and a child's page is
the parent's as it was at some moment of the fork.

**Fs** is `fs/fs.c` over the block cache of `fs/bc.c`. The server handles one
request after the other, so a request is one action; a C function maps request
states to request states, as in Env: the memory and the disk after the calls and
`ide_write`s made so far, and `stops`, what the disk was after each of these writes.
`StopAfter` lets the machine stop before, between and after them and start again
from the disk: memory is `mem`, the disk is `disk`. The loop of `dir_lookup` is a
recursive function over the blocks of the directory. Where a function goes on with the
outcome of `alloc_block`, what it does then is an operator of its own (`WithNewIndirect`,
`WithNewBlock`, `BlockAt`).
A block is what it is used for: zeroes, data of a file, `struct File`s, block
numbers, the bitmap. A block is not cleared when it is allocated, but for an indirect
one. When it becomes the directory's, its old bytes are read as `struct File`s, and what
user data spell can be any names, sizes and block numbers. The model does not guess:
`Legible` blocks are zeroes and old `struct File`s, and a request in which the
directory takes in another one ends the behaviour (`state = "haunted"`), after which nothing is
claimed; a stop inside such a request is followed, and one that leaves the directory on the disk with
such a block ends in the same state. `open` is the set of `File` pointers in `opentab`: a file that is
removed goes on being used by those who have it open, and so does one whose entry was given
to a new file.

**FileServer** is `opentab` of `fs/serv.c` and the clients' descriptors
(`lib/fd.c`, `lib/file.c`). A request is sent, served and answered in three
steps. The page of an open file has the server's mapping and one for every
descriptor, and `pageref` counts them: `openfile_alloc` takes a count of at most
one for closed. Descriptors go through `dup`, `close`, death, and `fork`, which
makes the Fd pages copy-on-write, so that a later `seek` leaves the client with a
copy of the page. Clients are not killed between a request and its answer (see
section 3).

**E1000** is the driver's two rings: `e1000_transmit` and `e1000_receive`, one action for
each access to what the device shares, and the device, which is external: it
fetches the descriptor at its head, moves the packet, sets DD, then moves its
head, each a step of its own. Calls that return `E_TX_FULL` or `E_RX_EMPTY`
change nothing and are no steps. `Wire` is what a ring promises to the
environments that use it: packets come out in order, once each, whole. `E1000`
refines it twice. The queue of a ring is read off the DD bits: what is accepted
and not yet sent, or stored and not yet taken.

**NetServer** is the server's environment, which is several threads: `serve()`
(main), one `serve_thread` for each request, and lwIP's tcpip thread, on the
library of `net/lwip/jos/arch`. Threads hand over the processor in `thread_yield`
only, so an action is what the running thread does up to its next call of the
library. `thread_queue` is `queue`; a thread is named by the buffer its request
lies in; what `thread_wait` looks at, the waiter's note and the wakeup flag, are
`on` and `wakeup`; semaphores and the rings of the mailboxes are kept as in
`sys_arch.c` (`head` is -1 when a ring is empty, and equal to `nextq` when it is
full). Of lwIP itself there is what the server's threads do in it: fetch a packet,
post one, have the tcpip thread do a call and wait for its completion. After a packet of a
TCP connection was fetched `netconn_recv` makes a call itself (`Told`). The tcpip thread
completes most calls when it has run them (`Complete`); a TCP send with a full buffer, connect or
close it may leave to the network (`Leave`), and then a callback completes it (`CallBack`) in the
thread of some later packet, before or after what that packet posts, or in a `net_timer`
thread. One such call is under way at a time, as `conn->state` and `write_msg` have room for one;
the three `net_timer` threads, which wait for nothing but the time, are one. A mailbox is
a `BoundedQueue`: who was let in finds its place, or its message, in order.

## 3. The runs

| Run | Instance | Shows |
|---|---|---|
| `SpinLockMC` | 3 CPUs, `Interval` 2 | `holding()` never wrong about the CPU that asks; while a CPU wants the lock some CPU gets it, again and again (`LockProgress` asks for a new acquisition, not for a holder); refinement of `Mutex` |
| `TicketLockMC` | 3 CPUs, 4 ticket values | one at a time in the order of service across wraparound, no CPU starves |
| `Env` | 2 CPUs, 3 user slots, the calls of Env through `trap()`, ids reused | one CPU per environment, statuses against `curenv`, cr3 against page directories, free list, freed only by its own CPU, zombies stay zombies, on the CPU that will free them |
| `EnvFairness` | 4 user slots on 2 CPUs; environments yield, create children and start them | whoever is ready runs (nobody exits here: see below) |
| `Ipc` | 3 environments on 1 CPU or 2 on 2, with pages, kill and reuse, messages to envid 0 | no missed rendezvous, sleepers are exactly those that wait or have sent to 0, refinement of `Rendezvous`; calls that fail half way lose nothing and wake nobody |
| `Pmap` | 2 CPUs, 2 user slots, 6 pages, 2 addresses under one page table | counts are the references, the free list is what nothing refers to, no stale TLB entry, no write access out of nothing, with destroyed environments that go on making calls |
| `CowFork` | 2 slots, 2 values, a frame for each page and its copies | nobody sees another's stores, whatever faults in the middle of what (refinement of `PrivateMemory`); no shared page is writable |
| `Fs` | 4 data blocks, 2 files, 1 direct and 1 indirect block each, 1 restart | until the directory takes in a block with old data: blocks belong to one place, in memory and on the disk at every write; flushed files survive |
| `FileServer` | 2 clients, 2 entries used twice each, 2 descriptors, 2 files | an id that is accepted names the file that was opened; what is shared with the server stays open |
| `E1000` | 2 transmit and 3 receive descriptors, 2 packets | buffers never shared, nothing overwritten, order and wholeness across wraparound (refinement of `Wire`), the kernel's spin ends, stored packets are taken |
| `NetServer` | 3 buffers, 2 places in a mailbox, 2 callers, 2 packets | the server never blocks with work it could do, no request is overwritten, mailboxes are bounded queues, a call through the tcpip thread is answered or left to the network |
| `EnvSysenterZombie` | violation | a zombie that enters by `sysenter` and yields is on no CPU and never freed |

Every property has a mutant in its module, a definition with a bug one could
write, and TLC finds the property violated with it.

**Bounds.** Two CPUs are enough for one to act on what the other executes; the
third of the lock's instances makes a CPU wait behind a waiter. Three user slots
let a parent, its child and a stranger that reuses a slot coexist. `MaxGen` bounds
the generations of a slot: with `GenWraps = FALSE` it stops further allocation in
the slot, with `TRUE` the generations start again as `env_alloc` does at 2^19.
Page directories are as many as slots, so reuse of a freed one is forced often.
Values, pages and packets are interchangeable: where only safety and refinement is
checked there are symmetry sets, elsewhere one initial choice stands for all
(`OneBootSpec`, `OneSpec`). `Few` bounds the Ipc run: three environments meet in every
order on one CPU, two on two CPUs are run and killed at the same time; one sender at
a time sends to envid 0, on the one CPU. The page of a
message is offered and accepted or not; that calls without a page behave like
those with one, but for the page, is why `PageArgs` may be `{TRUE}`.
Six pages are what two environments can fill: a directory, a page table and a
program page for the first, a directory and a table for the second, one page to
pass on; every call runs out of memory in some state, between its two allocations
too. Two addresses under one directory entry let a page be mapped twice, replaced by
itself and passed with less access. In the rings, two descriptors are the smallest
transmit ring that can be half full; three are the smallest receive ring in
which the device can be ahead of the driver by one and by two, since one
descriptor always separates them. The E1000 run has no symmetry because it checks liveness.
In CowFork there are as many frames as two environments can use at once, since fork
and `pgfault` panic without memory. In Fs the directory alone may need three blocks
(its first, an indirect one and its second), one file three and the other one, of
the four there are, so the disk runs full in every operation; one restart, at every write of every history the instance has,
and `FewLost`: after it requests go on while there is a flushed file to find and
at most one block was lost. Files get data under one name and zeroes under the other
(`NonZero`), so that a reused block may be legible or not; they are extended or written at
most one block beyond their end (`MaxGap`). In FileServer an entry that is used twice meets descriptors
of its first use. In NetServer three buffers run out with two callers and an input
request; two places let a mailbox be full, empty and wrapped around; one connection, one call at a time
that the network may finish, which shares `op_completed` with the other calls. Main gives away
up to two turns: with one `NothingPendingWhenBlocked` fails, since a chain of wakeups can be
longer than a round of the queue, with two it holds for these three buffers. That the code's 32
are enough for its 20 buffers is not shown.
Deadlock is not checked where the system does stop: a CPU that finds no
environment sits in the monitor and keeps the lock (Env, Ipc), `sys_sbrk` panics
(Pmap), all environments or clients may exit (CowFork, FileServer), and a disk whose
structures are broken ends the run of Fs.

**Fairness.** A CPU in user mode is interrupted by its LAPIC timer again and again
(`lapic_init` programs it to repeat), and a CPU that is starting goes on to
`sched_yield`; that is all `Fairness` of Env assumes. That a CPU that traps gets
the lock is `NoStarvation` of TicketLock; for the exchange lock only
`LockProgress` holds, that as long as somebody wants the lock *some* CPU acquires it, and
Env then relies on the hardware not to starve one CPU for ever. The locks themselves assume that every CPU goes on
executing. In E1000 the driver and the device go on with what they have begun;
packets need not arrive and nobody needs to send. `SF(Receive)` is the input
environment: it calls `sys_net_receive` in a loop without end (`net/input.c:22`),
and a descriptor that is ready stays ready, but other calls come between, so weak
fairness would not say enough. In NetServer the environment is scheduled (`ReadyRuns`
of Env) and so goes on with what it can do, a message that was sent is received,
and the timer sends its next request: without the last, whoever was woken while
main was blocked need never have a turn. Packets need not come and nothing is assumed of the
other end of a TCP connection: a call that was left to the network may wait for ever. Which thread runs is not a matter of
fairness: the queue decides.

**Where comments and code part, without a run of their own.** These were met
while modelling, by switching a constant or dropping an exception:

* With `LibraryUse = {}`, starting a child that already runs gets it run by two
  CPUs (`kern/syscall.c:144`), and the second destroy of a running child frees it
  under its CPU (`kern/env.c:524` tests for RUNNING, and it is DYING by then). None of
  Env's properties covers these calls, nor `sys_exec_commit` of a child that runs.
* With `Foreign = TRUE`, the four properties of Pmap fail. A parent unmaps the page its
  sleeping child offers: `env_ipc_pending_page` is not counted
  (`kern/syscall.c:463`, `519`), although `inc/memlayout.h:185` wants every
  pointer to a page counted, and the receiver is given a free page. And an unmap
  in an environment that runs on another CPU flushes the local TLB only
  (`kern/pmap.c:689`).
* When generations wrap (`kern/env.c:233`) the new owner of a slot may get the id
  some orphan still has as `env_parent_id`, and is then its parent.
* The circular search starts at `envs[1]` when the environment that ran was just
  destroyed (`kern/sched.c:35`), and `ReadyRuns`
  fails when environments may exit: two that fork and exit in turns keep a third
  from running.
* A message to envid 0 (`lib/ipc.c:71` returns it when there is no such server, and
  `lib/file.c:18-27`, `lib/nsipc.c:19-28` pass it on) is not refused: `kern/syscall.c:437`
  resolves it to the caller, `476` stores 0 as the receiver, and the sender sleeps until it is
  destroyed. `SleepersWait` names the case.
* A receiver that asks for no page is given one when the sender offers it, at the
  `env_ipc_dstva` of an earlier call, even of the slot's last owner
  (`kern/syscall.c:513`).
* `lib/syscall.c` enters by `sysenter`, which does not look for zombies. Env and Ipc
  run with `Gates = {"trap"}`, where `ZombieOnCpu` and `DyingIsFinal` hold; with the other
  gate a zombie that yields is lost (`EnvSysenterZombie`), and one that goes to sleep in an IPC
  call is woken as if nothing had happened (no run combines the two).
* The transmit ring can be filled to the last descriptor (`kern/e1000.c:92`); then
  head and tail are equal, the ring is empty to the device, and every further
  call returns `E_TX_FULL`. What was accepted and waits is never sent, which is
  why E1000 states order for transmission and no liveness: `SendsInOrder` is about what
  goes out, and no property catches the stall.
* `sys_sbrk` panics the kernel when memory is out (`SbrkPanics`; `kern/env.c:311`).
* `DiskWhole` fails: `file_flush` writes the File structure before the indirect block
  it names (`fs/fs.c:492`). After a stop in between the file's indirect block is
  what the disk held there before, and block numbers read from it may be free:
  `bc_pgfault` panics. `DiskSound` therefore counts the numbers in File structures
  only, and a restart into such a disk ends a behaviour (`state = "broken"`). If the
  indirect block is the directory's, blocks of the directory that it should name are lost
  with the files in them. The server would go on; the third clause of `Whole` ends the
  behaviour there too, unless none of these files has blocks.
* A directory that grows takes a block as its last owner left it (`fs/fs.c:197-200`,
  `259-263`), and reads its bytes as names, sizes and block numbers. A directory that was left one block
  too large by a failed `create` takes in such a block with the next lookup (`fs/fs.c:258`). The
  properties of Fs end there (`haunted`), and so do the theorems. Even an old directory
  block, or the entry of a file that was removed and written to afterwards, makes a file that was just
  created keep the size and blocks of the entry (`fs/fs.c:268-275` looks at the name
  only); nothing is claimed of created files being empty.
* `file_flush` does not flush the directory, so a file can be flushed whose directory
  block is not on the disk; `FlushedSurvives` is about files the directory on
  the disk leads to.
* `FdShared`, which `fs/serv.c:20-23` says of the Fd page, fails after `fork` and
  `seek`: the client's page is a private copy, the server sees the file closed, and
  the descriptor's requests are refused once the entry is used again. A request
  sent right after a fork can fail likewise, with the request page copy-on-write.
* An entry of the directory is used again while a removed file is still open
  (`fs/fs.c:506`); the open file is then the new one. Fs has such clients; that each
  sees its own file is not claimed.
* A client that is killed between its request and the answer makes the server panic
  (`fs/serv.c:369`, `lib/ipc.c:58`); FileServer has no such kills.
* `sys_mbox_trypost` waits for a place (`net/lwip/jos/arch/sys_arch.c:117`), where lwIP
  expects it to fail with ERR_MEM (`net/lwip/api/api_msg.c:127`): input threads then
  hold their buffers until the application reads, and the server panics when there
  is none left (`net/serv.c:63`). A request without a page keeps its buffer for good
  (`net/serv.c:287`). `CallAnswered` excepts the panic, and no property is about it.
  `ImplementsQueue` compares the connection's mailbox with a queue whose posters wait,
  not with the one that lwIP expects.

## 4. The proofs

`SpinLockProofs`, for any set of CPUs and any `Interval`. `LockInv` is inductive:
types; at most one CPU is between the exchange and the release, and `locked` is 1
exactly then; the owner field is that CPU while it has recorded itself and null
otherwise; no CPU is in a panic state; and the counter equals the number of
increments of the section in progress. Each conjunct has a lemma (`TypeStep`,
`HolderStep`, `OwnerStep`, `CounterStep`). From it: `LockExcludes`, `LockOwner`,
`LockTestPasses`, and `LockImplementsMutex`, where the exchange that reads 0 is
`Grant`, the release is `GiveBack` and every other step stutters.

`TicketLockProofs`, for any number of CPUs and of tickets above it. What makes the
lock work is nowhere a field: `TicketInv` says that the tickets from own to next,
counted around the wrap, belong to one CPU each and that nobody else is in line
(`InOrder`), and that the owner field is the CPU between its assignments. That no
CPU takes a ticket that is still out is a counting argument (`Room`): the CPUs in
line are as many as the tickets, and the one that asks is not among them. Each turn
around the wrap is settled once, in `Spans`. `LongerLine` and `ShorterLine` are what
the fetch-and-add and the release do to the queue; every other step leaves it alone,
but for the turn of the loop that finds the ticket served. From these follow
`TicketLockExcludes` (with the safety of `holding()`'s reads) and
`TicketLockServesInOrder`, the refinement of `FifoMutex`.

`EnvIpcProofs`, of Env: for any number of CPUs, slots and page directories, any set
of calls and both gates, under `AsLibrary`: those of the three calls above that are
made at all are made as `lib/` makes them. (Without that the theorems are false, see
the list above.) `EnvInv` says of the kernel state what every C function needs and
restores: `Sound(k)`, with parts for the free list, ids, page directories, cr3, idle
environments, and the fact that whatever is RUNNING or DYING-and-current is so on one
CPU only. Properties alone are not inductive: that a CPU has its environment's
directory loaded, for instance, survives a kill from elsewhere only because a current
environment is RUNNING or DYING, never RUNNABLE, so `env_destroy` does not free it.
There is one lemma per C function (it keeps `Sound` of a state value) and then one per
entry, which is why the model composes functions on state values. From `EnvInv` follow
`EnvTypes`, `EnvRunsOnOneCpu`, `EnvRunningIsCurrent`, `EnvAddressSpaces`,
`EnvFreeList`, `EnvIdleAtHome` and the action property `EnvFreedOnItsCpu`.
`EnvZombieOnCpu` looks at what a step does and assumes `Gates = {"trap"}`,
where the reaping stands before everything else; with sysenter it is false, which is
the finding of `EnvSysenterZombie`.

`EnvIpcProofs`, of Ipc: for any environments, values and pages that are killed, freed and
reused while they wait, under `AsLibrary`; of `None`, the 0 of an `env_ipc` field, it is
assumed that it is nobody's id and no value (`IpcAssumption`). An entry of Ipc is an entry of Env with writes to the
`env_ipc` fields, and ends in the scheduler; `LeavingKeeps` shows that the scheduler
exchanges RUNNABLE and RUNNING only. What an entry does to messages is then one of seven
events (`EntryEvents`): somebody is born, a message is delivered, put in the mailbox,
taken from it, sent to nobody, a receiver begins to listen, or nothing of that happens, though the caller
or its victim may die. Each event has one lemma for the invariant and one for the
refinement, and no other definition of Env is opened there. `NoMissedRendezvous`
and `SleepersWait` are inductive together, with the types, with the fact that a sender
asleep has stored its value with its address (`PendingWhole`), and with the fact that a
child not yet started neither listens nor sends (`FreshSilent`): without the last,
`set_status` would wake a sleeper early. From them follow `IpcNoMissedRendezvous`,
`IpcSleepersWait`, and `IpcImplementsRendezvous`: each event is a step of `Rendezvous`.
`IpcDyingIsFinal` is `DyingIsFinal` of all these entries, for `Gates = {"trap"}`: no function of
Env takes an environment out of `ENV_DYING` but `env_free`, and the two calls change the
status of sleepers and of a caller that is no zombie.

`PmapProofs`, for any number of CPUs, environments, pages and addresses. `Counted(k, h, q)`
is the heart: in every state inside an entry too, the count of a page is the number of
cells that hold it, but for the page `q` `page_insert` has counted before it is mapped, and
the free list is the pages of count 0, but for the page `h` `page_alloc` has returned and
nobody has counted. Every function of `kern/pmap.c` changes one cell (`OneCell`, with the
theorems on cardinalities), and its lemma says what becomes of `h` and `q`. `Proper` is the
rest: what is free has no memory, no two CPUs run one environment, a TLB holds what the
tables of its CPU's environment say, and a sleeping sender has mapped what it offers. It holds with
zombies that go on making calls, since they are their CPU's own. All
this is proved for `Foreign = FALSE`: page tables are changed by their owner, or by its
parent before it runs, which is all `fork.c` and `spawn.c` do. (The list above has
what the kernel would let a parent break.) From it follow `PmapTypes`,
`PmapRefsCounted`, `PmapFreeExact`, `PmapTlbFresh`, and the action
property `PmapNobodyGainsWrite`.

`E1000Proofs`, for rings of every size. Which of the two may touch a buffer is nowhere
written down in the code; it follows from where head and tail are and from the DD
bits. `TxInv`: of the descriptors from head to tail none is marked, but the one whose
sending just ended; and what the driver read of the descriptor at the tail stays
so until it moves the tail. A filled ring looks like an empty one (head = tail),
so how many descriptors the device has before it (`TxLoad`) depends on whether it
is at work. `RxInv`: going round from the descriptor after the tail all are marked
up to the device's, and none after it. Positions are compared as distances
(`Ahead`), so that the one fact about `%` needed is `NextIndex`. From these follow
`RingTypes`, `RingBuffersNotShared` and `RingNothingOverwritten`. For the refinement of
`Wire` the bits have to count: `TxShape` says that the descriptors without DD are as many as
packets wait, from the one after the device's last to the tail; `RxShape` the same of the
descriptors with DD, from the one after the tail to the device's. Setting or
clearing one bit (`OneMore`) then adds or takes the packet at one end of the sequence. In
`RingSendsInOrder` the driver's move of the tail is `Put` and the device's sending is
`Get`; in `RingReceivesInOrder` the device's DD is `Put` and the driver's copy is `Get`;
everything else stutters.

`CowForkProofs`, for any number of environments and frames. `Apart` is
`SharedIsReadOnly`'s first half, and needs the rest of `CowInv` in a circle: a handler
acts on the addresses it finds on its exception stack (`Handlers`); nobody else changes
them because that page is nobody else's; and it is nobody else's because
handlers and forks share no page that is writable, which depends on the addresses
they act on. `Forks` keeps two forks from meeting in one child, `XStacks` is the
second half. There is one lemma per action and under it one step per conjunct;
`Sets` and the lemmas on it stand for the actions that give one place a mapping.
`ForkImplementsPrivateMemory` needs `Private` on top: a running environment has every page
mapped (`Full`), a child has those pages that its parent's fork has passed and no others
(`ChildPages`), and between its copy and its map a handler has a true copy
(`CopyOf`). Then a store is a store to the environment's own memory, the start of a child
gives it what its parent has at that moment, and all the system calls of faults and
forks stutter: copy-on-write cannot be seen.

`NetServerProofs`, for any number of request buffers, callers, places in a mailbox,
packets and turns given away. `Counts` says what the two semaphores of a mailbox are
for: `queued_msg` counts the messages that no fetcher was let in for, `free_msg` the
places neither filled nor promised to a poster; and both hold only because those let
in are counted, between `sys_arch_sem_wait` and the access to the ring. `Roles` says
which thread can be at which line (a packet is posted to the connection's mailbox by
an input thread only), `Turns` that main and the tcpip thread are never off the
queue, so there is always a next thread to yield to. `Held` gives the messages of a
ring without `%`; `WithOne` and `OneLess` are what a post and a fetch do to it, across
the wrap and from and to the empty and the full ring. `QueueStep` is a step of
`BoundedQueue` said of the ring: each action's lemma shows it with the invariant, and
`ContentHeld` turns it into the refinement. From these follow `NetRequestPagesNotShared`,
`NetLetInFinds` (the assertions of `sys_mbox_post` and `sys_arch_mbox_fetch`) and
`NetImplementsQueue`. `NetNoWakeupLost` adds that nobody has two turns on the queue
(`TurnsOnce`) and that the turn of a thread just created comes right before main's
(`NewFirst`): a sleeper that was not woken sleeps on a semaphore whose counter is 0 and whose
count of waiters is 1, so the next signal finds it. `NetBlocksFlushed` says of
`NothingPendingWhenBlocked` what follows from these alone: when main blocks and no woken
thread is left (`Pending`), every other thread waits for something that is not there.

`FilesProofs`, of FileServer: for any number of clients, descriptors, slots of the table and pages, and
every choice of `page_alloc`. What a client has is a number in a page, and neither is
counted anywhere but in the page's reference count. `Dated`: the number is never greater than
its slot's own, and where it is equal the slot's file is the one the descriptor was opened
as; so a slot that is used again makes all older numbers void. `Current`: a slot's page that
some client maps has the slot's number, because `openfile_alloc` takes no slot whose
page has a second reference (`PagerefFacts`), and `Kept`: a page that is mapped keeps what is
in it. `Answering` bridges the time from the open to the answer, when nobody but the
server maps the page and the count alone would give the slot away. `HonestKeeps` is the
one lemma for dup, fork, seek, death and answer: each descriptor afterwards comes from one
before, or from the server. From these follow `FileServerRightFile` and
`FileServerOpenStaysOpen`. That `(n + MAXOPEN) % MAXOPEN = n % MAXOPEN` is needed only as
the statement that numbers of slot `s` are `MAXOPEN * g + s` (`OwnSlot`).

`FilesProofs`, of Fs: for any number of blocks, direct and indirect numbers, files to a block,
names, sizes and restarts. `FsInv` relates the memory to what the disk would start again with.
`MemoryInv(m, h, care)` holds of the memory inside a request too: every block number
in a File structure or in an indirect block that one names is used once and is not free in
the bitmap (`Own`); an indirect block holds no File structures, so reading it as numbers and
reading it as files never mean the same block (`IndirectOnly`); outside the
directory no File structure leads to a block (`DirOnly`), because the directory may grow
into a block of old ones, which are read again; and the block `h` that `alloc_block` has
just returned is nobody's yet (`InHand`). `care.exact`, up to the first restart, adds that nothing is
lost: what is in use belongs to a file, within its size, and what has a name is in the
directory, once. `Under(d, m, but)` says of the disk that the memory is
ahead of it in one direction only: what is free on the disk is free in memory, and where a
File structure on the disk has a block number, memory has the same. It is this that makes every stop safe:
`alloc_block` writes the bitmap before the number is used anywhere, and a number is given back
to the bitmap in memory only, so that the bitmap with it free reaches the disk after the File structure without it; `but`
is the block that is behind meanwhile, between `file_truncate_blocks` and the flush of the
structure in `file_set_size` and `file_remove`. There is one lemma per C function. What
they do to files is said once in relations: `Change` (a file is given one block), `EntrySet` (one
structure changes its name or size), `Cutted` (a file has lost its blocks from some on),
`Calm` (no file is lost, renamed or resized). The scan of `dir_lookup` allocates on its way, so
its lemma is about all of its steps: were there a block of the directory after which the
invariant fails there would be a first (`LeastNat`, from `WFMin`), and `ScanBlockInv`
refutes it. `WholeStarted` is the restart: a disk that is `Whole` is a memory to start from, with
`care.exact` no more. From these follow `BlocksAlwaysAccounted` and `DiskAlwaysSound`, with full disks
in every call, files that are used after they were removed, and stops at every write. All this is up
to `haunted`: a request in which the directory takes in a block with other old data ends there
with the block in hand (`Held`), and nothing is said of what the code does with it. An indirect
block is in `BlocksAccounted`, of the memory; `DiskSound` looks at File structures only.

`FlushedSurvivesFirstLife` says of `FlushedSurvives` that it holds up to the first restart and in
the state that this finds. It needs one more conjunct of the invariant, `Safe(s, care)`, in all the same
lemmas. `care.kept` are the names of the flushed files that the request does not change, and
`OnDisk` says where they are: their File structures, indirect blocks and blocks are the same in
memory and on the disk (`Agree`), and the directory on the disk has the block with the File structure
(`Slotted`). Two things keep it so. A write to the disk writes a block of memory, so what
agrees goes on agreeing; and a request changes in memory only blocks of its own file and
blocks that it allocates (`Spares`). That what it allocates is no block of a flushed
file is `Own`; that no forgotten File structure elsewhere has a flushed file's name is
`NamesLive` and `Unique`. `NamesOn` has the one exception: the disk may be behind with the name at
`care.at`, the entry that a create or a remove has changed and not yet flushed, if neither name is a flushed
file's. So at every stop inside a request each flushed file has its contents
(`Holds`). The names themselves must not be `"/"`, the root's (`FsAssumption`), which a path
cannot have as the name of a file (`fs/fs.c:303` ends a name at a slash).

Proved and not run: `MutualExclusion` and `OwnerIsHolder` of SpinLock (the run has
them in `ImplementsMutex` and `NoFalsePanic`), `NoMiddleValue` (`LockTestPasses`),
`IdleAtHome`, `PgdirsDistinct` (with `EnvAddressSpaces`), and the type predicates.

Only model-checked:

* All liveness, which is beyond this prover.
* NetServer's `NothingPendingWhenBlocked` where main's turns run out: with calls that packets and
  timers complete, and the call after each TCP packet, a chain of wakeups can outlast one round of
  the queue, and how many rounds are enough depends on the buffers. `NetBlocksFlushed` is
  the half that does not count turns.
* Fs's `FlushedSurvives` of requests after a restart. The run has them; the
  invariant above does not, because after a restart a block of the directory with a name in
  it may be lost, and a second stop may leave the directory with an old indirect block that
  leads to it again, beside the file that was created under that name since.

## 5. Plan

Done: locks, Env, Ipc, Pmap, CowFork, Fs, FileServer, E1000, NetServer; proofs of all of
them. Next, in this order:

1. Proofs: `FlushedSurvives` between the first restart and the second, with the names of
   lost directory blocks in the invariant.
2. Boot: `boot_aps`, `mp_main`, the order of the first schedules in both lock
   configurations.
3. Fs with nested directories; NetServer with connections that open and close while
   threads wait on their semaphores.

## 6. Not modelled

Console, printing, monitor and debug info (input/output and formatting); the boot
loader, page table and segment set-up (sequential, before the system exists); ELF
loading and argument stacks of `spawn` (data); register contents, trap frames and
the format of the user exception stack; PCI enumeration; the heap of `lib/malloc.c` (sequential, one environment's); lwIP
itself (vendored); the programs
in `user/`, which only fix how calls are used; labs 1 to 5, superseded by lab 6.
Of modelled parts: nested directories and sizes below a block, what a directory reads in a
block of old user data, pipes, more than one connection, calls of lwIP that wait for the network
beside each other, clients killed in the middle of a request (section 3), waits with a timeout, the
boot handshake of the CPUs.
Also not in the models: preemption inside the kernel (interrupts are off there),
and memory ordering beyond what the lock's own argument needs, since everything
else runs under the lock.
