---------------------------- MODULE EnvIpcProofs ----------------------------
(***************************************************************************)
(* Theorems about Env and about Ipc, which extends it, for every number of *)
(* CPUs, environments and values, with either way into the kernel, ids     *)
(* that wrap or not, and environments that are killed and replaced while   *)
(* they wait, when the calls that create, start, destroy and replace an    *)
(* environment are made the way lib/ makes them (AsLibrary).               *)
(* (README lists what other uses break.)                                   *)
(*                                                                         *)
(* The inductive invariant of Env is about the kernel state K: Sound(K) is *)
(* what every C function preserves, also in the middle of a kernel entry,  *)
(* and Executing(K) is what holds again when the CPU leaves the kernel.    *)
(*                                                                         *)
(* An entry of Ipc ends in the scheduler, which only exchanges RUNNABLE    *)
(* and RUNNING.  So what the entry does to the messages is one of a few    *)
(* events (Event) in which one environment falls asleep, wakes up, is born *)
(* or dies: EntryEvents shows it once, and the invariant and the           *)
(* refinement then only look at the events.                                *)
(***************************************************************************)
EXTENDS Ipc, TLAPS


KernelState ==
    [status : [Slot -> Status], gen : [Slot -> 0..MaxGen],
     parent : [Slot -> EnvId \cup {None}], pgdir : [Slot -> Pgdir \cup {None}],
     free : Seq(Slot), cur : [CPU -> Slot \cup {None}],
     cr3 : [CPU -> Pgdir \cup {KernPgdir}]]

ListsFree(k) ==
    /\ \A i, j \in 1..Len(k.free) : k.free[i] = k.free[j] => i = j
    /\ \A e \in Slot : k.status[e] = "FREE" <=> \E i \in 1..Len(k.free) : k.free[i] = e

HasId(k) == \A e \in Slot : k.status[e] # "FREE" => k.gen[e] # 0

OwnsPgdir(k) ==
    /\ \A e \in Slot : k.pgdir[e] = None <=> k.status[e] = "FREE"
    /\ \A d, e \in Slot : k.pgdir[d] = k.pgdir[e] /\ d # e => k.pgdir[d] = None

LoadsItsPgdir(k) ==
    \A c \in CPU : k.cr3[c] = IF k.cur[c] = None THEN KernPgdir
                                                 ELSE k.pgdir[k.cur[c]]

RunsAlone(k) ==
    \A c, d \in CPU : k.cur[c] # None /\ k.cur[c] = k.cur[d] => c = d

KeepsIdle(k) ==
    \A e \in Idle : /\ k.status[e] \in {"RUNNABLE", "RUNNING"}
                    /\ \A c \in CPU : k.cur[c] = e => c = e

(* Nothing RUNNING is lost, and what is current was not made RUNNABLE, so  *)
(* that no other CPU can choose it.                                        *)
CurrentIsTaken(k) ==
    /\ \A e \in Slot : k.status[e] = "RUNNING" => \E c \in CPU : k.cur[c] = e
    /\ \A c \in CPU : k.cur[c] # None =>
            k.status[k.cur[c]] \in {"RUNNING", "DYING", "NOT_RUNNABLE"}

Sound(k) ==
    /\ k \in KernelState
    /\ ListsFree(k)
    /\ HasId(k)
    /\ OwnsPgdir(k)
    /\ LoadsItsPgdir(k)
    /\ RunsAlone(k)
    /\ KeepsIdle(k)
    /\ CurrentIsTaken(k)

(* The CPUs of a set S execute environments that may execute.              *)
Executing(k, S) ==
    \A c \in S : k.cur[c] # None => k.status[k.cur[c]] \in {"RUNNING", "DYING"}

EnvInv ==
    /\ Sound(K)
    /\ ~halted => Executing(K, CPU) /\ \A c \in up : curenv[c] # None
    /\ up \subseteq CPU
    /\ halted \in BOOLEAN
    /\ fresh \subseteq User
    /\ \A e \in fresh : env_status[e] = "NOT_RUNNABLE"

-----------------------------------------------------------------------------
LEMMA SlotFacts ==
    /\ CPU \subseteq Slot
    /\ Idle = CPU
    /\ User \subseteq Slot
    /\ None \notin Slot
    /\ None \notin Pgdir
    /\ KernPgdir \notin Pgdir
    /\ \A e \in Slot : e \in User <=> e \notin CPU
  BY EnvAssumption DEF CPU, Slot, Idle, User

(* What Commit installs is the kernel state after the entry.               *)
LEMMA CommitInstalls ==
    ASSUME NEW k \in KernelState, Commit(k)
    PROVE  K' = k
  BY DEF Commit, K, KernelState

(* env_run on what the scheduler chose.                                    *)
LEMMA EnvRunSound ==
    ASSUME NEW k, Sound(k), NEW c \in CPU, Executing(k, CPU \ {c}),
           NEW e \in Slot, Chosen(c, k, e)
    PROVE  /\ Sound(EnvRun(c, k, e))
           /\ Executing(EnvRun(c, k, e), CPU)
           /\ EnvRun(c, k, e).cur = [k.cur EXCEPT ![c] = e]
           /\ \A x \in Slot : k.status[x] \notin {"RUNNABLE", "RUNNING"}
                                => EnvRun(c, k, e).status[x] = k.status[x]
  <1> DEFINE r == EnvRun(c, k, e)
  <1> USE SlotFacts
  <1>1. CASE k.cur[c] = e
    <2>1. r = k
      BY <1>1 DEF EnvRun
    <2>2. k.status[e] \in {"RUNNABLE", "RUNNING"}
      BY DEF Chosen, FirstReady, Ready, StillRunning, Sound, KeepsIdle
    <2>3. Executing(k, CPU)
      BY <1>1, <2>2 DEF Executing, Sound, CurrentIsTaken
    <2>4. k.cur = [k.cur EXCEPT ![c] = e]
      BY <1>1 DEF Sound, KernelState
    <2> QED
      BY <2>1, <2>3, <2>4
  <1>2. CASE k.cur[c] # e
    <2>1. r = [k EXCEPT !.status = Switched(k.status, k.cur[c], e),
                        !.cur[c] = e, !.cr3[c] = k.pgdir[e]]
      BY <1>2 DEF EnvRun
    <2>2. k.status[e] = "RUNNABLE" /\ \A d \in CPU : k.cur[d] # e
      BY <1>2 DEF Chosen, FirstReady, Ready, StillRunning, Sound, KeepsIdle,
                  CurrentIsTaken
    <2>3. r \in KernelState
      <3>1. Switched(k.status, k.cur[c], e) \in [Slot -> Status]
        BY DEF Sound, KernelState, Switched, Status
      <3>2. [k.cur EXCEPT ![c] = e] \in [CPU -> Slot \cup {None}]
        BY DEF Sound, KernelState
      <3>3. [k.cr3 EXCEPT ![c] = k.pgdir[e]] \in [CPU -> Pgdir \cup {KernPgdir}]
        BY <2>2 DEF Sound, KernelState, OwnsPgdir
      <3> QED
        BY <2>1, <3>1, <3>2, <3>3 DEF Sound, KernelState
    <2>4. /\ r.cur = [k.cur EXCEPT ![c] = e]
          /\ r.cr3 = [k.cr3 EXCEPT ![c] = k.pgdir[e]]
          /\ r.status = Switched(k.status, k.cur[c], e)
          /\ r.pgdir = k.pgdir /\ r.free = k.free /\ r.gen = k.gen
      BY <2>1 DEF Sound, KernelState
    <2> HIDE DEF r
    <2>5. \A x \in Slot :
            /\ x = e => r.status[x] = "RUNNING"
            /\ x # e /\ x = k.cur[c] /\ k.status[x] = "RUNNING" => r.status[x] = "RUNNABLE"
            /\ x # e /\ (x # k.cur[c] \/ k.status[x] # "RUNNING") => r.status[x] = k.status[x]
      BY <2>4 DEF Switched
    <2>6. \A x \in Slot : r.status[x] = "FREE" <=> k.status[x] = "FREE"
      BY <2>2, <2>5
    <2>7. ListsFree(r) /\ HasId(r) /\ OwnsPgdir(r)
      BY <2>4, <2>6 DEF Sound, ListsFree, HasId, OwnsPgdir
    <2>8. LoadsItsPgdir(r) /\ RunsAlone(r)
      BY <2>2, <2>4 DEF Sound, KernelState, LoadsItsPgdir, RunsAlone
    <2>9. KeepsIdle(r)
      <3>1. e \in Idle => e = c
        BY <1>2 DEF Chosen, FirstReady, Ready, StillRunning
      <3> QED
        BY <2>4, <2>5, <3>1 DEF Sound, KernelState, KeepsIdle
    <2>10. CurrentIsTaken(r) /\ Executing(r, CPU)
      <3>1. \A d \in CPU : d # c /\ k.cur[d] # None =>
              /\ k.cur[d] # k.cur[c]
              /\ r.cur[d] = k.cur[d] /\ r.status[k.cur[d]] = k.status[k.cur[d]]
        BY <2>2, <2>4, <2>5 DEF Sound, KernelState, RunsAlone
      <3>2. Executing(r, CPU)
        BY <2>4, <2>5, <3>1 DEF Executing, Sound, KernelState
      <3>3. \A x \in Slot : r.status[x] = "RUNNING" => \E d \in CPU : r.cur[d] = x
        <4> SUFFICES ASSUME NEW x \in Slot, r.status[x] = "RUNNING", x # e
                     PROVE  \E d \in CPU : r.cur[d] = x
          BY <2>4 DEF Sound, KernelState
        <4>1. x # k.cur[c] /\ k.status[x] = "RUNNING"
          BY <2>5
        <4> QED
          BY <2>4, <4>1 DEF Sound, KernelState, CurrentIsTaken
      <3> QED
        BY <3>2, <3>3 DEF CurrentIsTaken, Executing
    <2> QED
      BY <2>2, <2>3, <2>4, <2>5, <2>7, <2>8, <2>9, <2>10 DEF Sound, r
  <1> QED
    BY <1>1, <1>2

(* sched_yield: the CPU leaves with an environment that may execute, or it *)
(* stays in the monitor; whoever slept or waited to be started still does. *)
LEMMA SchedYieldSound ==
    ASSUME NEW k, Sound(k), NEW c \in CPU, Executing(k, CPU \ {c}),
           SchedYield(c, k)
    PROVE  /\ Sound(K')
           /\ \/ halted' = TRUE
              \/ Executing(K', CPU) /\ curenv'[c] # None /\ halted' = halted
           /\ \A d \in CPU \ {c} : curenv'[d] = k.cur[d]
           /\ \A x \in Slot : k.status[x] \notin {"RUNNABLE", "RUNNING"}
                                => env_status'[x] = k.status[x]
  <1>1. CASE NothingLeft(k) /\ Commit(k) /\ halted' = TRUE
    <2>1. K' = k
      BY <1>1, CommitInstalls DEF Sound
    <2>2. curenv' = k.cur /\ env_status' = k.status
      BY <1>1 DEF Commit
    <2> QED
      BY <1>1, <2>1, <2>2
  <1>2. ASSUME NEW e \in Slot, Chosen(c, k, e), Commit(EnvRun(c, k, e)),
               UNCHANGED halted
        PROVE  /\ Sound(K')
               /\ Executing(K', CPU) /\ curenv'[c] # None /\ halted' = halted
               /\ \A d \in CPU \ {c} : curenv'[d] = k.cur[d]
               /\ \A x \in Slot : k.status[x] \notin {"RUNNABLE", "RUNNING"}
                                    => env_status'[x] = k.status[x]
    <2> DEFINE r == EnvRun(c, k, e)
    <2>1. /\ Sound(r) /\ Executing(r, CPU)
          /\ r.cur = [k.cur EXCEPT ![c] = e]
          /\ \A x \in Slot : k.status[x] \notin {"RUNNABLE", "RUNNING"}
                                => r.status[x] = k.status[x]
      BY <1>2, EnvRunSound
    <2>2. K' = r
      BY <1>2, <2>1, CommitInstalls DEF Sound
    <2>3. curenv' = r.cur /\ env_status' = r.status
      BY <1>2 DEF Commit
    <2>4. k.cur \in [CPU -> Slot \cup {None}]
      BY DEF Sound, KernelState
    <2> HIDE DEF r
    <2> QED
      BY <1>2, <2>1, <2>2, <2>3, <2>4, SlotFacts
  <1> QED
    BY <1>1, <1>2 DEF SchedYield

(* env_free, with the caller's curenv cleared as env_destroy and trap() do.*)
Freed(c, k, e) ==
    [EnvFree(c, k, e) EXCEPT !.cur[c] = IF @ = e THEN None ELSE @]

LEMMA PushedInFront ==
    ASSUME NEW S, NEW s \in Seq(S), NEW e \in S
    PROVE  /\ <<e>> \o s \in Seq(S)
           /\ Len(<<e>> \o s) = Len(s) + 1
           /\ (<<e>> \o s)[1] = e
           /\ \A i \in 1..Len(s) : (<<e>> \o s)[i + 1] = s[i]
  OBVIOUS

LEMMA EnvFreeSound ==
    ASSUME NEW k, Sound(k), NEW c \in CPU, NEW e \in User,
           k.status[e] # "FREE", \A d \in CPU \ {c} : k.cur[d] # e
    PROVE  /\ Sound(Freed(c, k, e))
           /\ Freed(c, k, e).cur = [k.cur EXCEPT ![c] = IF @ = e THEN None ELSE @]
           /\ Freed(c, k, e).status = [k.status EXCEPT ![e] = "FREE"]
  <1> DEFINE f == Freed(c, k, e)
  <1> USE SlotFacts
  <1>1. /\ k \in KernelState /\ e \in Slot
        /\ k.free \in Seq(Slot)
    BY DEF Sound, KernelState
  <1>2. /\ f.cur = [k.cur EXCEPT ![c] = IF @ = e THEN None ELSE @]
        /\ f.status = [k.status EXCEPT ![e] = "FREE"]
        /\ f.pgdir = [k.pgdir EXCEPT ![e] = None]
        /\ f.free = <<e>> \o k.free
        /\ f.cr3 = [k.cr3 EXCEPT ![c] = IF k.cur[c] = e THEN KernPgdir ELSE @]
        /\ f.gen = k.gen /\ f.parent = k.parent
    BY <1>1 DEF Freed, EnvFree, KernelState
  <1>3. f \in KernelState
    <2>2. f.free \in Seq(Slot)
      BY <1>1, <1>2, PushedInFront
    <2>3. f.status \in [Slot -> Status]
      BY <1>1, <1>2 DEF KernelState, Status
    <2>4. /\ [k.pgdir EXCEPT ![e] = None] \in [Slot -> Pgdir \cup {None}]
          /\ [k.cr3 EXCEPT ![c] = IF k.cur[c] = e THEN KernPgdir ELSE @]
                \in [CPU -> Pgdir \cup {KernPgdir}]
          /\ [k.cur EXCEPT ![c] = IF @ = e THEN None ELSE @]
                \in [CPU -> Slot \cup {None}]
      BY <1>1 DEF KernelState
    <2>5. EnvFree(c, k, e) \in KernelState
      BY <1>1, <1>2, <2>2, <2>3, <2>4 DEF EnvFree, KernelState
    <2> QED
      BY <1>2, <2>4, <2>5 DEF Freed, KernelState
  <1> HIDE DEF f
  <1>4. ListsFree(f)
    <2>1. /\ \A i \in 1..Len(k.free) : k.free[i] # e
          /\ \A i, j \in 1..Len(k.free) : k.free[i] = k.free[j] => i = j
      BY <1>1 DEF Sound, ListsFree
    <2>2. /\ Len(f.free) = Len(k.free) + 1
          /\ f.free[1] = e
          /\ \A i \in 1..Len(k.free) : f.free[i + 1] = k.free[i]
          /\ Len(k.free) \in Nat
      BY <1>1, <1>2, PushedInFront
    <2>3. \A i \in 1..Len(f.free) : i = 1 \/ i - 1 \in 1..Len(k.free)
      BY <2>2
    <2>4. \A i \in 1..Len(f.free) : i # 1 => f.free[i] = k.free[i - 1]
      <3> TAKE i \in 1..Len(f.free)
      <3> HAVE i # 1
      <3>1. i - 1 \in 1..Len(k.free) /\ (i - 1) + 1 = i
        BY <2>3
      <3> QED
        BY <2>2, <3>1
    <2>5. ASSUME NEW i \in 1..Len(f.free), NEW j \in 1..Len(f.free),
                 f.free[i] = f.free[j]
          PROVE  i = j
      <3>1. CASE i = 1 \/ j = 1
        <4>1. \A h \in 1..Len(f.free) : f.free[h] = e => h = 1
          <5> SUFFICES ASSUME NEW h \in 1..Len(f.free), h # 1
                       PROVE  f.free[h] # e
            OBVIOUS
          <5>1. h - 1 \in 1..Len(k.free) /\ f.free[h] = k.free[h - 1]
            BY <2>3, <2>4
          <5> QED
            BY <2>1, <5>1
        <4> QED
          BY <2>2, <2>5, <3>1, <4>1
      <3>2. CASE i # 1 /\ j # 1
        <4>1. i - 1 = j - 1
          BY <2>1, <2>3, <2>4, <2>5, <3>2
        <4> QED
          BY <2>2, <4>1
      <3> QED
        BY <3>1, <3>2
    <2>6. ASSUME NEW x \in Slot
          PROVE  f.status[x] = "FREE" <=> \E i \in 1..Len(f.free) : f.free[i] = x
      <3>1. CASE x = e
        BY <1>1, <1>2, <2>2, <3>1 DEF KernelState
      <3>2. CASE x # e
        <4>1. f.status[x] = "FREE" <=> \E i \in 1..Len(k.free) : k.free[i] = x
          <5>1. f.status[x] = k.status[x]
            BY <1>1, <1>2, <3>2 DEF KernelState
          <5> QED
            BY <5>1 DEF Sound, ListsFree
        <4>2. ASSUME NEW i \in 1..Len(k.free), k.free[i] = x
              PROVE  i + 1 \in 1..Len(f.free) /\ f.free[i + 1] = x
          BY <2>2, <4>2
        <4>3. ASSUME NEW i \in 1..Len(f.free), f.free[i] = x
              PROVE  i - 1 \in 1..Len(k.free) /\ k.free[i - 1] = x
          BY <2>2, <2>3, <2>4, <3>2, <4>3
        <4> QED
          BY <4>1, <4>2, <4>3
      <3> QED
        BY <3>1, <3>2
    <2> QED
      BY <2>5, <2>6 DEF ListsFree
  <1>5. HasId(f) /\ OwnsPgdir(f)
    BY <1>1, <1>2 DEF KernelState, Sound, HasId, OwnsPgdir
  <1>6. LoadsItsPgdir(f) /\ RunsAlone(f)
    BY <1>1, <1>2 DEF KernelState, Sound, LoadsItsPgdir, RunsAlone
  <1>7. KeepsIdle(f)
    BY <1>1, <1>2 DEF KernelState, Sound, KeepsIdle
  <1>8. CurrentIsTaken(f)
    BY <1>1, <1>2 DEF KernelState, Sound, CurrentIsTaken
  <1> QED
    BY <1>2, <1>3, <1>4, <1>5, <1>6, <1>7, <1>8 DEF Sound, f

(* env_destroy, for an environment that is not a zombie on another CPU.    *)
LEMMA EnvDestroySound ==
    ASSUME NEW k, Sound(k), NEW c \in CPU, Executing(k, CPU \ {c}),
           NEW e \in User, k.status[e] # "FREE",
           k.status[e] = "DYING" => k.cur[c] = e
    PROVE  /\ Sound(EnvDestroy(c, k, e))
           /\ Executing(EnvDestroy(c, k, e), CPU \ {c})
           /\ EnvDestroy(c, k, e).cur = [k.cur EXCEPT ![c] = IF @ = e THEN None ELSE @]
           /\ \A x \in Slot \ {e} : EnvDestroy(c, k, e).status[x] = k.status[x]
  <1> USE SlotFacts
  <1>1. k \in KernelState /\ e \in Slot
    BY DEF Sound
  <1>2. CASE k.status[e] = "RUNNING" /\ k.cur[c] # e
    <2> DEFINE z == [k EXCEPT !.status[e] = "DYING"]
    <2>1. /\ EnvDestroy(c, k, e) = z
          /\ z \in KernelState
          /\ z.status = [k.status EXCEPT ![e] = "DYING"]
          /\ z.cur = k.cur /\ z.free = k.free
          /\ z.pgdir = k.pgdir /\ z.cr3 = k.cr3 /\ z.gen = k.gen
      BY <1>1, <1>2 DEF EnvDestroy, KernelState, Status
    <2> HIDE DEF z
    <2>2. \A x \in Slot : z.status[x] = "FREE" <=> k.status[x] = "FREE"
      BY <1>1, <1>2, <2>1 DEF KernelState
    <2>3. /\ ListsFree(z) /\ HasId(z) /\ OwnsPgdir(z)
          /\ LoadsItsPgdir(z) /\ RunsAlone(z)
      BY <2>1, <2>2
         DEF Sound, ListsFree, HasId, OwnsPgdir, LoadsItsPgdir, RunsAlone
    <2>4. KeepsIdle(z) /\ CurrentIsTaken(z) /\ Executing(z, CPU \ {c})
      BY <1>1, <1>2, <2>1
         DEF KernelState, Sound, KeepsIdle, CurrentIsTaken, Executing
    <2>5. z.cur = [k.cur EXCEPT ![c] = IF @ = e THEN None ELSE @]
      BY <1>1, <1>2, <2>1 DEF KernelState
    <2> QED
      BY <1>1, <2>1, <2>3, <2>4, <2>5 DEF Sound, KernelState
  <1>3. CASE ~(k.status[e] = "RUNNING" /\ k.cur[c] # e)
    <2>1. EnvDestroy(c, k, e) = Freed(c, k, e)
      BY <1>3 DEF EnvDestroy, Freed
    <2>2. \A d \in CPU \ {c} : k.cur[d] # e
      BY <1>3 DEF Executing, Sound, RunsAlone
    <2>3. /\ Sound(Freed(c, k, e))
          /\ Freed(c, k, e).cur = [k.cur EXCEPT ![c] = IF @ = e THEN None ELSE @]
          /\ Freed(c, k, e).status = [k.status EXCEPT ![e] = "FREE"]
      BY <2>2, EnvFreeSound
    <2>4. Executing(Freed(c, k, e), CPU \ {c})
      BY <1>1, <2>2, <2>3 DEF KernelState, Executing
    <2> QED
      BY <1>1, <2>1, <2>3, <2>4 DEF KernelState
  <1> QED
    BY <1>2, <1>3

(* sys_exofork: env_alloc, and the child put to sleep.                     *)
Forked(k, p, parent) ==
    [EnvAlloc(k, p, parent) EXCEPT !.status[Head(k.free)] = "NOT_RUNNABLE"]

LEMMA PoppedOff ==
    ASSUME NEW S, NEW s \in Seq(S), s # <<>>
    PROVE  /\ Tail(s) \in Seq(S)
           /\ Len(s) \in Nat /\ Len(s) > 0
           /\ Len(Tail(s)) = Len(s) - 1
           /\ Head(s) = s[1] /\ Head(s) \in S
           /\ \A i \in 1..(Len(s) - 1) : Tail(s)[i] = s[i + 1]
  OBVIOUS

LEMMA ForkedSound ==
    ASSUME NEW k, Sound(k), Executing(k, CPU), k.free # <<>>,
           NEW p \in FreePgdirs(k), NEW parent \in EnvId
    PROVE  LET k1 == Forked(k, p, parent) e == Head(k.free)
           IN /\ e \in User /\ k.status[e] = "FREE"
              /\ Sound(k1)
              /\ Executing(k1, CPU)
              /\ k1.cur = k.cur
              /\ k1.status = [k.status EXCEPT ![e] = "NOT_RUNNABLE"]
  <1> DEFINE e == Head(k.free)
             f == Forked(k, p, parent)
  <1> USE SlotFacts
  <1>1. k \in KernelState /\ k.free \in Seq(Slot)
    BY DEF Sound, KernelState
  <1>2. /\ e \in Slot /\ e = k.free[1]
        /\ Tail(k.free) \in Seq(Slot)
        /\ Len(k.free) \in Nat /\ Len(k.free) > 0
        /\ Len(Tail(k.free)) = Len(k.free) - 1
        /\ \A i \in 1..(Len(k.free) - 1) : Tail(k.free)[i] = k.free[i + 1]
    BY <1>1, PoppedOff
  <1>3. k.status[e] = "FREE"
    BY <1>1, <1>2 DEF Sound, ListsFree
  <1>4. e \in User
    BY <1>2, <1>3 DEF Sound, KeepsIdle
  <1>5. p \in Pgdir /\ \A x \in Slot : k.pgdir[x] # p
    BY DEF FreePgdirs
  <1> HIDE DEF e
  <1>6. NextGen(k.gen[e]) \in 0..MaxGen /\ NextGen(k.gen[e]) # 0
    BY <1>1, <1>2, EnvAssumption DEF KernelState, NextGen
  <1> DEFINE g == EnvAlloc(k, p, parent)
  <1>7. /\ g \in KernelState
        /\ g.status = [k.status EXCEPT ![e] = "RUNNABLE"]
        /\ g.cur = k.cur /\ g.cr3 = k.cr3
        /\ g.pgdir = [k.pgdir EXCEPT ![e] = p]
        /\ g.gen = [k.gen EXCEPT ![e] = NextGen(k.gen[e])]
        /\ g.free = Tail(k.free)
    <2>1. /\ [k.status EXCEPT ![e] = "RUNNABLE"] \in [Slot -> Status]
          /\ [k.parent EXCEPT ![e] = parent] \in [Slot -> EnvId \cup {None}]
          /\ [k.gen EXCEPT ![e] = NextGen(k.gen[e])] \in [Slot -> 0..MaxGen]
          /\ [k.pgdir EXCEPT ![e] = p] \in [Slot -> Pgdir \cup {None}]
      BY <1>1, <1>2, <1>5, <1>6 DEF KernelState, Status
    <2>2. g = [k EXCEPT !.status[e] = "RUNNABLE", !.parent[e] = parent,
                        !.gen[e] = NextGen(@), !.pgdir[e] = p, !.free = Tail(@)]
      BY DEF EnvAlloc, e
    <2> HIDE DEF g
    <2> QED
      BY <1>1, <1>2, <2>1, <2>2, ZenonT(60) DEF KernelState
  <1> HIDE DEF g
  <1>8. /\ f \in KernelState
        /\ f.status = [k.status EXCEPT ![e] = "NOT_RUNNABLE"]
        /\ f.cur = k.cur /\ f.cr3 = k.cr3
        /\ f.pgdir = [k.pgdir EXCEPT ![e] = p]
        /\ f.gen = [k.gen EXCEPT ![e] = NextGen(k.gen[e])]
        /\ f.free = Tail(k.free)
    <2>1. f = [g EXCEPT !.status[e] = "NOT_RUNNABLE"]
      BY DEF Forked, g, e
    <2>2. [g.status EXCEPT ![e] = "NOT_RUNNABLE"]
            = [k.status EXCEPT ![e] = "NOT_RUNNABLE"]
      BY <1>1, <1>7 DEF KernelState
    <2>3. [k.status EXCEPT ![e] = "NOT_RUNNABLE"] \in [Slot -> Status]
      BY <1>1 DEF KernelState, Status
    <2> HIDE DEF f
    <2> QED
      BY <1>7, <2>1, <2>2, <2>3 DEF KernelState
  <1> HIDE DEF f
  <1>9. ListsFree(f)
    <2>1. \A i \in 1..Len(f.free) :
             /\ i + 1 \in 1..Len(k.free) /\ i + 1 # 1
             /\ f.free[i] = k.free[i + 1]
      BY <1>2, <1>8
    <2>2. \A i \in 1..Len(k.free) : i # 1 =>
             /\ i - 1 \in 1..Len(f.free)
             /\ f.free[i - 1] = k.free[i]
      BY <1>2, <1>8
    <2>3. /\ \A i \in 1..Len(k.free) : k.free[i] = e => i = 1
          /\ \A i, j \in 1..Len(k.free) : k.free[i] = k.free[j] => i = j
      BY <1>2 DEF Sound, ListsFree
    <2>4. ASSUME NEW i \in 1..Len(f.free), NEW j \in 1..Len(f.free),
                 f.free[i] = f.free[j]
          PROVE  i = j
      <3>1. i + 1 = j + 1
        BY <2>1, <2>3, <2>4
      <3> QED
        BY <3>1
    <2>5. ASSUME NEW x \in Slot
          PROVE  f.status[x] = "FREE" <=> \E i \in 1..Len(f.free) : f.free[i] = x
      <3>1. CASE x = e
        <4>1. f.status[x] # "FREE"
          BY <1>1, <1>2, <1>8, <3>1 DEF KernelState
        <4>2. \A i \in 1..Len(f.free) : f.free[i] # e
          BY <2>1, <2>3
        <4> QED
          BY <3>1, <4>1, <4>2
      <3>2. CASE x # e
        <4>1. f.status[x] = k.status[x]
          BY <1>1, <1>8, <3>2 DEF KernelState
        <4>2. k.status[x] = "FREE" <=> \E i \in 1..Len(k.free) : k.free[i] = x
          BY DEF Sound, ListsFree
        <4>3. ASSUME NEW i \in 1..Len(k.free), k.free[i] = x
              PROVE  \E j \in 1..Len(f.free) : f.free[j] = x
          BY <1>2, <2>2, <3>2, <4>3
        <4>4. ASSUME NEW j \in 1..Len(f.free), f.free[j] = x
              PROVE  \E i \in 1..Len(k.free) : k.free[i] = x
          BY <2>1, <4>4
        <4> QED
          BY <4>1, <4>2, <4>3, <4>4
      <3> QED
        BY <3>1, <3>2
    <2> QED
      BY <2>4, <2>5 DEF ListsFree
  <1>10. HasId(f) /\ OwnsPgdir(f)
    BY <1>1, <1>2, <1>5, <1>6, <1>8 DEF KernelState, Sound, HasId, OwnsPgdir
  <1>11. \A d \in CPU : k.cur[d] # e
    BY <1>3, <1>2 DEF Sound, CurrentIsTaken
  <1>12. LoadsItsPgdir(f) /\ RunsAlone(f)
    BY <1>1, <1>8, <1>11 DEF KernelState, Sound, LoadsItsPgdir, RunsAlone
  <1>13. KeepsIdle(f) /\ CurrentIsTaken(f) /\ Executing(f, CPU)
    BY <1>1, <1>4, <1>8, <1>11
       DEF KernelState, Sound, KeepsIdle, CurrentIsTaken, Executing
  <1> QED
    BY <1>3, <1>4, <1>8, <1>9, <1>10, <1>12, <1>13 DEF Sound, e, f

(* sys_exec_commit, for a child that has not run: the caller gets its      *)
(* address space, and what is destroyed is the old one.                    *)
LEMMA SwapSound ==
    ASSUME NEW k, Sound(k), Executing(k, CPU), NEW c \in CPU, NEW e \in User,
           k.cur[c] # None, k.status[e] = "NOT_RUNNABLE"
    PROVE  LET k1 == PgdirsSwapped(c, k, e)
           IN /\ Sound(k1)
              /\ Executing(k1, CPU)
              /\ k1.cur = k.cur /\ k1.status = k.status
  <1> DEFINE f == k.cur[c]
             s == PgdirsSwapped(c, k, e)
             q == [x \in Slot |-> IF x = e THEN k.pgdir[f]
                                  ELSE IF x = f THEN k.pgdir[e] ELSE k.pgdir[x]]
  <1> USE SlotFacts
  <1>1. k \in KernelState /\ e \in Slot /\ f \in Slot
    BY DEF Sound, KernelState
  <1>2. \A d \in CPU : k.cur[d] # e
    BY DEF Executing
  <1>3. k.pgdir[e] \in Pgdir /\ k.pgdir[f] \in Pgdir
    <2>1. k.status[e] # "FREE" /\ k.status[f] # "FREE"
      BY DEF Sound, CurrentIsTaken, f
    <2>2. k.pgdir[e] # None /\ k.pgdir[f] # None
      BY <1>1, <2>1 DEF Sound, OwnsPgdir
    <2> QED
      BY <1>1, <2>2 DEF KernelState
  <1>4. s = [k EXCEPT !.pgdir = q, !.cr3[c] = k.pgdir[e]]
    BY DEF PgdirsSwapped
  <1> HIDE DEF s, f
  <1>5. /\ q \in [Slot -> Pgdir \cup {None}]
        /\ q[e] = k.pgdir[f] /\ q[f] = k.pgdir[e]
        /\ \A x \in Slot \ {e, f} : q[x] = k.pgdir[x]
        /\ [k.cr3 EXCEPT ![c] = k.pgdir[e]] \in [CPU -> Pgdir \cup {KernPgdir}]
    BY <1>1, <1>3 DEF KernelState
  <1> HIDE DEF q
  <1>6. /\ s \in KernelState
        /\ s.pgdir = q /\ s.cr3 = [k.cr3 EXCEPT ![c] = k.pgdir[e]]
        /\ s.cur = k.cur /\ s.status = k.status /\ s.free = k.free
        /\ s.gen = k.gen
    BY <1>1, <1>4, <1>5 DEF KernelState
  <1>7. OwnsPgdir(s)
    <2>1. \A x \in Slot : s.pgdir[x] = None <=> s.status[x] = "FREE"
      <3>1. k.status[f] # "FREE" /\ k.status[e] # "FREE"
        BY DEF Sound, CurrentIsTaken, f
      <3> QED
        BY <1>3, <1>5, <1>6, <3>1 DEF Sound, OwnsPgdir
    <2>2. \A x, y \in Slot : s.pgdir[x] = s.pgdir[y] /\ x # y => s.pgdir[x] = None
      BY <1>1, <1>3, <1>5, <1>6 DEF Sound, OwnsPgdir
    <2> QED
      BY <2>1, <2>2 DEF OwnsPgdir
  <1>8. LoadsItsPgdir(s)
    <2>1. s.cr3[c] = s.pgdir[s.cur[c]] /\ s.cur[c] # None
      BY <1>1, <1>5, <1>6 DEF KernelState, f
    <2>2. ASSUME NEW d \in CPU, d # c
          PROVE  s.cr3[d] = IF s.cur[d] = None THEN KernPgdir ELSE s.pgdir[s.cur[d]]
      <3>1. s.cr3[d] = k.cr3[d] /\ s.cur[d] = k.cur[d]
        BY <1>1, <1>6, <2>2 DEF KernelState
      <3>2. k.cur[d] # None => k.cur[d] \in Slot \ {e, f}
        BY <1>1, <1>2, <2>2 DEF KernelState, Sound, RunsAlone, f
      <3> QED
        BY <1>5, <1>6, <3>1, <3>2 DEF Sound, LoadsItsPgdir
    <2> QED
      BY <2>1, <2>2 DEF LoadsItsPgdir
  <1>9. /\ ListsFree(s) /\ HasId(s) /\ RunsAlone(s) /\ KeepsIdle(s)
        /\ CurrentIsTaken(s) /\ Executing(s, CPU)
    BY <1>6
       DEF Sound, ListsFree, HasId, RunsAlone, KeepsIdle, CurrentIsTaken, Executing
  <1> QED
    BY <1>6, <1>7, <1>8, <1>9 DEF Sound, s

-----------------------------------------------------------------------------
(* The two ways out of the kernel.                                         *)
LEMMA SchedYieldInv ==
    ASSUME EnvInv, ~halted, NEW c \in CPU, NEW k, SchedYield(c, k),
           Sound(k), Executing(k, CPU \ {c}),
           \A d \in CPU \ {c} : k.cur[d] = curenv[d],
           up' \subseteq up \cup {c}, fresh' \subseteq User,
           \A e \in fresh' : k.status[e] = "NOT_RUNNABLE"
    PROVE  EnvInv'
  <1>1. /\ Sound(K')
        /\ \/ halted' = TRUE
           \/ Executing(K', CPU) /\ curenv'[c] # None /\ halted' = halted
        /\ \A d \in CPU \ {c} : curenv'[d] = k.cur[d]
        /\ \A x \in Slot : k.status[x] \notin {"RUNNABLE", "RUNNING"}
                             => env_status'[x] = k.status[x]
    BY SchedYieldSound
  <1>2. up' \subseteq CPU /\ halted' \in BOOLEAN
    BY <1>1 DEF EnvInv
  <1>3. ~halted' => \A d \in up' : curenv'[d] # None
    BY <1>1, <1>2 DEF EnvInv
  <1>4. \A e \in fresh' : env_status'[e] = "NOT_RUNNABLE"
    BY <1>1, SlotFacts
  <1> QED
    BY <1>1, <1>2, <1>3, <1>4 DEF EnvInv

LEMMA ReturnInv ==
    ASSUME EnvInv, ~halted, NEW c \in up, NEW g, NEW k, Return(c, g, k),
           Sound(k), Executing(k, CPU), k.cur = curenv,
           UNCHANGED up, fresh' \subseteq User,
           \A e \in fresh' : k.status[e] = "NOT_RUNNABLE"
    PROVE  EnvInv'
  <1>1. c \in CPU /\ Executing(k, CPU \ {c})
    BY DEF EnvInv, Executing
  <1>2. CASE SchedYield(c, k)
    BY <1>1, <1>2, SchedYieldInv
  <1>3. CASE Commit(k) /\ UNCHANGED halted
    <2>1. K' = k /\ curenv' = k.cur /\ env_status' = k.status
      BY <1>3, CommitInstalls DEF Sound, Commit
    <2> QED
      BY <1>3, <2>1 DEF EnvInv
  <1> QED
    BY <1>2, <1>3 DEF Return

-----------------------------------------------------------------------------
(* The calls are made as fork, spawn, exec and exit make them.             *)
AsLibrary == Calls \cap {"set_status", "env_destroy", "exec_commit"} \subseteq LibraryUse

LEMMA EnvInvInit == Init => EnvInv
  <1> SUFFICES ASSUME Init PROVE EnvInv
    OBVIOUS
  <1> USE SlotFacts
  <1>1. /\ NCPU \in Nat \ {0} /\ NENV \in Nat /\ NCPU < NENV
        /\ Boot \in 1..(NENV - NCPU) /\ MaxGen \in Nat \ {0}
    BY EnvAssumption, BootAssumption
  <1>2. /\ Slot = 0..(NENV - 1) /\ CPU = 0..(NCPU - 1)
        /\ Created = 0..(NCPU + Boot - 1)
    BY DEF Slot, CPU, Created
  <1>3. CPU \subseteq Created /\ Created \subseteq Slot
    BY <1>1, <1>2
  <1> DEFINE n == NENV - NCPU - Boot
  <1>4. /\ n \in Nat
        /\ free_list \in Seq(Slot) /\ Len(free_list) = n
        /\ \A i \in 1..n : free_list[i] = NCPU + Boot + i - 1
    <2>1. n \in Nat
      BY <1>1
    <2>2. \A i \in 1..n : NCPU + Boot + i - 1 \in Slot
      BY <1>1, <1>2
    <2>3. free_list = [i \in 1..n |-> NCPU + Boot + i - 1]
      BY DEF Init
    <2> QED
      BY <2>1, <2>2, <2>3
  <1> HIDE DEF n
  <1>5. PICK p \in [Created -> Pgdir] :
           /\ \A d, e \in Created : p[d] = p[e] => d = e
           /\ env_pgdir = [e \in Slot |-> IF e \in Created THEN p[e] ELSE None]
    BY DEF Init
  <1>6. K \in KernelState
    BY <1>1, <1>3, <1>4, <1>5 DEF Init, K, KernelState, Status
  <1>7. ListsFree(K)
    <2>1. \A e \in Slot : env_status[e] = "FREE" <=> e \notin Created
      BY DEF Init
    <2>2. \A i, j \in 1..n : free_list[i] = free_list[j] => i = j
      BY <1>1, <1>4
    <2>3. \A e \in Slot : e \notin Created =>
              e - NCPU - Boot + 1 \in 1..n /\ free_list[e - NCPU - Boot + 1] = e
      BY <1>1, <1>2, <1>4 DEF n
    <2>4. \A i \in 1..n : free_list[i] \notin Created
      BY <1>1, <1>2, <1>4
    <2> QED
      BY <1>4, <2>1, <2>2, <2>3, <2>4 DEF ListsFree, K
  <1>8. HasId(K) /\ OwnsPgdir(K)
    BY <1>3, <1>5 DEF Init, K, HasId, OwnsPgdir
  <1>9. /\ LoadsItsPgdir(K) /\ RunsAlone(K) /\ KeepsIdle(K)
        /\ CurrentIsTaken(K) /\ Executing(K, CPU)
    BY <1>3 DEF Init, K, LoadsItsPgdir, RunsAlone, KeepsIdle, CurrentIsTaken,
                Executing
  <1> QED
    BY <1>6, <1>7, <1>8, <1>9 DEF EnvInv, Sound, Init

(* What an entry from user mode finds.                                     *)
EnteredBy(c) ==
    /\ ~halted /\ c \in up /\ curenv[c] \in Slot
    /\ Sound(K) /\ Executing(K, CPU) /\ Executing(K, CPU \ {c})
    /\ K.cur = curenv /\ K.status = env_status /\ K.free = free_list
    /\ curenv \in [CPU -> Slot \cup {None}]
    /\ env_status \in [Slot -> Status]
    /\ env_status[curenv[c]] \in {"RUNNING", "DYING"}
    /\ \A d \in CPU \ {c} : curenv[d] # curenv[c]
    /\ \A e \in fresh : env_status[e] = "NOT_RUNNABLE"
    /\ fresh \subseteq User

LEMMA Entered ==
    ASSUME EnvInv, NEW c \in CPU, InUser(c)
    PROVE  EnteredBy(c)
  <1>1. /\ K.cur = curenv /\ K.status = env_status /\ K.free = free_list
        /\ curenv \in [CPU -> Slot \cup {None}]
        /\ env_status \in [Slot -> Status]
    BY DEF EnvInv, Sound, K, KernelState
  <1> QED
    BY <1>1 DEF EnvInv, InUser, Sound, RunsAlone, Executing, EnteredBy

LEMMA TrapReapInv ==
    ASSUME EnvInv, NEW c \in CPU, TrapReap(c)
    PROVE  EnvInv'
  <1> DEFINE e == curenv[c]
             k == Freed(c, K, e)
  <1>1. /\ InUser(c) /\ env_status[e] = "DYING"
        /\ SchedYield(c, [EnvFree(c, K, e) EXCEPT !.cur[c] = None])
        /\ UNCHANGED <<up, fresh>>
    BY DEF TrapReap, Zombie
  <1>2. EnteredBy(c)
    BY <1>1, Entered
  <1>3. e \in User
    BY <1>1, <1>2, SlotFacts DEF EnteredBy, Sound, KeepsIdle
  <1>4. k = [EnvFree(c, K, e) EXCEPT !.cur[c] = None]
    BY DEF Freed, EnvFree, K
  <1>5. /\ Sound(k)
        /\ k.cur = [curenv EXCEPT ![c] = IF @ = e THEN None ELSE @]
        /\ k.status = [env_status EXCEPT ![e] = "FREE"]
    <2>1. Sound(K) /\ K.status[e] # "FREE" /\ \A d \in CPU \ {c} : K.cur[d] # e
      BY <1>1, <1>2 DEF EnteredBy
    <2>2. K.cur = curenv /\ K.status = env_status
      BY <1>2 DEF EnteredBy
    <2>3. /\ Sound(k)
          /\ k.cur = [K.cur EXCEPT ![c] = IF @ = e THEN None ELSE @]
          /\ k.status = [K.status EXCEPT ![e] = "FREE"]
      BY <1>3, <2>1, EnvFreeSound
    <2> QED
      BY <2>2, <2>3
  <1> HIDE DEF k
  <1>6. /\ \A d \in CPU \ {c} : k.cur[d] = curenv[d]
        /\ Executing(k, CPU \ {c})
        /\ \A x \in fresh : k.status[x] = "NOT_RUNNABLE"
    BY <1>1, <1>2, <1>5, SlotFacts DEF Executing, EnteredBy
  <1>7. SchedYield(c, k) /\ UNCHANGED <<up, fresh>> /\ ~halted /\ fresh \subseteq User
    BY <1>1, <1>2, <1>4 DEF EnteredBy
  <1> QED
    BY <1>5, <1>6, <1>7, SchedYieldInv

LEMMA BootCpuInv ==
    ASSUME EnvInv, NEW c \in CPU, BootCpu(c)
    PROVE  EnvInv'
  <1>1. /\ ~halted /\ SchedYield(c, K)
        /\ up' = up \cup {c} /\ fresh' = fresh
    BY DEF BootCpu
  <1>2. /\ Sound(K) /\ Executing(K, CPU \ {c}) /\ fresh \subseteq User
        /\ K.cur = curenv /\ K.status = env_status
        /\ \A e \in fresh : env_status[e] = "NOT_RUNNABLE"
    BY <1>1 DEF EnvInv, Executing, K
  <1> QED
    BY <1>1, <1>2, SchedYieldInv

(* The timer, and sys_yield.                                               *)
LEMMA YieldInv ==
    ASSUME EnvInv, NEW c \in CPU, InUser(c), SchedYield(c, K),
           UNCHANGED <<up, fresh>>
    PROVE  EnvInv'
  <1>1. EnteredBy(c)
    BY Entered
  <1>2. /\ ~halted /\ Sound(K) /\ Executing(K, CPU \ {c})
        /\ K.cur = curenv /\ K.status = env_status
        /\ \A e \in fresh : env_status[e] = "NOT_RUNNABLE"
        /\ fresh \subseteq User
    BY <1>1 DEF EnteredBy
  <1> QED
    BY <1>2, SchedYieldInv

LEMMA SysExoforkInv ==
    ASSUME EnvInv, NEW c \in CPU, NEW g \in Gates, SysExofork(c, g)
    PROVE  EnvInv'
  <1> DEFINE e == Head(free_list)
  <1>1. /\ InUser(c) /\ free_list # <<>>
        /\ fresh' = fresh \cup {e} /\ UNCHANGED up
    BY DEF SysExofork, Enter
  <1>2. EnteredBy(c)
    BY <1>1, Entered
  <1>3. /\ Sound(K) /\ Executing(K, CPU) /\ K.free = free_list
        /\ K.cur = curenv /\ K.status = env_status
        /\ curenv[c] \in Slot /\ env_status \in [Slot -> Status]
        /\ ~halted /\ c \in up
        /\ \A x \in fresh : env_status[x] = "NOT_RUNNABLE"
        /\ fresh \subseteq User
    BY <1>2 DEF EnteredBy
  <1> DEFINE parent == EnvIdOf(K, curenv[c])
  <1>4. PICK p \in FreePgdirs(K) : Return(c, g, Forked(K, p, parent))
    <2>1. NextPgdir(FreePgdirs(K)) \subseteq FreePgdirs(K)
      BY PgdirAssumption DEF FreePgdirs
    <2> QED
      BY <1>3, <2>1 DEF SysExofork, Forked
  <1>5. parent \in EnvId
    <2>1. K.gen[curenv[c]] \in 0..MaxGen /\ K.gen[curenv[c]] # 0
      BY <1>2, <1>3 DEF EnteredBy, Sound, HasId, KernelState
    <2> QED
      BY <1>3, <2>1, EnvAssumption DEF EnvIdOf, EnvId
  <1> DEFINE k == Forked(K, p, parent)
  <1> HIDE DEF parent
  <1>6. /\ e \in User /\ env_status[e] = "FREE"
        /\ Sound(k) /\ Executing(k, CPU) /\ k.cur = curenv
        /\ k.status = [env_status EXCEPT ![e] = "NOT_RUNNABLE"]
    <2>1. K.free # <<>>
      BY <1>1, <1>3
    <2> QED
      BY <1>3, <1>5, <2>1, ForkedSound, ZenonT(30)
  <1> HIDE DEF k
  <1>7. /\ fresh' \subseteq User
        /\ \A x \in fresh' : k.status[x] = "NOT_RUNNABLE"
    BY <1>1, <1>3, <1>6, SlotFacts
  <1>8. Return(c, g, k) /\ UNCHANGED up
    BY <1>1, <1>4 DEF k
  <1> QED
    BY <1>3, <1>6, <1>7, <1>8, ReturnInv

(* Whoever sleeps may be woken: no CPU executes it.                        *)
LEMMA WokenSound ==
    ASSUME NEW k, Sound(k), Executing(k, CPU), NEW e \in User,
           k.status[e] = "NOT_RUNNABLE"
    PROVE  LET w == [k EXCEPT !.status[e] = "RUNNABLE"]
           IN /\ Sound(w) /\ Executing(w, CPU)
              /\ w.cur = k.cur /\ w.gen = k.gen
              /\ w.status = [k.status EXCEPT ![e] = "RUNNABLE"]
  <1> DEFINE w == [k EXCEPT !.status[e] = "RUNNABLE"]
  <1>3. k \in KernelState /\ e \in Slot
    BY SlotFacts DEF Sound
  <1>4. /\ w \in KernelState
        /\ w.status = [k.status EXCEPT ![e] = "RUNNABLE"]
        /\ w.cur = k.cur /\ w.free = k.free /\ w.gen = k.gen
        /\ w.pgdir = k.pgdir /\ w.cr3 = k.cr3
    BY <1>3 DEF KernelState, Status
  <1> HIDE DEF w
  <1>5. \A x \in Slot : w.status[x] = "FREE" <=> k.status[x] = "FREE"
    BY <1>3, <1>4 DEF KernelState
  <1>6. \A d \in CPU : k.cur[d] # e
    BY <1>3, SlotFacts DEF Executing
  <1>7. /\ ListsFree(w) /\ HasId(w) /\ OwnsPgdir(w)
        /\ LoadsItsPgdir(w) /\ RunsAlone(w)
    BY <1>4, <1>5
       DEF Sound, ListsFree, HasId, OwnsPgdir, LoadsItsPgdir, RunsAlone
  <1>8. KeepsIdle(w) /\ CurrentIsTaken(w) /\ Executing(w, CPU)
    BY <1>3, <1>4, <1>6, SlotFacts
       DEF KernelState, Sound, KeepsIdle, CurrentIsTaken, Executing
  <1> QED
    BY <1>4, <1>7, <1>8 DEF Sound, w

LEMMA SysEnvSetStatusInv ==
    ASSUME EnvInv, AsLibrary, NEW c \in CPU, NEW g \in Gates, NEW e \in User,
           NEW status, SysEnvSetStatus(c, g, e, status)
    PROVE  EnvInv'
  <1> DEFINE k == [K EXCEPT !.status[e] = "RUNNABLE"]
  <1>1. /\ InUser(c) /\ e \in fresh /\ Return(c, g, k)
        /\ fresh' = fresh \ {e} /\ UNCHANGED up
    BY DEF SysEnvSetStatus, Enter, AsLibrary
  <1>2. EnteredBy(c)
    BY <1>1, Entered
  <1>3. /\ Sound(K) /\ Executing(K, CPU) /\ K.status[e] = "NOT_RUNNABLE"
        /\ K.status = env_status /\ K.cur = curenv
    BY <1>1, <1>2 DEF EnteredBy
  <1>4. /\ Sound(k) /\ Executing(k, CPU)
        /\ k.cur = K.cur /\ k.status = [K.status EXCEPT ![e] = "RUNNABLE"]
    BY <1>3, WokenSound
  <1> HIDE DEF k
  <1>5. /\ ~halted /\ c \in up /\ k.cur = curenv /\ fresh' \subseteq User
        /\ \A x \in fresh' : k.status[x] = "NOT_RUNNABLE"
    BY <1>1, <1>2, <1>3, <1>4, SlotFacts DEF EnteredBy
  <1> QED
    BY <1>1, <1>4, <1>5, ReturnInv

(* The destruction of e by CPU c, as the entries below perform it.         *)
LEMMA DestroyedBy ==
    ASSUME NEW c \in CPU, EnteredBy(c), NEW k, Sound(k),
           k.cur = curenv, k.status = env_status, NEW e \in User,
           env_status[e] # "FREE", env_status[e] = "DYING" => curenv[c] = e
    PROVE  /\ Sound(EnvDestroy(c, k, e))
           /\ Executing(EnvDestroy(c, k, e), CPU \ {c})
           /\ \A d \in CPU \ {c} : EnvDestroy(c, k, e).cur[d] = curenv[d]
           /\ \A x \in fresh \ {e} : EnvDestroy(c, k, e).status[x] = "NOT_RUNNABLE"
           /\ curenv[c] # e => /\ Executing(EnvDestroy(c, k, e), CPU)
                               /\ EnvDestroy(c, k, e).cur = curenv
  <1> DEFINE k1 == EnvDestroy(c, k, e)
  <1>1. /\ Executing(k, CPU \ {c})
        /\ k.status[e] # "FREE" /\ (k.status[e] = "DYING" => k.cur[c] = e)
    BY DEF EnteredBy, Executing
  <1>2. /\ Sound(k1)
        /\ Executing(k1, CPU \ {c})
        /\ k1.cur = [k.cur EXCEPT ![c] = IF @ = e THEN None ELSE @]
        /\ \A x \in Slot \ {e} : k1.status[x] = k.status[x]
    BY <1>1, EnvDestroySound, SMTT(60)
  <1> HIDE DEF k1
  <1>3. ASSUME curenv[c] # e
        PROVE  Executing(k1, CPU) /\ k1.cur = curenv
    BY <1>2, <1>3 DEF EnteredBy, Executing
  <1>4. /\ \A d \in CPU \ {c} : k1.cur[d] = curenv[d]
        /\ \A x \in fresh \ {e} : k1.status[x] = "NOT_RUNNABLE"
    BY <1>2, SlotFacts DEF EnteredBy
  <1> QED
    BY <1>2, <1>3, <1>4 DEF k1

LEMMA TrapFaultInv ==
    ASSUME EnvInv, NEW c \in CPU, TrapFault(c)
    PROVE  EnvInv'
  <1> DEFINE k == EnvDestroy(c, K, curenv[c])
  <1>1. /\ InUser(c) /\ curenv[c] \in User /\ ~Zombie(c)
        /\ SchedYield(c, k) /\ UNCHANGED <<up, fresh>>
    BY DEF TrapFault
  <1>2. EnteredBy(c)
    BY <1>1, Entered
  <1>3. /\ ~halted /\ Sound(K) /\ K.cur = curenv /\ K.status = env_status
        /\ fresh \subseteq User /\ curenv[c] \notin fresh
        /\ env_status[curenv[c]] # "FREE"
    BY <1>2 DEF EnteredBy
  <1>4. /\ Sound(k) /\ Executing(k, CPU \ {c})
        /\ \A d \in CPU \ {c} : k.cur[d] = curenv[d]
        /\ \A x \in fresh \ {curenv[c]} : k.status[x] = "NOT_RUNNABLE"
    <2> SUFFICES ASSUME NEW e \in User, e = curenv[c]
                 PROVE  /\ Sound(EnvDestroy(c, K, e))
                        /\ Executing(EnvDestroy(c, K, e), CPU \ {c})
                        /\ \A d \in CPU \ {c} : EnvDestroy(c, K, e).cur[d] = curenv[d]
                        /\ \A x \in fresh \ {e} :
                                EnvDestroy(c, K, e).status[x] = "NOT_RUNNABLE"
      BY <1>1
    <2>1. Sound(K)
      BY <1>3
    <2>2. K.cur = curenv /\ K.status = env_status
      BY <1>3
    <2>3. env_status[e] # "FREE"
      BY <1>3
    <2>4. env_status[e] = "DYING" => curenv[c] = e
      OBVIOUS
    <2> HIDE DEF k
    <2> QED
      BY ONLY <1>2, <2>1, <2>2, <2>3, <2>4, e \in User, c \in CPU, DestroyedBy, ZenonT(30)
  <1> HIDE DEF k
  <1> QED
    BY <1>1, <1>3, <1>4, SchedYieldInv

LEMMA SysEnvDestroyInv ==
    ASSUME EnvInv, AsLibrary, NEW c \in CPU, NEW g \in Gates, NEW e \in User,
           SysEnvDestroy(c, g, e)
    PROVE  EnvInv'
  <1> DEFINE k == EnvDestroy(c, K, e)
  <1>1. /\ InUser(c) /\ env_status[e] # "FREE"
        /\ e = curenv[c] \/ env_status[e] # "DYING"
        /\ IF e = curenv[c] THEN SchedYield(c, k) ELSE Return(c, g, k)
        /\ fresh' = fresh \ {e} /\ UNCHANGED up
    BY DEF SysEnvDestroy, Enter, MayManage, AsLibrary
  <1>2. EnteredBy(c)
    BY <1>1, Entered
  <1>3. /\ ~halted /\ c \in up /\ Sound(K)
        /\ K.cur = curenv /\ K.status = env_status /\ fresh \subseteq User
    BY <1>2 DEF EnteredBy
  <1>4. /\ Sound(k) /\ Executing(k, CPU \ {c})
        /\ \A d \in CPU \ {c} : k.cur[d] = curenv[d]
        /\ \A x \in fresh \ {e} : k.status[x] = "NOT_RUNNABLE"
        /\ curenv[c] # e => Executing(k, CPU) /\ k.cur = curenv
    <2>1. /\ Sound(K) /\ K.cur = curenv /\ K.status = env_status
          /\ env_status[e] # "FREE" /\ (env_status[e] = "DYING" => curenv[c] = e)
      BY <1>1, <1>3
    <2> QED
      BY <1>2, <2>1, DestroyedBy, ZenonT(30)
  <1> HIDE DEF k
  <1>5. fresh' \subseteq User
    BY <1>1, <1>3
  <1>6. CASE e = curenv[c]
    BY <1>1, <1>3, <1>4, <1>5, <1>6, SchedYieldInv
  <1>7. CASE e # curenv[c]
    BY <1>1, <1>3, <1>4, <1>5, <1>7, ReturnInv
  <1> QED
    BY <1>6, <1>7

LEMMA SysExecCommitInv ==
    ASSUME EnvInv, AsLibrary, NEW c \in CPU, NEW g \in Gates, NEW e \in User,
           SysExecCommit(c, g, e)
    PROVE  EnvInv'
  <1> DEFINE s == PgdirsSwapped(c, K, e)
             k == EnvDestroy(c, s, e)
  <1>1. /\ InUser(c) /\ e \in fresh
        /\ IF e = curenv[c] THEN SchedYield(c, k) ELSE Commit(k) /\ UNCHANGED halted
        /\ fresh' = fresh \ {e} /\ UNCHANGED up
    BY DEF SysExecCommit, Enter, AsLibrary
  <1>2. EnteredBy(c)
    BY <1>1, Entered
  <1>3. /\ ~halted /\ c \in up /\ Sound(K) /\ Executing(K, CPU)
        /\ K.cur = curenv /\ K.status = env_status /\ fresh \subseteq User
        /\ env_status[e] = "NOT_RUNNABLE" /\ curenv[c] # e /\ curenv[c] # None
    BY <1>1, <1>2, SlotFacts DEF EnteredBy
  <1>4. Sound(s) /\ s.cur = curenv /\ s.status = env_status
    BY <1>3, SwapSound
  <1> HIDE DEF s
  <1>5. /\ Sound(k) /\ Executing(k, CPU) /\ k.cur = curenv
        /\ \A x \in fresh \ {e} : k.status[x] = "NOT_RUNNABLE"
    BY <1>2, <1>3, <1>4, DestroyedBy
  <1> HIDE DEF k
  <1>6. fresh' \subseteq User
    BY <1>1, <1>3
  <1>7. Return(c, "sysenter", k)
    BY <1>1, <1>3 DEF Return
  <1> QED
    BY <1>1, <1>3, <1>5, <1>6, <1>7, ReturnInv

LEMMA EntryInv ==
    ASSUME EnvInv, AsLibrary, NEW c \in CPU, Entry(c)
    PROVE  EnvInv'
  <1>1. CASE BootCpu(c)
    BY <1>1, BootCpuInv
  <1>2. CASE TrapReap(c)
    BY <1>2, TrapReapInv
  <1>3. CASE TrapTimer(c)
    BY <1>3, YieldInv DEF TrapTimer
  <1>4. CASE TrapFault(c)
    BY <1>4, TrapFaultInv
  <1>5. ASSUME NEW g \in Gates, SysYield(c, g) PROVE EnvInv'
    BY <1>5, YieldInv DEF SysYield, Enter
  <1>6. ASSUME NEW g \in Gates, SysExofork(c, g) PROVE EnvInv'
    BY <1>6, SysExoforkInv
  <1>7. ASSUME NEW g \in Gates, NEW e \in User,
               \/ SysEnvDestroy(c, g, e) \/ SysExecCommit(c, g, e)
               \/ \E s \in {"RUNNABLE", "NOT_RUNNABLE"} :
                      SysEnvSetStatus(c, g, e, s)
        PROVE  EnvInv'
    BY <1>7, SysEnvDestroyInv, SysExecCommitInv, SysEnvSetStatusInv
  <1> QED
    BY <1>1, <1>2, <1>3, <1>4, <1>5, <1>6, <1>7 DEF Entry, Interrupts

(* Every execution satisfies the invariant.                                *)
THEOREM EnvInvariant ==
    ASSUME AsLibrary
    PROVE  Spec => []EnvInv
  <1>1. EnvInv /\ [Next]_envVars => EnvInv'
    <2> SUFFICES ASSUME EnvInv, [Next]_envVars PROVE EnvInv'
      OBVIOUS
    <2>1. CASE UNCHANGED envVars
      BY <2>1 DEF envVars, EnvInv, K
    <2>2. CASE Next
      BY <2>2, EntryInv DEF Next
    <2> QED
      BY <2>1, <2>2
  <1> QED
    BY EnvInvInit, <1>1, PTL DEF Spec

-----------------------------------------------------------------------------
(* What the invariant says in terms of the variables of Env.               *)

(* Every variable stays in its type: in particular env_alloc and env_free  *)
(* keep to the slots, and no id is 0 or larger than its field.             *)
THEOREM EnvTypes ==
    ASSUME AsLibrary
    PROVE  Spec => []TypeOK
  <1>1. EnvInv => TypeOK
    BY DEF EnvInv, Sound, K, KernelState, TypeOK
  <1> QED
    BY <1>1, EnvInvariant, PTL

(* Looking at env_status is enough: what a CPU runs no other CPU chooses.  *)
THEOREM EnvRunsOnOneCpu ==
    ASSUME AsLibrary
    PROVE  Spec => []OneCpuPerEnv
  <1>1. EnvInv => OneCpuPerEnv
    BY DEF EnvInv, Sound, K, RunsAlone, OneCpuPerEnv
  <1> QED
    BY <1>1, EnvInvariant, PTL

(* The statuses and the curenvs agree, outside the monitor.                *)
THEOREM EnvRunningIsCurrent ==
    ASSUME AsLibrary
    PROVE  Spec => []RunningIsCurrent
  <1>1. EnvInv => RunningIsCurrent
    BY DEF EnvInv, Sound, K, CurrentIsTaken, Executing, InUser, RunningIsCurrent
  <1> QED
    BY <1>1, EnvInvariant, PTL

(* No CPU is left with an address space that is not its environment's: not *)
(* by the switch, not by exec_commit's exchange, not when env_free gives   *)
(* the page directory back.                                                *)
THEOREM EnvAddressSpaces ==
    ASSUME AsLibrary
    PROVE  Spec => []AddressSpaceMatches /\ []PgdirsDistinct
  <1>1. EnvInv => AddressSpaceMatches /\ PgdirsDistinct
    BY DEF EnvInv, Sound, K, LoadsItsPgdir, OwnsPgdir,
           AddressSpaceMatches, PgdirsDistinct
  <1> QED
    BY <1>1, EnvInvariant, PTL

(* The free list is exact: no slot is lost and none is handed out twice.   *)
THEOREM EnvFreeList ==
    ASSUME AsLibrary
    PROVE  Spec => []FreeListExact
  <1>1. EnvInv => FreeListExact
    <2> SUFFICES ASSUME EnvInv PROVE FreeListExact
      OBVIOUS
    <2>1. free_list \in Seq(Slot) /\ DOMAIN free_list = 1..Len(free_list)
      BY DEF EnvInv, Sound, K, KernelState
    <2>2. \A i \in 1..Len(free_list) : free_list[i] \in Slot
      BY <2>1
    <2>3. ListsFree(K)
      BY DEF EnvInv, Sound
    <2> QED
      BY <2>1, <2>2, <2>3 DEF K, ListsFree, FreeListExact
  <1> QED
    BY <1>1, EnvInvariant, PTL

(* sched_yield never meets "No idle environment!".                         *)
THEOREM EnvIdleAtHome ==
    ASSUME AsLibrary
    PROVE  Spec => []IdleAtHome
  <1>1. EnvInv => IdleAtHome
    BY DEF EnvInv, Sound, K, KeepsIdle, IdleAtHome
  <1> QED
    BY <1>1, EnvInvariant, PTL

(* What kern/env.c:521 claims, for the library's calls: no CPU loses the   *)
(* environment it runs to an env_free on another CPU.                      *)
THEOREM EnvFreedOnItsCpu ==
    ASSUME AsLibrary
    PROVE  Spec => FreedOnItsCpu
  <1>1. EnvInv /\ EnvInv' /\ [Next]_envVars =>
          [\A c \in CPU : InUser(c) /\ env_status'[curenv[c]] = "FREE"
                             => curenv'[c] # curenv[c]]_envVars
    <2> SUFFICES ASSUME EnvInv, EnvInv', NEW c \in CPU, InUser(c),
                        curenv'[c] = curenv[c]
                 PROVE  env_status'[curenv[c]] # "FREE"
      OBVIOUS
    <2>1. curenv[c] # None
      BY DEF EnvInv, InUser
    <2> QED
      BY <2>1 DEF EnvInv, Sound, K, CurrentIsTaken
  <1> QED
    BY <1>1, EnvInvariant, PTL DEF Spec, FreedOnItsCpu

-----------------------------------------------------------------------------
(* What one kernel entry of CPU c does to lives, seen as the code is       *)
(* written: the entry turns K into k, and then it leaves the kernel.       *)

(* The call's own work: it wakes no zombie, makes one only of what another *)
(* CPU runs, takes nothing that is ready off the scheduler's list except   *)
(* to destroy it, and gives up its own environment only by freeing it.     *)
Works(c, k) ==
    /\ Sound(k) /\ Executing(k, CPU \ {c})
    /\ \A d \in CPU \ {c} : k.cur[d] = curenv[d]
    /\ \/ k.cur[c] = curenv[c]
       \/ k.cur[c] = None /\ curenv[c] # None /\ k.status[curenv[c]] = "FREE"
    /\ \A x \in Slot :
          /\ env_status[x] = "DYING" => k.status[x] \in {"DYING", "FREE"}
          /\ env_status[x] = "RUNNABLE" => k.status[x] \in {"RUNNABLE", "DYING", "FREE"}
          /\ k.status[x] = "DYING" => \/ env_status[x] = "DYING"
                                      \/ \E d \in CPU \ {c} : k.cur[d] = x

Leaves(c, k) ==
    \/ SchedYield(c, k)
    \/ Commit(k) /\ k.cur = curenv

(* trap() reaps; the sysenter gate does not.                               *)
Reaps(c, k) ==
    Gates = {"trap"} /\ c \in up /\ env_status[curenv[c]] = "DYING"
        => k.status[curenv[c]] = "FREE"

EntryOf(c) ==
    \E k : Works(c, k) /\ Leaves(c, k) /\ Reaps(c, k) /\ up' = up \cup {c}

LEMMA UnchangedWorks ==
    ASSUME EnvInv, NEW c \in CPU, ~halted
    PROVE  Works(c, K)
  <1>1. /\ Sound(K) /\ Executing(K, CPU \ {c})
        /\ K.cur = curenv /\ K.status = env_status
    BY DEF EnvInv, Executing, K
  <1> QED
    BY <1>1 DEF Works

(* A call that changes one status only: of what no CPU runs, or to free it,*)
(* or to make a zombie of what another CPU runs.                           *)
Harmless(c, e, s) ==
    \/ s # "DYING" /\ env_status[e] \in {"FREE", "NOT_RUNNABLE", "RUNNING"}
    \/ s = "FREE"
    \/ s = "DYING" /\ env_status[e] = "RUNNING" /\ curenv[c] # e

LEMMA OneStatusWorks ==
    ASSUME NEW c \in CPU, EnteredBy(c), NEW k, Sound(k), Executing(k, CPU \ {c}),
           k.cur = curenv, NEW e \in Slot, NEW s,
           k.status = [env_status EXCEPT ![e] = s], Harmless(c, e, s)
    PROVE  Works(c, k)
  <1>1. /\ curenv \in [CPU -> Slot \cup {None}]
        /\ env_status \in [Slot -> Status]
        /\ CurrentIsTaken(K) /\ K.cur = curenv /\ K.status = env_status
    BY DEF EnteredBy, Sound
  <1>2. \A x \in Slot : k.status[x] = IF x = e THEN s ELSE env_status[x]
    BY <1>1
  <1>3. s = "DYING" => env_status[e] = "DYING" \/ \E d \in CPU \ {c} : curenv[d] = e
    BY <1>1 DEF CurrentIsTaken, Harmless
  <1> QED
    BY <1>1, <1>2, <1>3 DEF Works, Harmless

(* env_destroy.                                                            *)
LEMMA DestroyWorks ==
    ASSUME NEW c \in CPU, EnteredBy(c), NEW k, Sound(k),
           k.cur = curenv, k.status = env_status, NEW e \in User,
           env_status[e] # "FREE", env_status[e] = "DYING" => curenv[c] = e
    PROVE  /\ Works(c, EnvDestroy(c, k, e))
           /\ curenv[c] = e => EnvDestroy(c, k, e).status[e] = "FREE"
  <1>0. /\ Sound(EnvDestroy(c, k, e))
        /\ Executing(EnvDestroy(c, k, e), CPU \ {c})
        /\ \A d \in CPU \ {c} : EnvDestroy(c, k, e).cur[d] = curenv[d]
        /\ curenv[c] # e => EnvDestroy(c, k, e).cur = curenv
    BY DestroyedBy, ZenonT(30)
  <1> USE SlotFacts
  <1> DEFINE z == EnvDestroy(c, k, e)
  <1>1. /\ Sound(z) /\ Executing(z, CPU \ {c})
        /\ \A d \in CPU \ {c} : z.cur[d] = curenv[d]
        /\ curenv[c] # e => z.cur = curenv
    BY <1>0
  <1>2. /\ k \in KernelState /\ e \in Slot
        /\ curenv \in [CPU -> Slot \cup {None}]
        /\ env_status \in [Slot -> Status]
        /\ CurrentIsTaken(k)
    BY DEF Sound, EnteredBy
  <1>3. CASE env_status[e] = "RUNNING" /\ curenv[c] # e
    <2>1. z.status = [env_status EXCEPT ![e] = "DYING"]
      BY <1>2, <1>3 DEF EnvDestroy, KernelState
    <2>2. z.cur = curenv
      BY <1>1, <1>3
    <2> HIDE DEF z
    <2>3. Works(c, z)
      <3>1. Harmless(c, e, "DYING") /\ e \in Slot /\ Sound(z) /\ Executing(z, CPU \ {c})
        BY <1>1, <1>3 DEF Harmless
      <3> QED
        BY ONLY c \in CPU, EnteredBy(c), e \in Slot, <2>1, <2>2, <3>1, OneStatusWorks
    <2> QED
      BY <1>3, <2>3 DEF z
  <1>4. CASE ~(env_status[e] = "RUNNING" /\ curenv[c] # e)
    <2>1. z = Freed(c, k, e)
      BY <1>4 DEF EnvDestroy, Freed
    <2>2. z.status = [env_status EXCEPT ![e] = "FREE"]
      BY <1>2, <2>1 DEF Freed, EnvFree, KernelState
    <2>3. z.cur[c] = IF curenv[c] = e THEN None ELSE curenv[c]
      BY <1>2, <2>1 DEF Freed, EnvFree, KernelState
    <2> HIDE DEF z
    <2>4. \A x \in Slot : z.status[x] = IF x = e THEN "FREE" ELSE env_status[x]
      BY <1>2, <2>2
    <2>5. Works(c, z)
      BY <1>1, <1>2, <2>3, <2>4 DEF Works
    <2> QED
      BY <1>2, <2>4, <2>5 DEF z
  <1> QED
    BY <1>3, <1>4

(* The exits.                                                              *)
LEMMA ReturnLeaves ==
    ASSUME NEW c \in CPU, NEW g, NEW k, k.cur = curenv, Return(c, g, k)
    PROVE  Leaves(c, k)
  BY DEF Return, Leaves

LEMMA NextIsEntry ==
    ASSUME AsLibrary, EnvInv, Next
    PROVE  \E c \in CPU : EntryOf(c)
  <1> USE SlotFacts
  <1>0. PICK c \in CPU : Entry(c)
    BY DEF Next
  <1>1. CASE BootCpu(c)
    <2>1. Works(c, K) /\ Leaves(c, K) /\ Reaps(c, K) /\ up' = up \cup {c}
      BY <1>1, UnchangedWorks DEF BootCpu, Leaves, Reaps
    <2> QED
      BY <2>1 DEF EntryOf
  <1>2. ASSUME EnteredBy(c), NEW k, Works(c, k), Leaves(c, k), Reaps(c, k), UNCHANGED up
        PROVE  EntryOf(c)
    <2>1. up' = up \cup {c}
      BY <1>2 DEF EnteredBy
    <2> QED
      BY <1>2, <2>1 DEF EntryOf
  <1>3. CASE TrapReap(c)
    <2> DEFINE e == curenv[c]
               k == Freed(c, K, e)
    <2>1. /\ InUser(c) /\ env_status[e] = "DYING"
          /\ SchedYield(c, [EnvFree(c, K, e) EXCEPT !.cur[c] = None])
          /\ UNCHANGED <<up, fresh>>
      BY <1>3 DEF TrapReap, Zombie
    <2>2. EnteredBy(c)
      BY <2>1, Entered
    <2>3. /\ e \in User /\ K.status[e] = "DYING" /\ Sound(K)
          /\ K.cur = curenv /\ K.status = env_status
      BY <2>1, <2>2 DEF EnteredBy, Sound, KeepsIdle
    <2>4. k = [EnvFree(c, K, e) EXCEPT !.cur[c] = None]
      BY DEF Freed, EnvFree, K
    <2>5. k = EnvDestroy(c, K, e)
      BY <2>3 DEF Freed, EnvDestroy
    <2>6. Works(c, EnvDestroy(c, K, e)) /\ EnvDestroy(c, K, e).status[e] = "FREE"
      <3> HIDE DEF k
      <3>0. \A y \in User : y = curenv[c] => /\ Works(c, EnvDestroy(c, K, y))
                                     /\ EnvDestroy(c, K, y).status[y] = "FREE"
        <4> SUFFICES ASSUME NEW y \in User, y = curenv[c]
                     PROVE /\ Works(c, EnvDestroy(c, K, y))
                           /\ EnvDestroy(c, K, y).status[y] = "FREE"
          OBVIOUS
        <4>1. env_status[y] # "FREE"
          BY <2>1
        <4> QED
          BY <2>2, <2>3, <4>1, DestroyWorks, ZenonT(30)
      <3> QED
        BY <3>0, <2>3
    <2>7. Leaves(c, k)
      BY <2>1, <2>4 DEF Leaves
    <2>8. Reaps(c, k)
      BY <2>5, <2>6 DEF Reaps
    <2> QED
      BY <1>2, <2>1, <2>2, <2>5, <2>6, <2>7, <2>8
  <1>4. CASE TrapTimer(c) \/ \E g \in Gates : SysYield(c, g)
    <2>1. /\ InUser(c) /\ SchedYield(c, K) /\ UNCHANGED up
          /\ Gates = {"trap"} => ~Zombie(c)
      BY <1>4 DEF TrapTimer, SysYield, Enter
    <2>2. EnteredBy(c) /\ ~halted
      BY <2>1, Entered DEF InUser
    <2>3. Works(c, K) /\ Leaves(c, K) /\ Reaps(c, K)
      BY <2>1, <2>2, UnchangedWorks DEF Leaves, Reaps, Zombie
    <2> QED
      BY <1>2, <2>1, <2>2, <2>3
  <1>5. CASE TrapFault(c)
    <2> DEFINE k == EnvDestroy(c, K, curenv[c])
    <2>1. /\ InUser(c) /\ curenv[c] \in User
          /\ SchedYield(c, k) /\ UNCHANGED <<up, fresh>>
      BY <1>5 DEF TrapFault
    <2>2. EnteredBy(c)
      BY <2>1, Entered
    <2>3. /\ Sound(K) /\ K.cur = curenv /\ K.status = env_status
          /\ env_status[curenv[c]] # "FREE"
      BY <2>2 DEF EnteredBy
    <2>4. Works(c, k) /\ k.status[curenv[c]] = "FREE"
      <3> SUFFICES ASSUME NEW y \in User, y = curenv[c]
                   PROVE  /\ Works(c, EnvDestroy(c, K, y))
                          /\ EnvDestroy(c, K, y).status[y] = "FREE"
        BY <2>1
      <3>1. env_status[y] # "FREE"
        BY <2>3
      <3> HIDE DEF k
      <3> QED
        BY <2>2, <2>3, <3>1, DestroyWorks, ZenonT(30)
    <2> HIDE DEF k
    <2>5. Leaves(c, k) /\ Reaps(c, k)
      BY <2>1, <2>4 DEF Leaves, Reaps
    <2> QED
      BY <1>2, <2>1, <2>2, <2>4, <2>5
  <1>6. ASSUME NEW g \in Gates, SysExofork(c, g)
        PROVE  EntryOf(c)
    <2> DEFINE e == Head(free_list)
               parent == EnvIdOf(K, curenv[c])
    <2>1. /\ InUser(c) /\ free_list # <<>> /\ UNCHANGED up
          /\ g = "trap" => ~Zombie(c)
      BY <1>6 DEF SysExofork, Enter
    <2>2. EnteredBy(c)
      BY <2>1, Entered
    <2>3. /\ Sound(K) /\ Executing(K, CPU) /\ K.free = free_list
          /\ K.cur = curenv /\ K.status = env_status
          /\ curenv[c] \in Slot /\ env_status \in [Slot -> Status]
      BY <2>2 DEF EnteredBy
    <2>4. PICK p \in FreePgdirs(K) : Return(c, g, Forked(K, p, parent))
      <3>1. NextPgdir(FreePgdirs(K)) \subseteq FreePgdirs(K)
        BY PgdirAssumption DEF FreePgdirs
      <3> QED
        BY <2>3, <3>1, <1>6 DEF SysExofork, Forked
    <2>5. parent \in EnvId
      <3>1. K.gen[curenv[c]] \in 0..MaxGen /\ K.gen[curenv[c]] # 0
        BY <2>2, <2>3 DEF EnteredBy, Sound, HasId, KernelState
      <3> QED
        BY <2>3, <3>1, EnvAssumption DEF EnvIdOf, EnvId
    <2> DEFINE k == Forked(K, p, parent)
    <2> HIDE DEF parent
    <2>6. /\ e \in User /\ env_status[e] = "FREE"
          /\ Sound(k) /\ Executing(k, CPU) /\ k.cur = curenv
          /\ k.status = [env_status EXCEPT ![e] = "NOT_RUNNABLE"]
      <3>1. K.free # <<>>
        BY <2>1, <2>3
      <3> QED
        BY <2>3, <2>5, <3>1, ForkedSound, ZenonT(30)
    <2>7. Return(c, g, k)
      BY <2>4
    <2> HIDE DEF k, e
    <2>8. Works(c, k)
      <3>1. Executing(k, CPU \ {c}) /\ e \in Slot /\ Harmless(c, e, "NOT_RUNNABLE")
        BY <2>6 DEF Executing, Harmless
      <3> QED
        BY <2>2, <2>6, <3>1, OneStatusWorks, ZenonT(30)
    <2>9. Leaves(c, k)
      BY <2>6, <2>7, ReturnLeaves
    <2>10. Reaps(c, k)
      BY <2>1 DEF Reaps, Zombie
    <2> QED
      BY <1>2, <2>1, <2>2, <2>8, <2>9, <2>10
  <1>7. ASSUME NEW g \in Gates, NEW e \in User, NEW s, SysEnvSetStatus(c, g, e, s)
        PROVE  EntryOf(c)
    <2> DEFINE k == [K EXCEPT !.status[e] = "RUNNABLE"]
    <2>1. /\ InUser(c) /\ e \in fresh /\ Return(c, g, k) /\ UNCHANGED up
          /\ g = "trap" => ~Zombie(c)
      BY <1>7 DEF SysEnvSetStatus, Enter, AsLibrary
    <2>2. EnteredBy(c)
      BY <2>1, Entered
    <2>3. /\ Sound(K) /\ Executing(K, CPU) /\ K.status[e] = "NOT_RUNNABLE"
          /\ K.status = env_status /\ K.cur = curenv /\ e \in Slot
      BY <2>1, <2>2, SlotFacts DEF EnteredBy
    <2>4. /\ Sound(k) /\ Executing(k, CPU)
          /\ k.cur = K.cur /\ k.status = [K.status EXCEPT ![e] = "RUNNABLE"]
      BY <2>3, WokenSound
    <2> HIDE DEF k
    <2>5. k.cur = curenv
      BY <2>3, <2>4
    <2>6. Works(c, k)
      <3>1. Executing(k, CPU \ {c}) /\ Harmless(c, e, "RUNNABLE")
        BY <2>3, <2>4 DEF Executing, Harmless
      <3>2. k.status = [env_status EXCEPT ![e] = "RUNNABLE"]
        BY <2>3, <2>4
      <3> QED
        BY <2>2, <2>3, <2>4, <2>5, <3>1, <3>2, OneStatusWorks
    <2>7. Leaves(c, k)
      BY <2>1, <2>5, ReturnLeaves
    <2>8. Reaps(c, k)
      BY <2>1 DEF Reaps, Zombie
    <2> QED
      BY <1>2, <2>1, <2>2, <2>6, <2>7, <2>8
  <1>8. ASSUME NEW g \in Gates, NEW e \in User, SysEnvDestroy(c, g, e)
        PROVE  EntryOf(c)
    <2> DEFINE k == EnvDestroy(c, K, e)
    <2>1. /\ InUser(c) /\ env_status[e] # "FREE" /\ UNCHANGED up
          /\ e = curenv[c] \/ env_status[e] # "DYING"
          /\ IF e = curenv[c] THEN SchedYield(c, k) ELSE Return(c, g, k)
          /\ g = "trap" => ~Zombie(c)
      BY <1>8 DEF SysEnvDestroy, Enter, MayManage, AsLibrary
    <2>2. EnteredBy(c)
      BY <2>1, Entered
    <2>3. Sound(K) /\ K.cur = curenv /\ K.status = env_status
      BY <2>2 DEF EnteredBy
    <2>4. Works(c, k)
      BY <2>1, <2>2, <2>3, DestroyWorks, ZenonT(30)
    <2>5. curenv[c] # e => k.cur = curenv
      BY <2>1, <2>2, <2>3, DestroyedBy, ZenonT(30)
    <2> HIDE DEF k
    <2>6. Leaves(c, k)
      BY <2>1, <2>5, ReturnLeaves DEF Leaves
    <2>7. Reaps(c, k)
      BY <2>1 DEF Reaps, Zombie
    <2> QED
      BY <1>2, <2>1, <2>2, <2>4, <2>6, <2>7
  <1>9. ASSUME NEW g \in Gates, NEW e \in User, SysExecCommit(c, g, e)
        PROVE  EntryOf(c)
    <2> DEFINE s == PgdirsSwapped(c, K, e)
               k == EnvDestroy(c, s, e)
    <2>1. /\ InUser(c) /\ e \in fresh /\ UNCHANGED up
          /\ IF e = curenv[c] THEN SchedYield(c, k) ELSE Commit(k) /\ UNCHANGED halted
          /\ g = "trap" => ~Zombie(c)
      BY <1>9 DEF SysExecCommit, Enter, AsLibrary
    <2>2. EnteredBy(c)
      BY <2>1, Entered
    <2>3. /\ Sound(K) /\ Executing(K, CPU)
          /\ K.cur = curenv /\ K.status = env_status
          /\ env_status[e] = "NOT_RUNNABLE" /\ curenv[c] # e /\ curenv[c] # None
      BY <2>1, <2>2 DEF EnteredBy
    <2>4. Sound(s) /\ s.cur = curenv /\ s.status = env_status
      BY <2>3, SwapSound
    <2> HIDE DEF s
    <2>5. Works(c, k) /\ k.cur = curenv
      <3>1. env_status[e] # "FREE" /\ env_status[e] # "DYING"
        BY <2>3
      <3>2. Works(c, k)
        BY <2>2, <2>4, <3>1, DestroyWorks
      <3>3. k.cur = curenv
        BY <2>2, <2>3, <2>4, <3>1, DestroyedBy
      <3> QED
        BY <3>2, <3>3
    <2> HIDE DEF k
    <2>6. Leaves(c, k)
      BY <2>1, <2>3, <2>5 DEF Leaves
    <2>7. Reaps(c, k)
      BY <2>1 DEF Reaps, Zombie
    <2> QED
      BY <1>2, <2>1, <2>2, <2>5, <2>6, <2>7
  <1> QED
    BY <1>0, <1>1, <1>3, <1>4, <1>5, <1>6, <1>7, <1>8, <1>9 DEF Entry, Interrupts

-----------------------------------------------------------------------------
(* sched_yield makes no zombie, and what it does to the other CPUs' curenv *)
(* and to its own.                                                         *)
LEMMA SchedYieldLives ==
    ASSUME NEW k, Sound(k), NEW c \in CPU, SchedYield(c, k)
    PROVE  /\ \A x \in Slot : env_status'[x] = "DYING" => k.status[x] = "DYING"
           /\ \/ curenv' = k.cur
              \/ \E e \in Slot : Chosen(c, k, e) /\ curenv'[c] = e
  <1>1. CASE NothingLeft(k) /\ Commit(k) /\ halted' = TRUE
    BY <1>1 DEF Commit
  <1>2. ASSUME NEW e \in Slot, Chosen(c, k, e), Commit(EnvRun(c, k, e))
        PROVE  /\ \A x \in Slot : env_status'[x] = "DYING" => k.status[x] = "DYING"
               /\ curenv' = k.cur \/ (Chosen(c, k, e) /\ curenv'[c] = e)
    <2>1. CASE k.cur[c] = e
      BY <1>2, <2>1 DEF EnvRun, Commit
    <2>2. CASE k.cur[c] # e
      <3> DEFINE r == EnvRun(c, k, e)
      <3>1. r.status = Switched(k.status, k.cur[c], e) /\ r.cur = [k.cur EXCEPT ![c] = e]
        BY <2>2 DEF EnvRun, Sound, KernelState
      <3>2. k.cur \in [CPU -> Slot \cup {None}]
        BY DEF Sound, KernelState
      <3> QED
        BY <1>2, <3>1, <3>2 DEF Commit, Switched
    <2> QED
      BY <2>1, <2>2
  <1> QED
    BY <1>1, <1>2 DEF SchedYield

(* How the lives of environments go on after an entry.                     *)
LEMMA LeavesLives ==
    ASSUME NEW c \in CPU, NEW k, Works(c, k), Leaves(c, k)
    PROVE  /\ \A x \in Slot : k.status[x] = "DYING" <=> env_status'[x] = "DYING"
           /\ \A x \in Slot : k.status[x] = "FREE" => env_status'[x] = "FREE"
           /\ \A d \in CPU \ {c} : curenv'[d] = curenv[d]
  <1>1. Sound(k) /\ Executing(k, CPU \ {c}) /\ \A d \in CPU \ {c} : k.cur[d] = curenv[d]
    BY DEF Works
  <1>2. CASE SchedYield(c, k)
    <2>1. \A d \in CPU \ {c} : curenv'[d] = k.cur[d]
      BY <1>1, <1>2, SchedYieldSound
    <2>2. \A x \in Slot : k.status[x] \notin {"RUNNABLE", "RUNNING"}
                              => env_status'[x] = k.status[x]
      BY <1>1, <1>2, SchedYieldSound
    <2>3. \A x \in Slot : env_status'[x] = "DYING" => k.status[x] = "DYING"
      BY <1>1, <1>2, SchedYieldLives
    <2> QED
      BY <1>1, <2>1, <2>2, <2>3
  <1>3. CASE Commit(k) /\ k.cur = curenv
    BY <1>3 DEF Commit
  <1> QED
    BY <1>2, <1>3 DEF Leaves

(* The strengthening that ZombieOnCpu needs: a CPU that has not scheduled  *)
(* yet has nothing to lose.                                                *)
ZombieInv ==
    /\ EnvInv
    /\ ZombieOnCpu
    /\ \A c \in CPU \ up : curenv[c] = None

(* A zombie is on the CPU that will free it, provided that system calls    *)
(* come in through trap(): it reaps before it does anything else.  (The run*)
(* EnvSysenterZombie shows how the sysenter gate loses one.)               *)
THEOREM EnvZombieOnCpu ==
    ASSUME AsLibrary, Gates = {"trap"}
    PROVE  Spec => []ZombieOnCpu
  <1>1. Init => ZombieInv
    <2> SUFFICES ASSUME Init PROVE ZombieInv
      OBVIOUS
    <2>1. EnvInv
      BY EnvInvInit
    <2> QED
      BY <2>1 DEF Init, ZombieInv, ZombieOnCpu
  <1>2. ZombieInv /\ EnvInv' /\ [Next]_envVars => ZombieInv'
    <2> SUFFICES ASSUME ZombieInv, EnvInv', [Next]_envVars PROVE ZombieInv'
      OBVIOUS
    <2>1. CASE UNCHANGED envVars
      BY <2>1 DEF envVars, ZombieInv, ZombieOnCpu
    <2>2. CASE Next
      <3>1. PICK c \in CPU : EntryOf(c)
        BY <2>2, NextIsEntry DEF ZombieInv
      <3>2. PICK k : Works(c, k) /\ Leaves(c, k) /\ Reaps(c, k) /\ up' = up \cup {c}
        BY <3>1 DEF EntryOf
      <3>3. /\ \A x \in Slot : k.status[x] = "DYING" <=> env_status'[x] = "DYING"
            /\ \A d \in CPU \ {c} : curenv'[d] = curenv[d] /\ k.cur[d] = curenv[d]
        BY <3>2, LeavesLives DEF Works
      <3>4. ASSUME NEW e \in Slot, env_status'[e] = "DYING"
            PROVE  \E d \in CPU : curenv'[d] = e
        <4>1. k.status[e] = "DYING"
          BY <3>3, <3>4
        <4>2. CASE \E d \in CPU \ {c} : k.cur[d] = e
          BY <3>3, <4>2
        <4>3. CASE env_status[e] = "DYING"
          <5>1. PICK d \in CPU : curenv[d] = e
            BY <4>3 DEF ZombieInv, ZombieOnCpu
          <5>2. d # c
            <6> SUFFICES ASSUME d = c PROVE FALSE
              OBVIOUS
            <6>1. c \in up
              BY <5>1, SlotFacts DEF ZombieInv
            <6> QED
              BY <3>2, <4>1, <4>3, <5>1, <6>1 DEF Reaps
          <5> QED
            BY <3>3, <5>1, <5>2
        <4> QED
          BY <3>2, <4>1, <4>2, <4>3 DEF Works
      <3>5. \A d \in CPU \ up' : curenv'[d] = None
        BY <3>2, <3>3 DEF ZombieInv
      <3> QED
        BY <3>4, <3>5 DEF ZombieInv, ZombieOnCpu
    <2> QED
      BY <2>1, <2>2
  <1>3. ZombieInv => ZombieOnCpu
    BY DEF ZombieInv
  <1> QED
    BY <1>1, <1>2, <1>3, EnvInvariant, PTL DEF Spec

-----------------------------------------------------------------------------
(* Messages.                                                               *)

Asleep(e) == env_status[e] = "NOT_RUNNABLE"

Awake(e) == env_status[e] \notin {"FREE", "NOT_RUNNABLE"}

IpcTypes ==
    /\ recving \in [Slot -> BOOLEAN]
    /\ from \in [Slot -> EnvId \cup {None}]
    /\ value \in [Slot -> Value \cup {None}]
    /\ pendTo \in [Slot -> EnvId \cup {None}]
    /\ pendValue \in [Slot -> Value \cup {None}]
    /\ unheard \subseteq User

(* The value of a message was stored with its address.                     *)
PendingWhole ==
    \A e \in Slot : Alive(e) /\ (pendTo[e] # None \/ e \in unheard) => pendValue[e] \in Value

(* A child that was not started neither sends nor receives.                *)
FreshSilent == \A e \in fresh : ~recving[e] /\ pendTo[e] = None /\ e \notin unheard

IpcInv ==
    /\ EnvInv
    /\ IpcTypes
    /\ PendingWhole
    /\ FreshSilent
    /\ NoMissedRendezvous
    /\ SleepersWait

-----------------------------------------------------------------------------
(* What a kernel entry does to sleep and life.                             *)

(* The scheduler wakes nobody, puts nobody to sleep and frees nobody.      *)
LEMMA LeavingKeeps ==
    ASSUME NEW k, Sound(k), NEW c \in CPU, SchedYield(c, k) \/ Commit(k)
    PROVE  /\ env_gen' = k.gen
           /\ \A x \in Slot :
                 /\ env_status'[x] = "FREE" <=> k.status[x] = "FREE"
                 /\ env_status'[x] = "NOT_RUNNABLE" <=> k.status[x] = "NOT_RUNNABLE"
  <1>1. CASE Commit(k)
    BY <1>1 DEF Commit
  <1>2. ASSUME NEW e \in Slot, Chosen(c, k, e), Commit(EnvRun(c, k, e))
        PROVE  /\ env_gen' = k.gen
               /\ \A x \in Slot :
                     /\ env_status'[x] = "FREE" <=> k.status[x] = "FREE"
                     /\ env_status'[x] = "NOT_RUNNABLE" <=> k.status[x] = "NOT_RUNNABLE"
    <2>1. CASE k.cur[c] = e
      BY <1>2, <2>1 DEF EnvRun, Commit
    <2>2. CASE k.cur[c] # e
      <3> DEFINE r == EnvRun(c, k, e)
      <3>1. r.status = Switched(k.status, k.cur[c], e) /\ r.gen = k.gen
        BY <2>2 DEF EnvRun, Sound, KernelState
      <3>2. k.status[e] \in {"RUNNABLE", "RUNNING"}
        BY <1>2, SlotFacts DEF Chosen, FirstReady, Ready, StillRunning, Sound, KeepsIdle
      <3>3. env_status' = r.status /\ env_gen' = r.gen
        BY <1>2 DEF Commit
      <3> HIDE DEF r
      <3>4. \A x \in Slot :
               env_status'[x] = IF x = e THEN "RUNNING"
                                ELSE IF x = k.cur[c] /\ k.status[x] = "RUNNING" THEN "RUNNABLE"
                                ELSE k.status[x]
        BY <3>1, <3>3 DEF Switched
      <3> QED
        BY <3>1, <3>2, <3>3, <3>4
    <2> QED
      BY <2>1, <2>2
  <1> QED
    BY <1>1, <1>2 DEF SchedYield

Same(x) ==
    /\ env_status'[x] = "FREE" <=> env_status[x] = "FREE"
    /\ env_status'[x] = "NOT_RUNNABLE" <=> env_status[x] = "NOT_RUNNABLE"

(* Nothing happens to anybody but e.                                       *)
OnlyTo(e) == env_gen' = env_gen /\ \A x \in Slot \ {e} : Same(x)

Wakes(e) ==
    OnlyTo(e) /\ fresh' = fresh /\ env_status'[e] \notin {"FREE", "NOT_RUNNABLE"}

Sleeps(e) ==
    OnlyTo(e) /\ fresh' = fresh /\ env_status'[e] = "NOT_RUNNABLE"

Nothing(e) == OnlyTo(e) /\ fresh' = fresh /\ Same(e)

Dies(e) == OnlyTo(e) /\ fresh' = fresh \ {e} /\ env_status'[e] = "FREE"

(* The destroyed environment runs elsewhere, or the child is started.      *)
GoesOn(e) ==
    /\ OnlyTo(e) /\ fresh' = fresh \ {e}
    /\ \/ Same(e) /\ ~Asleep(e)
       \/ e \in fresh /\ env_status'[e] \notin {"FREE", "NOT_RUNNABLE"}

IsBorn(e) ==
    /\ \A x \in Slot \ {e} : Same(x) /\ env_gen'[x] = env_gen[x]
    /\ env_status[e] = "FREE" /\ env_status'[e] = "NOT_RUNNABLE"
    /\ fresh' = fresh \cup {e}

(* An entry that changes one status.                                       *)
LEMMA OneStatus ==
    ASSUME EnvInv, NEW k, Sound(k), NEW c \in CPU, SchedYield(c, k) \/ Commit(k),
           NEW e \in Slot, NEW s, k.status = [env_status EXCEPT ![e] = s],
           k.gen = env_gen
    PROVE  /\ OnlyTo(e)
           /\ env_status'[e] = "FREE" <=> s = "FREE"
           /\ env_status'[e] = "NOT_RUNNABLE" <=> s = "NOT_RUNNABLE"
  <1>1. env_status \in [Slot -> Status]
    BY DEF EnvInv, Sound, KernelState, K
  <1>2. \A x \in Slot : k.status[x] = IF x = e THEN s ELSE env_status[x]
    BY <1>1
  <1>3. /\ env_gen' = k.gen
        /\ \A x \in Slot :
              /\ env_status'[x] = "FREE" <=> k.status[x] = "FREE"
              /\ env_status'[x] = "NOT_RUNNABLE" <=> k.status[x] = "NOT_RUNNABLE"
    BY LeavingKeeps
  <1> QED
    BY <1>2, <1>3 DEF OnlyTo, Same

LEMMA NoStatus ==
    ASSUME EnvInv, NEW c \in CPU, SchedYield(c, K) \/ Commit(K), UNCHANGED fresh
    PROVE  \A e \in Slot : Nothing(e)
  <1>1. K.status = env_status /\ K.gen = env_gen /\ Sound(K)
    BY DEF EnvInv, K
  <1> QED
    BY <1>1, LeavingKeeps DEF Nothing, OnlyTo, Same

LEMMA ReturnExits ==
    ASSUME NEW c, NEW g, NEW k, Return(c, g, k)
    PROVE  SchedYield(c, k) \/ Commit(k)
  BY DEF Return

(* env_destroy.                                                            *)
LEMMA DestroyStatus ==
    ASSUME NEW k \in KernelState, k.status = env_status, k.gen = env_gen,
           NEW c \in CPU, NEW e \in Slot
    PROVE  LET z == EnvDestroy(c, k, e)
               s == IF env_status[e] = "RUNNING" /\ k.cur[c] # e THEN "DYING" ELSE "FREE"
           IN z.gen = env_gen /\ z.status = [env_status EXCEPT ![e] = s]
  BY DEF EnvDestroy, EnvFree, KernelState

LEMMA DestroyEffect ==
    ASSUME EnvInv, NEW c \in CPU, EnteredBy(c), NEW k, Sound(k), k.gen = env_gen,
           k.cur = curenv, k.status = env_status, NEW e \in User,
           env_status[e] # "FREE", env_status[e] = "DYING" => curenv[c] = e,
           SchedYield(c, EnvDestroy(c, k, e)) \/ Commit(EnvDestroy(c, k, e)),
           fresh' = fresh \ {e}
    PROVE  Dies(e) \/ GoesOn(e)
  <1> DEFINE z == EnvDestroy(c, k, e)
             s == IF env_status[e] = "RUNNING" /\ k.cur[c] # e THEN "DYING" ELSE "FREE"
  <1>1. e \in Slot /\ k \in KernelState
    BY SlotFacts DEF Sound
  <1>2. Sound(z)
    BY DestroyedBy, ZenonT(30)
  <1>3. z.gen = env_gen /\ z.status = [env_status EXCEPT ![e] = s]
    BY <1>1, DestroyStatus
  <1>4. SchedYield(c, z) \/ Commit(z)
    OBVIOUS
  <1> HIDE DEF z, s
  <1>5. /\ OnlyTo(e)
        /\ env_status'[e] = "FREE" <=> s = "FREE"
        /\ env_status'[e] = "NOT_RUNNABLE" <=> s = "NOT_RUNNABLE"
    BY <1>1, <1>2, <1>3, <1>4, OneStatus
  <1> QED
    BY <1>5 DEF s, Dies, GoesOn, Same, Asleep

(* What the entries of Env other than sys_exofork do.                      *)
LEMMA OtherEffect ==
    ASSUME EnvInv, AsLibrary, NEW c \in CPU, OtherEntry(c)
    PROVE  \E e \in User : Nothing(e) \/ Dies(e) \/ GoesOn(e)
  <1> USE SlotFacts
  <1>1. \E e \in User : e \in Slot
    BY EnvAssumption DEF User, Slot, Idle, CPU
  <1>2. ASSUME InUser(c)
        PROVE  /\ EnteredBy(c) /\ Sound(K) /\ K.cur = curenv /\ K.status = env_status
               /\ K.gen = env_gen /\ curenv[c] \notin fresh
               /\ env_status[curenv[c]] # "FREE"
    BY <1>2, Entered DEF EnteredBy, K
  <1>3. CASE \/ BootCpu(c) \/ TrapTimer(c) \/ \E g \in Gates : SysYield(c, g)
    BY <1>1, <1>3, NoStatus DEF BootCpu, TrapTimer, SysYield
  <1>4. CASE TrapReap(c) \/ TrapFault(c)
    <2>1. InUser(c) /\ fresh' = fresh
      BY <1>4 DEF TrapReap, TrapFault
    <2>2. PICK e \in User : e = curenv[c]
      BY <1>2, <1>4, <2>1 DEF TrapReap, TrapFault, Zombie, EnteredBy, Sound, KeepsIdle
    <2>3. fresh' = fresh \ {e}
      BY <1>2, <2>1, <2>2
    <2>4. SchedYield(c, EnvDestroy(c, K, e))
      <3>1. CASE TrapFault(c)
        BY <2>2, <3>1 DEF TrapFault
      <3>2. CASE TrapReap(c)
        <4>1. SchedYield(c, [EnvFree(c, K, e) EXCEPT !.cur[c] = None])
          BY <2>2, <3>2 DEF TrapReap
        <4>2. [EnvFree(c, K, e) EXCEPT !.cur[c] = None]
                 = [EnvFree(c, K, e) EXCEPT !.cur[c] = IF @ = e THEN None ELSE @]
          BY <2>2 DEF EnvFree, K
        <4>3. EnvDestroy(c, K, e)
                 = [EnvFree(c, K, e) EXCEPT !.cur[c] = IF @ = e THEN None ELSE @]
          <5>1. K.cur[c] = e
            BY <1>2, <2>1, <2>2
          <5> QED
            BY <5>1 DEF EnvDestroy
        <4> QED
          BY <4>1, <4>2, <4>3
      <3> QED
        BY <1>4, <3>1, <3>2
    <2>5. env_status[e] # "FREE" /\ EnteredBy(c) /\ Sound(K) /\ K.cur = curenv
          /\ K.status = env_status /\ K.gen = env_gen
      BY <1>2, <2>1, <2>2
    <2>6. Dies(e) \/ GoesOn(e)
      BY <2>2, <2>3, <2>4, <2>5, DestroyEffect, ZenonT(30)
    <2> QED
      BY <2>6
  <1>5. ASSUME NEW g \in Gates, NEW e \in User, SysEnvDestroy(c, g, e)
        PROVE  Dies(e) \/ GoesOn(e)
    <2>1. /\ InUser(c) /\ env_status[e] # "FREE"
          /\ env_status[e] = "DYING" => curenv[c] = e
          /\ fresh' = fresh \ {e}
      BY <1>5 DEF SysEnvDestroy, Enter, MayManage, AsLibrary
    <2>2. SchedYield(c, EnvDestroy(c, K, e)) \/ Commit(EnvDestroy(c, K, e))
      BY <1>5 DEF SysEnvDestroy, Return
    <2>3. EnteredBy(c) /\ Sound(K) /\ K.cur = curenv /\ K.status = env_status
          /\ K.gen = env_gen
      BY <1>2, <2>1
    <2> QED
      BY <2>1, <2>2, <2>3, DestroyEffect, ZenonT(30)
  <1>6. ASSUME NEW g \in Gates, NEW e \in User, SysExecCommit(c, g, e)
        PROVE  Dies(e) \/ GoesOn(e)
    <2> DEFINE s == PgdirsSwapped(c, K, e)
    <2>1. /\ InUser(c) /\ e \in fresh /\ fresh' = fresh \ {e}
          /\ SchedYield(c, EnvDestroy(c, s, e)) \/ Commit(EnvDestroy(c, s, e))
      BY <1>6 DEF SysExecCommit, Enter, AsLibrary
    <2>2. /\ EnteredBy(c) /\ Sound(K) /\ K.cur = curenv /\ K.status = env_status
          /\ K.gen = env_gen /\ Executing(K, CPU) /\ curenv[c] # None
          /\ env_status[e] = "NOT_RUNNABLE"
      BY <1>2, <2>1 DEF EnteredBy
    <2>3. Sound(s) /\ s.cur = curenv /\ s.status = env_status
      BY <2>2, SwapSound
    <2>4. s.gen = env_gen
      BY <2>2 DEF PgdirsSwapped, K
    <2> HIDE DEF s
    <2>5. env_status[e] # "FREE" /\ env_status[e] # "DYING"
      BY <2>2
    <2> QED
      BY <2>1, <2>2, <2>3, <2>4, <2>5, DestroyEffect
  <1>7. ASSUME NEW g \in Gates, NEW e \in User, NEW st, SysEnvSetStatus(c, g, e, st)
        PROVE  GoesOn(e)
    <2> DEFINE k == [K EXCEPT !.status[e] = "RUNNABLE"]
    <2>1. /\ InUser(c) /\ e \in fresh /\ fresh' = fresh \ {e} /\ Return(c, g, k)
      BY <1>7 DEF SysEnvSetStatus, Enter, AsLibrary
    <2>2. /\ Sound(K) /\ Executing(K, CPU) /\ K.status[e] = "NOT_RUNNABLE"
          /\ K.status = env_status /\ K.gen = env_gen /\ e \in Slot
      BY <1>2, <2>1 DEF EnteredBy
    <2>3. /\ Sound(k) /\ k.gen = K.gen
          /\ k.status = [K.status EXCEPT ![e] = "RUNNABLE"]
      BY <2>2, WokenSound
    <2>4. SchedYield(c, k) \/ Commit(k)
      BY <2>1, ReturnExits
    <2> HIDE DEF k
    <2>5. /\ OnlyTo(e)
          /\ env_status'[e] = "FREE" <=> "RUNNABLE" = "FREE"
          /\ env_status'[e] = "NOT_RUNNABLE" <=> "RUNNABLE" = "NOT_RUNNABLE"
      BY <2>2, <2>3, <2>4, OneStatus
    <2> QED
      BY <2>1, <2>5 DEF GoesOn
  <1> QED
    BY <1>3, <1>4, <1>5, <1>6, <1>7 DEF OtherEntry, Interrupts

LEMMA ExoforkEffect ==
    ASSUME EnvInv, NEW c \in CPU, NEW g \in Gates, SysExofork(c, g)
    PROVE  Head(free_list) \in User /\ IsBorn(Head(free_list))
  <1> DEFINE e == Head(free_list)
             parent == EnvIdOf(K, curenv[c])
  <1>1. InUser(c) /\ free_list # <<>> /\ fresh' = fresh \cup {e}
    BY DEF SysExofork, Enter
  <1>2. EnteredBy(c)
    BY <1>1, Entered
  <1>3. /\ Sound(K) /\ Executing(K, CPU) /\ K.free = free_list
        /\ K.status = env_status /\ K.gen = env_gen
        /\ curenv[c] \in Slot /\ env_status \in [Slot -> Status]
    BY <1>2 DEF EnteredBy, K
  <1>4. PICK p \in FreePgdirs(K) : Return(c, g, Forked(K, p, parent))
    <2>1. NextPgdir(FreePgdirs(K)) \subseteq FreePgdirs(K)
      BY PgdirAssumption DEF FreePgdirs
    <2> QED
      BY <1>3, <2>1 DEF SysExofork, Forked
  <1>5. parent \in EnvId
    <2>1. K.gen[curenv[c]] \in 0..MaxGen /\ K.gen[curenv[c]] # 0
      BY <1>2, <1>3 DEF EnteredBy, Sound, HasId, KernelState
    <2> QED
      BY <1>3, <2>1, EnvAssumption DEF EnvIdOf, EnvId
  <1> DEFINE k == Forked(K, p, parent)
  <1> HIDE DEF parent
  <1>6. /\ e \in User /\ env_status[e] = "FREE" /\ Sound(k)
        /\ k.status = [env_status EXCEPT ![e] = "NOT_RUNNABLE"]
    <2>1. K.free # <<>>
      BY <1>1, <1>3
    <2> QED
      BY <1>3, <1>5, <2>1, ForkedSound, ZenonT(60)
  <1>7. k.gen = [env_gen EXCEPT ![e] = NextGen(@)]
    BY <1>3 DEF Forked, EnvAlloc, K
  <1>8. SchedYield(c, k) \/ Commit(k)
    BY <1>4, ReturnExits
  <1> HIDE DEF k, e
  <1>9. /\ env_gen' = k.gen
        /\ \A x \in Slot :
              /\ env_status'[x] = "FREE" <=> k.status[x] = "FREE"
              /\ env_status'[x] = "NOT_RUNNABLE" <=> k.status[x] = "NOT_RUNNABLE"
    BY <1>6, <1>8, LeavingKeeps
  <1>10. env_gen \in [Slot -> 0..MaxGen]
    BY <1>3 DEF Sound, KernelState
  <1> QED
    BY <1>1, <1>3, <1>6, <1>7, <1>9, <1>10, SlotFacts DEF IsBorn, Same, e

(* The environment a CPU executes goes to sleep.                           *)
Slept(k, e) == [k EXCEPT !.status[e] = "NOT_RUNNABLE"]

LEMMA SleptSound ==
    ASSUME NEW k, Sound(k), NEW c \in CPU, Executing(k, CPU), NEW e \in User, k.cur[c] = e
    PROVE  /\ Sound(Slept(k, e)) /\ Executing(Slept(k, e), CPU \ {c})
           /\ Slept(k, e).cur = k.cur /\ Slept(k, e).gen = k.gen
           /\ Slept(k, e).status = [k.status EXCEPT ![e] = "NOT_RUNNABLE"]
  <1> DEFINE s == Slept(k, e)
  <1>1. k \in KernelState /\ e \in Slot
    BY SlotFacts DEF Sound
  <1>2. /\ s \in KernelState
        /\ s.status = [k.status EXCEPT ![e] = "NOT_RUNNABLE"]
        /\ s.cur = k.cur /\ s.free = k.free /\ s.gen = k.gen
        /\ s.pgdir = k.pgdir /\ s.cr3 = k.cr3
    BY <1>1 DEF KernelState, Status, Slept
  <1> HIDE DEF s
  <1>3. k.status[e] # "FREE"
    BY <1>1, SlotFacts DEF Executing
  <1>4. \A x \in Slot : s.status[x] = "FREE" <=> k.status[x] = "FREE"
    BY <1>1, <1>2, <1>3 DEF KernelState
  <1>5. \A d \in CPU \ {c} : k.cur[d] # e
    BY <1>1, SlotFacts DEF Sound, RunsAlone
  <1>6. /\ ListsFree(s) /\ HasId(s) /\ OwnsPgdir(s)
        /\ LoadsItsPgdir(s) /\ RunsAlone(s)
    BY <1>2, <1>4
       DEF Sound, ListsFree, HasId, OwnsPgdir, LoadsItsPgdir, RunsAlone
  <1>7. KeepsIdle(s)
    BY <1>1, <1>2, SlotFacts DEF KernelState, Sound, KeepsIdle
  <1>8. CurrentIsTaken(s)
    BY <1>1, <1>2, SlotFacts DEF KernelState, Sound, CurrentIsTaken
  <1>9. Executing(s, CPU \ {c})
    BY <1>1, <1>2, <1>5, SlotFacts DEF KernelState, Executing
  <1> QED
    BY <1>2, <1>6, <1>7, <1>8, <1>9 DEF Sound, s

-----------------------------------------------------------------------------
(* What an entry does to the messages, seen from outside the kernel.       *)
Quiet ==
    /\ \E e \in User : Nothing(e) \/ Dies(e) \/ GoesOn(e)
    /\ UNCHANGED <<recving, from, value, pendTo, pendValue, unheard>>

Birth(e) ==
    /\ IsBorn(e)
    /\ recving' = [recving EXCEPT ![e] = FALSE]
    /\ pendTo' = [pendTo EXCEPT ![e] = None]
    /\ unheard' = unheard \ {e}
    /\ UNCHANGED <<from, value, pendValue>>

Delivered(a, b, v) ==
    /\ Awake(a) /\ Alive(b) /\ recving[b]
    /\ Wakes(b)
    /\ recving' = [recving EXCEPT ![b] = FALSE]
    /\ from' = [from EXCEPT ![b] = EnvIdOf(K, a)]
    /\ value' = [value EXCEPT ![b] = v]
    /\ UNCHANGED <<pendTo, pendValue, unheard>>

Enqueued(a, b, v) ==
    /\ Awake(a) /\ Alive(b) /\ ~recving[b]
    /\ Sleeps(a)
    /\ pendTo' = [pendTo EXCEPT ![a] = EnvIdOf(K, b)]
    /\ pendValue' = [pendValue EXCEPT ![a] = v]
    /\ UNCHANGED <<recving, from, value, unheard>>

(* A message to envid 0.                                                   *)
Unheard(a, v) ==
    /\ Awake(a)
    /\ Sleeps(a)
    /\ pendTo' = [pendTo EXCEPT ![a] = None]
    /\ pendValue' = [pendValue EXCEPT ![a] = v]
    /\ unheard' = unheard \cup {a}
    /\ UNCHANGED <<recving, from, value>>

Taken(a, b) ==
    /\ Awake(b) /\ a \in SendersTo(b)
    /\ Wakes(a)
    /\ value' = [value EXCEPT ![b] = pendValue[a]]
    /\ from' = [from EXCEPT ![b] = EnvIdOf(K, a)]
    /\ pendTo' = [pendTo EXCEPT ![a] = None]
    /\ UNCHANGED <<recving, pendValue, unheard>>

Listened(b) ==
    /\ Awake(b) /\ SendersTo(b) = {}
    /\ Sleeps(b)
    /\ recving' = [recving EXCEPT ![b] = TRUE]
    /\ UNCHANGED <<from, value, pendTo, pendValue, unheard>>

Event ==
    \/ Quiet
    \/ \E e \in User : Birth(e) \/ Listened(e)
    \/ \E a \in User, v \in Value : Unheard(a, v)
    \/ \E a, b \in User : Taken(a, b)
    \/ \E a, b \in User, v \in Value : Delivered(a, b, v) \/ Enqueued(a, b, v)

(* What the two calls find.                                                *)
Calling(c) ==
    /\ EnteredBy(c) /\ ~halted /\ c \in up
    /\ Sound(K) /\ Executing(K, CPU)
    /\ K.cur = curenv /\ K.status = env_status /\ K.gen = env_gen
    /\ env_status \in [Slot -> Status]
    /\ curenv[c] \in User /\ Awake(curenv[c]) /\ curenv[c] \notin fresh
    /\ fresh \subseteq User
    /\ \A e \in fresh : env_status[e] = "NOT_RUNNABLE"

LEMMA CallingFacts ==
    ASSUME EnvInv, NEW c \in CPU, InUser(c), curenv[c] \in User
    PROVE  Calling(c)
  <1>1. EnteredBy(c)
    BY Entered
  <1> QED
    BY <1>1 DEF Calling, EnteredBy, Awake, K

(* The call returns and nothing has changed.                               *)
LEMMA FailsEvent ==
    ASSUME EnvInv, NEW c \in CPU, Calling(c), NEW g, Return(c, g, K), UNCHANGED <<up, fresh>>
    PROVE  EnvInv' /\ \E e \in User : Nothing(e)
  <1>1. EnvInv'
    BY ReturnInv DEF Calling
  <1>2. \A e \in Slot : Nothing(e)
    BY ReturnExits, NoStatus
  <1> QED
    BY <1>1, <1>2, SlotFacts DEF Calling

(* The call wakes e and returns.                                           *)
LEMMA WakesEvent ==
    ASSUME EnvInv, NEW c \in CPU, Calling(c), NEW g, NEW e \in User, e \notin fresh,
           env_status[e] = "NOT_RUNNABLE",
           Return(c, g, [K EXCEPT !.status[e] = "RUNNABLE"]), UNCHANGED <<up, fresh>>
    PROVE  EnvInv' /\ Wakes(e)
  <1> DEFINE k == [K EXCEPT !.status[e] = "RUNNABLE"]
  <1>1. /\ Sound(K) /\ Executing(K, CPU) /\ K.status[e] = "NOT_RUNNABLE"
        /\ K.status = env_status /\ K.gen = env_gen /\ K.cur = curenv /\ e \in Slot
        /\ env_status \in [Slot -> Status]
    BY SlotFacts DEF Calling
  <1>2. /\ Sound(k) /\ Executing(k, CPU) /\ k.cur = K.cur /\ k.gen = K.gen
        /\ k.status = [K.status EXCEPT ![e] = "RUNNABLE"]
    BY <1>1, WokenSound
  <1>3. Return(c, g, k) /\ (SchedYield(c, k) \/ Commit(k))
    BY ReturnExits
  <1> HIDE DEF k
  <1>4. \A x \in fresh' : k.status[x] = "NOT_RUNNABLE"
    BY <1>1, <1>2, SlotFacts DEF Calling
  <1>5. ~halted /\ c \in up /\ fresh' \subseteq User
    BY DEF Calling
  <1>6. EnvInv'
    BY <1>1, <1>2, <1>3, <1>4, <1>5, ReturnInv
  <1>7. /\ OnlyTo(e)
        /\ env_status'[e] = "FREE" <=> "RUNNABLE" = "FREE"
        /\ env_status'[e] = "NOT_RUNNABLE" <=> "RUNNABLE" = "NOT_RUNNABLE"
    BY <1>1, <1>2, <1>3, OneStatus
  <1> QED
    BY <1>6, <1>7 DEF Wakes

(* The caller goes to sleep.                                               *)
LEMMA SleepsEvent ==
    ASSUME EnvInv, NEW c \in CPU, Calling(c), NEW e \in User, curenv[c] = e,
           SchedYield(c, [K EXCEPT !.status[e] = "NOT_RUNNABLE"]), UNCHANGED <<up, fresh>>
    PROVE  EnvInv' /\ Sleeps(e)
  <1> DEFINE k == Slept(K, e)
  <1>1. /\ Sound(K) /\ Executing(K, CPU) /\ K.cur[c] = e
        /\ K.status = env_status /\ K.gen = env_gen /\ K.cur = curenv /\ e \in Slot
        /\ env_status \in [Slot -> Status]
    BY SlotFacts DEF Calling
  <1>2. /\ Sound(k) /\ Executing(k, CPU \ {c}) /\ k.cur = K.cur /\ k.gen = K.gen
        /\ k.status = [K.status EXCEPT ![e] = "NOT_RUNNABLE"]
    BY ONLY c \in CPU, e \in User, <1>1, SleptSound, ZenonT(30)
  <1>3. SchedYield(c, k)
    BY DEF Slept
  <1> HIDE DEF k
  <1>4. \A x \in fresh' : k.status[x] = "NOT_RUNNABLE"
    BY <1>1, <1>2, SlotFacts DEF Calling
  <1>5. ~halted /\ up' \subseteq up \cup {c} /\ fresh' \subseteq User
    BY DEF Calling
  <1>6. \A d \in CPU \ {c} : k.cur[d] = curenv[d]
    BY <1>1, <1>2
  <1>7. EnvInv'
    BY <1>2, <1>3, <1>4, <1>5, <1>6, SchedYieldInv
  <1>8. /\ OnlyTo(e)
        /\ env_status'[e] = "FREE" <=> "NOT_RUNNABLE" = "FREE"
        /\ env_status'[e] = "NOT_RUNNABLE" <=> "NOT_RUNNABLE" = "NOT_RUNNABLE"
    BY <1>1, <1>2, <1>3, OneStatus
  <1> QED
    BY <1>7, <1>8 DEF Sleeps

LEMMA SendEvents ==
    ASSUME IpcInv, NEW c \in CPU, NEW g, NEW to \in User \cup {None}, NEW v \in Value, NEW page,
           SysIpcTrySend(c, g, to, v, page)
    PROVE  EnvInv' /\ Event
  <1>0. PICK e \in User : e = Named(c, to) /\ (to # None => e = to)
    BY DEF SysIpcTrySend, Named
  <1>1. /\ InUser(c) /\ curenv[c] \in User /\ env_status[e] # "FREE"
        /\ UNCHANGED <<up, fresh>>
    BY <1>0 DEF SysIpcTrySend, Enter
  <1>2. Calling(c) /\ EnvInv /\ e \in Slot
    BY <1>1, CallingFacts, SlotFacts DEF IpcInv
  <1>3. PICK a \in User : a = curenv[c]
    BY <1>1
  <1>4. CASE SendFails(c, g, e, page)
    BY <1>1, <1>2, <1>4, FailsEvent DEF SendFails, Event, Quiet
  <1>5. CASE Deliver(c, g, e, v)
    <2>1. env_status[e] = "NOT_RUNNABLE" /\ e \notin fresh
      BY <1>1, <1>2, <1>5 DEF Deliver, IpcInv, IpcTypes, SleepersWait, FreshSilent, Alive
    <2>2. EnvInv' /\ Wakes(e)
      BY <1>1, <1>2, <1>5, <2>1, WakesEvent DEF Deliver
    <2>3. Delivered(a, e, v)
      BY <1>1, <1>2, <1>3, <1>5, <2>2 DEF Deliver, Delivered, Calling, Alive
    <2> QED
      BY <2>2, <2>3 DEF Event
  <1>6. CASE Enqueue(c, to, v, page)
    <2>1. EnvInv' /\ Sleeps(a)
      BY <1>1, <1>2, <1>3, <1>6, SleepsEvent DEF Enqueue
    <2>2. CASE to = None
      <3>1. Unheard(a, v)
        BY <1>2, <1>3, <1>6, <2>1, <2>2 DEF Enqueue, SentTo, Unheard, Calling
      <3> QED
        BY <2>1, <3>1 DEF Event
    <2>3. CASE to # None
      <3>1. Enqueued(a, e, v)
        BY <1>0, <1>1, <1>2, <1>3, <1>6, <2>1, <2>3
           DEF Enqueue, SentTo, Enqueued, Calling, Alive
      <3> QED
        BY <2>1, <3>1 DEF Event
    <2> QED
      BY <2>2, <2>3
  <1> QED
    BY <1>0, <1>4, <1>5, <1>6 DEF SysIpcTrySend

(* Who sleeps on a message is a user environment.                          *)
LEMMA SenderAsleep ==
    ASSUME IpcInv, NEW b \in Slot, Alive(b), NEW a \in SendersTo(b)
    PROVE  /\ a \in User /\ env_status[a] = "NOT_RUNNABLE" /\ a \notin fresh
           /\ pendTo[a] = EnvIdOf(K, b) /\ pendTo[a] # None /\ Alive(a) /\ a \notin unheard
           /\ pendValue[a] \in Value
  <1>1. a \in Slot /\ Alive(a) /\ pendTo[a] = EnvIdOf(K, b)
    BY DEF SendersTo, Alive
  <1>2. EnvIdOf(K, b) \in EnvId
    <2>1. K.gen[b] \in 0..MaxGen /\ K.gen[b] # 0 /\ MaxGen \in Nat
      BY EnvAssumption DEF IpcInv, EnvInv, Sound, HasId, KernelState, Alive, K
    <2> QED
      BY <2>1 DEF EnvIdOf, EnvId
  <1>3. pendTo[a] # None
    BY <1>1, <1>2, IpcAssumption
  <1>4. /\ env_status[a] = "NOT_RUNNABLE" /\ a \notin fresh /\ pendValue[a] \in Value
        /\ a \notin unheard
    BY <1>1, <1>3 DEF IpcInv, IpcTypes, SleepersWait, FreshSilent, PendingWhole
  <1>5. a \in User
    BY <1>1, <1>4, SlotFacts DEF IpcInv, EnvInv, Sound, KeepsIdle, K
  <1> QED
    BY <1>1, <1>3, <1>4, <1>5

LEMMA RecvEvents ==
    ASSUME IpcInv, NEW c \in CPU, NEW g, NEW page, SysIpcRecv(c, g, page)
    PROVE  EnvInv' /\ Event
  <1>1. InUser(c) /\ curenv[c] \in User /\ UNCHANGED <<up, fresh>>
    BY DEF SysIpcRecv, Enter
  <1>2. Calling(c) /\ EnvInv
    BY <1>1, CallingFacts DEF IpcInv
  <1>3. PICK b \in User : b = curenv[c]
    BY <1>1
  <1>4. CASE RecvFails(c, g, page)
    BY <1>1, <1>2, <1>4, FailsEvent DEF RecvFails, Event, Quiet
  <1>5. CASE Take(c, g)
    <2>1. PICK a \in Slot :
             /\ a \in SendersTo(b)
             /\ value' = [value EXCEPT ![b] = pendValue[a]]
             /\ from' = [from EXCEPT ![b] = EnvIdOf(K, a)]
             /\ pendTo' = [pendTo EXCEPT ![a] = None]
             /\ Return(c, g, [K EXCEPT !.status[a] = "RUNNABLE"])
             /\ UNCHANGED <<recving, pendValue, unheard>>
      BY <1>3, <1>5 DEF Take, FirstSender
    <2>2. a \in User /\ env_status[a] = "NOT_RUNNABLE" /\ a \notin fresh
      <3>1. b \in Slot /\ Alive(b)
        BY <1>2, <1>3, SlotFacts DEF Calling, Awake, Alive
      <3> QED
        BY <2>1, <3>1, SenderAsleep
    <2>3. EnvInv' /\ Wakes(a)
      BY <1>1, <1>2, <2>1, <2>2, WakesEvent
    <2>4. Taken(a, b)
      BY <1>2, <1>3, <2>1, <2>3 DEF Taken, Calling
    <2> QED
      BY <2>2, <2>3, <2>4 DEF Event
  <1>6. CASE Listen(c)
    <2>1. EnvInv' /\ Sleeps(b)
      BY <1>1, <1>2, <1>3, <1>6, SleepsEvent DEF Listen
    <2>2. Listened(b)
      BY <1>2, <1>3, <1>6, <2>1 DEF Listen, Listened, Calling
    <2> QED
      BY <2>1, <2>2 DEF Event
  <1> QED
    BY <1>4, <1>5, <1>6 DEF SysIpcRecv

(* Every kernel entry is one of the events.                                *)
LEMMA EntryEvents ==
    ASSUME IpcInv, AsLibrary, NEW c \in CPU, IpcEntry(c)
    PROVE  EnvInv' /\ Event
  <1>1. CASE OtherEntry(c) /\ UNCHANGED ipcVars
    <2>1. EnvInv'
      BY <1>1, EntryInv DEF OtherEntry, Entry, IpcInv
    <2>2. \E e \in User : Nothing(e) \/ Dies(e) \/ GoesOn(e)
      BY <1>1, OtherEffect DEF IpcInv
    <2> QED
      BY <1>1, <2>1, <2>2 DEF Event, Quiet, ipcVars
  <1>2. ASSUME NEW g \in Gates, SysExofork(c, g), IpcReset(Head(free_list))
        PROVE  EnvInv' /\ Event
    <2>1. EnvInv'
      BY <1>2, SysExoforkInv DEF IpcInv
    <2>2. PICK e \in User : e = Head(free_list) /\ IsBorn(e)
      BY <1>2, ExoforkEffect DEF IpcInv
    <2>3. Birth(e)
      BY <1>2, <2>2 DEF IpcReset, Birth
    <2> QED
      BY <2>1, <2>3 DEF Event
  <1> QED
    BY <1>1, <1>2, SendEvents, RecvEvents DEF IpcEntry

-----------------------------------------------------------------------------
(* Ids name live environments, and two slots never share one.              *)
IdOf(b) == <<b, env_gen[b]>>

AllNamed == \A b \in Slot : Alive(b) => IdOf(b) \in EnvId

LEMMA EnvsNamed == EnvInv => AllNamed
  <1> SUFFICES ASSUME EnvInv, NEW b \in Slot, Alive(b)
               PROVE  IdOf(b) \in EnvId
    BY DEF AllNamed
  <1>1. K.gen[b] \in 0..MaxGen /\ K.gen[b] # 0 /\ MaxGen \in Nat /\ K.gen = env_gen
    BY EnvAssumption DEF EnvInv, Sound, HasId, KernelState, Alive, K
  <1> QED
    BY <1>1 DEF IdOf, EnvId

LEMMA NamesOfK ==
    ASSUME NEW b
    PROVE  EnvIdOf(K, b) = IdOf(b) /\ EnvIdOf(K, b)' = <<b, env_gen'[b]>>
  BY DEF EnvIdOf, IdOf, K

LEMMA NamedNext ==
    ASSUME EnvInv', NEW b \in Slot, Alive(b)'
    PROVE  <<b, env_gen'[b]>> \in EnvId
  <1>1. AllNamed'
    BY EnvsNamed, PTL
  <1> QED
    BY <1>1 DEF AllNamed, IdOf

(* Each event keeps the invariant.  What is common to them: nobody but e   *)
(* falls asleep, wakes up, is born or dies.                                *)
LEMMA OnlyToFacts ==
    ASSUME NEW e \in Slot, OnlyTo(e)
    PROVE  /\ \A x \in Slot : <<x, env_gen'[x]>> = IdOf(x)
           /\ \A x \in Slot \ {e} : Alive(x)' = Alive(x) /\ Asleep(x)' = Asleep(x)
  BY DEF OnlyTo, Same, Alive, Asleep, IdOf

LEMMA QuietInv ==
    ASSUME IpcInv, EnvInv', Quiet
    PROVE  IpcInv'
  <1>1. PICK e \in User : Nothing(e) \/ Dies(e) \/ GoesOn(e)
    BY DEF Quiet
  <1>2. e \in Slot /\ OnlyTo(e)
    BY <1>1, SlotFacts DEF Nothing, Dies, GoesOn
  <1>3. /\ \A x \in Slot : <<x, env_gen'[x]>> = IdOf(x)
        /\ \A x \in Slot \ {e} : Alive(x)' = Alive(x) /\ Asleep(x)' = Asleep(x)
    BY <1>2, OnlyToFacts
  <1>4. /\ Alive(e)' => /\ Alive(e)
                        /\ (Asleep(e)' <=> Asleep(e)) \/ (e \in fresh /\ ~Asleep(e)')
        /\ fresh' = fresh \/ fresh' = fresh \ {e}
        /\ (e \in fresh /\ e \in fresh') => (Asleep(e)' <=> Asleep(e))
        /\ (e \in fresh /\ e \notin fresh') => ~Asleep(e)'
    <2>1. e \in fresh => env_status[e] = "NOT_RUNNABLE"
      BY DEF IpcInv, EnvInv
    <2>2. CASE Nothing(e)
      BY <2>1, <2>2 DEF Nothing, Same, Alive, Asleep
    <2>3. CASE Dies(e)
      BY <2>1, <2>3 DEF Dies, Alive, Asleep
    <2>4. CASE GoesOn(e)
      BY <2>1, <2>4 DEF GoesOn, Same, Alive, Asleep
    <2> QED
      BY <1>1, <2>2, <2>3, <2>4
  <1>5. UNCHANGED <<recving, from, value, pendTo, pendValue, unheard>>
    BY DEF Quiet
  <1>6. IpcTypes' /\ PendingWhole' /\ FreshSilent'
    BY <1>2, <1>3, <1>4, <1>5 DEF IpcInv, IpcTypes, PendingWhole, FreshSilent
  <1>7. NoMissedRendezvous'
    BY <1>2, <1>3, <1>4, <1>5, NamesOfK DEF IpcInv, NoMissedRendezvous
  <1>8. SleepersWait'
    BY <1>2, <1>3, <1>4, <1>5
       DEF IpcInv, IpcTypes, FreshSilent, SleepersWait, Alive, Asleep
  <1> QED
    BY <1>6, <1>7, <1>8 DEF IpcInv

LEMMA BirthInv ==
    ASSUME IpcInv, EnvInv', NEW e \in User, Birth(e)
    PROVE  IpcInv'
  <1>1. e \in Slot /\ ~Alive(e) /\ Alive(e)' /\ Asleep(e)' /\ fresh' = fresh \cup {e}
    BY SlotFacts DEF Birth, IsBorn, Alive, Asleep
  <1>2. \A x \in Slot \ {e} : /\ Alive(x)' = Alive(x) /\ Asleep(x)' = Asleep(x)
                              /\ <<x, env_gen'[x]>> = IdOf(x)
    BY DEF Birth, IsBorn, Same, Alive, Asleep, IdOf
  <1>3. /\ recving' = [recving EXCEPT ![e] = FALSE]
        /\ pendTo' = [pendTo EXCEPT ![e] = None]
        /\ unheard' = unheard \ {e}
        /\ UNCHANGED <<from, value, pendValue>>
    BY DEF Birth
  <1>4. IpcTypes' /\ PendingWhole' /\ FreshSilent'
    BY <1>1, <1>2, <1>3 DEF IpcInv, IpcTypes, PendingWhole, FreshSilent
  <1>5. NoMissedRendezvous'
    <2> SUFFICES ASSUME NEW a \in Slot, NEW b \in Slot, Alive(a)', Alive(b)', recving'[b]
                 PROVE  pendTo'[a] # <<b, env_gen'[b]>>
      BY NamesOfK DEF NoMissedRendezvous
    <2>1. b # e
      BY <1>1, <1>3 DEF IpcInv, IpcTypes
    <2>2. CASE a = e
      BY <1>1, <1>3, <2>2, NamedNext, IpcAssumption DEF IpcInv, IpcTypes
    <2>3. CASE a # e
      BY <1>2, <1>3, <2>1, <2>3, NamesOfK DEF IpcInv, IpcTypes, NoMissedRendezvous
    <2> QED
      BY <2>2, <2>3
  <1>6. SleepersWait'
    BY <1>1, <1>2, <1>3 DEF IpcInv, IpcTypes, SleepersWait, Alive, Asleep
  <1> QED
    BY <1>4, <1>5, <1>6 DEF IpcInv

LEMMA DeliveredInv ==
    ASSUME IpcInv, EnvInv', NEW a \in User, NEW b \in User, NEW v \in Value,
           Delivered(a, b, v)
    PROVE  IpcInv'
  <1>1. a \in Slot /\ b \in Slot /\ OnlyTo(b) /\ fresh' = fresh /\ Alive(a) /\ Alive(b)
        /\ Alive(b)' /\ ~Asleep(b)'
    BY SlotFacts DEF Delivered, Wakes, Awake, Alive, Asleep
  <1>2. /\ \A x \in Slot : <<x, env_gen'[x]>> = IdOf(x)
        /\ \A x \in Slot \ {b} : Alive(x)' = Alive(x) /\ Asleep(x)' = Asleep(x)
    BY <1>1, OnlyToFacts
  <1>3. /\ recving[b]
        /\ recving' = [recving EXCEPT ![b] = FALSE]
        /\ from' = [from EXCEPT ![b] = IdOf(a)]
        /\ value' = [value EXCEPT ![b] = v]
        /\ UNCHANGED <<pendTo, pendValue, unheard>>
    BY NamesOfK DEF Delivered
  <1>4. b \notin fresh /\ pendTo[b] = None /\ b \notin unheard
    BY <1>1, <1>3 DEF IpcInv, FreshSilent, SleepersWait
  <1>5. IpcTypes' /\ PendingWhole' /\ FreshSilent'
    <2>1. IdOf(a) \in EnvId
      BY <1>1, EnvsNamed DEF IpcInv, AllNamed
    <2>2. IpcTypes'
      BY <1>1, <1>3, <2>1 DEF IpcInv, IpcTypes
    <2>3. PendingWhole'
      <3> SUFFICES ASSUME NEW x \in Slot, Alive(x)', pendTo[x] # None \/ x \in unheard
                   PROVE  pendValue[x] \in Value
        BY <1>3 DEF PendingWhole
      <3> QED
        BY <1>1, <1>2, <1>4 DEF IpcInv, PendingWhole
    <2>4. FreshSilent'
      <3> SUFFICES ASSUME NEW x \in fresh
                   PROVE  ~recving'[x] /\ pendTo[x] = None /\ x \notin unheard
        BY <1>1, <1>3 DEF FreshSilent
      <3>1. x \in Slot /\ x # b
        BY <1>4, SlotFacts DEF IpcInv, EnvInv
      <3> QED
        BY <1>3, <3>1 DEF IpcInv, IpcTypes, FreshSilent
    <2> QED
      BY <2>2, <2>3, <2>4
  <1>6. NoMissedRendezvous'
    <2> SUFFICES ASSUME NEW x \in Slot, NEW y \in Slot, Alive(x)', Alive(y)', recving'[y]
                 PROVE  pendTo'[x] # <<y, env_gen'[y]>>
      BY NamesOfK DEF NoMissedRendezvous
    <2>1. y # b /\ recving[y]
      BY <1>1, <1>3 DEF IpcInv, IpcTypes
    <2>2. Alive(x) /\ Alive(y)
      BY <1>1, <1>2, <2>1
    <2>3. pendTo[x] # IdOf(y)
      BY <2>1, <2>2, NamesOfK DEF IpcInv, NoMissedRendezvous
    <2> QED
      BY <1>2, <1>3, <2>3
  <1>7. SleepersWait'
    BY <1>1, <1>2, <1>3, <1>4 DEF IpcInv, IpcTypes, SleepersWait, Alive, Asleep
  <1> QED
    BY <1>5, <1>6, <1>7 DEF IpcInv

LEMMA EnqueuedInv ==
    ASSUME IpcInv, EnvInv', NEW a \in User, NEW b \in User, NEW v \in Value,
           Enqueued(a, b, v)
    PROVE  IpcInv'
  <1>1. a \in Slot /\ b \in Slot /\ OnlyTo(a) /\ fresh' = fresh /\ Alive(a) /\ ~Asleep(a)
        /\ Alive(b) /\ Alive(a)' /\ Asleep(a)'
    BY SlotFacts DEF Enqueued, Sleeps, Awake, Alive, Asleep
  <1>2. /\ \A x \in Slot : <<x, env_gen'[x]>> = IdOf(x)
        /\ \A x \in Slot \ {a} : Alive(x)' = Alive(x) /\ Asleep(x)' = Asleep(x)
    BY <1>1, OnlyToFacts
  <1>3. /\ ~recving[b]
        /\ pendTo' = [pendTo EXCEPT ![a] = IdOf(b)]
        /\ pendValue' = [pendValue EXCEPT ![a] = v]
        /\ UNCHANGED <<recving, from, value, unheard>>
    BY NamesOfK DEF Enqueued
  <1>4. a \notin fresh /\ ~recving[a] /\ a \notin unheard
    BY <1>1 DEF IpcInv, EnvInv, FreshSilent, SleepersWait, Asleep
  <1>5. IdOf(b) \in EnvId /\ IdOf(b) # None
    BY <1>1, EnvsNamed, IpcAssumption DEF IpcInv, AllNamed
  <1>6. IpcTypes' /\ PendingWhole' /\ FreshSilent'
    BY <1>1, <1>2, <1>3, <1>4, <1>5 DEF IpcInv, IpcTypes, PendingWhole, FreshSilent
  <1>7. NoMissedRendezvous'
    <2> SUFFICES ASSUME NEW x \in Slot, NEW y \in Slot, Alive(x)', Alive(y)', recving'[y]
                 PROVE  pendTo'[x] # <<y, env_gen'[y]>>
      BY NamesOfK DEF NoMissedRendezvous
    <2>1. CASE x = a
      BY <1>1, <1>2, <1>3, <2>1 DEF IpcInv, IpcTypes, IdOf
    <2>2. CASE x # a
      BY <1>1, <1>2, <1>3, <1>4, <2>2, NamesOfK DEF IpcInv, IpcTypes, NoMissedRendezvous
    <2> QED
      BY <2>1, <2>2
  <1>8. SleepersWait'
    BY <1>1, <1>2, <1>3, <1>4, <1>5 DEF IpcInv, IpcTypes, SleepersWait, Alive, Asleep
  <1> QED
    BY <1>6, <1>7, <1>8 DEF IpcInv

LEMMA UnheardInv ==
    ASSUME IpcInv, EnvInv', NEW a \in User, NEW v \in Value, Unheard(a, v)
    PROVE  IpcInv'
  <1>1. a \in Slot /\ OnlyTo(a) /\ fresh' = fresh /\ Alive(a) /\ ~Asleep(a)
        /\ Alive(a)' /\ Asleep(a)'
    BY SlotFacts DEF Unheard, Sleeps, Awake, Alive, Asleep
  <1>2. /\ \A x \in Slot : <<x, env_gen'[x]>> = IdOf(x)
        /\ \A x \in Slot \ {a} : Alive(x)' = Alive(x) /\ Asleep(x)' = Asleep(x)
    BY <1>1, OnlyToFacts
  <1>3. a \notin fresh /\ ~recving[a] /\ pendTo[a] = None
    BY <1>1 DEF IpcInv, EnvInv, FreshSilent, SleepersWait, Asleep
  <1>4. /\ pendTo' = pendTo
        /\ pendValue' = [pendValue EXCEPT ![a] = v]
        /\ unheard' = unheard \cup {a}
        /\ UNCHANGED <<recving, from, value>>
    BY <1>1, <1>3 DEF Unheard, IpcInv, IpcTypes
  <1>5. IpcTypes' /\ PendingWhole' /\ FreshSilent'
    BY <1>1, <1>2, <1>3, <1>4 DEF IpcInv, IpcTypes, PendingWhole, FreshSilent
  <1>6. NoMissedRendezvous'
    <2> SUFFICES ASSUME NEW x \in Slot, NEW y \in Slot, Alive(x)', Alive(y)', recving'[y]
                 PROVE  pendTo'[x] # <<y, env_gen'[y]>>
      BY NamesOfK DEF NoMissedRendezvous
    <2>1. Alive(x) /\ Alive(y)
      BY <1>1, <1>2
    <2>2. pendTo[x] # IdOf(y)
      BY <1>4, <2>1, NamesOfK DEF IpcInv, NoMissedRendezvous
    <2> QED
      BY <1>2, <1>4, <2>2
  <1>7. SleepersWait'
    BY <1>1, <1>2, <1>3, <1>4 DEF IpcInv, IpcTypes, SleepersWait, Alive, Asleep
  <1> QED
    BY <1>5, <1>6, <1>7 DEF IpcInv

LEMMA TakenInv ==
    ASSUME IpcInv, EnvInv', NEW a \in User, NEW b \in User, Taken(a, b)
    PROVE  IpcInv'
  <1>1. a \in Slot /\ b \in Slot /\ OnlyTo(a) /\ fresh' = fresh /\ Alive(b)
        /\ Alive(a)' /\ ~Asleep(a)' /\ a \in SendersTo(b)
    BY SlotFacts DEF Taken, Wakes, Awake, Alive, Asleep
  <1>2. /\ \A x \in Slot : <<x, env_gen'[x]>> = IdOf(x)
        /\ \A x \in Slot \ {a} : Alive(x)' = Alive(x) /\ Asleep(x)' = Asleep(x)
    BY <1>1, OnlyToFacts
  <1>3. /\ a \notin fresh /\ pendTo[a] # None /\ Alive(a) /\ pendValue[a] \in Value /\ a \notin unheard
    BY <1>1, SenderAsleep
  <1>4. /\ value' = [value EXCEPT ![b] = pendValue[a]]
        /\ from' = [from EXCEPT ![b] = IdOf(a)]
        /\ pendTo' = [pendTo EXCEPT ![a] = None]
        /\ UNCHANGED <<recving, pendValue, unheard>>
    BY NamesOfK DEF Taken
  <1>5. ~recving[a]
    BY <1>1, <1>3 DEF IpcInv, SleepersWait
  <1>6. IdOf(a) \in EnvId
    BY <1>1, <1>3, EnvsNamed DEF IpcInv, AllNamed
  <1>7. IpcTypes' /\ PendingWhole' /\ FreshSilent'
    BY <1>1, <1>2, <1>3, <1>4, <1>6 DEF IpcInv, IpcTypes, PendingWhole, FreshSilent
  <1>8. NoMissedRendezvous'
    <2> SUFFICES ASSUME NEW x \in Slot, NEW y \in Slot, Alive(x)', Alive(y)', recving'[y]
                 PROVE  pendTo'[x] # <<y, env_gen'[y]>>
      BY NamesOfK DEF NoMissedRendezvous
    <2>1. CASE x = a
      BY <1>1, <1>4, <2>1, NamedNext, IpcAssumption DEF IpcInv, IpcTypes
    <2>2. CASE x # a
      BY <1>1, <1>2, <1>3, <1>4, <2>2, NamesOfK DEF IpcInv, IpcTypes, NoMissedRendezvous
    <2> QED
      BY <2>1, <2>2
  <1>9. SleepersWait'
    BY <1>1, <1>2, <1>3, <1>4, <1>5 DEF IpcInv, IpcTypes, SleepersWait, Alive, Asleep
  <1> QED
    BY <1>7, <1>8, <1>9 DEF IpcInv

LEMMA ListenedInv ==
    ASSUME IpcInv, EnvInv', NEW b \in User, Listened(b)
    PROVE  IpcInv'
  <1>1. b \in Slot /\ OnlyTo(b) /\ fresh' = fresh /\ Alive(b) /\ ~Asleep(b)
        /\ Alive(b)' /\ Asleep(b)' /\ SendersTo(b) = {}
    BY SlotFacts DEF Listened, Sleeps, Awake, Alive, Asleep
  <1>2. /\ \A x \in Slot : <<x, env_gen'[x]>> = IdOf(x)
        /\ \A x \in Slot \ {b} : Alive(x)' = Alive(x) /\ Asleep(x)' = Asleep(x)
    BY <1>1, OnlyToFacts
  <1>3. /\ recving' = [recving EXCEPT ![b] = TRUE]
        /\ UNCHANGED <<from, value, pendTo, pendValue, unheard>>
    BY DEF Listened
  <1>4. b \notin fresh /\ pendTo[b] = None /\ b \notin unheard
    BY <1>1 DEF IpcInv, EnvInv, FreshSilent, SleepersWait, Asleep
  <1>5. IpcTypes' /\ PendingWhole' /\ FreshSilent'
    BY <1>1, <1>2, <1>3, <1>4 DEF IpcInv, IpcTypes, PendingWhole, FreshSilent
  <1>6. NoMissedRendezvous'
    <2> SUFFICES ASSUME NEW x \in Slot, NEW y \in Slot, Alive(x)', Alive(y)', recving'[y]
                 PROVE  pendTo'[x] # <<y, env_gen'[y]>>
      BY NamesOfK DEF NoMissedRendezvous
    <2>1. Alive(x) /\ Alive(y)
      BY <1>1, <1>2
    <2>2. CASE y = b
      BY <1>1, <1>2, <1>3, <2>1, <2>2, NamesOfK DEF SendersTo, Alive
    <2>3. CASE y # b
      BY <1>2, <1>3, <2>1, <2>3, NamesOfK DEF IpcInv, IpcTypes, NoMissedRendezvous
    <2> QED
      BY <2>2, <2>3
  <1>7. SleepersWait'
    BY <1>1, <1>2, <1>3, <1>4 DEF IpcInv, IpcTypes, SleepersWait, Alive, Asleep
  <1> QED
    BY <1>5, <1>6, <1>7 DEF IpcInv

-----------------------------------------------------------------------------
LEMMA EventInv ==
    ASSUME IpcInv, EnvInv', Event
    PROVE  IpcInv'
  BY QuietInv, BirthInv, DeliveredInv, EnqueuedInv, UnheardInv, TakenInv, ListenedInv
     DEF Event

LEMMA IpcInvStep ==
    ASSUME AsLibrary, IpcInv, [IpcNext]_vars
    PROVE  /\ IpcInv'
           /\ Event \/ UNCHANGED vars
  <1>1. CASE IpcNext
    <2>1. EnvInv' /\ Event
      BY <1>1, EntryEvents DEF IpcNext
    <2> QED
      BY <2>1, EventInv
  <1>2. CASE UNCHANGED vars
    <2>1. EnvInv => EnvInv'
      BY <1>2 DEF vars, envVars, EnvInv, K, Executing, Sound, ListsFree, HasId, OwnsPgdir,
                  LoadsItsPgdir, RunsAlone, KeepsIdle, CurrentIsTaken
    <2> QED
      BY <1>2, <2>1
         DEF vars, envVars, ipcVars, IpcInv, IpcTypes, PendingWhole, FreshSilent,
             NoMissedRendezvous, SleepersWait, Alive, EnvIdOf, K
  <1> QED
    BY <1>1, <1>2

LEMMA IpcInvInit == IpcInit => IpcInv
  <1> SUFFICES ASSUME IpcInit PROVE IpcInv
    OBVIOUS
  <1>1. EnvInv
    BY EnvInvInit DEF IpcInit
  <1>2. fresh = {} /\ \A e \in Slot : env_status[e] # "NOT_RUNNABLE"
    BY DEF IpcInit, Init
  <1>3. IpcTypes /\ PendingWhole /\ FreshSilent /\ NoMissedRendezvous
    BY <1>2 DEF IpcInit, IpcTypes, PendingWhole, FreshSilent, NoMissedRendezvous
  <1>4. SleepersWait
    BY <1>2 DEF IpcInit, SleepersWait
  <1> QED
    BY <1>1, <1>3, <1>4 DEF IpcInv

(* What the theorems below rest on.                                        *)
THEOREM IpcInvariant == ASSUME AsLibrary PROVE IpcSpec => []IpcInv
  <1>1. IpcInv /\ [IpcNext]_vars => IpcInv'
    BY IpcInvStep
  <1> QED
    BY <1>1, IpcInvInit, PTL DEF IpcSpec

(* Nobody listens while a message for it is pending, for any number of     *)
(* CPUs and environments that die and are replaced meanwhile.              *)
THEOREM IpcNoMissedRendezvous == ASSUME AsLibrary PROVE IpcSpec => []NoMissedRendezvous
  <1>1. IpcInv => NoMissedRendezvous
    BY DEF IpcInv
  <1> QED
    BY <1>1, IpcInvariant, PTL

(* No wakeup is lost and none comes early: whoever sleeps is a child that  *)
(* was not started, waits in one of the two calls, never in both, or has   *)
(* sent to envid 0, which nobody hears.                                    *)
THEOREM IpcSleepersWait == ASSUME AsLibrary PROVE IpcSpec => []SleepersWait
  <1>1. IpcInv => SleepersWait
    BY DEF IpcInv
  <1> QED
    BY <1>1, IpcInvariant, PTL

-----------------------------------------------------------------------------
(* Event by event, the two calls implement Rendezvous.                     *)
LEMMA WhatIsOffered ==
    ASSUME IpcInv, NEW e \in User
    PROVE  /\ Names[e] = IF Alive(e) THEN IdOf(e) ELSE None
           /\ Names[e] # None <=> Alive(e)
           /\ Offers[e] # None <=> Alive(e) /\ (pendTo[e] # None \/ e \in unheard)
           /\ Offers[e] # None => Offers[e] = [to |-> pendTo[e], value |-> pendValue[e]]
           /\ e \in Listening <=> Alive(e) /\ recving[e]
  <1>1. e \in Slot
    BY SlotFacts
  <1>2. Alive(e) => IdOf(e) \in EnvId
    BY <1>1, EnvsNamed DEF IpcInv, AllNamed
  <1>3. Names[e] = IF Alive(e) THEN IdOf(e) ELSE None
    BY DEF Names, IdOf
  <1>4. Alive(e) /\ (pendTo[e] # None \/ e \in unheard) =>
          [to |-> pendTo[e], value |-> pendValue[e]] # None
    <2>1. Alive(e) /\ (pendTo[e] # None \/ e \in unheard) =>
            [to |-> pendTo[e], value |-> pendValue[e]] \in Message
      BY <1>1 DEF IpcInv, IpcTypes, PendingWhole, Message
    <2> QED
      BY <2>1, IpcAssumption
  <1>5. /\ Offers[e] # None <=> Alive(e) /\ (pendTo[e] # None \/ e \in unheard)
        /\ Offers[e] # None => Offers[e] = [to |-> pendTo[e], value |-> pendValue[e]]
    BY <1>4 DEF Offers
  <1> QED
    BY <1>2, <1>3, <1>5, IpcAssumption DEF Listening

LEMMA AwakeIsLive ==
    ASSUME IpcInv, NEW e \in User, Awake(e)
    PROVE  Abstract!Live(e)
  <1>1. e \in Slot /\ Alive(e) /\ env_status[e] # "NOT_RUNNABLE"
    BY SlotFacts DEF Awake, Alive
  <1>2. ~recving[e] /\ pendTo[e] = None /\ e \notin unheard
    BY <1>1 DEF IpcInv, IpcTypes, SleepersWait
  <1> QED
    BY <1>1, <1>2, WhatIsOffered DEF Abstract!Live, Abstract!Waiting

(* No call and no message but e's is touched.                              *)
Undisturbed(e) ==
    \A x \in User \ {e} :
        /\ recving'[x] = recving[x] /\ pendTo'[x] = pendTo[x]
        /\ pendValue'[x] = pendValue[x] /\ (x \in unheard' <=> x \in unheard)

(* Nobody but e changes in the eyes of Rendezvous.                         *)
LEMMA OthersStand ==
    ASSUME NEW e \in User, OnlyTo(e), Undisturbed(e)
    PROVE  /\ Names' = [Names EXCEPT ![e] = Names'[e]]
           /\ Offers' = [Offers EXCEPT ![e] = Offers'[e]]
           /\ Listening' \ {e} = Listening \ {e}
  <1>1. e \in Slot /\ \A x \in User \ {e} : x \in Slot
    BY SlotFacts
  <1>2. \A x \in User \ {e} : Alive(x)' = Alive(x) /\ <<x, env_gen'[x]>> = <<x, env_gen[x]>>
    BY <1>1, OnlyToFacts DEF IdOf
  <1>3. Names' = [Names EXCEPT ![e] = Names'[e]]
    BY <1>2 DEF Names
  <1>4. Offers' = [Offers EXCEPT ![e] = Offers'[e]]
    BY <1>2 DEF Offers, Undisturbed
  <1>5. Listening' \ {e} = Listening \ {e}
    BY <1>2 DEF Listening, Undisturbed
  <1> QED
    BY <1>3, <1>4, <1>5

LEMMA MailboxesStand ==
    ASSUME UNCHANGED <<value, from>>
    PROVE  Mailboxes' = Mailboxes
  BY DEF Mailboxes

LEMMA MessageArrives ==
    ASSUME IpcTypes, NEW b \in User, NEW v \in Value, NEW id,
           value' = [value EXCEPT ![b] = v], from' = [from EXCEPT ![b] = id]
    PROVE  Mailboxes' = [Mailboxes EXCEPT ![b] = [from |-> id, value |-> v]]
  <1>1. v # None /\ b \in Slot
    BY IpcAssumption, SlotFacts
  <1>2. /\ value'[b] = v /\ from'[b] = id
        /\ \A x \in User \ {b} : value'[x] = value[x] /\ from'[x] = from[x]
    BY <1>1, SlotFacts DEF IpcTypes
  <1> QED
    BY <1>1, <1>2 DEF Mailboxes

LEMMA QuietRefines ==
    ASSUME IpcInv, IpcInv', Quiet
    PROVE  \/ UNCHANGED Abstract!rvVars
           \/ \E e \in User : Abstract!Dies(e)
  <1>1. PICK e \in User : Nothing(e) \/ Dies(e) \/ GoesOn(e)
    BY DEF Quiet
  <1>2. e \in Slot /\ OnlyTo(e)
    BY <1>1, SlotFacts DEF Nothing, Dies, GoesOn
  <1>3. UNCHANGED <<recving, from, value, pendTo, pendValue, unheard>>
    BY DEF Quiet
  <1>4. /\ Names' = [Names EXCEPT ![e] = Names'[e]]
        /\ Offers' = [Offers EXCEPT ![e] = Offers'[e]]
        /\ Listening' \ {e} = Listening \ {e}
        /\ Mailboxes' = Mailboxes
    BY <1>1, <1>2, <1>3, OthersStand, MailboxesStand DEF Undisturbed
  <1>5. \/ Alive(e)' <=> Alive(e)
        \/ Alive(e) /\ ~Alive(e)'
    <2>1. e \in fresh => env_status[e] = "NOT_RUNNABLE"
      BY DEF IpcInv, EnvInv
    <2> QED
      BY <1>1, <2>1 DEF Nothing, Dies, GoesOn, Same, Alive
  <1>6. CASE Alive(e)' <=> Alive(e)
    <2>1. env_gen' = env_gen
      BY <1>2 DEF OnlyTo
    <2>2. Names'[e] = Names[e]
      BY <1>6, <2>1 DEF Names
    <2>3. Offers'[e] = Offers[e]
      BY <1>3, <1>6 DEF Offers
    <2>4. e \in Listening' <=> e \in Listening
      BY <1>3, <1>6 DEF Listening
    <2>5. Names' = Names /\ Offers' = Offers /\ Listening' = Listening
      <3>1. Names' = Names
        BY <1>4, <2>2 DEF Names
      <3>2. Offers' = Offers
        BY <1>4, <2>3 DEF Offers
      <3> QED
        BY <1>4, <2>4, <3>1, <3>2
    <2> QED
      BY <1>4, <2>5 DEF Abstract!rvVars
  <1>7. CASE Alive(e) /\ ~Alive(e)'
    <2>1. Names'[e] = None /\ Offers'[e] = None /\ e \notin Listening'
      BY <1>7 DEF Names, Offers, Listening
    <2>2. Names[e] # None
      BY <1>7, WhatIsOffered
    <2> QED
      BY <1>4, <2>1, <2>2 DEF Abstract!Dies
  <1> QED
    BY <1>5, <1>6, <1>7

LEMMA BirthRefines ==
    ASSUME IpcInv, IpcInv', NEW e \in User, Birth(e)
    PROVE  Abstract!Born(e)
  <1>1. e \in Slot /\ ~Alive(e) /\ Alive(e)'
    BY SlotFacts DEF Birth, IsBorn, Alive
  <1>2. \A x \in User \ {e} : Alive(x)' = Alive(x) /\ env_gen'[x] = env_gen[x]
    BY SlotFacts DEF Birth, IsBorn, Same, Alive
  <1>3. /\ recving' = [recving EXCEPT ![e] = FALSE]
        /\ pendTo' = [pendTo EXCEPT ![e] = None]
        /\ unheard' = unheard \ {e}
        /\ UNCHANGED <<from, value, pendValue>>
    BY DEF Birth
  <1>4. /\ ~recving'[e] /\ pendTo'[e] = None
        /\ \A x \in User \ {e} : recving'[x] = recving[x] /\ pendTo'[x] = pendTo[x]
    BY <1>1, <1>3, SlotFacts DEF IpcInv, IpcTypes
  <1>5. Names[e] = None /\ Names'[e] = <<e, env_gen'[e]>>
    BY <1>1 DEF Names
  <1>6. Names'[e] \in EnvId
    BY <1>1, <1>5, NamedNext DEF IpcInv
  <1>7. Names' = [Names EXCEPT ![e] = Names'[e]]
    BY <1>2 DEF Names
  <1>8. Offers' = Offers
    BY <1>1, <1>2, <1>3, <1>4 DEF Offers
  <1>9. Listening' = Listening
    BY <1>1, <1>2, <1>4 DEF Listening
  <1>10. Mailboxes' = Mailboxes
    BY <1>3, MailboxesStand
  <1> QED
    BY <1>5, <1>6, <1>7, <1>8, <1>9, <1>10 DEF Abstract!Born

LEMMA DeliveredRefines ==
    ASSUME IpcInv, IpcInv', NEW a \in User, NEW b \in User, NEW v \in Value,
           Delivered(a, b, v)
    PROVE  Abstract!SendNow(a, b, v)
  <1>1. b \in Slot /\ Alive(b) /\ Alive(b)' /\ OnlyTo(b) /\ recving[b]
    BY SlotFacts DEF Delivered, Wakes, Alive
  <1>2. /\ recving' = [recving EXCEPT ![b] = FALSE]
        /\ from' = [from EXCEPT ![b] = IdOf(a)]
        /\ value' = [value EXCEPT ![b] = v]
        /\ UNCHANGED <<pendTo, pendValue, unheard>>
    BY NamesOfK DEF Delivered
  <1>3. /\ ~recving'[b]
        /\ Undisturbed(b)
    BY <1>1, <1>2, SlotFacts DEF IpcInv, IpcTypes, Undisturbed
  <1>4. /\ Names' = [Names EXCEPT ![b] = Names'[b]]
        /\ Offers' = [Offers EXCEPT ![b] = Offers'[b]]
        /\ Listening' \ {b} = Listening \ {b}
    BY <1>1, <1>3, OthersStand
  <1>5. Names'[b] = Names[b] /\ Offers'[b] = Offers[b]
    BY <1>1, <1>2 DEF Names, Offers, OnlyTo
  <1>6. Names' = Names /\ Offers' = Offers
    BY <1>4, <1>5 DEF Names, Offers
  <1>7. Listening' = Listening \ {b} /\ b \in Listening
    BY <1>1, <1>3, <1>4 DEF Listening
  <1>8. Names[a] = IdOf(a)
    BY WhatIsOffered DEF Delivered, Awake, Alive
  <1>9. Mailboxes' = [Mailboxes EXCEPT ![b] = [from |-> Names[a], value |-> v]]
    BY <1>2, <1>8, MessageArrives DEF IpcInv
  <1>10. Abstract!Live(a)
    BY AwakeIsLive DEF Delivered
  <1> QED
    BY <1>6, <1>7, <1>9, <1>10 DEF Abstract!SendNow

LEMMA EnqueuedRefines ==
    ASSUME IpcInv, IpcInv', NEW a \in User, NEW b \in User, NEW v \in Value,
           Enqueued(a, b, v)
    PROVE  Abstract!SendLater(a, b, v)
  <1>1. a \in Slot /\ Alive(a) /\ Alive(a)' /\ OnlyTo(a) /\ b \in Slot /\ Alive(b)
        /\ ~recving[b]
    BY SlotFacts DEF Enqueued, Sleeps, Awake, Alive
  <1>2. /\ pendTo' = [pendTo EXCEPT ![a] = IdOf(b)]
        /\ pendValue' = [pendValue EXCEPT ![a] = v]
        /\ UNCHANGED <<recving, from, value, unheard>>
    BY NamesOfK DEF Enqueued
  <1>3. /\ pendTo'[a] = IdOf(b) /\ pendValue'[a] = v
        /\ Undisturbed(a)
    BY <1>1, <1>2, SlotFacts DEF IpcInv, IpcTypes, Undisturbed
  <1>4. /\ Names' = [Names EXCEPT ![a] = Names'[a]]
        /\ Offers' = [Offers EXCEPT ![a] = Offers'[a]]
        /\ Listening' \ {a} = Listening \ {a}
    BY <1>1, <1>3, OthersStand
  <1>5. Names'[a] = Names[a] /\ (a \in Listening' <=> a \in Listening)
    BY <1>1, <1>2 DEF Names, Listening, OnlyTo
  <1>6. Names' = Names /\ Listening' = Listening
    <2>1. Names' = Names
      BY <1>4, <1>5 DEF Names
    <2> QED
      BY <1>4, <1>5, <2>1
  <1>7. Names[b] = IdOf(b) /\ Names[b] # None /\ b \notin Listening
    BY <1>1, WhatIsOffered
  <1>8. Offers' = [Offers EXCEPT ![a] = [to |-> Names[b], value |-> v]]
    <2>1. Offers'[a] = [to |-> IdOf(b), value |-> v]
      BY <1>1, <1>3, <1>7, WhatIsOffered DEF Offers
    <2> QED
      BY <1>4, <1>7, <2>1
  <1>9. Mailboxes' = Mailboxes
    BY <1>2, MailboxesStand
  <1>10. Abstract!Live(a)
    BY AwakeIsLive DEF Enqueued
  <1> QED
    BY <1>6, <1>7, <1>8, <1>9, <1>10 DEF Abstract!SendLater

LEMMA UnheardRefines ==
    ASSUME IpcInv, IpcInv', NEW a \in User, NEW v \in Value, Unheard(a, v)
    PROVE  Abstract!SendToNobody(a, v)
  <1>1. a \in Slot /\ Alive(a) /\ Alive(a)' /\ OnlyTo(a)
    BY SlotFacts DEF Unheard, Sleeps, Awake, Alive
  <1>2. /\ pendTo' = [pendTo EXCEPT ![a] = None]
        /\ pendValue' = [pendValue EXCEPT ![a] = v]
        /\ unheard' = unheard \cup {a}
        /\ UNCHANGED <<recving, from, value>>
    BY DEF Unheard
  <1>3. /\ pendTo'[a] = None /\ pendValue'[a] = v
        /\ Undisturbed(a)
    BY <1>1, <1>2, SlotFacts DEF IpcInv, IpcTypes, Undisturbed
  <1>4. /\ Names' = [Names EXCEPT ![a] = Names'[a]]
        /\ Offers' = [Offers EXCEPT ![a] = Offers'[a]]
        /\ Listening' \ {a} = Listening \ {a}
    BY <1>1, <1>3, OthersStand
  <1>5. Names'[a] = Names[a] /\ (a \in Listening' <=> a \in Listening)
    BY <1>1, <1>2 DEF Names, Listening, OnlyTo
  <1>6. Names' = Names /\ Listening' = Listening
    <2>1. Names' = Names
      BY <1>4, <1>5 DEF Names
    <2> QED
      BY <1>4, <1>5, <2>1
  <1>7. Offers' = [Offers EXCEPT ![a] = [to |-> None, value |-> v]]
    <2>1. Offers'[a] = [to |-> None, value |-> v]
      BY <1>1, <1>2, <1>3 DEF Offers
    <2> QED
      BY <1>4, <2>1
  <1>8. Mailboxes' = Mailboxes
    BY <1>2, MailboxesStand
  <1>9. Abstract!Live(a)
    BY AwakeIsLive DEF Unheard
  <1> QED
    BY <1>6, <1>7, <1>8, <1>9 DEF Abstract!SendToNobody

LEMMA TakenRefines ==
    ASSUME IpcInv, IpcInv', NEW a \in User, NEW b \in User, Taken(a, b)
    PROVE  Abstract!ReceiveNow(a, b)
  <1>1. b \in Slot /\ Alive(b) /\ a \in Slot /\ Alive(a)' /\ OnlyTo(a) /\ a \in SendersTo(b)
    BY SlotFacts DEF Taken, Wakes, Awake, Alive
  <1>2. /\ Alive(a) /\ pendTo[a] = IdOf(b) /\ pendTo[a] # None /\ pendValue[a] \in Value
        /\ a \notin unheard
    BY <1>1, SenderAsleep, NamesOfK
  <1>3. /\ value' = [value EXCEPT ![b] = pendValue[a]]
        /\ from' = [from EXCEPT ![b] = IdOf(a)]
        /\ pendTo' = [pendTo EXCEPT ![a] = None]
        /\ UNCHANGED <<recving, pendValue, unheard>>
    BY NamesOfK DEF Taken
  <1>4. /\ pendTo'[a] = None
        /\ Undisturbed(a)
    BY <1>1, <1>3, SlotFacts DEF IpcInv, IpcTypes, Undisturbed
  <1>5. /\ Names' = [Names EXCEPT ![a] = Names'[a]]
        /\ Offers' = [Offers EXCEPT ![a] = Offers'[a]]
        /\ Listening' \ {a} = Listening \ {a}
    BY <1>1, <1>4, OthersStand
  <1>6. Names'[a] = Names[a] /\ (a \in Listening' <=> a \in Listening)
    BY <1>1, <1>2, <1>3 DEF Names, Listening, OnlyTo
  <1>7. Names' = Names /\ Listening' = Listening
    <2>1. Names' = Names
      BY <1>5, <1>6 DEF Names
    <2> QED
      BY <1>5, <1>6, <2>1
  <1>8. Offers' = [Offers EXCEPT ![a] = None]
    BY <1>2, <1>3, <1>4, <1>5 DEF Offers
  <1>9. /\ Names[a] = IdOf(a) /\ Names[b] = IdOf(b) /\ Offers[a] # None
        /\ Offers[a].to = IdOf(b) /\ Offers[a].value = pendValue[a]
    <2>1. Offers[a] # None /\ Offers[a] = [to |-> IdOf(b), value |-> pendValue[a]]
      BY <1>2, WhatIsOffered
    <2>2. Offers[a].to = IdOf(b) /\ Offers[a].value = pendValue[a]
      BY <2>1
    <2> QED
      BY <1>1, <1>2, <2>1, <2>2, WhatIsOffered
  <1>10. Mailboxes' = [Mailboxes EXCEPT ![b] = [from |-> Names[a], value |-> Offers[a].value]]
    BY <1>2, <1>3, <1>9, MessageArrives DEF IpcInv
  <1>11. Abstract!Live(b)
    BY AwakeIsLive DEF Taken
  <1> QED
    BY <1>7, <1>8, <1>9, <1>10, <1>11 DEF Abstract!ReceiveNow

LEMMA ListenedRefines ==
    ASSUME IpcInv, IpcInv', NEW b \in User, Listened(b)
    PROVE  Abstract!ReceiveLater(b)
  <1>1. b \in Slot /\ Alive(b) /\ Alive(b)' /\ OnlyTo(b) /\ SendersTo(b) = {}
    BY SlotFacts DEF Listened, Sleeps, Awake, Alive
  <1>2. /\ recving' = [recving EXCEPT ![b] = TRUE]
        /\ UNCHANGED <<from, value, pendTo, pendValue, unheard>>
    BY DEF Listened
  <1>3. /\ recving'[b]
        /\ Undisturbed(b)
    BY <1>1, <1>2, SlotFacts DEF IpcInv, IpcTypes, Undisturbed
  <1>4. /\ Names' = [Names EXCEPT ![b] = Names'[b]]
        /\ Offers' = [Offers EXCEPT ![b] = Offers'[b]]
        /\ Listening' \ {b} = Listening \ {b}
    BY <1>1, <1>3, OthersStand
  <1>5. Names'[b] = Names[b] /\ Offers'[b] = Offers[b]
    BY <1>1, <1>2 DEF Names, Offers, OnlyTo
  <1>6. Names' = Names /\ Offers' = Offers
    BY <1>4, <1>5 DEF Names, Offers
  <1>7. Listening' = Listening \cup {b}
    BY <1>1, <1>3, <1>4 DEF Listening
  <1>8. \A a \in User : Offers[a] # None => Offers[a].to # Names[b]
    <2> SUFFICES ASSUME NEW a \in User, Offers[a] # None PROVE Offers[a].to # Names[b]
      OBVIOUS
    <2>1. Alive(a) /\ Names[b] = IdOf(b) /\ a \in Slot
      BY <1>1, WhatIsOffered, SlotFacts
    <2>2. Offers[a] = [to |-> pendTo[a], value |-> pendValue[a]]
      BY WhatIsOffered
    <2>3. Offers[a].to = pendTo[a]
      BY <2>2
    <2>4. pendTo[a] # IdOf(b)
      BY <1>1, <2>1, NamesOfK DEF SendersTo, Alive
    <2> QED
      BY <2>1, <2>3, <2>4
  <1>9. Mailboxes' = Mailboxes
    BY <1>2, MailboxesStand
  <1>10. Abstract!Live(b)
    BY AwakeIsLive DEF Listened
  <1> QED
    BY <1>6, <1>7, <1>8, <1>9, <1>10 DEF Abstract!ReceiveLater

LEMMA RendezvousInit == IpcInit => Abstract!Init
  <1> SUFFICES ASSUME IpcInit PROVE Abstract!Init
    OBVIOUS
  <1>1. IpcInv
    BY IpcInvInit
  <1>2. Names \in [User -> EnvId \cup {None}]
    BY <1>1, EnvsNamed, SlotFacts DEF IpcInv, AllNamed, IdOf, Names
  <1>3. unheard = {} /\ \A e \in User : ~recving[e] /\ pendTo[e] = None /\ value[e] = None
    BY SlotFacts DEF IpcInit
  <1>4. /\ Offers = [e \in User |-> None] /\ Listening = {}
        /\ Mailboxes = [e \in User |-> None]
    BY <1>3 DEF Offers, Listening, Mailboxes
  <1> QED
    BY <1>2, <1>4 DEF Abstract!Init

LEMMA RendezvousNext ==
    ASSUME AsLibrary, IpcInv, [IpcNext]_vars
    PROVE  [Abstract!Next]_(Abstract!rvVars)
  <1>1. IpcInv' /\ (Event \/ UNCHANGED vars)
    BY IpcInvStep
  <1>2. CASE UNCHANGED vars
    BY <1>2 DEF vars, envVars, ipcVars, Names, Offers, Listening, Mailboxes, Alive,
                Abstract!rvVars
  <1>3. CASE Quiet
    BY <1>1, <1>3, QuietRefines DEF Abstract!Next
  <1>4. CASE \E e \in User : Birth(e) \/ Listened(e)
    BY <1>1, <1>4, BirthRefines, ListenedRefines DEF Abstract!Next
  <1>5. CASE \E a, b \in User : Taken(a, b)
    BY <1>1, <1>5, TakenRefines DEF Abstract!Next
  <1>6. CASE \E a, b \in User, v \in Value : Delivered(a, b, v) \/ Enqueued(a, b, v)
    BY <1>1, <1>6, DeliveredRefines, EnqueuedRefines DEF Abstract!Next
  <1>7. CASE \E a \in User, v \in Value : Unheard(a, v)
    BY <1>1, <1>7, UnheardRefines DEF Abstract!Next
  <1> QED
    BY <1>1, <1>2, <1>3, <1>4, <1>5, <1>6, <1>7 DEF Event

(* Scheduled and interrupted as they are, by any number of CPUs, the two   *)
(* calls implement Rendezvous.                                             *)
THEOREM IpcImplementsRendezvous == ASSUME AsLibrary PROVE IpcSpec => ImplementsRendezvous
  <1>1. IpcInv /\ [IpcNext]_vars => [Abstract!Next]_(Abstract!rvVars)
    BY RendezvousNext
  <1> QED
    BY <1>1, RendezvousInit, IpcInvariant, PTL DEF IpcSpec, ImplementsRendezvous, Abstract!Spec

-----------------------------------------------------------------------------
(* The fields that only say what a page does.                              *)
PageTypes == dstva \in [Slot -> BOOLEAN] /\ pendPage \in [Slot -> BOOLEAN]

LEMMA PageTypesStep ==
    ASSUME IpcInv, PageTypes, [IpcNext]_vars
    PROVE  PageTypes'
  <1>1. CASE UNCHANGED <<dstva, pendPage>>
    BY <1>1 DEF PageTypes
  <1>2. ASSUME NEW c \in CPU, NEW g, NEW page \in PageArgs, SysIpcRecv(c, g, page)
        PROVE  PageTypes'
    <2>1. page \in BOOLEAN /\ UNCHANGED pendPage
          /\ dstva' = [dstva EXCEPT ![curenv[c]] = @ \/ page]
      BY <1>2, IpcAssumption DEF SysIpcRecv, AskFor, RecvFails, Take, Listen
    <2>2. [dstva EXCEPT ![curenv[c]] = @ \/ page] \in [Slot -> BOOLEAN]
      BY <2>1 DEF PageTypes
    <2> QED
      BY <2>1, <2>2 DEF PageTypes
  <1>3. ASSUME NEW c \in CPU, NEW g, NEW page \in PageArgs, NEW to, NEW v,
               SysIpcTrySend(c, g, to, v, page)
        PROVE  PageTypes'
    <2>1. page \in BOOLEAN /\ UNCHANGED dstva
          /\ \/ UNCHANGED pendPage
             \/ pendPage' = [pendPage EXCEPT ![curenv[c]] = @ /\ recving[Named(c, to)]]
             \/ pendPage' = [pendPage EXCEPT ![curenv[c]] = page]
      BY <1>3, IpcAssumption DEF SysIpcTrySend, SendFails, Deliver, Enqueue
    <2>2. /\ [pendPage EXCEPT ![curenv[c]] = @ /\ recving[Named(c, to)]] \in [Slot -> BOOLEAN]
          /\ [pendPage EXCEPT ![curenv[c]] = page] \in [Slot -> BOOLEAN]
      BY <2>1 DEF PageTypes
    <2> QED
      BY <2>1, <2>2 DEF PageTypes
  <1> QED
    BY <1>1, <1>2, <1>3 DEF IpcNext, IpcEntry, IpcReset, ipcVars, vars

(* The fields of the two calls always hold what they may.                  *)
THEOREM IpcTypesHold == ASSUME AsLibrary PROVE IpcSpec => []IpcTypeOK
  <1>1. IpcInit => PageTypes
    BY DEF IpcInit, PageTypes
  <1>2. IpcInv /\ PageTypes /\ [IpcNext]_vars => PageTypes'
    BY PageTypesStep
  <1>3. IpcInv /\ PageTypes => IpcTypeOK
    BY DEF IpcInv, IpcTypes, PageTypes, IpcTypeOK
  <1> QED
    BY <1>1, <1>2, <1>3, IpcInvariant, PTL DEF IpcSpec

-----------------------------------------------------------------------------
(* Destroyed environments. The scheduler takes no zombie.                  *)
LEMMA LeavingSpares ==
    ASSUME NEW c \in CPU, NEW k, Sound(k), Executing(k, CPU \ {c}),
           SchedYield(c, k) \/ Commit(k), NEW x \in Slot, k.status[x] = "DYING"
    PROVE  env_status'[x] = "DYING"
  <1>1. CASE SchedYield(c, k)
    BY <1>1, SchedYieldSound
  <1>2. CASE Commit(k)
    BY <1>2 DEF Commit
  <1> QED
    BY <1>1, <1>2

(* Nor do the two calls touch one, made by an environment that is none: who*)
(* is woken was asleep.                                                    *)
LEMMA FailsSpares ==
    ASSUME NEW c \in CPU, Calling(c), NEW g, Return(c, g, K),
           NEW x \in Slot, env_status[x] = "DYING"
    PROVE  env_status'[x] = "DYING"
  <1>1. Sound(K) /\ Executing(K, CPU \ {c}) /\ K.status[x] = "DYING"
    BY DEF Calling, Executing
  <1> QED
    BY <1>1, ReturnExits, LeavingSpares

LEMMA WakesSpares ==
    ASSUME NEW c \in CPU, Calling(c), NEW g, NEW e \in User,
           env_status[e] = "NOT_RUNNABLE",
           Return(c, g, [K EXCEPT !.status[e] = "RUNNABLE"]),
           NEW x \in Slot, env_status[x] = "DYING"
    PROVE  env_status'[x] = "DYING"
  <1> DEFINE k == [K EXCEPT !.status[e] = "RUNNABLE"]
  <1>1. /\ Sound(K) /\ Executing(K, CPU) /\ K.status[e] = "NOT_RUNNABLE"
        /\ K.status = env_status /\ e \in Slot
    BY SlotFacts DEF Calling
  <1>2. /\ Sound(k) /\ Executing(k, CPU)
        /\ k.status = [K.status EXCEPT ![e] = "RUNNABLE"]
    BY <1>1, WokenSound
  <1>3. SchedYield(c, k) \/ Commit(k)
    BY ReturnExits
  <1> HIDE DEF k
  <1>4. Executing(k, CPU \ {c}) /\ k.status[x] = "DYING"
    BY <1>1, <1>2 DEF Executing
  <1> QED
    BY <1>2, <1>3, <1>4, LeavingSpares

LEMMA SleepsSpares ==
    ASSUME NEW c \in CPU, Calling(c), NEW e \in User, curenv[c] = e,
           SchedYield(c, [K EXCEPT !.status[e] = "NOT_RUNNABLE"]),
           NEW x \in Slot, x # e, env_status[x] = "DYING"
    PROVE  env_status'[x] = "DYING"
  <1> DEFINE k == Slept(K, e)
  <1>1. /\ Sound(K) /\ Executing(K, CPU) /\ K.cur[c] = e
        /\ K.status = env_status /\ K.cur = curenv
    BY DEF Calling
  <1>2. /\ Sound(k) /\ Executing(k, CPU \ {c})
        /\ k.status = [K.status EXCEPT ![e] = "NOT_RUNNABLE"]
    BY ONLY c \in CPU, e \in User, <1>1, SleptSound, ZenonT(30)
  <1>3. SchedYield(c, k)
    BY DEF Slept
  <1> HIDE DEF k
  <1>4. k.status[x] = "DYING"
    BY <1>1, <1>2
  <1> QED
    BY <1>2, <1>3, <1>4, LeavingSpares

LEMMA SendSpares ==
    ASSUME IpcInv, NEW c \in CPU, NEW g, NEW to \in User \cup {None}, NEW v \in Value, NEW page,
           SysIpcTrySend(c, g, to, v, page), ~Zombie(c),
           NEW x \in Slot, env_status[x] = "DYING"
    PROVE  env_status'[x] = "DYING"
  <1>0. PICK e \in User : e = Named(c, to)
    BY DEF SysIpcTrySend, Named
  <1>1. InUser(c) /\ curenv[c] \in User /\ env_status[e] # "FREE" /\ x # curenv[c]
    BY <1>0 DEF SysIpcTrySend, Enter, Zombie
  <1>2. Calling(c) /\ e \in Slot
    BY <1>1, CallingFacts, SlotFacts DEF IpcInv
  <1>3. CASE SendFails(c, g, e, page)
    BY <1>2, <1>3, FailsSpares DEF SendFails
  <1>4. CASE Deliver(c, g, e, v)
    <2>1. env_status[e] = "NOT_RUNNABLE"
      BY <1>1, <1>2, <1>4 DEF Deliver, IpcInv, IpcTypes, SleepersWait, Alive
    <2> QED
      BY <1>2, <1>4, <2>1, WakesSpares DEF Deliver
  <1>5. CASE Enqueue(c, to, v, page)
    BY <1>1, <1>2, <1>5, SleepsSpares DEF Enqueue
  <1> QED
    BY <1>0, <1>3, <1>4, <1>5 DEF SysIpcTrySend

LEMMA RecvSpares ==
    ASSUME IpcInv, NEW c \in CPU, NEW g, NEW page, SysIpcRecv(c, g, page), ~Zombie(c),
           NEW x \in Slot, env_status[x] = "DYING"
    PROVE  env_status'[x] = "DYING"
  <1>1. InUser(c) /\ curenv[c] \in User /\ x # curenv[c]
    BY DEF SysIpcRecv, Enter, Zombie
  <1>2. Calling(c) /\ curenv[c] \in Slot /\ Alive(curenv[c])
    BY <1>1, CallingFacts, SlotFacts DEF IpcInv, Calling, Awake, Alive
  <1>3. CASE RecvFails(c, g, page)
    BY <1>2, <1>3, FailsSpares DEF RecvFails
  <1>4. CASE Take(c, g)
    <2>1. PICK a \in Slot : /\ a \in SendersTo(curenv[c])
                            /\ Return(c, g, [K EXCEPT !.status[a] = "RUNNABLE"])
      BY <1>4 DEF Take, FirstSender
    <2>2. a \in User /\ env_status[a] = "NOT_RUNNABLE"
      BY <1>2, <2>1, SenderAsleep
    <2> QED
      BY <1>2, <2>1, <2>2, WakesSpares
  <1>5. CASE Listen(c)
    BY <1>1, <1>2, <1>5, SleepsSpares DEF Listen
  <1> QED
    BY <1>3, <1>4, <1>5 DEF SysIpcRecv

(* A destroyed environment only ever becomes free: none of the calls that  *)
(* create, start, destroy and replace environments brings it back, and no  *)
(* message does, when all calls come in through trap(). (Through sysenter a*)
(* zombie can go to sleep in an IPC call, and is then woken by a message   *)
(* like any other environment: there the statement is false.)              *)
THEOREM IpcDyingIsFinal ==
    ASSUME AsLibrary, Gates = {"trap"}
    PROVE  IpcSpec => DyingIsFinal
  <1>1. IpcInv /\ [IpcNext]_vars =>
          [\A e \in Slot : env_status[e] = "DYING"
                              => env_status'[e] \in {"DYING", "FREE"}]_envVars
    <2> SUFFICES ASSUME IpcInv, IpcNext, NEW e \in Slot, env_status[e] = "DYING"
                 PROVE  env_status'[e] \in {"DYING", "FREE"}
      BY DEF vars
    <2>1. PICK c \in CPU : IpcEntry(c)
      BY DEF IpcNext
    <2>2. CASE Entry(c)
      <3>1. PICK d \in CPU : EntryOf(d)
        BY <2>2, NextIsEntry DEF Next, IpcInv
      <3>2. PICK k : Works(d, k) /\ Leaves(d, k)
        BY <3>1 DEF EntryOf
      <3>3. k.status[e] \in {"DYING", "FREE"}
        BY <3>2 DEF Works
      <3> QED
        BY <3>2, <3>3, LeavesLives
    <2>3. ASSUME NEW g \in Gates, NEW page,
                 \/ SysIpcRecv(c, g, page)
                 \/ \E to \in User \cup {None}, v \in Value : SysIpcTrySend(c, g, to, v, page)
          PROVE  env_status'[e] = "DYING"
      <3>1. ~Zombie(c)
        BY <2>3 DEF SysIpcRecv, SysIpcTrySend, Enter
      <3> QED
        BY <2>3, <3>1, SendSpares, RecvSpares
    <2> QED
      BY <2>1, <2>2, <2>3 DEF IpcEntry, OtherEntry, Entry
  <1> QED
    BY <1>1, IpcInvariant, PTL DEF IpcSpec, DyingIsFinal
=======================================================================
