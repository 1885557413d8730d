-------------------------- MODULE PmapProofs --------------------------
(***************************************************************************)
(* The theorems about Pmap, for any number of CPUs, environments, pages    *)
(* and addresses.                                                          *)
(*                                                                         *)
(* The invariant is about one kernel state k, so that it can be asked of   *)
(* the states inside an entry as well.  Its heart is Counted(k, h, q): the *)
(* count of a page is the number of cells that hold it, and the free list  *)
(* is the pages whose count is 0, save for the page h that page_alloc has  *)
(* just returned and the page q that page_insert has already counted.      *)
(* Each function of kern/pmap.c changes one cell (OneCell), and the lemma  *)
(* about it says what it does to h and q and to the other fields.          *)
(*                                                                         *)
(* Proper(k) is the rest: an environment that is freed has no memory, no   *)
(* two CPUs run the same environment, a TLB holds only what the page       *)
(* tables of its CPU's environment say, and a sleeping sender has mapped   *)
(* what it offers.  The last two hold because a page table is changed only *)
(* by the CPU that runs it or when nobody does, and the page table of a    *)
(* sleeping sender not at all: ~Foreign, what fork.c and spawn.c keep to.  *)
(*                                                                         *)
(* Every entry ends in a sound state k that is committed, perhaps after    *)
(* sched_yield (Ends); EndsInv draws the conclusions once for all.         *)
(***************************************************************************)
EXTENDS Pmap, FiniteSetTheorems, TLAPS

(* A kernel state.                                                         *)
KState ==
    [free : SUBSET Page, ref : [Page -> Int], dir : [Proc -> Page \cup {None}],
     tbl : [Proc -> [Pde -> Page \cup {None}]],
     pte : [Proc -> [Va -> Entry \cup {None}]],
     status : [Proc -> Status], parent : [Proc -> Proc \cup {None}],
     pending : [Proc -> Offer \cup {None}], dstva : [Proc -> Va \cup {None}],
     cur : [CPU -> Proc \cup {None}], tlb : [CPU -> SUBSET (Va \X Entry)]]

(* The cells that hold p.                                                  *)
Refs(k, p) == {r \in Proc \X Cell : Held(k, r[1], r[2]) = p}

(* The count of every page is the number of its references, plus one for   *)
(* the page q that the kernel is about to map; the pages that are not used *)
(* are the free ones and the page h it has just allocated.                 *)
Counted(k, h, q) ==
    \A p \in Page :
        /\ k.ref[p] = Cardinality(Refs(k, p)) + (IF p = q THEN 1 ELSE 0)
        /\ p \in k.free <=> k.ref[p] = 0 /\ p # h

(* A free slot has no memory.                                              *)
Empty(k) ==
    \A e \in Proc : k.status[e] = "FREE" =>
        /\ k.dir[e] = None
        /\ \A d \in Pde : k.tbl[e][d] = None
        /\ \A va \in Va : k.pte[e][va] = None

Fresh(k) == \A c \in CPU : k.tlb[c] \subseteq Translations(k, k.cur[c])

Alone(k) ==
    \A c, d \in CPU : k.cur[c] # None /\ k.cur[c] = k.cur[d] => c = d

Running(k, S) ==
    \A c \in S : k.cur[c] # None => k.status[k.cur[c]] \in {"READY", "DYING"}

Offered(k, a) ==
    \E va \in Va : /\ k.pte[a][va] # None
                   /\ k.pte[a][va].page = k.pending[a].page
                   /\ k.pending[a].perm = "W" => k.pte[a][va].perm = "W"

(* Those who sleep: what they sleep on is there.                           *)
Waiting(k) ==
    \A a \in Proc :
        /\ k.pending[a] # None => k.status[a] = "SEND" /\ Offered(k, a)
        /\ k.status[a] = "RECV" => k.dstva[a] # None

(* Everything but the counts.                                              *)
Proper(k) ==
    /\ k \in KState
    /\ Empty(k)
    /\ Fresh(k)
    /\ Alone(k)
    /\ Waiting(k)

Sound(k) == Proper(k) /\ Counted(k, None, None)

PmapInv == Sound(K) /\ Running(K, CPU) /\ panicked \in BOOLEAN

-----------------------------------------------------------------------------
(* References.                                                             *)
LEMMA Facts ==
    /\ None \notin Page /\ None \notin Proc /\ None \notin Va
    /\ None \notin Entry /\ None \notin Offer
    /\ "env_pgdir" \notin Va /\ "env_pgdir" \notin Pde
    /\ \A va \in Va : va \notin Pde /\ PDX[va] \in Pde
    /\ First \in Proc /\ FirstVa \in Va /\ "W" \in Perm
    /\ \A S \in SUBSET Page : NextPage(S) \subseteq S
  BY PmapAssumption DEF Pde

LEMMA CellsFinite == IsFiniteSet(Proc \X Cell)
  <1>1. IsFiniteSet(Va) /\ IsFiniteSet(Proc)
    BY PmapAssumption
  <1>2. IsFiniteSet(Pde)
    <2>1. [va \in Va |-> PDX[va]] \in Surjection(Va, Pde)
      BY DEF Surjection, Pde
    <2> QED
      BY <1>1, <2>1, FS_Surjection
  <1>3. IsFiniteSet(Va \cup Pde)
    BY <1>1, <1>2, FS_Union
  <1>4. IsFiniteSet(Cell)
    BY <1>3, FS_AddElement DEF Cell
  <1> QED
    BY <1>1, <1>4, FS_Product

LEMMA RefsFinite ==
    ASSUME NEW k, NEW p
    PROVE  /\ IsFiniteSet(Refs(k, p))
           /\ Cardinality(Refs(k, p)) \in Nat
           /\ Cardinality(Refs(k, p)) = 0 <=> Refs(k, p) = {}
  <1>1. Refs(k, p) \in SUBSET (Proc \X Cell)
    BY DEF Refs
  <1>2. IsFiniteSet(Refs(k, p))
    BY <1>1, CellsFinite, FS_Subset
  <1> QED
    BY <1>2, FS_CardinalityType, FS_EmptySet

(* j holds the same pages as k in all places but one.                      *)
Differ(k, j, e, x) ==
    \A r \in Proc \X Cell :
        r # <<e, x>> => Held(j, r[1], r[2]) = Held(k, r[1], r[2])

LEMMA OneCell ==
    ASSUME NEW k, NEW j, NEW e \in Proc, NEW x \in Cell, Differ(k, j, e, x), NEW p
    PROVE  Cardinality(Refs(j, p)) = Cardinality(Refs(k, p))
                + (IF Held(j, e, x) = p THEN 1 ELSE 0)
                - (IF Held(k, e, x) = p THEN 1 ELSE 0)
  <1> DEFINE r == <<e, x>>
  <1>1. r \in Proc \X Cell /\ r[1] = e /\ r[2] = x
    OBVIOUS
  <1>2. Refs(j, p) \ {r} = Refs(k, p) \ {r}
    BY DEF Refs, Differ
  <1>3. /\ r \in Refs(j, p) <=> Held(j, e, x) = p
        /\ r \in Refs(k, p) <=> Held(k, e, x) = p
    BY <1>1 DEF Refs
  <1> HIDE DEF r
  <1>4. /\ Cardinality(Refs(j, p) \ {r}) = IF r \in Refs(j, p)
              THEN Cardinality(Refs(j, p)) - 1 ELSE Cardinality(Refs(j, p))
        /\ Cardinality(Refs(k, p) \ {r}) = IF r \in Refs(k, p)
              THEN Cardinality(Refs(k, p)) - 1 ELSE Cardinality(Refs(k, p))
    BY RefsFinite, FS_RemoveElement
  <1>5. Cardinality(Refs(j, p)) \in Nat /\ Cardinality(Refs(k, p)) \in Nat
    BY RefsFinite
  <1> DEFINE a == Cardinality(Refs(j, p))
             b == Cardinality(Refs(k, p))
             inJ == Held(j, e, x) = p
             inK == Held(k, e, x) = p
  <1>6. (IF inJ THEN a - 1 ELSE a) = (IF inK THEN b - 1 ELSE b)
    BY <1>2, <1>3, <1>4
  <1>7. a \in Nat /\ b \in Nat
    BY <1>5
  <1> SUFFICES a = b + (IF inJ THEN 1 ELSE 0) - (IF inK THEN 1 ELSE 0)
    OBVIOUS
  <1> HIDE DEF a, b, inJ, inK
  <1> QED
    BY <1>6, <1>7

(* Which place an assignment to pte, pgtbl or pgdir changes.               *)
LEMMA PteDiffers ==
    ASSUME NEW k \in KState, NEW j, NEW e \in Proc, NEW va \in Va, NEW n,
           j.pte = [k.pte EXCEPT ![e][va] = n], j.tbl = k.tbl, j.dir = k.dir
    PROVE  /\ va \in Cell
           /\ Differ(k, j, e, va)
           /\ Held(j, e, va) = IF n = None THEN None ELSE n.page
           /\ Held(k, e, va) = IF k.pte[e][va] = None THEN None ELSE k.pte[e][va].page
  <1>1. \A x \in Proc, v \in Va :
           j.pte[x][v] = IF x = e /\ v = va THEN n ELSE k.pte[x][v]
    BY DEF KState
  <1> QED
    BY <1>1 DEF Differ, Held, Cell

LEMMA TblDiffers ==
    ASSUME NEW k \in KState, NEW j, NEW e \in Proc, NEW d \in Pde, NEW n,
           j.tbl = [k.tbl EXCEPT ![e][d] = n], j.pte = k.pte, j.dir = k.dir
    PROVE  /\ d \in Cell
           /\ Differ(k, j, e, d)
           /\ Held(j, e, d) = n
           /\ Held(k, e, d) = k.tbl[e][d]
  <1>1. \A x \in Proc, v \in Pde :
           j.tbl[x][v] = IF x = e /\ v = d THEN n ELSE k.tbl[x][v]
    BY DEF KState
  <1>2. d \notin Va
    BY Facts
  <1> QED
    BY <1>1, <1>2 DEF Differ, Held, Cell

LEMMA DirDiffers ==
    ASSUME NEW k \in KState, NEW j, NEW e \in Proc, NEW n,
           j.dir = [k.dir EXCEPT ![e] = n], j.pte = k.pte, j.tbl = k.tbl
    PROVE  /\ "env_pgdir" \in Cell
           /\ Differ(k, j, e, "env_pgdir")
           /\ Held(j, e, "env_pgdir") = n
           /\ Held(k, e, "env_pgdir") = k.dir[e]
  <1>1. \A x \in Proc : j.dir[x] = IF x = e THEN n ELSE k.dir[x]
    BY DEF KState
  <1> QED
    BY <1>1, Facts DEF Differ, Held, Cell

(* What holds nothing different is counted the same.                       *)
LEMMA SameRefs ==
    ASSUME NEW k, NEW j, j.pte = k.pte, j.tbl = k.tbl, j.dir = k.dir, NEW p
    PROVE  Refs(j, p) = Refs(k, p)
  BY DEF Refs, Held

-----------------------------------------------------------------------------
(* kern/pmap.c: what each function does to every field, and to the counts. *)
SameEnvs(k, j) ==
    /\ j.status = k.status /\ j.parent = k.parent
    /\ j.pending = k.pending /\ j.dstva = k.dstva /\ j.cur = k.cur

LEMMA PageAllocFacts ==
    ASSUME NEW k \in KState, Counted(k, None, None), NEW p \in k.free
    PROVE  LET a == PageAlloc(k, p)
           IN /\ a \in KState /\ Counted(a, p, None) /\ p \in Page
              /\ a.free = k.free \ {p}
              /\ a.pte = k.pte /\ a.tbl = k.tbl /\ a.dir = k.dir
              /\ SameEnvs(k, a) /\ a.tlb = k.tlb
  <1> DEFINE a == PageAlloc(k, p)
  <1>1. /\ a \in KState /\ p \in Page
        /\ a.free = k.free \ {p} /\ a.ref = k.ref
        /\ a.pte = k.pte /\ a.tbl = k.tbl /\ a.dir = k.dir
        /\ SameEnvs(k, a) /\ a.tlb = k.tlb
    BY DEF PageAlloc, KState, SameEnvs
  <1> HIDE DEF a
  <1>2. \A x : Refs(a, x) = Refs(k, x)
    BY <1>1, SameRefs
  <1>3. Counted(a, p, None)
    BY <1>1, <1>2, Facts DEF Counted
  <1> QED
    BY <1>1, <1>3 DEF a

(* page_free of the page just allocated undoes it.                         *)
LEMMA PageFreeFacts ==
    ASSUME NEW k \in KState, NEW p \in k.free
    PROVE  PageFree(PageAlloc(k, p), p) = k
  <1>1. (k.free \ {p}) \cup {p} = k.free
    OBVIOUS
  <1> QED
    BY <1>1 DEF PageFree, PageAlloc, KState

LEMMA PgdirWalkFacts ==
    ASSUME NEW k \in KState, NEW h, NEW q, Counted(k, h, q),
           NEW e \in Proc, NEW va \in Va, NEW t \in TablePages(k, e, va)
    PROVE  LET w == PgdirWalk(k, e, va, t)
           IN /\ w \in KState /\ Counted(w, h, q)
              /\ w.free \subseteq k.free
              /\ w.pte = k.pte /\ w.dir = k.dir
              /\ \A x \in Proc \ {e} : w.tbl[x] = k.tbl[x]
              /\ SameEnvs(k, w) /\ w.tlb = k.tlb
  <1> DEFINE w == PgdirWalk(k, e, va, t)
  <1>1. CASE ~NeedsTable(k, e, va)
    BY <1>1 DEF PgdirWalk, SameEnvs
  <1>2. CASE NeedsTable(k, e, va)
    <2>1. t \in k.free /\ t \in Page /\ PDX[va] \in Pde /\ t # None
      <3>1. NextPage(k.free) \subseteq k.free /\ k.free \subseteq Page
        BY Facts DEF KState
      <3> QED
        BY <1>2, <3>1, Facts DEF TablePages
    <2>2. k.tbl[e][PDX[va]] = None
      BY <1>2 DEF NeedsTable
    <2> DEFINE d == PDX[va]
               tbl == [k.tbl EXCEPT ![e][d] = t]
               ref == [k.ref EXCEPT ![t] = @ + 1]
    <2>3. tbl \in [Proc -> [Pde -> Page \cup {None}]] /\ ref \in [Page -> Int]
      BY <2>1 DEF KState
    <2>4. w = [k EXCEPT !.free = @ \ {t}, !.ref = ref, !.tbl = tbl]
      BY <1>2 DEF PgdirWalk, PageAlloc, KState
    <2>5. \A x \in Proc \ {e} : tbl[x] = k.tbl[x]
      BY DEF KState
    <2>6. \A p \in Page : ref[p] = k.ref[p] + (IF p = t THEN 1 ELSE 0)
      BY <2>1 DEF KState
    <2>7. d \in Pde /\ k.tbl[e][d] = None
      BY <2>1, <2>2
    <2> HIDE DEF d, ref, w
    <2>8. /\ w \in KState
          /\ w.free = k.free \ {t} /\ w.ref = ref /\ w.tbl = tbl
          /\ w.pte = k.pte /\ w.dir = k.dir
          /\ SameEnvs(k, w) /\ w.tlb = k.tlb
      <3> HIDE DEF tbl
      <3> QED
        BY <2>3, <2>4 DEF KState, SameEnvs
    <2>9. \A p \in Page : Cardinality(Refs(w, p)) =
              Cardinality(Refs(k, p)) + (IF p = t THEN 1 ELSE 0)
      <3> TAKE p \in Page
      <3>1. /\ d \in Cell /\ Differ(k, w, e, d)
            /\ Held(w, e, d) = t /\ Held(k, e, d) = None
        BY <2>7, <2>8, TblDiffers
      <3>2. Cardinality(Refs(w, p)) = Cardinality(Refs(k, p))
                + (IF Held(w, e, d) = p THEN 1 ELSE 0)
                - (IF Held(k, e, d) = p THEN 1 ELSE 0)
        BY <3>1, OneCell
      <3>3. Cardinality(Refs(k, p)) \in Nat /\ p # None
        BY RefsFinite, Facts
      <3> QED
        BY <3>1, <3>2, <3>3
    <2>10. Counted(w, h, q)
      <3> SUFFICES ASSUME NEW p \in Page
                   PROVE  /\ w.ref[p] = Cardinality(Refs(w, p)) + (IF p = q THEN 1 ELSE 0)
                          /\ p \in w.free <=> w.ref[p] = 0 /\ p # h
        BY DEF Counted
      <3>1. /\ k.ref[p] = Cardinality(Refs(k, p)) + (IF p = q THEN 1 ELSE 0)
            /\ p \in k.free <=> k.ref[p] = 0 /\ p # h
            /\ k.ref[t] = 0
        BY <2>1 DEF Counted
      <3>2. Cardinality(Refs(k, p)) \in Nat
        BY RefsFinite
      <3>3. w.ref[p] = Cardinality(Refs(w, p)) + (IF p = q THEN 1 ELSE 0)
        <4> DEFINE C == Cardinality(Refs(k, p))
        <4>1. C \in Nat /\ k.ref[p] = C + (IF p = q THEN 1 ELSE 0)
          BY <3>1, <3>2
        <4>2. Cardinality(Refs(w, p)) = C + (IF p = t THEN 1 ELSE 0)
          BY <2>9
        <4>3. w.ref[p] = k.ref[p] + (IF p = t THEN 1 ELSE 0)
          BY <2>6, <2>8
        <4> HIDE DEF C
        <4> QED
          BY <4>1, <4>2, <4>3
      <3>4. p \in w.free <=> w.ref[p] = 0 /\ p # h
        <4>1. CASE p = t
          BY <2>6, <2>8, <3>1, <4>1
        <4>2. CASE p # t
          <5>1. w.ref[p] = k.ref[p]
            BY <2>6, <2>8, <4>2 DEF KState
          <5> QED
            BY <2>8, <3>1, <4>2, <5>1
        <4> QED
          BY <4>1, <4>2
      <3> QED
        BY <3>3, <3>4
    <2>11. \A x \in Proc \ {e} : w.tbl[x] = k.tbl[x]
      BY <2>5, <2>8
    <2> QED
      BY <2>8, <2>10, <2>11 DEF w
  <1> QED
    BY <1>1, <1>2

(* The TLB after page_remove and page_insert: no trace of va is left on a  *)
(* CPU in the address space, when something was mapped there.              *)
Invalidated(c, k, e, va) ==
    IF k.pte[e][va] # None /\ k.cur[c] \in {None, e}
    THEN [k.tlb EXCEPT ![c] = {m \in @ : m[1] # va}] ELSE k.tlb

LEMMA PageRemoveFacts ==
    ASSUME NEW k \in KState, NEW q, Counted(k, None, q), NEW c \in CPU,
           NEW e \in Proc, NEW va \in Va
    PROVE  LET r == PageRemove(c, k, e, va)
           IN /\ r \in KState /\ Counted(r, None, q)
              /\ r.pte = [k.pte EXCEPT ![e][va] = None]
              /\ r.tbl = k.tbl /\ r.dir = k.dir
              /\ SameEnvs(k, r) /\ r.tlb = Invalidated(c, k, e, va)
  <1> DEFINE r == PageRemove(c, k, e, va)
             pte2 == [k.pte EXCEPT ![e][va] = None]
  <1>1. CASE k.pte[e][va] = None
    <2>1. pte2 = k.pte
      BY <1>1 DEF KState
    <2> QED
      BY <1>1, <2>1 DEF PageRemove, SameEnvs, Invalidated
  <1>2. CASE k.pte[e][va] # None
    <2> DEFINE p == k.pte[e][va].page
               ref == [k.ref EXCEPT ![p] = @ - 1]
               free1 == IF k.ref[p] = 1 THEN k.free \cup {p} ELSE k.free
               d == PageDecref(k, p)
               s == [d EXCEPT !.pte[e][va] = None]
    <2>1. p \in Page
      BY <1>2 DEF KState, Entry
    <2>2. /\ pte2 \in [Proc -> [Va -> Entry \cup {None}]]
          /\ ref \in [Page -> Int]
          /\ free1 \subseteq Page
          /\ Invalidated(c, k, e, va) \in [CPU -> SUBSET (Va \X Entry)]
      BY <2>1 DEF KState, Invalidated
    <2>3. s = [k EXCEPT !.ref = ref, !.free = free1, !.pte = pte2]
      BY DEF PageDecref, KState
    <2>4. r = [s EXCEPT !.tlb = Invalidated(c, k, e, va)]
      <3>1. r = TlbInvalidate(c, s, e, va)
        BY <1>2 DEF PageRemove
      <3>2. s.cur = k.cur /\ s.tlb = k.tlb
        BY <2>3 DEF KState
      <3>3. s = [s EXCEPT !.tlb = k.tlb]
        BY <2>3 DEF KState
      <3> HIDE DEF s, r
      <3> QED
        BY <1>2, <3>1, <3>2, <3>3 DEF TlbInvalidate, Invalidated
    <2>5. \A x \in Page : ref[x] = k.ref[x] - (IF x = p THEN 1 ELSE 0)
      BY <2>1 DEF KState
    <2> HIDE DEF r, s, ref, free1
    <2>6. /\ r \in KState
          /\ r.ref = ref /\ r.free = free1 /\ r.pte = pte2
          /\ r.tbl = k.tbl /\ r.dir = k.dir
          /\ SameEnvs(k, r) /\ r.tlb = Invalidated(c, k, e, va)
      <3> HIDE DEF pte2
      <3> QED
        BY <2>2, <2>3, <2>4 DEF KState, SameEnvs
    <2>7. /\ va \in Cell /\ Differ(k, r, e, va)
          /\ Held(r, e, va) = None /\ Held(k, e, va) = p
      BY <1>2, <2>6, PteDiffers
    <2> HIDE DEF p
    <2>8. \A x \in Page : Cardinality(Refs(r, x)) =
              Cardinality(Refs(k, x)) - (IF x = p THEN 1 ELSE 0)
      <3> TAKE x \in Page
      <3>1. Cardinality(Refs(r, x)) = Cardinality(Refs(k, x))
                + (IF Held(r, e, va) = x THEN 1 ELSE 0)
                - (IF Held(k, e, va) = x THEN 1 ELSE 0)
        BY <2>7, OneCell
      <3>2. Cardinality(Refs(k, x)) \in Nat /\ x # None
        BY RefsFinite, Facts
      <3> QED
        BY <2>7, <3>1, <3>2
    <2>9. Counted(r, None, q)
      <3> SUFFICES ASSUME NEW x \in Page
                   PROVE  /\ r.ref[x] = Cardinality(Refs(r, x)) + (IF x = q THEN 1 ELSE 0)
                          /\ x \in r.free <=> r.ref[x] = 0 /\ x # None
        BY DEF Counted
      <3> DEFINE C == Cardinality(Refs(k, x))
                 B == Cardinality(Refs(r, x))
      <3>1. /\ k.ref[x] = C + (IF x = q THEN 1 ELSE 0)
            /\ x \in k.free <=> k.ref[x] = 0 /\ x # None
        BY DEF Counted
      <3>2. C \in Nat /\ B \in Nat /\ B = C - (IF x = p THEN 1 ELSE 0)
        BY <2>8, RefsFinite
      <3>3. r.ref[x] = k.ref[x] - (IF x = p THEN 1 ELSE 0)
        BY <2>5, <2>6
      <3>4. x # None
        BY Facts
      <3>5. x \in r.free <=> (x \in k.free \/ (x = p /\ k.ref[x] = 1))
        BY <2>1, <2>6 DEF free1
      <3>6. k.ref[x] \in Int
        BY DEF KState
      <3> HIDE DEF C, B
      <3>7. r.ref[x] = B + (IF x = q THEN 1 ELSE 0)
        BY <3>1, <3>2, <3>3
      <3>8. x = p => k.ref[x] >= 1
        BY <3>1, <3>2
      <3>9. x \in r.free <=> r.ref[x] = 0 /\ x # None
        BY <3>1, <3>3, <3>4, <3>5, <3>6, <3>8
      <3> QED
        BY <3>7, <3>9 DEF B
    <2> QED
      BY <2>6, <2>9 DEF r
  <1> QED
    BY <1>1, <1>2

LEMMA PageInsertFacts ==
    ASSUME NEW k \in KState, NEW h, Counted(k, h, None), NEW c \in CPU,
           NEW e \in Proc, NEW va \in Va, NEW t \in TablePages(k, e, va),
           NEW m \in Entry, h = m.page \/ (h = None /\ m.page \notin k.free)
    PROVE  LET i == PageInsert(c, k, e, va, m, t)
           IN /\ i \in KState /\ Counted(i, None, None)
              /\ i.pte = [k.pte EXCEPT ![e][va] = m]
              /\ i.dir = k.dir
              /\ \A x \in Proc \ {e} : i.tbl[x] = k.tbl[x]
              /\ SameEnvs(k, i) /\ i.tlb = Invalidated(c, k, e, va)
  <1> DEFINE g == PgdirWalk(k, e, va, t)
             ref == [g.ref EXCEPT ![m.page] = @ + 1]
             w == [g EXCEPT !.ref[m.page] = @ + 1]
             r == PageRemove(c, w, e, va)
             i == PageInsert(c, k, e, va, m, t)
             pte2 == [r.pte EXCEPT ![e][va] = m]
  <1>1. /\ g \in KState /\ Counted(g, h, None)
        /\ g.free \subseteq k.free
        /\ g.pte = k.pte /\ g.dir = k.dir
        /\ \A x \in Proc \ {e} : g.tbl[x] = k.tbl[x]
        /\ SameEnvs(k, g) /\ g.tlb = k.tlb
    BY PgdirWalkFacts
  <1>2. m.page \in Page /\ m # None
    BY Facts DEF Entry
  <1>3. i = [r EXCEPT !.pte[e][va] = m]
    BY DEF PageInsert
  <1> HIDE DEF g, i
  <1>4. /\ w \in KState /\ w.ref = ref /\ w.free = g.free
        /\ w.pte = k.pte /\ w.tbl = g.tbl /\ w.dir = k.dir
        /\ SameEnvs(k, w) /\ w.tlb = k.tlb
    <2>1. ref \in [Page -> Int] /\ w = [g EXCEPT !.ref = ref]
      BY <1>1, <1>2 DEF KState
    <2> HIDE DEF ref, w
    <2> QED
      BY <1>1, <2>1 DEF KState, SameEnvs
  <1>5. \A x \in Page : ref[x] = g.ref[x] + (IF x = m.page THEN 1 ELSE 0)
    BY <1>1, <1>2 DEF KState
  <1> HIDE DEF w, ref
  <1>6. Counted(w, None, m.page)
    <2> SUFFICES ASSUME NEW x \in Page
                 PROVE  /\ w.ref[x] = Cardinality(Refs(w, x)) + (IF x = m.page THEN 1 ELSE 0)
                        /\ x \in w.free <=> w.ref[x] = 0 /\ x # None
      BY DEF Counted
    <2>1. Refs(w, x) = Refs(g, x)
      BY <1>1, <1>4, SameRefs
    <2>2. x # None
      BY Facts
    <2>3. /\ g.ref[x] = Cardinality(Refs(g, x)) + 0
          /\ x \in g.free <=> g.ref[x] = 0 /\ x # h
      BY <1>1, <2>2 DEF Counted
    <2>4. Cardinality(Refs(g, x)) \in Nat
      BY RefsFinite
    <2>5. w.ref[x] = g.ref[x] + (IF x = m.page THEN 1 ELSE 0)
      BY <1>4, <1>5
    <2>6. x = m.page => x \notin g.free
      BY <1>1, <2>3
    <2> DEFINE C == Cardinality(Refs(g, x))
    <2>7. C \in Nat /\ g.ref[x] = C + 0
      BY <2>3, <2>4
    <2>8. w.ref[x] = Cardinality(Refs(w, x)) + (IF x = m.page THEN 1 ELSE 0)
      <3>1. Cardinality(Refs(w, x)) = C
        BY <2>1
      <3> HIDE DEF C
      <3> QED
        BY <2>5, <2>7, <3>1
    <2> HIDE DEF C
    <2>9. x \in w.free <=> w.ref[x] = 0 /\ x # None
      <3>1. CASE x = m.page
        BY <1>4, <2>2, <2>5, <2>6, <2>7, <3>1
      <3>2. CASE x # m.page
        <4>1. x # h
          BY <2>2, <3>2
        <4> QED
          BY <1>4, <2>2, <2>3, <2>5, <2>7, <3>2, <4>1
      <3> QED
        BY <3>1, <3>2
    <2> QED
      BY <2>8, <2>9
  <1>7. /\ r \in KState /\ Counted(r, None, m.page)
        /\ r.pte = [w.pte EXCEPT ![e][va] = None]
        /\ r.tbl = w.tbl /\ r.dir = w.dir
        /\ SameEnvs(w, r) /\ r.tlb = Invalidated(c, w, e, va)
    BY <1>4, <1>6, PageRemoveFacts
  <1> HIDE DEF r
  <1>8. r.tlb = Invalidated(c, k, e, va)
    BY <1>4, <1>7 DEF Invalidated, SameEnvs
  <1>9. pte2 = [k.pte EXCEPT ![e][va] = m] /\ pte2 \in [Proc -> [Va -> Entry \cup {None}]]
    <2>1. r.pte = [k.pte EXCEPT ![e][va] = None]
      BY <1>4, <1>7
    <2>2. k.pte \in [Proc -> [Va -> Entry \cup {None}]]
      BY DEF KState
    <2>3. r.pte \in [Proc -> [Va -> Entry \cup {None}]]
      BY <2>1, <2>2
    <2>4. pte2 = [k.pte EXCEPT ![e][va] = m]
      BY <2>1, <2>2
    <2>5. pte2 \in [Proc -> [Va -> Entry \cup {None}]]
      BY <2>3
    <2> QED
      BY <2>4, <2>5
  <1>10. r.pte[e][va] = None
    <2>1. e \in DOMAIN w.pte /\ va \in DOMAIN w.pte[e]
      BY <1>4 DEF KState
    <2> QED
      BY <1>7, <2>1
  <1>11. /\ i \in KState /\ i.ref = r.ref /\ i.free = r.free
         /\ i.pte = pte2 /\ i.tbl = r.tbl /\ i.dir = r.dir
         /\ SameEnvs(r, i) /\ i.tlb = r.tlb
    BY <1>3, <1>7, <1>9 DEF KState, SameEnvs
  <1>12. /\ va \in Cell /\ Differ(r, i, e, va)
         /\ Held(i, e, va) = m.page /\ Held(r, e, va) = None
    <2>1. i.pte = [r.pte EXCEPT ![e][va] = m] /\ i.tbl = r.tbl /\ i.dir = r.dir
      BY <1>11
    <2>2. r \in KState
      BY <1>7
    <2>3. /\ va \in Cell /\ Differ(r, i, e, va)
          /\ Held(i, e, va) = IF m = None THEN None ELSE m.page
          /\ Held(r, e, va) = IF r.pte[e][va] = None THEN None ELSE r.pte[e][va].page
      BY ONLY <2>1, <2>2, e \in Proc, va \in Va, PteDiffers
    <2> QED
      BY <1>2, <1>10, <2>3
  <1>13. Counted(i, None, None)
    <2> SUFFICES ASSUME NEW x \in Page
                 PROVE  /\ i.ref[x] = Cardinality(Refs(i, x)) + (IF x = None THEN 1 ELSE 0)
                        /\ x \in i.free <=> i.ref[x] = 0 /\ x # None
      BY DEF Counted
    <2> DEFINE C == Cardinality(Refs(r, x))
               B == Cardinality(Refs(i, x))
    <2>1. x # None
      BY Facts
    <2>2. /\ r.ref[x] = C + (IF x = m.page THEN 1 ELSE 0)
          /\ x \in r.free <=> r.ref[x] = 0 /\ x # None
      BY <1>7 DEF Counted
    <2>3. B = C + (IF Held(i, e, va) = x THEN 1 ELSE 0)
                - (IF Held(r, e, va) = x THEN 1 ELSE 0)
      BY <1>12, OneCell
    <2>4. C \in Nat /\ B \in Nat
      BY RefsFinite
    <2> HIDE DEF C, B
    <2>5. i.ref[x] = B + (IF x = None THEN 1 ELSE 0)
      BY <1>11, <1>12, <2>1, <2>2, <2>3, <2>4
    <2> QED
      BY <1>11, <2>2, <2>5 DEF B
  <1> QED
    BY <1>1, <1>4, <1>7, <1>8, <1>9, <1>11, <1>13 DEF SameEnvs, i

-----------------------------------------------------------------------------
(* What the entries do to a proper state.                                  *)

(* One mapping of an environment that only this CPU may be running, and    *)
(* that does not sleep on a page of its own.                               *)
LEMMA OneMappingProper ==
    ASSUME NEW k, Proper(k), NEW i \in KState, NEW c \in CPU, NEW e \in Proc,
           NEW va \in Va, NEW n,
           k.status[e] \notin {"FREE", "SEND"}, \A d \in CPU \ {c} : k.cur[d] # e,
           i.pte = [k.pte EXCEPT ![e][va] = n], i.dir = k.dir,
           \A x \in Proc \ {e} : i.tbl[x] = k.tbl[x],
           SameEnvs(k, i), i.tlb = Invalidated(c, k, e, va)
    PROVE  Proper(i)
  <1>1. /\ k \in KState
        /\ i.status = k.status /\ i.pending = k.pending
        /\ i.dstva = k.dstva /\ i.cur = k.cur
    BY DEF Proper, SameEnvs
  <1>2. /\ \A x \in Proc \ {e} : i.pte[x] = k.pte[x]
        /\ \A v \in Va \ {va} : i.pte[e][v] = k.pte[e][v]
    BY <1>1 DEF KState
  <1>3. Empty(i)
    BY <1>1, <1>2 DEF Proper, Empty
  <1>4. Alone(i)
    BY <1>1 DEF Proper, Alone
  <1>5. Waiting(i)
    <2>1. ASSUME NEW a \in Proc, i.pending[a] # None
          PROVE  i.status[a] = "SEND" /\ Offered(i, a)
      <3>1. k.status[a] = "SEND" /\ Offered(k, a)
        BY <1>1, <2>1 DEF Proper, Waiting
      <3>2. i.pte[a] = k.pte[a]
        BY <1>2, <3>1
      <3> QED
        BY <1>1, <3>1, <3>2 DEF Offered
    <2>2. \A a \in Proc : i.status[a] = "RECV" => i.dstva[a] # None
      BY <1>1 DEF Proper, Waiting
    <2> QED
      BY <2>1, <2>2 DEF Waiting
  <1>6. Fresh(i)
    <2> SUFFICES ASSUME NEW d \in CPU, NEW m \in i.tlb[d]
                 PROVE  m \in Translations(i, i.cur[d])
      BY DEF Fresh
    <2>1. m \in k.tlb[d]
      BY <1>1 DEF Invalidated, KState
    <2>2. m \in Translations(k, k.cur[d])
      BY <2>1 DEF Proper, Fresh
    <2>3. k.cur[d] # None /\ k.cur[d] \in Proc
      BY <1>1, <2>2 DEF Translations, KState
    <2>4. PICK v \in Mapped(k, k.cur[d]) : m = <<v, k.pte[k.cur[d]][v]>>
      BY <2>2, <2>3 DEF Translations
    <2>5. v \in Va /\ k.pte[k.cur[d]][v] # None /\ m[1] = v
      BY <2>4 DEF Mapped
    <2>6. i.pte[k.cur[d]][v] = k.pte[k.cur[d]][v]
      <3>1. CASE k.cur[d] # e
        BY <1>2, <2>3, <3>1
      <3>2. CASE k.cur[d] = e
        <4>1. d = c
          BY <3>2
        <4>2. v # va
          <5> SUFFICES ASSUME v = va PROVE FALSE
            OBVIOUS
          <5>1. i.tlb = [k.tlb EXCEPT ![c] = {x \in @ : x[1] # va}]
            BY <2>5, <3>2, <4>1 DEF Invalidated
          <5>2. k.tlb \in [CPU -> SUBSET (Va \X Entry)]
            BY <1>1 DEF KState
          <5>3. i.tlb[c] = {x \in k.tlb[c] : x[1] # va}
            BY <5>1, <5>2
          <5> QED
            BY <2>5, <4>1, <5>3
        <4> QED
          BY <1>2, <2>5, <3>2, <4>2
      <3> QED
        BY <3>1, <3>2
    <2> QED
      BY <1>1, <2>3, <2>4, <2>5, <2>6 DEF Translations, Mapped
  <1> QED
    BY <1>3, <1>4, <1>5, <1>6 DEF Proper

(* page_insert, on a page the kernel has in hand or one in use.            *)
LEMMA InsertSound ==
    ASSUME NEW k, Proper(k), NEW h, Counted(k, h, None), NEW c \in CPU,
           NEW e \in Proc, NEW va \in Va, NEW t \in TablePages(k, e, va),
           NEW m \in Entry, h = m.page \/ (h = None /\ m.page \notin k.free),
           k.status[e] \notin {"FREE", "SEND"}, \A d \in CPU \ {c} : k.cur[d] # e
    PROVE  LET i == PageInsert(c, k, e, va, m, t)
           IN /\ Sound(i)
              /\ i.pte = [k.pte EXCEPT ![e][va] = m]
              /\ SameEnvs(k, i)
  <1> DEFINE i == PageInsert(c, k, e, va, m, t)
  <1>1. k \in KState
    BY DEF Proper
  <1>2. /\ i \in KState /\ Counted(i, None, None)
        /\ i.pte = [k.pte EXCEPT ![e][va] = m]
        /\ i.dir = k.dir
        /\ \A x \in Proc \ {e} : i.tbl[x] = k.tbl[x]
        /\ SameEnvs(k, i) /\ i.tlb = Invalidated(c, k, e, va)
    BY <1>1, PageInsertFacts
  <1> HIDE DEF i
  <1>3. Proper(i)
    BY <1>2, OneMappingProper
  <1> QED
    BY <1>2, <1>3 DEF Sound, i

LEMMA RemoveSound ==
    ASSUME NEW k, Sound(k), NEW c \in CPU, NEW e \in Proc, NEW va \in Va,
           k.status[e] \notin {"FREE", "SEND"}, \A d \in CPU \ {c} : k.cur[d] # e
    PROVE  LET r == PageRemove(c, k, e, va)
           IN /\ Sound(r)
              /\ r.pte = [k.pte EXCEPT ![e][va] = None]
              /\ SameEnvs(k, r)
  <1> DEFINE r == PageRemove(c, k, e, va)
  <1>1. k \in KState /\ Counted(k, None, None) /\ Proper(k)
    BY DEF Sound, Proper
  <1>2. /\ r \in KState /\ Counted(r, None, None)
        /\ r.pte = [k.pte EXCEPT ![e][va] = None]
        /\ r.tbl = k.tbl /\ r.dir = k.dir
        /\ SameEnvs(k, r) /\ r.tlb = Invalidated(c, k, e, va)
    BY <1>1, PageRemoveFacts
  <1> HIDE DEF r
  <1>3. Proper(r)
    <2>1. \A x \in Proc \ {e} : r.tbl[x] = k.tbl[x]
      BY <1>2
    <2> QED
      BY <1>1, <1>2, <2>1, OneMappingProper
  <1> QED
    BY <1>2, <1>3 DEF Sound, r

(* A page that has just been allocated changes nothing else.               *)
LEMMA AllocProper ==
    ASSUME NEW k, Sound(k), NEW p \in k.free
    PROVE  LET a == PageAlloc(k, p)
           IN /\ Proper(a) /\ Counted(a, p, None) /\ p \in Page
              /\ a.free = k.free \ {p} /\ a.pte = k.pte
              /\ a.tbl = k.tbl /\ a.dir = k.dir
              /\ SameEnvs(k, a)
  <1> DEFINE a == PageAlloc(k, p)
  <1>1. k \in KState /\ Counted(k, None, None)
    BY DEF Sound, Proper
  <1>2. /\ a \in KState /\ Counted(a, p, None) /\ p \in Page
        /\ a.free = k.free \ {p}
        /\ a.pte = k.pte /\ a.tbl = k.tbl /\ a.dir = k.dir
        /\ SameEnvs(k, a) /\ a.tlb = k.tlb
    BY <1>1, PageAllocFacts
  <1> HIDE DEF a
  <1>3. Proper(a)
    BY <1>2 DEF Sound, Proper, SameEnvs, Empty, Fresh, Translations, Mapped, Alone,
                Waiting, Offered
  <1> QED
    BY <1>2, <1>3 DEF a

(* env_alloc: what it makes of k.                                          *)
Allocated(k, e, s, d, a) ==
    /\ Sound(a) /\ Running(a, CPU)
    /\ a.free = k.free \ {d} /\ a.pte = k.pte
    /\ a.cur = k.cur
    /\ a.status = [k.status EXCEPT ![e] = s]

LEMMA EnvAllocSound ==
    ASSUME NEW k, Sound(k), Running(k, CPU), NEW e \in Proc, k.status[e] = "FREE",
           NEW d \in k.free, NEW by \in Proc \cup {None}, NEW s \in {"NEW", "READY"}
    PROVE  Allocated(k, e, s, d, EnvAlloc(k, e, by, s, d))
  <1> DEFINE p == PageAlloc(k, d)
             a == EnvAlloc(k, e, by, s, d)
             ref == [p.ref EXCEPT ![d] = @ + 1]
             dir == [p.dir EXCEPT ![e] = d]
             status2 == [p.status EXCEPT ![e] = s]
             parent2 == [p.parent EXCEPT ![e] = by]
  <1>1. /\ Proper(p) /\ Counted(p, d, None) /\ d \in Page
        /\ p.free = k.free \ {d} /\ p.pte = k.pte
        /\ p.tbl = k.tbl /\ p.dir = k.dir
        /\ SameEnvs(k, p)
    BY AllocProper
  <1>2. a = [p EXCEPT !.ref[d] = @ + 1, !.dir[e] = d, !.status[e] = s, !.parent[e] = by]
    BY DEF EnvAlloc, EnvSetupVm
  <1> HIDE DEF p, a
  <1>3. p \in KState /\ p.status = k.status /\ p.cur = k.cur
    BY <1>1 DEF Proper, SameEnvs
  <1>4. /\ ref \in [Page -> Int]
        /\ dir \in [Proc -> Page \cup {None}]
        /\ status2 \in [Proc -> Status]
        /\ parent2 \in [Proc -> Proc \cup {None}]
    BY <1>1, <1>3 DEF KState, Status
  <1>5. a = [p EXCEPT !.ref = ref, !.dir = dir, !.status = status2, !.parent = parent2]
    BY <1>2, <1>3 DEF KState
  <1>6. \A x \in Page : ref[x] = p.ref[x] + (IF x = d THEN 1 ELSE 0)
    BY <1>1, <1>3 DEF KState
  <1>7. \A x \in Proc : status2[x] = IF x = e THEN s ELSE k.status[x]
    BY <1>3 DEF KState
  <1> HIDE DEF ref, status2, parent2
  <1>8. /\ a \in KState
        /\ a.ref = ref /\ a.dir = dir /\ a.status = status2
        /\ a.free = p.free /\ a.pte = p.pte /\ a.tbl = p.tbl
        /\ a.pending = p.pending /\ a.dstva = p.dstva
        /\ a.cur = p.cur /\ a.tlb = p.tlb
    <2> HIDE DEF dir
    <2> QED
      BY <1>3, <1>4, <1>5 DEF KState
  <1>9. k.dir[e] = None
    BY DEF Sound, Proper, Empty
  <1>10. Counted(a, None, None)
    <2>1. /\ "env_pgdir" \in Cell /\ Differ(p, a, e, "env_pgdir")
          /\ Held(a, e, "env_pgdir") = d
          /\ Held(p, e, "env_pgdir") = None
      <3>1. a.dir = [p.dir EXCEPT ![e] = d] /\ a.pte = p.pte /\ a.tbl = p.tbl
        BY <1>8
      <3> QED
        BY <1>1, <1>3, <1>9, <3>1, DirDiffers
    <2> SUFFICES ASSUME NEW x \in Page
                 PROVE  /\ a.ref[x] = Cardinality(Refs(a, x)) + (IF x = None THEN 1 ELSE 0)
                        /\ x \in a.free <=> a.ref[x] = 0 /\ x # None
      BY DEF Counted
    <2> DEFINE C == Cardinality(Refs(p, x))
               B == Cardinality(Refs(a, x))
    <2>2. x # None
      BY Facts
    <2>3. /\ p.ref[x] = C + (IF x = None THEN 1 ELSE 0)
          /\ x \in p.free <=> p.ref[x] = 0 /\ x # d
      BY <1>1 DEF Counted
    <2>4. B = C + (IF Held(a, e, "env_pgdir") = x THEN 1 ELSE 0)
                - (IF Held(p, e, "env_pgdir") = x THEN 1 ELSE 0)
      BY <2>1, OneCell
    <2>5. C \in Nat /\ B \in Nat
      BY RefsFinite
    <2> HIDE DEF C, B
    <2>6. a.ref[x] = B + (IF x = None THEN 1 ELSE 0)
      BY <1>6, <1>8, <2>1, <2>2, <2>3, <2>4, <2>5
    <2>7. x \in a.free <=> a.ref[x] = 0 /\ x # None
      BY <1>6, <1>8, <2>2, <2>3, <2>5
    <2> QED
      BY <2>6, <2>7 DEF B
  <1>11. Empty(a)
    <2>1. \A x \in Proc \ {e} : a.dir[x] = p.dir[x]
      BY <1>3, <1>8 DEF KState
    <2> QED
      BY <1>1, <1>3, <1>7, <1>8, <2>1 DEF Proper, Empty
  <1>12. Fresh(a) /\ Alone(a)
    BY <1>1, <1>8 DEF Proper, Fresh, Translations, Mapped, Alone
  <1>13. Waiting(a)
    <2>1. p.status[e] = "FREE"
      BY <1>3
    <2> QED
      BY <1>1, <1>3, <1>7, <1>8, <2>1 DEF Proper, Waiting, Offered
  <1>14. Running(a, CPU)
    <2> SUFFICES ASSUME NEW x \in CPU, k.cur[x] # None
                 PROVE  a.status[k.cur[x]] \in {"READY", "DYING"}
      BY <1>3, <1>8 DEF Running
    <2>1. k.cur[x] \in Proc /\ k.status[k.cur[x]] \in {"READY", "DYING"}
      BY <1>3 DEF Running, KState
    <2> QED
      BY <1>7, <1>8, <2>1
  <1>15. a.status = [k.status EXCEPT ![e] = s] /\ a.cur = k.cur
    BY <1>3, <1>8 DEF status2
  <1> QED
    BY <1>1, <1>8, <1>10, <1>11, <1>12, <1>13, <1>14, <1>15 DEF Proper, Sound, Allocated, a

(* env_free: every place of e gives up its reference, and there is one     *)
(* count for each.                                                         *)
LEMMA UsesFacts ==
    ASSUME NEW k, NEW e \in Proc, NEW p
    PROVE  /\ Uses(k, e, p) \in Nat
           /\ Uses(k, e, p) = Cardinality({r \in Refs(k, p) : r[1] = e})
  <1> DEFINE U == {x \in Cell : Held(k, e, x) = p}
             R == {r \in Refs(k, p) : r[1] = e}
             f == [x \in U |-> <<e, x>>]
  <1>1. IsFiniteSet(R)
    <2>1. R \in SUBSET Refs(k, p)
      OBVIOUS
    <2> QED
      BY <2>1, RefsFinite, FS_Subset
  <1>2. \A r \in R : r = <<e, r[2]>> /\ r[2] \in U
    BY DEF Refs
  <1>3. \A x \in U : <<e, x>> \in R
    BY DEF Refs
  <1> HIDE DEF U, R
  <1>4. f \in Injection(U, R) /\ f \in Surjection(U, R)
    BY <1>2, <1>3 DEF Injection, Surjection, IsInjective
  <1>5. IsFiniteSet(U) /\ Cardinality(U) = Cardinality(R)
    BY <1>1, <1>4, FS_Injection
  <1> QED
    BY <1>5, FS_CardinalityType DEF U, R, Uses

Freed(c, k, e, f) ==
    /\ Sound(f)
    /\ f.status = [k.status EXCEPT ![e] = "FREE"]
    /\ f.cur = [k.cur EXCEPT ![c] = IF @ = e THEN None ELSE @]
    /\ \A x \in Proc \ {e} : f.pte[x] = k.pte[x]
    /\ \A va \in Va : f.pte[e][va] = None

LEMMA EnvFreeSound ==
    ASSUME NEW k, Sound(k), NEW c \in CPU, NEW e \in Proc,
           \A d \in CPU \ {c} : k.cur[d] # e
    PROVE  Freed(c, k, e, EnvFree(c, k, e))
  <1> DEFINE f == EnvFree(c, k, e)
             ref == Unused(k, e)
             free2 == k.free \cup {p \in Page : Uses(k, e, p) > 0 /\ ref[p] = 0}
             dir == [k.dir EXCEPT ![e] = None]
             tbl == [k.tbl EXCEPT ![e] = [d \in Pde |-> None]]
             pte2 == [k.pte EXCEPT ![e] = [va \in Va |-> None]]
             status2 == [k.status EXCEPT ![e] = "FREE"]
             parent2 == [x \in Proc |-> IF x = e \/ k.parent[x] = e THEN None
                                                                 ELSE k.parent[x]]
             pending2 == [x \in Proc |-> IF x = e THEN None
                                              ELSE WithoutId(k.pending[x], e)]
             dstva2 == [k.dstva EXCEPT ![e] = None]
             cur == [k.cur EXCEPT ![c] = IF @ = e THEN None ELSE @]
             tlb2 == [k.tlb EXCEPT ![c] = IF k.cur[c] = e THEN {} ELSE @]
  <1>1. /\ k \in KState /\ Counted(k, None, None)
        /\ Empty(k) /\ Fresh(k) /\ Alone(k) /\ Waiting(k)
    BY DEF Sound, Proper
  <1>2. f = [k EXCEPT !.ref = ref, !.free = free2, !.dir = dir, !.tbl = tbl,
                      !.pte = pte2, !.status = status2, !.parent = parent2,
                      !.pending = pending2, !.dstva = dstva2, !.cur = cur,
                      !.tlb = tlb2]
    <2>1. /\ k.parent \in [Proc -> Proc \cup {None}]
          /\ k.pending \in [Proc -> Offer \cup {None}]
      BY <1>1 DEF KState
    <2> QED
      BY DEF EnvFree
  <1>3. /\ ref \in [Page -> Int] /\ free2 \subseteq Page
        /\ \A p \in Page : ref[p] = k.ref[p] - Uses(k, e, p)
    <2>1. \A p \in Page : Uses(k, e, p) \in Nat
      <3> TAKE p \in Page
      <3> QED
        BY UsesFacts
    <2> QED
      BY <1>1, <2>1 DEF KState, Unused
  <1>4. /\ dir \in [Proc -> Page \cup {None}]
        /\ tbl \in [Proc -> [Pde -> Page \cup {None}]]
        /\ pte2 \in [Proc -> [Va -> Entry \cup {None}]]
        /\ status2 \in [Proc -> Status]
        /\ parent2 \in [Proc -> Proc \cup {None}]
        /\ dstva2 \in [Proc -> Va \cup {None}]
        /\ cur \in [CPU -> Proc \cup {None}]
        /\ tlb2 \in [CPU -> SUBSET (Va \X Entry)]
    BY <1>1 DEF KState, Status
  <1>5. /\ pending2 \in [Proc -> Offer \cup {None}]
        /\ \A x \in Proc : pending2[x] # None =>
              /\ x # e /\ k.pending[x] # None
              /\ pending2[x].page = k.pending[x].page
              /\ pending2[x].perm = k.pending[x].perm
    <2> SUFFICES ASSUME NEW x \in Proc
                 PROVE  LET o == WithoutId(k.pending[x], e)
                        IN /\ o \in Offer \cup {None}
                           /\ o # None => /\ k.pending[x] # None
                                          /\ o.page = k.pending[x].page
                                          /\ o.perm = k.pending[x].perm
      OBVIOUS
    <2>1. k.pending[x] \in Offer \cup {None}
      BY <1>1 DEF KState
    <2> QED
      BY <2>1 DEF Offer, WithoutId
  <1>6. /\ \A x \in Proc : dir[x] = IF x = e THEN None ELSE k.dir[x]
        /\ \A x \in Proc \ {e} : tbl[x] = k.tbl[x] /\ pte2[x] = k.pte[x]
        /\ \A d \in Pde : tbl[e][d] = None
        /\ \A va \in Va : pte2[e][va] = None
        /\ \A x \in Proc : status2[x] = IF x = e THEN "FREE" ELSE k.status[x]
        /\ \A x \in Proc \ {e} : dstva2[x] = k.dstva[x]
    BY <1>1 DEF KState
  <1>7. /\ cur[c] = IF k.cur[c] = e THEN None ELSE k.cur[c]
        /\ k.cur[c] = e => tlb2[c] = {}
        /\ k.cur[c] # e => tlb2[c] = k.tlb[c]
        /\ \A d \in CPU \ {c} : cur[d] = k.cur[d] /\ tlb2[d] = k.tlb[d]
    BY <1>1 DEF KState
  <1> HIDE DEF f, ref, free2, dir, tbl, pte2, parent2, pending2, dstva2, tlb2
  <1>8. /\ f \in KState
        /\ f.ref = ref /\ f.free = free2 /\ f.dir = dir /\ f.tbl = tbl
        /\ f.pte = pte2 /\ f.status = status2 /\ f.pending = pending2
        /\ f.dstva = dstva2 /\ f.cur = cur /\ f.tlb = tlb2
    <2> HIDE DEF status2, cur
    <2> QED
      BY <1>1, <1>2, <1>3, <1>4, <1>5 DEF KState
  <1>9. Counted(f, None, None)
    <2> SUFFICES ASSUME NEW p \in Page
                 PROVE  /\ f.ref[p] = Cardinality(Refs(f, p)) + (IF p = None THEN 1 ELSE 0)
                        /\ p \in f.free <=> f.ref[p] = 0 /\ p # None
      BY DEF Counted
    <2> DEFINE C == Cardinality(Refs(k, p))
               B == Cardinality(Refs(f, p))
               U == Uses(k, e, p)
               R == {r \in Refs(k, p) : r[1] = e}
    <2>1. p # None
      BY Facts
    <2>2. /\ k.ref[p] = C + (IF p = None THEN 1 ELSE 0)
          /\ p \in k.free <=> k.ref[p] = 0 /\ p # None
      BY <1>1 DEF Counted
    <2>3. Refs(f, p) = Refs(k, p) \ R
      <3>1. \A x \in Cell : Held(f, e, x) = None
        BY <1>6, <1>8 DEF Held, Cell
      <3>2. \A y \in Proc \ {e} : \A x \in Cell : Held(f, y, x) = Held(k, y, x)
        BY <1>6, <1>8 DEF Held
      <3> QED
        BY <2>1, <3>1, <3>2 DEF Refs
    <2>4. B = C - U
      <3>1. Refs(k, p) \cap R = R
        OBVIOUS
      <3>2. Cardinality(Refs(k, p) \ R) = C - Cardinality(Refs(k, p) \cap R)
        BY RefsFinite, FS_Difference
      <3>3. Cardinality(R) = U
        BY UsesFacts
      <3> QED
        BY <2>3, <3>1, <3>2, <3>3
    <2>5. C \in Nat /\ B \in Nat /\ U \in Nat
      BY RefsFinite, UsesFacts
    <2>6. f.ref[p] = k.ref[p] - U
      BY <1>3, <1>8
    <2>7. p \in f.free <=> p \in k.free \/ (U > 0 /\ f.ref[p] = 0)
      BY <1>8 DEF free2
    <2> HIDE DEF C, B, U, R
    <2>8. f.ref[p] = B + (IF p = None THEN 1 ELSE 0)
      BY <2>1, <2>2, <2>4, <2>5, <2>6
    <2>9. p \in f.free <=> f.ref[p] = 0 /\ p # None
      BY <2>1, <2>2, <2>4, <2>5, <2>6, <2>7
    <2> QED
      BY <2>8, <2>9 DEF B
  <1>10. Empty(f)
    BY <1>1, <1>6, <1>8 DEF Empty
  <1>11. Alone(f)
    BY <1>1, <1>7, <1>8 DEF Alone
  <1>12. Waiting(f)
    <2> SUFFICES ASSUME NEW a \in Proc
                 PROVE  /\ pending2[a] # None => status2[a] = "SEND" /\ Offered(f, a)
                        /\ status2[a] = "RECV" => dstva2[a] # None
      BY <1>8 DEF Waiting
    <2>1. CASE a = e
      BY <1>5, <1>6, <2>1
    <2>2. CASE a # e
      <3>1. /\ k.pending[a] # None => k.status[a] = "SEND" /\ Offered(k, a)
            /\ k.status[a] = "RECV" => k.dstva[a] # None
        BY <1>1 DEF Waiting
      <3>2. status2[a] = k.status[a] /\ f.pte[a] = k.pte[a] /\ dstva2[a] = k.dstva[a]
        BY <1>6, <1>8, <2>2
      <3>3. pending2[a] # None => /\ k.pending[a] # None
                                 /\ f.pending[a].page = k.pending[a].page
                                 /\ f.pending[a].perm = k.pending[a].perm
        BY <1>5, <1>8
      <3> QED
        BY <3>1, <3>2, <3>3 DEF Offered
    <2> QED
      BY <2>1, <2>2
  <1>13. Fresh(f)
    <2> SUFFICES ASSUME NEW d \in CPU PROVE tlb2[d] \subseteq Translations(f, cur[d])
      BY <1>8 DEF Fresh
    <2>1. k.tlb[d] \subseteq Translations(k, k.cur[d])
      BY <1>1 DEF Fresh
    <2>2. CASE k.cur[d] = e
      BY <1>7, <2>2
    <2>3. CASE k.cur[d] # e
      <3>1. cur[d] = k.cur[d] /\ tlb2[d] = k.tlb[d]
        BY <1>7, <2>3
      <3>2. k.cur[d] \in Proc => f.pte[k.cur[d]] = k.pte[k.cur[d]]
        BY <1>6, <1>8, <2>3
      <3>3. k.cur[d] \in Proc \cup {None}
        BY <1>1 DEF KState
      <3> QED
        BY <2>1, <3>1, <3>2, <3>3 DEF Translations, Mapped
    <2> QED
      BY <2>2, <2>3
  <1> QED
    BY <1>6, <1>8, <1>9, <1>10, <1>11, <1>12, <1>13 DEF Sound, Proper, Freed, f

(* exec_commit: the address spaces of a and b are exchanged.               *)
LEMMA SwapSound ==
    ASSUME NEW k, Sound(k), NEW c \in CPU, NEW a \in Proc, NEW b \in Proc, a # b,
           k.cur[c] = a, k.status[a] \notin {"FREE", "SEND"},
           k.status[b] \notin {"FREE", "SEND"},
           \A d \in CPU \ {c} : k.cur[d] \notin {a, b}
    PROVE  LET s == SwapPgdirs(c, k, a, b)
           IN /\ Sound(s)
              /\ s.status = k.status /\ s.cur = k.cur
              /\ s.pte[a] = k.pte[b] /\ s.pte[b] = k.pte[a]
              /\ \A x \in Proc \ {a, b} : s.pte[x] = k.pte[x]
  <1> DEFINE s == SwapPgdirs(c, k, a, b)
             dir == [k.dir EXCEPT ![a] = k.dir[b], ![b] = k.dir[a]]
             tbl == [k.tbl EXCEPT ![a] = k.tbl[b], ![b] = k.tbl[a]]
             pte2 == [k.pte EXCEPT ![a] = k.pte[b], ![b] = k.pte[a]]
             tlb2 == [k.tlb EXCEPT ![c] = {}]
  <1>1. /\ k \in KState /\ Counted(k, None, None)
        /\ Empty(k) /\ Fresh(k) /\ Alone(k) /\ Waiting(k)
    BY DEF Sound, Proper
  <1>2. s = [k EXCEPT !.dir = dir, !.tbl = tbl, !.pte = pte2, !.tlb = tlb2]
    BY <1>1 DEF SwapPgdirs, KState
  <1>3. /\ dir \in [Proc -> Page \cup {None}]
        /\ tbl \in [Proc -> [Pde -> Page \cup {None}]]
        /\ pte2 \in [Proc -> [Va -> Entry \cup {None}]]
        /\ tlb2 \in [CPU -> SUBSET (Va \X Entry)]
    BY <1>1 DEF KState
  <1> DEFINE sw(x) == IF x = a THEN b ELSE IF x = b THEN a ELSE x
  <1>4. \A x \in Proc : /\ sw(x) \in Proc /\ sw(sw(x)) = x
                        /\ dir[x] = k.dir[sw(x)]
                        /\ tbl[x] = k.tbl[sw(x)]
                        /\ pte2[x] = k.pte[sw(x)]
    BY <1>1 DEF KState
  <1>5. tlb2[c] = {} /\ \A d \in CPU \ {c} : tlb2[d] = k.tlb[d]
    BY <1>1 DEF KState
  <1> HIDE DEF s, dir, tbl, pte2, tlb2
  <1>6. /\ s \in KState
        /\ s.dir = dir /\ s.tbl = tbl /\ s.pte = pte2 /\ s.tlb = tlb2
        /\ s.ref = k.ref /\ s.free = k.free
        /\ s.status = k.status /\ s.pending = k.pending /\ s.dstva = k.dstva
        /\ s.cur = k.cur
    BY <1>1, <1>2, <1>3 DEF KState
  <1>7. Counted(s, None, None)
    <2>1. ASSUME NEW p PROVE Cardinality(Refs(s, p)) = Cardinality(Refs(k, p))
      <3> DEFINE g == [r \in Refs(s, p) |-> <<sw(r[1]), r[2]>>]
      <3>1. \A r \in Proc \X Cell : Held(s, r[1], r[2]) = Held(k, sw(r[1]), r[2])
        BY <1>4, <1>6 DEF Held
      <3>2. \A r \in Refs(s, p) : g[r] \in Refs(k, p)
        BY <1>4, <3>1 DEF Refs
      <3>3. \A r \in Refs(k, p) : /\ <<sw(r[1]), r[2]>> \in Refs(s, p)
                                  /\ g[<<sw(r[1]), r[2]>>] = r
        BY <1>4, <3>1 DEF Refs
      <3>4. \A r, q \in Refs(s, p) : g[r] = g[q] => r = q
        BY <1>4 DEF Refs
      <3> HIDE DEF g, sw
      <3>5. g \in [Refs(s, p) -> Refs(k, p)]
        BY <3>2 DEF g
      <3>6. g \in Injection(Refs(s, p), Refs(k, p))
        BY <3>4, <3>5 DEF Injection, IsInjective
      <3>7. g \in Surjection(Refs(s, p), Refs(k, p))
        BY <3>3, <3>5 DEF Surjection
      <3> QED
        BY <3>6, <3>7, RefsFinite, FS_Injection
    <2> QED
      BY <1>1, <1>6, <2>1 DEF Counted
  <1>8. /\ s.pte[a] = k.pte[b] /\ s.pte[b] = k.pte[a]
        /\ \A x \in Proc \ {a, b} : s.pte[x] = k.pte[x] /\ s.dir[x] = k.dir[x]
                                    /\ s.tbl[x] = k.tbl[x]
    BY <1>4, <1>6
  <1> HIDE DEF sw
  <1>9. Empty(s) /\ Alone(s)
    BY <1>1, <1>6, <1>8 DEF Empty, Alone
  <1>10. Waiting(s)
    <2> SUFFICES ASSUME NEW x \in Proc, s.pending[x] # None
                 PROVE  s.status[x] = "SEND" /\ Offered(s, x)
      BY <1>1, <1>6 DEF Waiting
    <2>1. k.status[x] = "SEND" /\ Offered(k, x)
      BY <1>1, <1>6 DEF Waiting
    <2>2. x \in Proc \ {a, b}
      BY <2>1
    <2> QED
      BY <1>6, <1>8, <2>1, <2>2 DEF Offered
  <1>11. Fresh(s)
    <2> SUFFICES ASSUME NEW d \in CPU PROVE s.tlb[d] \subseteq Translations(s, s.cur[d])
      BY DEF Fresh
    <2>1. CASE d = c
      BY <1>5, <1>6, <2>1
    <2>2. CASE d # c
      <3>1. k.tlb[d] \subseteq Translations(k, k.cur[d])
        BY <1>1 DEF Fresh
      <3>2. k.cur[d] \in Proc => s.pte[k.cur[d]] = k.pte[k.cur[d]]
        BY <1>8, <2>2
      <3>3. k.cur[d] \in Proc \cup {None}
        BY <1>1 DEF KState
      <3> QED
        BY <1>5, <1>6, <2>2, <3>1, <3>2, <3>3 DEF Translations, Mapped
    <2> QED
      BY <2>1, <2>2
  <1> QED
    BY <1>6, <1>7, <1>8, <1>9, <1>10, <1>11 DEF Sound, Proper, s

-----------------------------------------------------------------------------
(* The two ways an entry ends.                                             *)

(* What Commit installs: k, with all that the TLBs may have loaded.        *)
Loaded(k) == [k EXCEPT !.tlb = [c \in CPU |-> k.tlb[c] \cup Translations(k, k.cur[c])]]

LEMMA CommitInstalls ==
    ASSUME NEW k, Sound(k), Commit(k)
    PROVE  /\ Sound(K') /\ K'.status = k.status /\ K'.cur = k.cur
           /\ pte' = k.pte /\ panicked' = panicked
  <1> DEFINE l == [c \in CPU |-> k.tlb[c] \cup Translations(k, k.cur[c])]
             j == [k EXCEPT !.tlb = l]
  <1>1. k \in KState
    BY DEF Sound, Proper
  <1>2. l \in [CPU -> SUBSET (Va \X Entry)]
    <2> SUFFICES ASSUME NEW c \in CPU
                 PROVE  k.tlb[c] \cup Translations(k, k.cur[c]) \subseteq Va \X Entry
      OBVIOUS
    <2>1. k.tlb[c] \subseteq Va \X Entry /\ k.cur[c] \in Proc \cup {None}
      BY <1>1 DEF KState
    <2>2. ASSUME k.cur[c] \in Proc, NEW va \in Mapped(k, k.cur[c])
          PROVE  va \in Va /\ k.pte[k.cur[c]][va] \in Entry
      BY <1>1, <2>2 DEF KState, Mapped
    <2> QED
      BY <2>1, <2>2 DEF Translations
  <1>3. \A c \in CPU : l[c] = k.tlb[c] \cup Translations(k, k.cur[c])
    OBVIOUS
  <1>4. K' = j
    <2>1. tlb' = l
      BY DEF Commit
    <2> HIDE DEF l
    <2>2. K' = [free |-> k.free, ref |-> k.ref, dir |-> k.dir, tbl |-> k.tbl,
                pte |-> k.pte, status |-> k.status, parent |-> k.parent,
                pending |-> k.pending, dstva |-> k.dstva, cur |-> k.cur, tlb |-> l]
      BY <2>1 DEF Commit, K
    <2>3. j = [free |-> k.free, ref |-> k.ref, dir |-> k.dir, tbl |-> k.tbl,
               pte |-> k.pte, status |-> k.status, parent |-> k.parent,
               pending |-> k.pending, dstva |-> k.dstva, cur |-> k.cur, tlb |-> l]
      <3>1. k = [free |-> k.free, ref |-> k.ref, dir |-> k.dir, tbl |-> k.tbl,
                 pte |-> k.pte, status |-> k.status, parent |-> k.parent,
                 pending |-> k.pending, dstva |-> k.dstva, cur |-> k.cur,
                 tlb |-> k.tlb]
        BY <1>1, Zenon DEF KState
      <3> HIDE DEF K
      <3> QED
        BY <3>1
    <2> QED
      BY <2>2, <2>3
  <1> HIDE DEF l
  <1>5. /\ j \in KState /\ j.tlb = l
        /\ j.pte = k.pte /\ j.tbl = k.tbl /\ j.dir = k.dir
        /\ j.ref = k.ref /\ j.free = k.free
        /\ SameEnvs(k, j)
    BY <1>1, <1>2 DEF KState, SameEnvs
  <1> HIDE DEF j
  <1>6. Counted(j, None, None)
    <2>1. \A p : Refs(j, p) = Refs(k, p)
      BY <1>5, SameRefs
    <2> QED
      BY <1>5, <2>1 DEF Sound, Counted
  <1>7. Empty(j) /\ Alone(j) /\ Waiting(j)
    BY <1>5 DEF Sound, Proper, Empty, Alone, Waiting, Offered, SameEnvs
  <1>8. Fresh(j)
    <2>1. \A e : Translations(j, e) = Translations(k, e)
      BY <1>5 DEF Translations, Mapped
    <2>2. \A c \in CPU : k.tlb[c] \subseteq Translations(k, k.cur[c]) /\ j.cur = k.cur
      BY <1>5 DEF Sound, Proper, Fresh, SameEnvs
    <2> QED
      BY <1>3, <1>5, <2>1, <2>2 DEF Fresh
  <1> QED
    BY <1>4, <1>5, <1>6, <1>7, <1>8 DEF Sound, Proper, SameEnvs, Commit

LEMMA EnvRunSound ==
    ASSUME NEW k, Sound(k), NEW c \in CPU, Running(k, CPU \ {c}),
           NEW e \in Chosen(c, k)
    PROVE  /\ Sound(EnvRun(c, k, e)) /\ Running(EnvRun(c, k, e), CPU)
           /\ EnvRun(c, k, e).pte = k.pte
  <1> DEFINE r == EnvRun(c, k, e)
  <1>1. /\ k \in KState /\ e \in Proc \cup {None}
        /\ e # None => k.status[e] = "READY"
        /\ e = k.cur[c] \/ e = None \/ \A d \in CPU : k.cur[d] # e
    BY DEF Sound, Proper, Chosen, Ready, KState
  <1>2. CASE k.cur[c] = e
    BY <1>1, <1>2 DEF EnvRun, Running
  <1>3. CASE k.cur[c] # e
    <2> DEFINE cur == [k.cur EXCEPT ![c] = e]
               tlb2 == [k.tlb EXCEPT ![c] = {}]
    <2>1. /\ cur \in [CPU -> Proc \cup {None}]
          /\ tlb2 \in [CPU -> SUBSET (Va \X Entry)]
          /\ cur[c] = e /\ tlb2[c] = {}
          /\ \A d \in CPU \ {c} : cur[d] = k.cur[d] /\ tlb2[d] = k.tlb[d]
      BY <1>1 DEF KState
    <2>2. r = [k EXCEPT !.cur = cur, !.tlb = tlb2]
      BY <1>3 DEF EnvRun
    <2> HIDE DEF r, cur, tlb2
    <2>3. /\ r \in KState /\ r.cur = cur /\ r.tlb = tlb2
          /\ r.pte = k.pte /\ r.tbl = k.tbl /\ r.dir = k.dir
          /\ r.ref = k.ref /\ r.free = k.free
          /\ r.status = k.status /\ r.pending = k.pending /\ r.dstva = k.dstva
      BY <1>1, <2>1, <2>2 DEF KState
    <2>4. Counted(r, None, None)
      <3>1. \A p : Refs(r, p) = Refs(k, p)
        BY <2>3, SameRefs
      <3> QED
        BY <2>3, <3>1 DEF Sound, Counted
    <2>5. Empty(r) /\ Waiting(r)
      BY <2>3 DEF Sound, Proper, Empty, Waiting, Offered
    <2>6. Alone(r)
      BY <1>1, <1>3, <2>1, <2>3 DEF Sound, Proper, Alone
    <2>7. Fresh(r)
      <3>1. \A x : Translations(r, x) = Translations(k, x)
        BY <2>3 DEF Translations, Mapped
      <3>2. \A d \in CPU : k.tlb[d] \subseteq Translations(k, k.cur[d])
        BY DEF Sound, Proper, Fresh
      <3> QED
        BY <2>1, <2>3, <3>1, <3>2 DEF Fresh
    <2>8. Running(r, CPU)
      BY <1>1, <2>1, <2>3 DEF Running
    <2> QED
      BY <2>3, <2>4, <2>5, <2>6, <2>7, <2>8 DEF Sound, Proper, r
  <1> QED
    BY <1>2, <1>3

(* The pages that can be written in k.                                     *)
WritersIn(k, p) ==
    {e \in Proc : \E va \in Va : k.pte[e][va] = [page |-> p, perm |-> "W"]}

(* The entry gives nobody write access out of nothing.                     *)
NoGain(k) == \A p \in Page \ free : Writers(p) = {} => WritersIn(k, p) = {}

(* An entry of CPU c turns K into k, and ends in one of two ways.          *)
Ends(c, k) ==
    /\ Sound(k) /\ NoGain(k)
    /\ \/ Running(k, CPU) /\ Commit(k)
       \/ Running(k, CPU \ {c}) /\ SchedYield(c, k)

LEMMA EndsInv ==
    ASSUME NEW c \in CPU, NEW k, Ends(c, k), panicked \in BOOLEAN
    PROVE  /\ PmapInv'
           /\ \A p \in Page \ free : Writers(p) = {} => Writers(p)' = {}
  <1>1. \E j : /\ Sound(j) /\ Running(j, CPU) /\ Commit(j) /\ j.pte = k.pte
    <2>1. CASE Running(k, CPU) /\ Commit(k)
      BY <2>1 DEF Ends
    <2>2. CASE Running(k, CPU \ {c}) /\ SchedYield(c, k)
      <3>1. PICK e \in Chosen(c, k) : Commit(EnvRun(c, k, e))
        BY <2>2 DEF SchedYield
      <3>2. Sound(k)
        BY DEF Ends
      <3>3. /\ Sound(EnvRun(c, k, e)) /\ Running(EnvRun(c, k, e), CPU)
            /\ EnvRun(c, k, e).pte = k.pte
        BY <2>2, <3>2, EnvRunSound
      <3> QED
        BY <3>1, <3>3
    <2> QED
      BY <2>1, <2>2 DEF Ends
  <1>2. PICK j : /\ Sound(j) /\ Running(j, CPU) /\ Commit(j) /\ j.pte = k.pte
    BY <1>1
  <1>3. /\ Sound(K') /\ K'.status = j.status /\ K'.cur = j.cur
        /\ pte' = k.pte /\ panicked' = panicked
    BY <1>2, CommitInstalls
  <1>4. PmapInv'
    BY <1>2, <1>3 DEF PmapInv, Running
  <1>5. \A p \in Page \ free : Writers(p) = {} => Writers(p)' = {}
    BY <1>3 DEF Ends, NoGain, WritersIn, Writers
  <1> QED
    BY <1>4, <1>5

-----------------------------------------------------------------------------
(* The entries.  Parents change only the memory of children that are not   *)
(* started (Foreign is FALSE), as lib/ does.                               *)

(* What an entry finds.                                                    *)
LEMMA Before ==
    ASSUME PmapInv
    PROVE  /\ Sound(K) /\ Proper(K) /\ K \in KState /\ Counted(K, None, None)
           /\ Running(K, CPU) /\ \A c \in CPU : Running(K, CPU \ {c})
           /\ K.free = free /\ K.pte = pte /\ K.status = status /\ K.cur = curenv
           /\ K.pending = pending /\ K.dstva = dstva
           /\ free \subseteq Page /\ NextPage(free) \subseteq free
  <1>1. Sound(K) /\ Proper(K) /\ K \in KState /\ Counted(K, None, None)
    BY DEF PmapInv, Sound, Proper
  <1>2. /\ K.free = free /\ K.pte = pte /\ K.status = status /\ K.cur = curenv
        /\ K.pending = pending /\ K.dstva = dstva
    BY DEF K
  <1>3. free \subseteq Page
    BY <1>1, <1>2 DEF KState
  <1>4. NextPage(free) \subseteq free
    BY <1>3, Facts
  <1> QED
    BY <1>1, <1>2, <1>3, <1>4 DEF PmapInv, Running

(* The caller, and whom it may change.                                     *)
LEMMA CallerFacts ==
    ASSUME PmapInv, NEW c \in CPU, Caller(c)
    PROVE  /\ curenv[c] \in Proc /\ K.status[curenv[c]] \in {"READY", "DYING"}
           /\ curenv[c] \in Managed(c)
           /\ \A d \in CPU \ {c} : K.cur[d] # curenv[c]
  <1>1. curenv[c] \in Proc /\ K.status[curenv[c]] \in {"READY", "DYING"}
    BY Before DEF Caller, KState
  <1> QED
    BY <1>1, Before, Facts DEF Proper, Alone, Managed

LEMMA ManagedFacts ==
    ASSUME PmapInv, ~Foreign, NEW c \in CPU, Caller(c), NEW e \in Managed(c)
    PROVE  /\ e \in Proc /\ K.status[e] \notin {"FREE", "SEND"}
           /\ \A d \in CPU \ {c} : K.cur[d] # e
  <1>1. CASE e = curenv[c]
    BY <1>1, CallerFacts
  <1>2. CASE e # curenv[c]
    <2>1. e \in Proc /\ K.status[e] = "NEW"
      BY <1>2, Before DEF Managed
    <2>2. \A d \in CPU : K.cur[d] # e
      BY <2>1, Before, Facts DEF Running
    <2> QED
      BY <2>1, <2>2
  <1> QED
    BY <1>1, <1>2

(* What is mapped is in use.                                               *)
LEMMA MappedInUse ==
    ASSUME NEW k, Sound(k), NEW x \in Proc, NEW va \in Va, k.pte[x][va] # None
    PROVE  k.pte[x][va] \in Entry /\ k.pte[x][va].page \in Page \ k.free
  <1> DEFINE p == k.pte[x][va].page
  <1>1. k.pte[x][va] \in Entry /\ p \in Page
    BY DEF Sound, Proper, KState, Entry
  <1>2. <<x, va>> \in Refs(k, p)
    BY DEF Refs, Held, Cell
  <1>3. Cardinality(Refs(k, p)) # 0 /\ Cardinality(Refs(k, p)) \in Nat
    BY <1>2, RefsFinite
  <1>4. /\ k.ref[p] = Cardinality(Refs(k, p)) + (IF p = None THEN 1 ELSE 0)
        /\ p \in k.free <=> k.ref[p] = 0 /\ p # None
    BY <1>1 DEF Sound, Counted
  <1> QED
    BY <1>1, <1>3, <1>4, Facts

(* A mapping that may be made: its page is new, or somebody writes it.     *)
Allowed(m) == m.perm = "W" => m.page \in free \/ Writers(m.page) # {}

LEMMA OneMappingNoGain ==
    ASSUME PmapInv, NEW k, NEW e \in Proc, NEW va \in Va, NEW m,
           k.pte = [K.pte EXCEPT ![e][va] = m],
           m = None \/ (m \in Entry /\ Allowed(m))
    PROVE  NoGain(k)
  <1> SUFFICES ASSUME NEW p \in Page \ free, NEW x \in Proc, NEW v \in Va,
                      k.pte[x][v] = [page |-> p, perm |-> "W"]
               PROVE  Writers(p) # {}
    BY DEF NoGain, WritersIn
  <1>1. k.pte[x][v] = IF x = e /\ v = va THEN m ELSE pte[x][v]
    BY Before DEF KState
  <1>2. CASE x = e /\ v = va
    <2>1. m.page = p /\ m.perm = "W" /\ m # None
      <3>1. [page |-> p, perm |-> "W"] \in Entry
        BY Facts DEF Entry
      <3> QED
        BY <1>1, <1>2, <3>1, Facts
    <2> QED
      BY <2>1 DEF Allowed
  <1>3. CASE ~(x = e /\ v = va)
    BY <1>1, <1>3 DEF Writers
  <1> QED
    BY <1>2, <1>3

LEMMA SamePteNoGain ==
    ASSUME PmapInv, NEW k, k.pte = K.pte
    PROVE  NoGain(k)
  BY Before DEF NoGain, WritersIn, Writers

LEMMA MayPassAllows ==
    ASSUME PmapInv, NEW e \in Proc, NEW va \in Va, NEW perm \in Perm,
           MayPass(e, va, perm)
    PROVE  LET m == [page |-> pte[e][va].page, perm |-> perm]
           IN m \in Entry /\ m.page \in Page \ free /\ Allowed(m)
  <1>1. pte[e][va] \in Entry /\ pte[e][va].page \in Page \ free
    BY Before, MappedInUse DEF MayPass
  <1>2. pte[e][va].perm = "W" => pte[e][va] = [page |-> pte[e][va].page, perm |-> "W"]
    BY <1>1 DEF Entry
  <1> QED
    BY <1>1, <1>2 DEF Allowed, Entry, MayPass, Writers

LEMMA TimerEnds ==
    ASSUME PmapInv, NEW c \in CPU, Timer(c)
    PROVE  \E k : Ends(c, k)
  BY Before, SamePteNoGain DEF Timer, Ends

LEMMA SysYieldEnds ==
    ASSUME PmapInv, NEW c \in CPU, SysYield(c)
    PROVE  \E k : Ends(c, k)
  BY Before, SamePteNoGain DEF SysYield, Ends

LEMMA FreeNoGain ==
    ASSUME PmapInv, NEW k, NEW e \in Proc,
           \A x \in Proc \ {e} : k.pte[x] = K.pte[x],
           \A va \in Va : k.pte[e][va] = None
    PROVE  NoGain(k)
  <1> SUFFICES ASSUME NEW p \in Page \ free, NEW x \in Proc, NEW v \in Va,
                      k.pte[x][v] = [page |-> p, perm |-> "W"]
               PROVE  Writers(p) # {}
    BY DEF NoGain, WritersIn
  <1>1. [page |-> p, perm |-> "W"] \in Entry
    BY Facts DEF Entry
  <1>2. x # e
    BY <1>1, Facts
  <1> QED
    BY <1>2, Before DEF Writers

LEMMA ReapEnds ==
    ASSUME PmapInv, NEW c \in CPU, Reap(c)
    PROVE  \E k : Ends(c, k)
  <1> DEFINE e == curenv[c]
             k == EnvFree(c, K, e)
  <1>1. e \in Proc /\ \A d \in CPU \ {c} : K.cur[d] # e
    BY Before, Facts DEF Reap, KState, Proper, Alone
  <1> HIDE DEF e
  <1>2. /\ Sound(k)
        /\ k.status = [K.status EXCEPT ![e] = "FREE"]
        /\ k.cur = [K.cur EXCEPT ![c] = IF @ = e THEN None ELSE @]
        /\ \A x \in Proc \ {e} : k.pte[x] = K.pte[x]
        /\ \A va \in Va : k.pte[e][va] = None
    BY <1>1, Before, EnvFreeSound DEF Freed
  <1> HIDE DEF k
  <1>3. NoGain(k)
    BY <1>1, <1>2, FreeNoGain
  <1>4. Running(k, CPU \ {c})
    BY <1>1, <1>2, Before DEF Running, KState
  <1>5. SchedYield(c, k)
    BY DEF Reap, k, e
  <1> QED
    BY <1>2, <1>3, <1>4, <1>5 DEF Ends

LEMMA SysPageAllocEnds ==
    ASSUME PmapInv, ~Foreign, NEW c \in CPU, NEW e \in Proc, NEW va \in Va,
           NEW perm \in Perm, SysPageAlloc(c, e, va, perm)
    PROVE  \E k : Ends(c, k)
  <1>1. Caller(c) /\ e \in Managed(c)
    BY DEF SysPageAlloc
  <1>2. PICK p \in NextPage(free) :
          \E t \in TablePages(PageAlloc(K, p), e, va) :
              Commit(PageInsert(c, PageAlloc(K, p), e, va, [page |-> p, perm |-> perm], t))
    BY DEF SysPageAlloc
  <1> DEFINE a == PageAlloc(K, p)
             m == [page |-> p, perm |-> perm]
  <1>3. PICK t \in TablePages(a, e, va) : Commit(PageInsert(c, a, e, va, m, t))
    BY <1>2
  <1>4. /\ Proper(a) /\ Counted(a, p, None) /\ p \in Page
        /\ a.pte = K.pte /\ SameEnvs(K, a) /\ p \in free
    BY Before, AllocProper
  <1> HIDE DEF a
  <1>5. m \in Entry /\ p = m.page /\ Allowed(m)
    BY <1>4 DEF Entry, Allowed
  <1> HIDE DEF m
  <1>6. a.status[e] \notin {"FREE", "SEND"} /\ \A d \in CPU \ {c} : a.cur[d] # e
    BY <1>1, <1>4, ManagedFacts DEF SameEnvs
  <1> DEFINE i == PageInsert(c, a, e, va, m, t)
  <1>7. Sound(i) /\ i.pte = [a.pte EXCEPT ![e][va] = m] /\ SameEnvs(a, i)
    BY <1>4, <1>5, <1>6, InsertSound
  <1>8. Commit(i)
    BY <1>3
  <1> HIDE DEF i
  <1>9. NoGain(i)
    BY <1>4, <1>5, <1>7, OneMappingNoGain
  <1>10. Running(i, CPU)
    BY <1>4, <1>7, Before DEF SameEnvs, Running
  <1> QED
    BY <1>7, <1>8, <1>9, <1>10 DEF Ends

LEMMA SysPageAllocFailsEnds ==
    ASSUME PmapInv, NEW c \in CPU, NEW e, NEW va, SysPageAllocFails(c, e, va)
    PROVE  \E k : Ends(c, k)
  <1>1. PICK p \in NextPage(free) : Commit(PageFree(PageAlloc(K, p), p))
    BY DEF SysPageAllocFails
  <1>2. PageFree(PageAlloc(K, p), p) = K
    BY Before, PageFreeFacts
  <1> QED
    BY <1>1, <1>2, Before, SamePteNoGain DEF Ends

(* A mapping of a page in use, as sys_page_map and IPC make it.            *)
LEMMA MapEnds ==
    ASSUME PmapInv, NEW c \in CPU, NEW e \in Proc, NEW va \in Va,
           NEW t \in TablePages(K, e, va), NEW m \in Entry, m.page \notin free,
           Allowed(m), K.status[e] \notin {"FREE", "SEND"},
           \A d \in CPU \ {c} : K.cur[d] # e
    PROVE  LET i == PageInsert(c, K, e, va, m, t)
           IN Sound(i) /\ NoGain(i) /\ SameEnvs(K, i)
  <1> DEFINE i == PageInsert(c, K, e, va, m, t)
  <1>1. Proper(K) /\ Counted(K, None, None) /\ K.free = free
    BY Before
  <1>2. Sound(i) /\ i.pte = [K.pte EXCEPT ![e][va] = m] /\ SameEnvs(K, i)
    BY <1>1, InsertSound
  <1> HIDE DEF i
  <1>3. NoGain(i)
    BY <1>2, OneMappingNoGain
  <1> QED
    BY <1>2, <1>3 DEF i

LEMMA SysPageMapEnds ==
    ASSUME PmapInv, ~Foreign, NEW c \in CPU, NEW s \in Proc, NEW sva \in Va,
           NEW e \in Proc, NEW va \in Va, NEW perm \in Perm,
           SysPageMap(c, s, sva, e, va, perm)
    PROVE  \E k : Ends(c, k)
  <1> DEFINE m == [page |-> pte[s][sva].page, perm |-> perm]
  <1>1. Caller(c) /\ e \in Managed(c) /\ MayPass(s, sva, perm)
    BY DEF SysPageMap
  <1>2. PICK t \in TablePages(K, e, va) : Commit(PageInsert(c, K, e, va, m, t))
    BY DEF SysPageMap
  <1>3. m \in Entry /\ m.page \in Page \ free /\ Allowed(m)
    BY <1>1, MayPassAllows
  <1> HIDE DEF m
  <1> DEFINE i == PageInsert(c, K, e, va, m, t)
  <1>4. K.status[e] \notin {"FREE", "SEND"} /\ \A d \in CPU \ {c} : K.cur[d] # e
    BY <1>1, ManagedFacts
  <1>5. Sound(i) /\ NoGain(i) /\ SameEnvs(K, i)
    BY <1>3, <1>4, MapEnds
  <1>6. Commit(i)
    BY <1>2
  <1> HIDE DEF i
  <1>7. Running(i, CPU)
    BY <1>5, Before DEF SameEnvs, Running
  <1> QED
    BY <1>5, <1>6, <1>7 DEF Ends

LEMMA SysPageUnmapEnds ==
    ASSUME PmapInv, ~Foreign, NEW c \in CPU, NEW e \in Proc, NEW va \in Va,
           SysPageUnmap(c, e, va)
    PROVE  \E k : Ends(c, k)
  <1> DEFINE r == PageRemove(c, K, e, va)
  <1>1. Caller(c) /\ e \in Managed(c) /\ Commit(r)
    BY DEF SysPageUnmap
  <1>2. K.status[e] \notin {"FREE", "SEND"} /\ \A d \in CPU \ {c} : K.cur[d] # e
    BY <1>1, ManagedFacts
  <1>3. Sound(r) /\ r.pte = [K.pte EXCEPT ![e][va] = None] /\ SameEnvs(K, r)
    BY <1>2, Before, RemoveSound
  <1> HIDE DEF r
  <1>4. NoGain(r)
    BY <1>3, OneMappingNoGain
  <1>5. Running(r, CPU)
    BY <1>3, Before DEF SameEnvs, Running
  <1> QED
    BY <1>1, <1>3, <1>4, <1>5 DEF Ends

LEMMA SysExoforkEnds ==
    ASSUME PmapInv, NEW c \in CPU, NEW e \in Proc, SysExofork(c, e)
    PROVE  \E k : Ends(c, k)
  <1>1. PICK d \in NextPage(free) : Commit(EnvAlloc(K, e, curenv[c], "NEW", d))
    BY DEF SysExofork
  <1>2. /\ curenv[c] \in Proc \cup {None} /\ K.status[e] = "FREE" /\ d \in K.free
        /\ Sound(K) /\ Running(K, CPU)
    BY Before, CallerFacts DEF SysExofork
  <1> DEFINE by == curenv[c]
             k == EnvAlloc(K, e, by, "NEW", d)
  <1> HIDE DEF by
  <1>3. by \in Proc \cup {None}
    BY <1>2 DEF by
  <1>4. Sound(k) /\ Running(k, CPU) /\ k.pte = K.pte
    <2>1. "NEW" \in {"NEW", "READY"}
      OBVIOUS
    <2>2. Allocated(K, e, "NEW", d, k)
      BY <1>2, <1>3, <2>1, EnvAllocSound
    <2> QED
      BY <2>2 DEF Allocated
  <1>5. Commit(k)
    BY <1>1 DEF by
  <1> HIDE DEF k
  <1>6. NoGain(k)
    BY <1>4, SamePteNoGain
  <1> QED
    BY <1>4, <1>5, <1>6 DEF Ends

LEMMA SysSbrkEnds ==
    ASSUME PmapInv, ~Foreign, NEW c \in CPU, NEW va \in Va, SysSbrk(c, va)
    PROVE  \E k : Ends(c, k)
  <1>1. SysPageAlloc(c, curenv[c], va, "W")
    BY DEF SysSbrk
  <1>2. Caller(c)
    BY <1>1 DEF SysPageAlloc
  <1>3. curenv[c] \in Proc /\ "W" \in Perm
    BY <1>2, CallerFacts, Facts
  <1> QED
    BY <1>1, <1>3, SysPageAllocEnds

(* A panic changes nothing else.                                           *)
LEMMA SbrkPanicsInv ==
    ASSUME PmapInv, NEW c \in CPU, NEW va \in Va, SbrkPanics(c, va)
    PROVE  PmapInv' /\ pte' = pte
  <1>1. /\ UNCHANGED <<free, pp_ref, pgdir, pgtbl, pte, status, parent, pending,
                       dstva, curenv, tlb>>
        /\ panicked' = TRUE
    BY DEF SbrkPanics
  <1>2. K' = K
    BY <1>1 DEF K
  <1>3. Sound(K') /\ Running(K', CPU)
    BY <1>2, Before
  <1> QED
    BY <1>1, <1>3 DEF PmapInv

(* Two kernel states with the same memory.                                 *)
SameMemory(k, j) ==
    /\ j.free = k.free /\ j.ref = k.ref
    /\ j.dir = k.dir /\ j.tbl = k.tbl /\ j.pte = k.pte
    /\ j.cur = k.cur /\ j.tlb = k.tlb

(* What only changes who sleeps on what keeps the memory sound.            *)
LEMMA LivesSound ==
    ASSUME NEW k, Sound(k), NEW j \in KState, SameMemory(k, j), Waiting(j),
           \A e \in Proc : j.status[e] = "FREE" => k.status[e] = "FREE"
    PROVE  Sound(j)
  <1>1. Counted(k, None, None) /\ Empty(k) /\ Fresh(k) /\ Alone(k)
    BY DEF Sound, Proper
  <1>2. Counted(j, None, None)
    <2>1. \A p : Refs(j, p) = Refs(k, p)
      BY SameRefs DEF SameMemory
    <2> QED
      BY <1>1, <2>1 DEF Counted, SameMemory
  <1>3. Empty(j) /\ Alone(j)
    BY <1>1 DEF Empty, Alone, SameMemory
  <1>4. Fresh(j)
    BY <1>1 DEF Fresh, Translations, Mapped, SameMemory
  <1> QED
    BY <1>2, <1>3, <1>4 DEF Sound, Proper

LEMMA SysEnvSetStatusEnds ==
    ASSUME PmapInv, NEW c \in CPU, NEW e \in Proc, SysEnvSetStatus(c, e)
    PROVE  \E k : Ends(c, k)
  <1> DEFINE st == [K.status EXCEPT ![e] = "READY"]
             j == [K EXCEPT !.status[e] = "READY"]
  <1>1. status[e] = "NEW" /\ Commit(j)
    BY DEF SysEnvSetStatus
  <1>2. /\ st \in [Proc -> Status]
        /\ \A x \in Proc : st[x] = IF x = e THEN "READY" ELSE K.status[x]
    BY Before DEF KState, Status
  <1>3. j = [K EXCEPT !.status = st]
    BY Before DEF KState
  <1> HIDE DEF j, st
  <1>4. j \in KState /\ j.status = st /\ SameMemory(K, j) /\ j.pending = K.pending
        /\ j.dstva = K.dstva
    <2>1. K \in KState
      BY Before
    <2> HIDE DEF K
    <2> QED
      BY <1>2, <1>3, <2>1 DEF KState, SameMemory
  <1>5. Waiting(K) /\ K.status[e] = "NEW"
    BY <1>1, Before DEF Proper
  <1>6. Waiting(j)
    BY <1>2, <1>4, <1>5 DEF Waiting, Offered, SameMemory
  <1>7. Sound(j)
    BY <1>2, <1>4, <1>6, Before, LivesSound
  <1>8. Running(j, CPU)
    BY <1>2, <1>4, Before DEF Running, KState, SameMemory
  <1>9. NoGain(j)
    BY <1>4, SamePteNoGain DEF SameMemory
  <1> QED
    BY <1>1, <1>7, <1>8, <1>9 DEF Ends

(* env_free of an environment that no other CPU runs.                      *)
LEMMA FreeEnds ==
    ASSUME PmapInv, NEW c \in CPU, NEW e \in Proc,
           \A d \in CPU \ {c} : K.cur[d] # e
    PROVE  LET f == EnvFree(c, K, e)
           IN /\ Sound(f) /\ NoGain(f) /\ Running(f, CPU \ {c})
              /\ K.cur[c] # e => Running(f, CPU)
  <1> DEFINE f == EnvFree(c, K, e)
  <1>1. /\ Sound(f)
        /\ f.status = [K.status EXCEPT ![e] = "FREE"]
        /\ f.cur = [K.cur EXCEPT ![c] = IF @ = e THEN None ELSE @]
        /\ \A x \in Proc \ {e} : f.pte[x] = K.pte[x]
        /\ \A va \in Va : f.pte[e][va] = None
    <2>1. Freed(c, K, e, f)
      BY Before, EnvFreeSound
    <2> QED
      BY <2>1 DEF Freed
  <1> HIDE DEF f
  <1>2. NoGain(f)
    BY <1>1, FreeNoGain
  <1>3. \A d \in CPU \ {c} : f.cur[d] = K.cur[d]
    BY <1>1, Before DEF KState
  <1>4. K.cur[c] # e => f.cur[c] = K.cur[c]
    BY <1>1, Before DEF KState
  <1>5. \A x \in Proc \ {e} : f.status[x] = K.status[x]
    BY <1>1, Before DEF KState
  <1>6. K \in KState /\ Running(K, CPU)
    BY Before
  <1>7. ASSUME NEW d \in CPU, K.cur[d] # e, f.cur[d] = K.cur[d], f.cur[d] # None
        PROVE  f.status[f.cur[d]] \in {"READY", "DYING"}
    <2>1. K.cur[d] \in Proc \ {e} /\ K.status[K.cur[d]] \in {"READY", "DYING"}
      BY <1>6, <1>7 DEF Running, KState
    <2> QED
      BY <1>5, <1>7, <2>1
  <1>8. Running(f, CPU \ {c})
    BY <1>3, <1>7 DEF Running
  <1>9. K.cur[c] # e => Running(f, CPU)
    BY <1>3, <1>4, <1>7 DEF Running
  <1> QED
    BY <1>1, <1>2, <1>8, <1>9 DEF f

LEMMA SysEnvDestroyEnds ==
    ASSUME PmapInv, NEW c \in CPU, NEW e \in Proc, SysEnvDestroy(c, e)
    PROVE  \E k : Ends(c, k)
  <1>1. Caller(c)
    BY DEF SysEnvDestroy
  <1>2. CASE e = curenv[c] /\ SchedYield(c, EnvFree(c, K, e))
    <2>1. \A d \in CPU \ {c} : K.cur[d] # e
      BY <1>1, <1>2, CallerFacts
    <2> QED
      BY <1>2, <2>1, FreeEnds DEF Ends
  <1>3. CASE /\ e # curenv[c] /\ \A d \in CPU : curenv[d] # e
             /\ Commit(EnvFree(c, K, e))
    <2>1. (\A d \in CPU \ {c} : K.cur[d] # e) /\ K.cur[c] # e
      BY <1>3, Before
    <2> QED
      BY <1>3, <2>1, FreeEnds DEF Ends
  <1>4. CASE /\ e # curenv[c] /\ \E d \in CPU : curenv[d] = e
             /\ K.status[e] \notin {"FREE", "DYING"}
             /\ Commit([K EXCEPT !.status[e] = "DYING"])
    <2> DEFINE st == [K.status EXCEPT ![e] = "DYING"]
               j == [K EXCEPT !.status[e] = "DYING"]
    <2>1. /\ st \in [Proc -> Status]
          /\ \A x \in Proc : st[x] = IF x = e THEN "DYING" ELSE K.status[x]
      BY Before DEF KState, Status
    <2>2. j = [K EXCEPT !.status = st]
      BY Before DEF KState
    <2> HIDE DEF j, st
    <2>3. j \in KState /\ j.status = st /\ SameMemory(K, j) /\ j.pending = K.pending
          /\ j.dstva = K.dstva
      <3>1. K \in KState
        BY Before
      <3> HIDE DEF K
      <3> QED
        BY <2>1, <2>2, <3>1 DEF KState, SameMemory
    <2>4. Waiting(K) /\ K.status[e] = "READY"
      BY <1>4, Before, Facts DEF Proper, Running
    <2>5. Waiting(j)
      BY <2>1, <2>3, <2>4 DEF Waiting, Offered, SameMemory
    <2>6. Sound(j)
      BY <2>1, <2>3, <2>5, Before, LivesSound
    <2>7. Running(j, CPU)
      BY <2>1, <2>3, Before DEF Running, KState, SameMemory
    <2>8. NoGain(j)
      BY <2>3, SamePteNoGain DEF SameMemory
    <2> QED
      BY <1>4, <2>6, <2>7, <2>8, j = [K EXCEPT !.status[e] = "DYING"] DEF Ends, j
  <1> QED
    BY <1>2, <1>3, <1>4, Before DEF SysEnvDestroy

(* The child's pages change hands; nothing is mapped anew.                 *)
LEMMA SysExecCommitEnds ==
    ASSUME PmapInv, NEW c \in CPU, NEW e \in Proc, SysExecCommit(c, e)
    PROVE  \E k : Ends(c, k)
  <1> DEFINE a == curenv[c]
             s == SwapPgdirs(c, K, a, e)
             f == EnvFree(c, s, e)
  <1>1. Caller(c) /\ K.status[e] = "NEW" /\ Commit(f)
    BY Before DEF SysExecCommit
  <1>2. a \in Proc /\ K.status[a] \in {"READY", "DYING"}
        /\ \A d \in CPU \ {c} : K.cur[d] # a
    BY <1>1, CallerFacts
  <1>3. K.cur[c] = a /\ a # e /\ \A d \in CPU : K.cur[d] # e
    BY <1>1, <1>2, Before, Facts DEF Running
  <1> HIDE DEF a
  <1>4. /\ Sound(s)
        /\ s.status = K.status /\ s.cur = K.cur
        /\ s.pte[a] = K.pte[e] /\ s.pte[e] = K.pte[a]
        /\ \A x \in Proc \ {a, e} : s.pte[x] = K.pte[x]
    <2>1. K.status[a] \notin {"FREE", "SEND"} /\ K.status[e] \notin {"FREE", "SEND"}
      BY <1>1, <1>2
    <2>2. \A d \in CPU \ {c} : K.cur[d] \notin {a, e}
      BY <1>2, <1>3
    <2> QED
      BY <1>2, <1>3, <2>1, <2>2, Before, SwapSound
  <1> HIDE DEF s
  <1>5. /\ Sound(f)
        /\ f.status = [s.status EXCEPT ![e] = "FREE"]
        /\ f.cur = [s.cur EXCEPT ![c] = IF @ = e THEN None ELSE @]
        /\ \A x \in Proc \ {e} : f.pte[x] = s.pte[x]
        /\ \A va \in Va : f.pte[e][va] = None
    <2>1. \A d \in CPU \ {c} : s.cur[d] # e
      BY <1>3, <1>4
    <2>2. Freed(c, s, e, f)
      BY <1>4, <2>1, EnvFreeSound
    <2> QED
      BY <2>2 DEF Freed
  <1> HIDE DEF f
  <1>6. Running(f, CPU)
    BY <1>3, <1>4, <1>5, Before DEF Running, KState
  <1>7. NoGain(f)
    <2> SUFFICES ASSUME NEW p \in Page \ free, NEW x \in Proc, NEW v \in Va,
                        f.pte[x][v] = [page |-> p, perm |-> "W"]
                 PROVE  Writers(p) # {}
      BY DEF NoGain, WritersIn
    <2>1. [page |-> p, perm |-> "W"] \in Entry
      BY Facts DEF Entry
    <2>2. x # e
      BY <1>5, <2>1, Facts
    <2>3. \E y \in Proc : pte[y][v] = [page |-> p, perm |-> "W"]
      BY <1>2, <1>4, <1>5, <2>2, Before
    <2> QED
      BY <2>3 DEF Writers
  <1> QED
    BY <1>1, <1>5, <1>6, <1>7 DEF Ends

-----------------------------------------------------------------------------
(* IPC                                                                     *)

(* One environment sleeps or wakes: only these three fields change.        *)
Edit(i, st, pd, dv) == [i EXCEPT !.status = st, !.pending = pd, !.dstva = dv]

LEMMA Edited ==
    ASSUME NEW i, i \in KState, NEW st, st \in [Proc -> Status],
           NEW pd, pd \in [Proc -> Offer \cup {None}],
           NEW dv, dv \in [Proc -> Va \cup {None}],
           NEW j, j = Edit(i, st, pd, dv)
    PROVE  /\ j \in KState /\ SameMemory(i, j)
           /\ j.status = st /\ j.pending = pd /\ j.dstva = dv
  BY DEF KState, SameMemory, Edit

(* What is offered is there to be mapped.                                  *)
LEMMA OfferedMayBeMapped ==
    ASSUME PmapInv, NEW a \in Proc, K.pending[a] # None
    PROVE  LET m == [page |-> pending[a].page, perm |-> pending[a].perm]
           IN /\ m \in Entry /\ m.page \notin free /\ Allowed(m)
              /\ K.status[a] = "SEND"
  <1> DEFINE m == [page |-> pending[a].page, perm |-> pending[a].perm]
  <1>1. K.status[a] = "SEND" /\ Offered(K, a)
    BY Before DEF Proper, Waiting
  <1>2. PICK va \in Va : /\ pte[a][va] # None
                         /\ pte[a][va].page = pending[a].page
                         /\ pending[a].perm = "W" => pte[a][va].perm = "W"
    BY <1>1, Before DEF Offered
  <1>3. pending[a] \in Offer
    BY Before DEF KState
  <1>4. m \in Entry /\ m.page = pending[a].page /\ m.perm = pending[a].perm
    BY <1>3 DEF Entry, Offer
  <1>5. pte[a][va] \in Entry /\ pte[a][va].page \in Page \ free
    BY <1>2, Before, MappedInUse
  <1> HIDE DEF m
  <1>6. m.perm = "W" => pte[a][va] = [page |-> m.page, perm |-> "W"]
    BY <1>2, <1>4, <1>5 DEF Entry
  <1>7. Allowed(m)
    BY <1>6 DEF Allowed, Writers
  <1> QED
    BY <1>1, <1>2, <1>4, <1>5, <1>7 DEF m

LEMMA EnqueueEnds ==
    ASSUME PmapInv, NEW c \in CPU, NEW e \in Proc, NEW va \in Va, NEW perm \in Perm,
           Caller(c), MayPass(curenv[c], va, perm),
           Enqueue(c, e, [page |-> pte[curenv[c]][va].page, perm |-> perm])
    PROVE  \E k : Ends(c, k)
  <1> DEFINE a == curenv[c]
             o == [to |-> e, page |-> pte[a][va].page, perm |-> perm]
             st == [K.status EXCEPT ![a] = "SEND"]
             pd == [K.pending EXCEPT ![a] = o]
             dv == K.dstva
             k == [K EXCEPT !.status[a] = "SEND", !.pending[a] = o]
             j == Edit(K, st, pd, dv)
  <1>1. /\ a \in Proc /\ K.status[a] \in {"READY", "DYING"}
        /\ \A d \in CPU \ {c} : K.cur[d] # a
        /\ K \in KState /\ Waiting(K)
    BY Before, CallerFacts DEF Proper
  <1>2. SchedYield(c, k)
    BY DEF Enqueue
  <1>3. pte[a][va] \in Entry /\ pte[a][va] # None /\ pte[a][va].page \in Page
        /\ (perm = "W" => pte[a][va].perm = "W")
    BY <1>1, Before, MappedInUse DEF MayPass
  <1>4. /\ o \in Offer /\ o.page = pte[a][va].page /\ o.perm = perm
    BY <1>3 DEF Offer
  <1>5. k = j
    <2> HIDE DEF o, a
    <2> QED
      BY <1>1 DEF KState, Edit
  <1> HIDE DEF o, a
  <1>6. /\ st \in [Proc -> Status] /\ pd \in [Proc -> Offer \cup {None}]
        /\ dv \in [Proc -> Va \cup {None}]
        /\ \A x \in Proc : /\ st[x] = IF x = a THEN "SEND" ELSE K.status[x]
                           /\ pd[x] = IF x = a THEN o ELSE K.pending[x]
    BY <1>1, <1>4 DEF KState, Status
  <1> HIDE DEF k, st, pd, dv
  <1>7. /\ j \in KState /\ SameMemory(K, j)
        /\ j.status = st /\ j.pending = pd /\ j.dstva = dv
    BY <1>1, <1>6, Edited DEF j
  <1> HIDE DEF j
  <1>8. Waiting(j)
    <2>1. ASSUME NEW x \in Proc, j.pending[x] # None
          PROVE  j.status[x] = "SEND" /\ Offered(j, x)
      <3>1. CASE x = a
        <4>1. j.status[x] = "SEND" /\ j.pending[x] = o /\ j.pte[x][va] = pte[a][va]
          BY <1>1, <1>6, <1>7, <3>1, Before DEF SameMemory
        <4> QED
          BY <1>3, <1>4, <4>1 DEF Offered
      <3>2. CASE x # a
        <4>1. j.pending[x] = K.pending[x] /\ j.status[x] = K.status[x] /\ j.pte = K.pte
          BY <1>6, <1>7, <3>2 DEF SameMemory
        <4> QED
          BY <1>1, <2>1, <4>1 DEF Waiting, Offered
      <3> QED
        BY <3>1, <3>2
    <2>2. \A x \in Proc : j.status[x] = "RECV" => j.dstva[x] # None
      BY <1>1, <1>6, <1>7 DEF Waiting, dv
    <2> QED
      BY <2>1, <2>2 DEF Waiting
  <1>9. Sound(j)
    BY <1>1, <1>6, <1>7, <1>8, Before, LivesSound
  <1>10. Running(j, CPU \ {c})
    BY <1>1, <1>6, <1>7, Before DEF Running, KState, SameMemory
  <1>11. NoGain(j)
    BY <1>7, SamePteNoGain DEF SameMemory
  <1> QED
    BY <1>2, <1>5, <1>9, <1>10, <1>11 DEF Ends

LEMMA ListenEnds ==
    ASSUME PmapInv, NEW c \in CPU, NEW va \in Va, Caller(c), Listen(c, va)
    PROVE  \E k : Ends(c, k)
  <1> DEFINE a == curenv[c]
             st == [K.status EXCEPT ![a] = "RECV"]
             pd == K.pending
             dv == [K.dstva EXCEPT ![a] = va]
             k == [K EXCEPT !.status[a] = "RECV", !.dstva[a] = va]
             j == Edit(K, st, pd, dv)
  <1>1. /\ a \in Proc /\ K.status[a] \in {"READY", "DYING"}
        /\ \A d \in CPU \ {c} : K.cur[d] # a
        /\ K \in KState /\ Waiting(K)
    BY Before, CallerFacts DEF Proper
  <1>2. SchedYield(c, k)
    BY DEF Listen
  <1>3. k = j
    <2> HIDE DEF a
    <2> QED
      BY <1>1 DEF KState, Edit
  <1> HIDE DEF a
  <1>4. /\ st \in [Proc -> Status] /\ pd \in [Proc -> Offer \cup {None}]
        /\ dv \in [Proc -> Va \cup {None}]
        /\ \A x \in Proc : /\ st[x] = IF x = a THEN "RECV" ELSE K.status[x]
                           /\ dv[x] = IF x = a THEN va ELSE K.dstva[x]
    BY <1>1 DEF KState, Status
  <1> HIDE DEF k, st, pd, dv
  <1>5. /\ j \in KState /\ SameMemory(K, j)
        /\ j.status = st /\ j.pending = pd /\ j.dstva = dv
    BY <1>1, <1>4, Edited DEF j
  <1> HIDE DEF j
  <1>6. Waiting(j)
    <2>1. ASSUME NEW x \in Proc, j.pending[x] # None
          PROVE  j.status[x] = "SEND" /\ Offered(j, x)
      <3>1. K.pending[x] # None /\ K.status[x] = "SEND" /\ Offered(K, x)
        BY <1>1, <1>5, <2>1 DEF Waiting, pd
      <3> QED
        BY <1>1, <1>4, <1>5, <3>1 DEF Offered, SameMemory, pd
    <2>2. \A x \in Proc : j.status[x] = "RECV" => j.dstva[x] # None
      BY <1>1, <1>4, <1>5, Facts DEF Waiting
    <2> QED
      BY <2>1, <2>2 DEF Waiting
  <1>7. Sound(j)
    BY <1>1, <1>4, <1>5, <1>6, Before, LivesSound
  <1>8. Running(j, CPU \ {c})
    BY <1>1, <1>4, <1>5, Before DEF Running, KState, SameMemory
  <1>9. NoGain(j)
    BY <1>5, SamePteNoGain DEF SameMemory
  <1> QED
    BY <1>2, <1>3, <1>7, <1>8, <1>9 DEF Ends

(* The page is mapped for e, and x, who slept, wakes.                      *)
LEMMA PassEnds ==
    ASSUME PmapInv, NEW c \in CPU, NEW i \in KState, Sound(i), NoGain(i),
           SameEnvs(K, i), NEW x \in Proc, K.status[x] \in {"SEND", "RECV"},
           NEW pd \in [Proc -> Offer \cup {None}],
           NEW dv \in [Proc -> Va \cup {None}],
           \A y \in Proc \ {x} : pd[y] = i.pending[y] /\ dv[y] = i.dstva[y],
           pd[x] = None,
           NEW j, j = Edit(i, [i.status EXCEPT ![x] = "READY"], pd, dv),
           Commit(j)
    PROVE  Ends(c, j)
  <1> DEFINE st == [i.status EXCEPT ![x] = "READY"]
  <1>1. /\ st \in [Proc -> Status]
        /\ \A y \in Proc : st[y] = IF y = x THEN "READY" ELSE K.status[y]
    BY DEF KState, Status, SameEnvs
  <1>2. j = Edit(i, st, pd, dv)
    OBVIOUS
  <1> HIDE DEF st
  <1>3. /\ j \in KState /\ SameMemory(i, j)
        /\ j.status = st /\ j.pending = pd /\ j.dstva = dv
    BY <1>1, <1>2, Edited
  <1>4. Waiting(i) /\ i.status = K.status /\ i.cur = K.cur
    BY DEF Sound, Proper, SameEnvs
  <1>5. Waiting(j)
    <2>1. ASSUME NEW y \in Proc, j.pending[y] # None
          PROVE  j.status[y] = "SEND" /\ Offered(j, y)
      <3>1. y # x /\ j.pending[y] = i.pending[y] /\ j.status[y] = i.status[y]
            /\ j.pte = i.pte
        BY <1>1, <1>3, <1>4, <2>1 DEF SameMemory
      <3> QED
        BY <1>4, <2>1, <3>1 DEF Waiting, Offered
    <2>2. ASSUME NEW y \in Proc, j.status[y] = "RECV" PROVE j.dstva[y] # None
      <3>1. y # x /\ i.status[y] = "RECV" /\ j.dstva[y] = i.dstva[y]
        BY <1>1, <1>3, <1>4, <2>2
      <3> QED
        BY <1>4, <3>1 DEF Waiting
    <2> QED
      BY <2>1, <2>2 DEF Waiting
  <1>6. Sound(j)
    <2>1. \A y \in Proc : j.status[y] = "FREE" => i.status[y] = "FREE"
      BY <1>1, <1>3, <1>4
    <2> QED
      BY <1>3, <1>5, <2>1, LivesSound
  <1>7. Running(j, CPU)
    BY <1>1, <1>3, <1>4, Before DEF Running, KState, SameMemory
  <1>8. NoGain(j)
    BY <1>3 DEF NoGain, WritersIn, SameMemory
  <1> QED
    BY <1>6, <1>7, <1>8 DEF Ends

LEMMA DeliverEnds ==
    ASSUME PmapInv, NEW c \in CPU, NEW e \in Proc, NEW va \in Va, NEW perm \in Perm,
           Caller(c), MayPass(curenv[c], va, perm),
           Deliver(c, e, [page |-> pte[curenv[c]][va].page, perm |-> perm])
    PROVE  \E k : Ends(c, k)
  <1> DEFINE m == [page |-> pte[curenv[c]][va].page, perm |-> perm]
  <1>1. K.status[e] = "RECV"
    BY Before DEF Deliver
  <1>2. PICK t \in TablePages(K, e, dstva[e]) :
            Commit([PageInsert(c, K, e, dstva[e], m, t) EXCEPT
                        !.status[e] = "READY", !.dstva[e] = None])
    BY DEF Deliver
  <1>3. m \in Entry /\ m.page \notin free /\ Allowed(m)
    BY CallerFacts, MayPassAllows
  <1> HIDE DEF m
  <1>4. dstva[e] \in Va /\ K.pending[e] = None
    BY <1>1, Before DEF Proper, Waiting, KState
  <1>5. \A d \in CPU \ {c} : K.cur[d] # e
    BY <1>1, Before, Facts DEF Running
  <1> DEFINE i == PageInsert(c, K, e, dstva[e], m, t)
             j == [i EXCEPT !.status[e] = "READY", !.dstva[e] = None]
  <1>6. Sound(i) /\ NoGain(i) /\ SameEnvs(K, i)
    <2>1. K.status[e] \notin {"FREE", "SEND"}
      BY <1>1
    <2> QED
      BY <1>3, <1>4, <1>5, <2>1, MapEnds
  <1>7. Commit(j)
    BY <1>2
  <1> HIDE DEF i
  <1>8. i \in KState /\ i.pending[e] = None
    BY <1>4, <1>6 DEF Sound, Proper, SameEnvs
  <1> DEFINE pd == i.pending
             dv == [i.dstva EXCEPT ![e] = None]
  <1>9. j = Edit(i, [i.status EXCEPT ![e] = "READY"], pd, dv)
    BY <1>8 DEF KState, Edit
  <1>10. /\ pd \in [Proc -> Offer \cup {None}] /\ dv \in [Proc -> Va \cup {None}]
         /\ \A y \in Proc \ {e} : pd[y] = i.pending[y] /\ dv[y] = i.dstva[y]
         /\ pd[e] = None
    BY <1>8 DEF KState
  <1> HIDE DEF j, pd, dv
  <1>11. K.status[e] \in {"SEND", "RECV"}
    BY <1>1
  <1>12. Ends(c, j)
    BY <1>6, <1>7, <1>8, <1>9, <1>10, <1>11, PassEnds
  <1> QED
    BY <1>12

LEMMA TakeEnds ==
    ASSUME PmapInv, NEW c \in CPU, NEW a \in Proc, NEW va \in Va, Caller(c),
           Take(c, a, va)
    PROVE  \E k : Ends(c, k)
  <1> DEFINE m == [page |-> pending[a].page, perm |-> pending[a].perm]
             b == curenv[c]
  <1>1. b \in Proc /\ K.status[b] \in {"READY", "DYING"}
        /\ \A d \in CPU \ {c} : K.cur[d] # b
    BY CallerFacts
  <1>2. K.pending[a] # None
    BY Before DEF Take, SendersTo
  <1>3. PICK t \in TablePages(K, b, va) :
            Commit([PageInsert(c, K, b, va, m, t) EXCEPT
                        !.status[a] = "READY", !.pending[a] = None])
    BY DEF Take
  <1>4. m \in Entry /\ m.page \notin free /\ Allowed(m) /\ K.status[a] = "SEND"
    BY <1>2, OfferedMayBeMapped
  <1> HIDE DEF m, b
  <1> DEFINE i == PageInsert(c, K, b, va, m, t)
             j == [i EXCEPT !.status[a] = "READY", !.pending[a] = None]
  <1>5. Sound(i) /\ NoGain(i) /\ SameEnvs(K, i)
    <2>1. K.status[b] \notin {"FREE", "SEND"}
      BY <1>1
    <2> QED
      BY <1>1, <1>4, <2>1, MapEnds
  <1>6. Commit(j)
    BY <1>3
  <1> HIDE DEF i
  <1>7. i \in KState
    BY <1>5 DEF Sound, Proper
  <1> DEFINE pd == [i.pending EXCEPT ![a] = None]
             dv == i.dstva
  <1>8. j = Edit(i, [i.status EXCEPT ![a] = "READY"], pd, dv)
    BY <1>7 DEF KState, Edit
  <1>9. /\ pd \in [Proc -> Offer \cup {None}] /\ dv \in [Proc -> Va \cup {None}]
        /\ \A y \in Proc \ {a} : pd[y] = i.pending[y] /\ dv[y] = i.dstva[y]
        /\ pd[a] = None
    BY <1>7 DEF KState
  <1> HIDE DEF j, pd, dv
  <1>10. K.status[a] \in {"SEND", "RECV"}
    BY <1>4
  <1>11. Ends(c, j)
    BY <1>5, <1>6, <1>7, <1>8, <1>9, <1>10, PassEnds
  <1> QED
    BY <1>11

LEMMA IpcEnds ==
    ASSUME PmapInv, NEW c \in CPU
    PROVE  /\ \A e \in Proc, va \in Va, perm \in Perm :
                  SysIpcTrySend(c, e, va, perm) => \E k : Ends(c, k)
           /\ \A va \in Va : SysIpcRecv(c, va) => \E k : Ends(c, k)
  <1>1. ASSUME NEW e \in Proc, NEW va \in Va, NEW perm \in Perm,
               SysIpcTrySend(c, e, va, perm)
        PROVE  \E k : Ends(c, k)
    BY <1>1, DeliverEnds, EnqueueEnds DEF SysIpcTrySend
  <1>2. ASSUME NEW va \in Va, SysIpcRecv(c, va)
        PROVE  \E k : Ends(c, k)
    BY <1>2, TakeEnds, ListenEnds DEF SysIpcRecv
  <1> QED
    BY <1>1, <1>2

-----------------------------------------------------------------------------
(* The steps together, and the machine after i386_init.                    *)
LEMMA NextKeeps ==
    ASSUME PmapInv, ~Foreign, Next
    PROVE  /\ PmapInv'
           /\ \A p \in Page \ free : Writers(p) = {} => Writers(p)' = {}
  <1>1. PICK c \in CPU : KernelEntry(c)
    BY DEF Next
  <1>2. CASE \E va \in Va : SbrkPanics(c, va)
    <2>1. PmapInv' /\ pte' = pte
      BY <1>2, SbrkPanicsInv
    <2> QED
      BY <2>1 DEF Writers
  <1>3. CASE ~ \E va \in Va : SbrkPanics(c, va)
    <2>1. \E k : Ends(c, k)
      <3>1. CASE Timer(c) \/ Reap(c) \/ SysYield(c)
        BY <3>1, TimerEnds, ReapEnds, SysYieldEnds
      <3>2. CASE \E va \in Va : SysSbrk(c, va) \/ SysIpcRecv(c, va)
        BY <3>2, SysSbrkEnds, IpcEnds
      <3>3. CASE \E e \in Proc : \/ SysExofork(c, e) \/ SysEnvSetStatus(c, e)
                                 \/ SysEnvDestroy(c, e) \/ SysExecCommit(c, e)
        BY <3>3, SysExoforkEnds, SysEnvSetStatusEnds, SysEnvDestroyEnds,
           SysExecCommitEnds
      <3>4. CASE \E e \in Proc, va \in Va : \/ SysPageUnmap(c, e, va)
                                            \/ SysPageAllocFails(c, e, va)
        BY <3>4, SysPageUnmapEnds, SysPageAllocFailsEnds
      <3>5. CASE \E e \in Proc, va \in Va, perm \in Perm :
                     SysPageAlloc(c, e, va, perm) \/ SysIpcTrySend(c, e, va, perm)
        BY <3>5, SysPageAllocEnds, IpcEnds
      <3>6. CASE \E e \in Proc, va \in Va, perm \in Perm, s \in Proc, sva \in Va :
                     SysPageMap(c, s, sva, e, va, perm)
        BY <3>6, SysPageMapEnds
      <3> QED
        BY <1>1, <1>3, <3>1, <3>2, <3>3, <3>4, <3>5, <3>6 DEF KernelEntry
    <2> QED
      BY <2>1, EndsInv DEF PmapInv
  <1> QED
    BY <1>2, <1>3

LEMMA BlankSound == Sound(Blank) /\ Running(Blank, CPU)
  <1> DEFINE k == Blank
  <1>1. /\ k.free = Page /\ k.ref = [p \in Page |-> 0]
        /\ k.dir = [e \in Proc |-> None]
        /\ k.tbl = [e \in Proc |-> [d \in Pde |-> None]]
        /\ k.pte = [e \in Proc |-> [va \in Va |-> None]]
        /\ k.status = [e \in Proc |-> "FREE"]
        /\ k.pending = [e \in Proc |-> None]
        /\ k.cur = [c \in CPU |-> None] /\ k.tlb = [c \in CPU |-> {}]
    BY DEF Blank
  <1>2. k \in KState
    BY DEF Blank, KState, Status
  <1> HIDE DEF k
  <1>3. Empty(k) /\ Fresh(k) /\ Alone(k) /\ Waiting(k) /\ Running(k, CPU)
    BY <1>1 DEF Empty, Fresh, Alone, Waiting, Running
  <1>4. Counted(k, None, None)
    <2> SUFFICES ASSUME NEW p \in Page
                 PROVE  /\ k.ref[p] = Cardinality(Refs(k, p)) + (IF p = None THEN 1 ELSE 0)
                        /\ p \in k.free <=> k.ref[p] = 0 /\ p # None
      BY DEF Counted
    <2>1. p # None
      BY Facts
    <2>2. Refs(k, p) = {}
      <3>1. \A e \in Proc, x \in Cell : Held(k, e, x) = None
        BY <1>1 DEF Held, Cell
      <3> QED
        BY <2>1, <3>1 DEF Refs
    <2>3. Cardinality(Refs(k, p)) = 0
      BY <2>2, RefsFinite
    <2> QED
      BY <1>1, <2>1, <2>3
  <1> QED
    BY <1>2, <1>3, <1>4 DEF Sound, Proper, k

(* The variables are those of k.                                           *)
Starts(k) ==
    /\ free = k.free /\ pp_ref = k.ref /\ pgdir = k.dir /\ pgtbl = k.tbl
    /\ pte = k.pte /\ status = k.status /\ parent = k.parent
    /\ pending = k.pending /\ dstva = k.dstva /\ curenv = k.cur /\ tlb = k.tlb
    /\ panicked = FALSE

LEMMA StartsIs ==
    ASSUME NEW k \in KState, Starts(k)
    PROVE  K = k
  <1>1. k = [free |-> k.free, ref |-> k.ref, dir |-> k.dir, tbl |-> k.tbl,
             pte |-> k.pte, status |-> k.status, parent |-> k.parent,
             pending |-> k.pending, dstva |-> k.dstva, cur |-> k.cur,
             tlb |-> k.tlb]
    BY Zenon DEF KState
  <1> QED
    BY <1>1 DEF K, Starts

LEMMA InitSound ==
    ASSUME Init
    PROVE  PmapInv
  <1>1. PICK c \in CPU, d \in NextPage(Page) :
          \E p \in NextPage(EnvAlloc(Blank, First, None, "READY", d).free) :
          \E t \in TablePages(PageAlloc(EnvAlloc(Blank, First, None, "READY", d), p),
                              First, FirstVa) :
              Starts(PageInsert(c, PageAlloc(EnvAlloc(Blank, First, None, "READY", d), p),
                                First, FirstVa, [page |-> p, perm |-> "W"], t))
    BY DEF Init, Starts
  <1> DEFINE k0 == EnvAlloc(Blank, First, None, "READY", d)
  <1>2. PICK p \in NextPage(k0.free) :
          \E t \in TablePages(PageAlloc(k0, p), First, FirstVa) :
              Starts(PageInsert(c, PageAlloc(k0, p), First, FirstVa,
                                [page |-> p, perm |-> "W"], t))
    BY <1>1
  <1> DEFINE k1 == PageAlloc(k0, p)
             m == [page |-> p, perm |-> "W"]
  <1>3. PICK t \in TablePages(k1, First, FirstVa) :
              Starts(PageInsert(c, k1, First, FirstVa, m, t))
    BY <1>2
  <1> DEFINE k == PageInsert(c, k1, First, FirstVa, m, t)
  <1>4. Starts(k)
    BY <1>3
  <1>5. /\ Blank.free = Page /\ Blank.status[First] = "FREE"
        /\ Blank.cur = [x \in CPU |-> None] /\ d \in Blank.free
    BY Facts DEF Blank
  <1>6. Allocated(Blank, First, "READY", d, k0)
    <2>1. "READY" \in {"NEW", "READY"} /\ None \in Proc \cup {None}
      OBVIOUS
    <2>2. First \in Proc
      BY Facts
    <2> QED
      BY <1>5, <2>1, <2>2, BlankSound, EnvAllocSound
  <1> HIDE DEF k0
  <1>7. /\ Sound(k0) /\ k0.cur = [x \in CPU |-> None] /\ k0.status[First] = "READY"
        /\ p \in k0.free
    <2>1. /\ Sound(k0) /\ k0.cur = Blank.cur
          /\ k0.status = [Blank.status EXCEPT ![First] = "READY"]
      BY <1>6 DEF Allocated
    <2>2. Blank.status = [x \in Proc |-> "FREE"]
      BY DEF Blank
    <2>3. k0.free \subseteq Page
      BY <2>1 DEF Sound, Proper, KState
    <2> QED
      BY <1>5, <2>1, <2>2, <2>3, Facts
  <1>8. /\ Proper(k1) /\ Counted(k1, p, None) /\ p \in Page
        /\ SameEnvs(k0, k1)
    BY <1>7, AllocProper
  <1> HIDE DEF k1
  <1>9. m \in Entry /\ p = m.page
    BY <1>8, Facts DEF Entry
  <1> HIDE DEF m
  <1>10. /\ k1.status[First] \notin {"FREE", "SEND"}
         /\ \A x \in CPU : k1.cur[x] = None
         /\ \A x \in CPU \ {c} : k1.cur[x] # First
    BY <1>7, <1>8, Facts DEF SameEnvs
  <1>11. Sound(k) /\ SameEnvs(k1, k)
    BY <1>8, <1>9, <1>10, Facts, InsertSound
  <1> HIDE DEF k
  <1>12. K = k
    BY <1>4, <1>11, StartsIs DEF Sound, Proper
  <1>13. Running(k, CPU)
    BY <1>10, <1>11 DEF Running, SameEnvs
  <1>14. panicked = FALSE
    BY <1>4 DEF Starts
  <1> QED
    BY <1>11, <1>12, <1>13, <1>14 DEF PmapInv

-----------------------------------------------------------------------------
(* The invariant holds: memory is what the counts, the free list and the   *)
(* TLBs say, whatever the CPUs and environments do.                        *)
THEOREM PmapInvariant ==
    ASSUME ~Foreign
    PROVE  Spec => []PmapInv
  <1>1. PmapInv /\ [Next]_vars => PmapInv'
    <2> SUFFICES ASSUME PmapInv, [Next]_vars PROVE PmapInv'
      OBVIOUS
    <2>1. CASE Next
      BY <2>1, NextKeeps
    <2>2. CASE UNCHANGED vars
      <3>1. K' = K /\ panicked' = panicked
        BY <2>2 DEF vars, K
      <3> QED
        BY <3>1 DEF PmapInv
    <2> QED
      BY <2>1, <2>2
  <1> QED
    BY <1>1, InitSound, PTL DEF Spec

(* What the counts are of.                                                 *)
LEMMA CountsFacts ==
    ASSUME PmapInv, NEW p \in Page
    PROVE  /\ References(p) = Refs(K, p)
           /\ Cardinality(References(p)) \in Nat
           /\ pp_ref[p] = Cardinality(References(p))
           /\ p \in free <=> References(p) = {}
  <1>1. References(p) = Refs(K, p)
    BY DEF References, Refs
  <1>2. /\ pp_ref[p] = Cardinality(Refs(K, p)) + (IF p = None THEN 1 ELSE 0)
        /\ p \in free <=> pp_ref[p] = 0 /\ p # None
    BY Before DEF Counted, K
  <1> QED
    BY <1>1, <1>2, RefsFinite, Facts

(* The variables keep their types; no count becomes negative.              *)
THEOREM PmapTypes ==
    ASSUME ~Foreign
    PROVE  Spec => []PTypeOK
  <1>1. PmapInv => PTypeOK
    <2> SUFFICES ASSUME PmapInv PROVE PTypeOK
      OBVIOUS
    <2>1. K \in KState /\ panicked \in BOOLEAN
      BY Before DEF PmapInv
    <2>2. pp_ref \in [Page -> Int] /\ \A p \in Page : pp_ref[p] \in Nat
      BY <2>1, CountsFacts DEF KState, K
    <2>3. pp_ref \in [Page -> Nat]
      BY <2>2
    <2> QED
      BY <2>1, <2>3 DEF PTypeOK, KState, K
  <1> QED
    BY <1>1, PmapInvariant, PTL

(* No reference to a page is lost and none is counted twice, over every    *)
(* chain of mapping, replacing, sending, exec, failing and freeing.        *)
THEOREM PmapRefsCounted ==
    ASSUME ~Foreign
    PROVE  Spec => []RefsCounted
  <1>1. PmapInv => RefsCounted
    BY CountsFacts DEF RefsCounted
  <1> QED
    BY <1>1, PmapInvariant, PTL

(* The free list is exactly the pages nobody refers to: none is handed out *)
(* twice and none is lost.                                                 *)
THEOREM PmapFreeExact ==
    ASSUME ~Foreign
    PROVE  Spec => []FreeExact
  <1>1. PmapInv => FreeExact
    BY CountsFacts DEF FreeExact
  <1> QED
    BY <1>1, PmapInvariant, PTL

(* No CPU's TLB holds what its page tables do not say: that tlb_invalidate *)
(* is local is enough as long as a page table is only changed by the CPU   *)
(* that runs it or when nobody does.                                       *)
THEOREM PmapTlbFresh ==
    ASSUME ~Foreign
    PROVE  Spec => []TlbFresh
  <1>1. PmapInv => TlbFresh
    <2> SUFFICES ASSUME PmapInv PROVE TlbFresh
      OBVIOUS
    <2>1. Fresh(K)
      BY Before DEF Proper
    <2>2. K.tlb = tlb /\ K.cur = curenv
      BY DEF K
    <2> QED
      BY <2>1, <2>2 DEF Fresh, TlbFresh
  <1> QED
    BY <1>1, PmapInvariant, PTL

(* No step gives anybody write access to a page in use that nobody could   *)
(* write: what sys_page_map and sys_ipc_try_send refuse cannot be had by   *)
(* a chain of calls either.                                                *)
THEOREM PmapNobodyGainsWrite ==
    ASSUME ~Foreign
    PROVE  Spec => NobodyGainsWrite
  <1>1. PmapInv /\ [Next]_vars =>
            [\A p \in Page \ free : Writers(p) = {} => Writers(p)' = {}]_vars
    BY NextKeeps
  <1> QED
    BY <1>1, PmapInvariant, PTL DEF Spec, NobodyGainsWrite
=======================================================================
