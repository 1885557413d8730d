-------------------------- MODULE FilesProofs --------------------------
(***************************************************************************)
(* Theorems about the file server's environment: its table of open files   *)
(* (FileServer), then the file system below it (Fs).                       *)
(*                                                                         *)
(* FileServer, for every number of clients, descriptors, slots of the      *)
(* table and pages, and every choice of page_alloc. What a client has is a *)
(* number in a page. The number names a slot and how often that was used;  *)
(* that it cannot lead to another file follows from its age (Dated): it is *)
(* never greater than the slot's own number, and where it is equal nobody  *)
(* else was given the slot. A page keeps its number for as long as         *)
(* somebody maps it, and a slot with a page that somebody maps is not      *)
(* given away.                                                             *)
(*                                                                         *)
(* Fs, for every size of the disk, of a File structure, of an indirect     *)
(* block and of a directory block. MemoryInv says whose a block of the     *)
(* memory is; Under, that the File structures on the disk lead only where  *)
(* those in memory do, and that what is free there is free in memory. Each *)
(* function of fs.c keeps both, with the one block a function may hold     *)
(* between two others (h) and the one File structure that the disk may be  *)
(* behind with (but); so whatever write is the last, no block is in two    *)
(* files on the disk. Holds says that the disk has what was flushed. A     *)
(* request needs to know which files it may change for that, and whether   *)
(* every block of the memory has an owner still (care): then what is       *)
(* allocated is no block of a flushed file on the disk.                    *)
(* A request that gives a block with old data to the directory is given up:*)
(* until then it has kept all this (Held), and nothing is said of what the *)
(* server does then.                                                       *)
(***************************************************************************)
EXTENDS FileServer, Fs, FiniteSetTheorems, WellFoundedInduction, TLAPS

FileServerTypeOK ==
    /\ opentab \in [Slot -> [fileid : Nat, file : File \cup {None}, frame : Frame \cup {None}]]
    /\ id \in [Frame -> Nat]
    /\ fd \in [Client -> [Fdnum -> [frame : Frame, cow : BOOLEAN, file : File] \cup {None}]]
    /\ call \in [Client -> [req : {"open", "flush"}, fd : Fdnum, file : File \cup {None}] \cup {None}]
    /\ \A c \in Client : call[c] # None /\ call[c].req = "open" => call[c].file \in File
    /\ serving \in [client : Client, page : Frame \cup {None}] \cup {None}
    /\ live \subseteq Client

(* The numbers of a slot lead back to it.                                  *)
NumberOf(n, s) == \E g \in Nat : n = MAXOPEN * g + s

OwnSlot == \A s \in Slot : NumberOf(opentab[s].fileid, s)

(* No two slots have their struct Fd in one page.                          *)
OwnPage ==
    \A s, t \in Slot : opentab[s].frame # None /\ opentab[s].frame = opentab[t].frame => s = t

(* A number n read through a descriptor of a file is not from the future.  *)
InDate(n, file) ==
    /\ n <= SlotOf(n).fileid
    /\ n = SlotOf(n).fileid => SlotOf(n).file = file

Dated == \A c \in Client, i \in Fdnum : Has(c, i) => InDate(id[fd[c][i].frame], fd[c][i].file)

(* The page of a slot that somebody maps has the number of its last open.  *)
Current ==
    \A c \in Client, i \in Fdnum, s \in Slot :
        Has(c, i) /\ fd[c][i].frame = opentab[s].frame => id[fd[c][i].frame] = opentab[s].fileid

(* The page that waits to be mapped for a client is that of its open.      *)
Names(s, page, file) ==
    /\ opentab[s].frame = page
    /\ id[page] = opentab[s].fileid
    /\ opentab[s].file = file

Answering ==
    serving # None =>
        /\ call[serving.client] # None
        /\ serving.page # None =>
               \E s \in Slot : Names(s, serving.page, call[serving.client].file)

FileServerInv ==
    /\ FileServerTypeOK
    /\ OwnSlot
    /\ OwnPage
    /\ Dated
    /\ Current
    /\ Answering

-----------------------------------------------------------------------------
(* The operators.                                                          *)

LEMMA Remainder == ASSUME NEW m \in Nat \ {0}, NEW n \in Nat PROVE n % m \in 0..(m - 1)
  BY Z3

LEMMA ModOfSum ==
    ASSUME NEW m \in Nat \ {0}, NEW g \in Nat, NEW s \in 0..(m - 1)
    PROVE  (m * g + s) % m = s
  BY Z3

LEMMA SlotFacts ==
    /\ MAXOPEN \in Nat \ {0} /\ MAXFD \in Nat \ {0}
    /\ IsFiniteSet(Client) /\ None \notin Frame
    /\ \A T \in SUBSET Frame : NextFrame(T) \subseteq T
    /\ \A n \in Nat : n % MAXOPEN \in Slot
    /\ \A s \in Slot : s \in Nat
  <1>1. MAXOPEN \in Nat \ {0} /\ MAXFD \in Nat \ {0}
    BY FileServerAssumption
  <1>2. ASSUME NEW n \in Nat
        PROVE  n % MAXOPEN \in Slot
    BY <1>1, Remainder DEF Slot
  <1>3. ASSUME NEW s \in Slot
        PROVE  s \in Nat
    BY <1>1 DEF Slot
  <1> QED
    BY <1>1, <1>2, <1>3, FileServerAssumption

LEMMA NumberFacts ==
    ASSUME NEW s \in Slot, NEW n \in Nat, NumberOf(n, s)
    PROVE  n % MAXOPEN = s /\ NumberOf(n + MAXOPEN, s)
  <1>1. MAXOPEN \in Nat \ {0} /\ s \in 0..(MAXOPEN - 1)
    BY SlotFacts DEF Slot
  <1>2. PICK g \in Nat : n = MAXOPEN * g + s
    BY DEF NumberOf
  <1>3. n % MAXOPEN = s
    BY <1>1, <1>2, ModOfSum
  <1>4. n + MAXOPEN = MAXOPEN * (g + 1) + s /\ g + 1 \in Nat
    BY <1>1, <1>2
  <1> QED
    BY <1>3, <1>4 DEF NumberOf

LEMMA MappingsFinite ==
    ASSUME NEW f
    PROVE  IsFiniteSet(Mappings(f))
  <1>1. IsFiniteSet(Fdnum)
    BY SlotFacts, FS_Interval DEF Fdnum
  <1>2. IsFiniteSet(Client \X Fdnum)
    BY <1>1, SlotFacts, FS_Product
  <1>3. Mappings(f) \subseteq Client \X Fdnum
    BY DEF Mappings
  <1> QED
    BY <1>2, <1>3, FS_Subset

(* Somebody maps the page.                                                 *)
IsMapped(f) == \E c \in Client, i \in Fdnum : Has(c, i) /\ fd[c][i].frame = f

MappedCounts == \A f : IsMapped(f) <=> Mappings(f) # {}

LEMMA MappedIsCounted == MappedCounts
  <1> SUFFICES ASSUME NEW f PROVE IsMapped(f) <=> Mappings(f) # {}
    BY DEF MappedCounts
  <1>1. ASSUME IsMapped(f) PROVE Mappings(f) # {}
    <2>1. PICK c \in Client, i \in Fdnum : Has(c, i) /\ fd[c][i].frame = f
      BY <1>1 DEF IsMapped
    <2>2. <<c, i>> \in Mappings(f)
      BY <2>1 DEF Mappings, Has
    <2> QED
      BY <2>2
  <1>2. ASSUME Mappings(f) # {} PROVE IsMapped(f)
    <2>1. PICK m : m \in Mappings(f)
      BY <1>2
    <2>2. PICK c \in Client, i \in Fdnum : m = <<c, i>> /\ fd[c][i] # None /\ fd[c][i].frame = f
      BY <2>1 DEF Mappings
    <2> QED
      BY <2>2 DEF IsMapped, Has
  <1> QED
    BY <1>1, <1>2

(* The server's count of a page is 1 while nobody has it, and more then.   *)
LEMMA PagerefFacts ==
    ASSUME NEW s \in Slot
    PROVE  /\ pageref(s) = 0 <=> opentab[s].frame = None
           /\ opentab[s].frame # None => (pageref(s) <= 1 <=> ~IsMapped(opentab[s].frame))
           /\ opentab[s].frame # None => (pageref(s) # 1 <=> IsMapped(opentab[s].frame))
  <1> DEFINE M == Mappings(opentab[s].frame)
             n == Cardinality(M)
  <1>1. n \in Nat /\ (n = 0 <=> M = {})
    BY MappingsFinite, FS_CardinalityType, FS_EmptySet
  <1>2. M # {} <=> IsMapped(opentab[s].frame)
    BY MappedIsCounted DEF MappedCounts
  <1>3. pageref(s) = IF opentab[s].frame = None THEN 0 ELSE 1 + n
    BY DEF pageref
  <1> HIDE DEF n, M
  <1> QED
    BY <1>1, <1>2, <1>3

(* A page that is mapped after the step, or is a slot's, keeps its number. *)
LEMMA KeptFacts ==
    ASSUME NEW j \in [Frame -> Nat], NEW f \in Frame,
           IsMapped(f)' \/ \E s \in Slot : opentab[s].frame = f
    PROVE  Kept(j)[f] = j[f]
  <1>1. IsMapped(f)' => Mappings(f)' # {}
    <2>1. MappedCounts'
      BY MappedIsCounted, PTL
    <2> QED
      BY <2>1 DEF MappedCounts
  <1> QED
    BY <1>1 DEF Kept

LEMMA KeptType == \A j \in [Frame -> Nat] : Kept(j) \in [Frame -> Nat]
  BY DEF Kept

LEMMA FreeFacts ==
    ASSUME NEW f \in NextFrame(Free)
    PROVE  f \in Frame /\ ~IsMapped(f) /\ \A s \in Slot : opentab[s].frame # f
  <1>1. f \in Free
    BY SlotFacts DEF Free
  <1> QED
    BY <1>1, MappedIsCounted DEF Free, MappedCounts

-----------------------------------------------------------------------------
(* A step of the clients or an answer: the table stays. A descriptor after *)
(* it was got from one before it, and its page is the same or was free; or *)
(* it is the one the server hands over.                                    *)

SameOpen(d, j) ==
    \E c \in Client, i \in Fdnum :
        /\ Has(c, i)
        /\ fd'[d][j].file = fd[c][i].file
        /\ id'[fd'[d][j].frame] = id[fd[c][i].frame]
        /\ \/ fd'[d][j].frame = fd[c][i].frame
           \/ \A s \in Slot : opentab[s].frame # fd'[d][j].frame

JustOpened(d, j) ==
    \E s \in Slot : /\ opentab[s].frame = fd'[d][j].frame
                    /\ id'[fd'[d][j].frame] = opentab[s].fileid
                    /\ opentab[s].file = fd'[d][j].file

Honest ==
    \A d \in Client, j \in Fdnum : fd'[d][j] # None => SameOpen(d, j) \/ JustOpened(d, j)

LEMMA HonestKeeps ==
    ASSUME FileServerInv, FileServerTypeOK', opentab' = opentab, Honest
    PROVE  Dated' /\ Current'
  <1>1. ASSUME NEW d \in Client, NEW j \in Fdnum, fd'[d][j] # None
        PROVE  /\ InDate(id[fd[d][j].frame], fd[d][j].file)'
               /\ \A s \in Slot : fd'[d][j].frame = opentab[s].frame =>
                                      id'[fd'[d][j].frame] = opentab[s].fileid
    <2> DEFINE g == fd'[d][j].frame
    <2>1. g \in Frame /\ id'[g] \in Nat
      BY <1>1 DEF FileServerTypeOK
    <2>2. CASE SameOpen(d, j)
      <3>1. PICK c \in Client, i \in Fdnum :
                /\ Has(c, i)
                /\ fd'[d][j].file = fd[c][i].file
                /\ id'[g] = id[fd[c][i].frame]
                /\ g = fd[c][i].frame \/ \A s \in Slot : opentab[s].frame # g
        BY <2>2 DEF SameOpen
      <3>2. InDate(id[fd[c][i].frame], fd[c][i].file)
        BY <3>1 DEF FileServerInv, Dated
      <3>3. \A s \in Slot : fd[c][i].frame = opentab[s].frame => id[fd[c][i].frame] = opentab[s].fileid
        BY <3>1 DEF FileServerInv, Current
      <3> QED
        BY <3>1, <3>2, <3>3 DEF InDate, SlotOf
    <2>3. CASE JustOpened(d, j)
      <3>1. PICK s \in Slot : /\ opentab[s].frame = g
                              /\ id'[g] = opentab[s].fileid
                              /\ opentab[s].file = fd'[d][j].file
        BY <2>3 DEF JustOpened
      <3>2. opentab[s].fileid \in Nat /\ opentab[s].fileid % MAXOPEN = s
        BY NumberFacts DEF FileServerInv, FileServerTypeOK, OwnSlot
      <3>3. InDate(id[fd[d][j].frame], fd[d][j].file)'
        BY <3>1, <3>2 DEF InDate, SlotOf
      <3>4. \A t \in Slot : g = opentab[t].frame => t = s
        BY <2>1, <3>1, SlotFacts DEF FileServerInv, OwnPage
      <3> QED
        BY <3>1, <3>3, <3>4
    <2> QED
      BY <1>1, <2>2, <2>3 DEF Honest
  <1> QED
    BY <1>1 DEF Dated, Current, Has

(* While the request is served its client waits and its page stays.        *)
LEMMA StillAnswering ==
    ASSUME FileServerInv, opentab' = opentab, serving' = serving,
           serving # None => call'[serving.client] = call[serving.client],
           \A s \in Slot : opentab[s].frame # None => id'[opentab[s].frame] = id[opentab[s].frame]
    PROVE  Answering'
  <1> SUFFICES ASSUME serving # None PROVE Answering'
    BY DEF Answering
  <1>1. call[serving.client] # None
    BY DEF FileServerInv, Answering
  <1>2. ASSUME serving.page # None
        PROVE  \E s \in Slot : Names(s, serving.page, call[serving.client].file)'
    <2>1. PICK s \in Slot : Names(s, serving.page, call[serving.client].file)
      BY <1>2 DEF FileServerInv, Answering
    <2>2. Names(s, serving.page, call[serving.client].file)'
      BY <1>2, <2>1 DEF Names
    <2> QED
      BY <2>2
  <1> QED
    BY <1>1, <1>2 DEF Answering

LEMMA SameTable == OwnSlot /\ OwnPage /\ opentab' = opentab => OwnSlot' /\ OwnPage'
  BY DEF OwnSlot, OwnPage

(* The page of a slot is kept.                                             *)
LEMMA SlotPageKept ==
    ASSUME NEW j \in [Frame -> Nat], FileServerTypeOK
    PROVE  \A s \in Slot : opentab[s].frame # None => Kept(j)[opentab[s].frame] = j[opentab[s].frame]
  <1> SUFFICES ASSUME NEW s \in Slot, opentab[s].frame # None
               PROVE  Kept(j)[opentab[s].frame] = j[opentab[s].frame]
    OBVIOUS
  <1>1. opentab[s].frame \in Frame
    BY DEF FileServerTypeOK
  <1> QED
    BY <1>1, KeptFacts

(* A descriptor that stays as it is, or is another's before the step.      *)
LEMMA SameOpenFacts ==
    ASSUME FileServerTypeOK, NEW d \in Client, NEW j \in Fdnum, fd'[d][j] # None,
           NEW c \in Client, NEW i \in Fdnum, Has(c, i),
           fd'[d][j].file = fd[c][i].file, fd'[d][j].frame = fd[c][i].frame,
           id' = id \/ (id' = Kept(id))
    PROVE  SameOpen(d, j)
  <1>1. PICK g \in Frame : g = fd'[d][j].frame
    BY DEF FileServerTypeOK, Has
  <1>2. IsMapped(g)'
    BY <1>1 DEF IsMapped, Has
  <1>3. id \in [Frame -> Nat]
    BY DEF FileServerTypeOK
  <1>4. Kept(id)[g] = id[g]
    BY <1>2, <1>3, KeptFacts
  <1> QED
    BY <1>1, <1>4 DEF SameOpen

-----------------------------------------------------------------------------
(* The steps.                                                              *)

Asks(c) == (\E file \in File : Open(c, file)) \/ \E i \in Fdnum : Close(c, i)

LEMMA AsksInv ==
    ASSUME FileServerInv, NEW c \in Client, Asks(c)
    PROVE  FileServerInv'
  <1>1. /\ UNCHANGED <<opentab, id, fd, serving, live>>
        /\ call[c] = None
    BY DEF Asks, Open, Close, Runs
  <1> DEFINE Put == \E q \in [req : {"open", "flush"}, fd : Fdnum, file : File \cup {None}] :
                        /\ call' = [call EXCEPT ![c] = q]
                        /\ q.req = "open" => q.file \in File
  <1>2. Put
    <2>1. ASSUME NEW file \in File, Open(c, file)
          PROVE  Put
      <3>1. PICK i \in Fdnum : call' = [call EXCEPT ![c] = [req |-> "open", fd |-> i, file |-> file]]
        BY <2>1 DEF Open
      <3>2. [req |-> "open", fd |-> i, file |-> file]
                \in [req : {"open", "flush"}, fd : Fdnum, file : File \cup {None}]
        OBVIOUS
      <3> QED
        BY <3>1, <3>2
    <2>2. ASSUME NEW i \in Fdnum, Close(c, i)
          PROVE  Put
      <3>1. call' = [call EXCEPT ![c] = [req |-> "flush", fd |-> i, file |-> None]]
        BY <2>2 DEF Close
      <3>2. [req |-> "flush", fd |-> i, file |-> None]
                \in [req : {"open", "flush"}, fd : Fdnum, file : File \cup {None}]
        OBVIOUS
      <3> QED
        BY <3>1, <3>2
    <2> QED
      BY <2>1, <2>2 DEF Asks
  <1>3. FileServerTypeOK'
    BY <1>1, <1>2 DEF FileServerInv, FileServerTypeOK
  <1>4. OwnSlot' /\ OwnPage'
    BY <1>1, SameTable DEF FileServerInv
  <1>5. Dated' /\ Current'
    BY <1>1 DEF FileServerInv, Dated, Current, Has, InDate, SlotOf
  <1>6. Answering'
    <2>1. serving # None => call'[serving.client] = call[serving.client]
      BY <1>1, <1>2 DEF FileServerInv, FileServerTypeOK, Answering
    <2> QED
      BY <1>1, <2>1, StillAnswering
  <1> QED
    BY <1>3, <1>4, <1>5, <1>6 DEF FileServerInv

LEMMA DupInv ==
    ASSUME FileServerInv, NEW c \in Client, NEW i \in Fdnum, NEW k \in Fdnum, Dup(c, i, k)
    PROVE  FileServerInv'
  <1>1. /\ UNCHANGED <<opentab, id, call, serving, live>>
        /\ Has(c, i)
        /\ fd' = [fd EXCEPT ![c][k] = fd[c][i]]
    BY DEF Dup
  <1>2. FileServerTypeOK'
    BY <1>1 DEF FileServerInv, FileServerTypeOK
  <1>3. Honest
    <2> SUFFICES ASSUME NEW d \in Client, NEW j \in Fdnum, fd'[d][j] # None
                 PROVE  SameOpen(d, j)
      BY DEF Honest
    <2>1. CASE d = c /\ j = k
      <3>1. fd'[d][j] = fd[c][i]
        BY <1>1, <2>1 DEF FileServerInv, FileServerTypeOK
      <3> QED
        BY <1>1, <3>1, SameOpenFacts DEF FileServerInv
    <2>2. CASE ~(d = c /\ j = k)
      <3>1. fd'[d][j] = fd[d][j]
        BY <1>1, <2>2 DEF FileServerInv, FileServerTypeOK
      <3> QED
        BY <1>1, <3>1, SameOpenFacts DEF FileServerInv, Has
    <2> QED
      BY <2>1, <2>2
  <1>4. Dated' /\ Current'
    BY <1>1, <1>2, <1>3, HonestKeeps
  <1>5. OwnSlot' /\ OwnPage'
    BY <1>1, SameTable DEF FileServerInv
  <1>6. Answering'
    BY <1>1, StillAnswering
  <1> QED
    BY <1>2, <1>4, <1>5, <1>6 DEF FileServerInv

LEMMA SeekInv ==
    ASSUME FileServerInv, NEW c \in Client, NEW i \in Fdnum, Seek(c, i)
    PROVE  FileServerInv'
  <1>1. PICK f \in NextFrame(Free) :
            /\ fd' = [fd EXCEPT ![c][i].frame = f, ![c][i].cow = FALSE]
            /\ id' = Kept([id EXCEPT ![f] = id[fd[c][i].frame]])
    BY DEF Seek
  <1>2. UNCHANGED <<opentab, call, serving, live>> /\ Has(c, i)
    BY DEF Seek
  <1>3. f \in Frame /\ ~IsMapped(f) /\ \A s \in Slot : opentab[s].frame # f
    BY <1>1, FreeFacts
  <1>4. PICK copied : copied = [id EXCEPT ![f] = id[fd[c][i].frame]]
    OBVIOUS
  <1>5. /\ copied \in [Frame -> Nat]
        /\ copied[f] = id[fd[c][i].frame]
        /\ \A g \in Frame : g # f => copied[g] = id[g]
        /\ id' = Kept(copied)
    BY <1>1, <1>2, <1>3, <1>4 DEF FileServerInv, FileServerTypeOK, Has
  <1>6. /\ \A d \in Client, j \in Fdnum : d # c \/ j # i => fd'[d][j] = fd[d][j]
        /\ fd'[c][i] = [frame |-> f, cow |-> FALSE, file |-> fd[c][i].file]
        /\ fd' \in [Client -> [Fdnum -> [frame : Frame, cow : BOOLEAN, file : File] \cup {None}]]
    <2>1. fd \in [Client -> [Fdnum -> [frame : Frame, cow : BOOLEAN, file : File] \cup {None}]]
      BY DEF FileServerInv, FileServerTypeOK
    <2>2. fd[c][i] \in [frame : Frame, cow : BOOLEAN, file : File]
      BY <1>2, <2>1 DEF Has
    <2>3. PICK own : own = [[fd[c][i] EXCEPT !.frame = f] EXCEPT !.cow = FALSE]
      OBVIOUS
    <2>4. own = [frame |-> f, cow |-> FALSE, file |-> fd[c][i].file]
      BY <2>2, <2>3
    <2>5. fd' = [fd EXCEPT ![c] = [fd[c] EXCEPT ![i] = own]]
      BY <1>1, <2>1, <2>3
    <2>6. own \in [frame : Frame, cow : BOOLEAN, file : File]
      BY <1>3, <2>2, <2>4
    <2> QED
      BY <2>1, <2>4, <2>5, <2>6
  <1>7. FileServerTypeOK'
    BY <1>2, <1>5, <1>6, KeptType DEF FileServerInv, FileServerTypeOK
  <1>8. Honest
    <2> SUFFICES ASSUME NEW d \in Client, NEW j \in Fdnum, fd'[d][j] # None
                 PROVE  SameOpen(d, j)
      BY DEF Honest
    <2>1. PICK g \in Frame : g = fd'[d][j].frame
      BY <1>7 DEF FileServerTypeOK
    <2>2. id'[g] = copied[g]
      <3>1. IsMapped(g)'
        BY <2>1 DEF IsMapped, Has
      <3> QED
        BY <1>5, <3>1, KeptFacts
    <2>3. CASE d = c /\ j = i
      BY <1>2, <1>3, <1>5, <1>6, <2>1, <2>2, <2>3 DEF SameOpen
    <2>4. CASE d # c \/ j # i
      <3>1. Has(d, j) /\ fd'[d][j] = fd[d][j]
        BY <1>6, <2>4 DEF Has
      <3>2. g # f
        BY <1>3, <2>1, <3>1 DEF IsMapped
      <3> QED
        BY <1>5, <2>1, <2>2, <3>1, <3>2 DEF SameOpen
    <2> QED
      BY <2>3, <2>4
  <1>9. Dated' /\ Current'
    BY <1>2, <1>7, <1>8, HonestKeeps
  <1>10. OwnSlot' /\ OwnPage'
    BY <1>2, SameTable DEF FileServerInv
  <1>11. Answering'
    <2>1. \A s \in Slot : opentab[s].frame # None => id'[opentab[s].frame] = copied[opentab[s].frame]
      BY <1>5, SlotPageKept DEF FileServerInv
    <2>2. \A s \in Slot : opentab[s].frame # None => copied[opentab[s].frame] = id[opentab[s].frame]
      BY <1>3, <1>5 DEF FileServerInv, FileServerTypeOK
    <2> QED
      BY <1>2, <2>1, <2>2, StillAnswering
  <1> QED
    BY <1>7, <1>9, <1>10, <1>11 DEF FileServerInv

LEMMA ForkInv ==
    ASSUME FileServerInv, NEW c \in Client, NEW d \in Client, Fork(c, d)
    PROVE  FileServerInv'
  <1> DEFINE copy == [i \in Fdnum |-> IF Has(c, i) THEN [fd[c][i] EXCEPT !.cow = TRUE] ELSE None]
  <1>1. /\ UNCHANGED <<opentab, id, call, serving>>
        /\ live' = live \cup {d}
        /\ fd' = [fd EXCEPT ![c] = copy, ![d] = copy]
    BY DEF Fork
  <1>2. copy \in [Fdnum -> [frame : Frame, cow : BOOLEAN, file : File] \cup {None}]
    <2> SUFFICES ASSUME NEW i \in Fdnum, Has(c, i)
                 PROVE  [fd[c][i] EXCEPT !.cow = TRUE] \in [frame : Frame, cow : BOOLEAN, file : File]
      OBVIOUS
    <2>1. fd[c][i] \in [frame : Frame, cow : BOOLEAN, file : File]
      BY DEF FileServerInv, FileServerTypeOK, Has
    <2> QED
      BY <2>1
  <1>3. \A j \in Fdnum : copy[j] # None =>
            Has(c, j) /\ copy[j].frame = fd[c][j].frame /\ copy[j].file = fd[c][j].file
    BY DEF FileServerInv, FileServerTypeOK, Has
  <1>4. /\ \A e \in Client : fd'[e] = IF e \in {c, d} THEN copy ELSE fd[e]
        /\ fd' \in [Client -> [Fdnum -> [frame : Frame, cow : BOOLEAN, file : File] \cup {None}]]
    <2> HIDE DEF copy
    <2> QED
      BY <1>1, <1>2 DEF FileServerInv, FileServerTypeOK
  <1>5. FileServerTypeOK'
    BY <1>1, <1>4 DEF FileServerInv, FileServerTypeOK
  <1>6. Honest
    <2> SUFFICES ASSUME NEW e \in Client, NEW j \in Fdnum, fd'[e][j] # None
                 PROVE  SameOpen(e, j)
      BY DEF Honest
    <2> HIDE DEF copy
    <2>1. CASE e \in {c, d}
      BY <1>1, <1>3, <1>4, <2>1, SameOpenFacts DEF FileServerInv
    <2>2. CASE e \notin {c, d}
      BY <1>1, <1>4, <2>2, SameOpenFacts DEF FileServerInv, Has
    <2> QED
      BY <2>1, <2>2
  <1>7. Dated' /\ Current'
    BY <1>1, <1>5, <1>6, HonestKeeps
  <1>8. OwnSlot' /\ OwnPage'
    BY <1>1, SameTable DEF FileServerInv
  <1>9. Answering'
    BY <1>1, StillAnswering
  <1> QED
    BY <1>5, <1>7, <1>8, <1>9 DEF FileServerInv

LEMMA KilledInv ==
    ASSUME FileServerInv, NEW c \in Client, Killed(c)
    PROVE  FileServerInv'
  <1>1. /\ UNCHANGED <<opentab, call, serving>>
        /\ live' = live \ {c}
        /\ fd' = [fd EXCEPT ![c] = Closed]
        /\ id' = Kept(id)
    BY DEF Killed
  <1>2. id \in [Frame -> Nat]
    BY DEF FileServerInv, FileServerTypeOK
  <1>3. \A e \in Client : fd'[e] = IF e = c THEN Closed ELSE fd[e]
    BY <1>1 DEF FileServerInv, FileServerTypeOK
  <1>4. FileServerTypeOK'
    BY <1>1, <1>2, KeptType DEF FileServerInv, FileServerTypeOK, Closed
  <1>5. Honest
    <2> SUFFICES ASSUME NEW e \in Client, NEW j \in Fdnum, fd'[e][j] # None
                 PROVE  SameOpen(e, j)
      BY DEF Honest
    <2>1. e # c /\ fd'[e][j] = fd[e][j]
      BY <1>3 DEF Closed
    <2> QED
      BY <1>1, <2>1, SameOpenFacts DEF FileServerInv, Has
  <1>6. Dated' /\ Current'
    BY <1>1, <1>4, <1>5, HonestKeeps
  <1>7. OwnSlot' /\ OwnPage'
    BY <1>1, SameTable DEF FileServerInv
  <1>8. Answering'
    BY <1>1, <1>2, SlotPageKept, StillAnswering DEF FileServerInv
  <1> QED
    BY <1>4, <1>6, <1>7, <1>8 DEF FileServerInv

(* The answer: an accepted open is the descriptor that comes of nowhere.   *)
LEMMA AnswerInv ==
    ASSUME FileServerInv, Answer
    PROVE  FileServerInv'
  <1> DEFINE Fd == [frame : Frame, cow : BOOLEAN, file : File]
  <1>1. PICK c, i, new :
            /\ c = serving.client /\ i = call[c].fd
            /\ new = IF call[c].req = "flush" THEN None
                     ELSE IF serving.page = None THEN fd[c][i]
                     ELSE [frame |-> serving.page, cow |-> FALSE, file |-> call[c].file]
    OBVIOUS
  <1>2. /\ serving # None
        /\ fd' = [fd EXCEPT ![c][i] = new]
        /\ call' = [call EXCEPT ![c] = None]
        /\ id' = Kept(id)
        /\ serving' = None
        /\ UNCHANGED <<opentab, live>>
    BY <1>1 DEF Answer
  <1>3. /\ fd \in [Client -> [Fdnum -> Fd \cup {None}]] /\ id \in [Frame -> Nat]
        /\ c \in Client /\ serving.page \in Frame \cup {None}
        /\ call[c] # None
        /\ call[c] \in [req : {"open", "flush"}, fd : Fdnum, file : File \cup {None}]
        /\ call[c].req = "open" => call[c].file \in File
    BY <1>1, <1>2 DEF FileServerInv, FileServerTypeOK, Answering
  <1>4. i \in Fdnum /\ new \in Fd \cup {None}
    BY <1>1, <1>3
  <1>5. /\ \A d \in Client, j \in Fdnum : fd'[d][j] = IF d = c /\ j = i THEN new ELSE fd[d][j]
        /\ fd' \in [Client -> [Fdnum -> Fd \cup {None}]]
    <2> HIDE DEF Fd
    <2>1. fd' = [fd EXCEPT ![c] = [fd[c] EXCEPT ![i] = new]]
      BY <1>2, <1>3
    <2> QED
      BY <1>3, <1>4, <2>1
  <1>6. FileServerTypeOK'
    BY <1>2, <1>3, <1>5, KeptType DEF FileServerInv, FileServerTypeOK
  <1>7. Honest
    <2> SUFFICES ASSUME NEW d \in Client, NEW j \in Fdnum, fd'[d][j] # None
                 PROVE  SameOpen(d, j) \/ JustOpened(d, j)
      BY DEF Honest
    <2>1. CASE ~(d = c /\ j = i) \/ new = fd[c][i]
      <3>1. fd'[d][j] = fd[d][j]
        BY <1>5, <2>1
      <3> QED
        BY <1>2, <3>1, SameOpenFacts DEF FileServerInv, Has
    <2>2. CASE d = c /\ j = i /\ new # fd[c][i]
      <3>1. /\ serving.page # None
            /\ fd'[d][j].frame = serving.page /\ fd'[d][j].file = call[c].file
        BY <1>1, <1>5, <2>2
      <3>2. PICK s \in Slot : Names(s, serving.page, call[c].file)
        BY <1>1, <1>2, <3>1 DEF FileServerInv, Answering
      <3>3. /\ opentab[s].frame = serving.page
            /\ id[serving.page] = opentab[s].fileid
            /\ opentab[s].file = call[c].file
        BY <3>2 DEF Names
      <3>4. id'[serving.page] = id[serving.page]
        BY <1>2, <1>3, <3>1, <3>3, KeptFacts
      <3> QED
        BY <3>1, <3>3, <3>4 DEF JustOpened
    <2> QED
      BY <2>1, <2>2
  <1>8. Dated' /\ Current'
    BY <1>2, <1>6, <1>7, HonestKeeps
  <1>9. OwnSlot' /\ OwnPage'
    BY <1>2, SameTable DEF FileServerInv
  <1>10. Answering'
    BY <1>2 DEF Answering
  <1> QED
    BY <1>6, <1>8, <1>9, <1>10 DEF FileServerInv

(* Requests that change nothing but who is to be answered.                 *)
LEMMA RefusedInv ==
    ASSUME FileServerInv, NEW c \in Client, call[c] # None,
           serving' = [client |-> c, page |-> None], UNCHANGED <<opentab, id, fd, call, live>>
    PROVE  FileServerInv'
  <1>1. FileServerTypeOK'
    BY DEF FileServerInv, FileServerTypeOK
  <1>2. OwnSlot' /\ OwnPage'
    BY SameTable DEF FileServerInv
  <1>3. Dated' /\ Current'
    BY DEF FileServerInv, Dated, Current, Has, InDate, SlotOf
  <1>4. Answering'
    BY DEF Answering
  <1> QED
    BY <1>1, <1>2, <1>3, <1>4 DEF FileServerInv

(* openfile_alloc: nobody maps the page the slot gets, and its new number  *)
(* is greater than all that were read of the slot.                         *)
LEMMA OpenFileInv ==
    ASSUME FileServerInv, NEW c \in Client, NEW path \in BOOLEAN,
           call[c] # None, call[c].req = "open", OpenFile(c, path), UNCHANGED <<fd, call, live>>
    PROVE  FileServerInv'
  <1> DEFINE Pages(s) == IF pageref(s) = 0 THEN NextFrame(Free) ELSE {opentab[s].frame}
             Number(s) == opentab[s].fileid + MAXOPEN
             FileOf(s) == IF path THEN call[c].file ELSE opentab[s].file
             Opens(s, f) ==
                /\ opentab' = [opentab EXCEPT ![s] = [fileid |-> Number(s), frame |-> f, file |-> FileOf(s)]]
                /\ id' = [id EXCEPT ![f] = IF path THEN Number(s) ELSE 0]
                /\ serving' = [client |-> c, page |-> IF path THEN f ELSE None]
  <1>0. PICK s \in Slot : Available(s) /\ \E f \in Pages(s) : Opens(s, f)
    BY DEF OpenFile
  <1>a. PICK f \in Pages(s) : Opens(s, f)
    BY <1>0
  <1>b. PICK newid, file : newid = Number(s) /\ file = FileOf(s)
    OBVIOUS
  <1>1. /\ f \in Pages(s)
        /\ Available(s)
        /\ newid = opentab[s].fileid + MAXOPEN
        /\ file = IF path THEN call[c].file ELSE opentab[s].file
        /\ opentab' = [opentab EXCEPT ![s] = [fileid |-> newid, frame |-> f, file |-> file]]
        /\ id' = [id EXCEPT ![f] = IF path THEN newid ELSE 0]
        /\ serving' = [client |-> c, page |-> IF path THEN f ELSE None]
    BY <1>0, <1>a, <1>b
  <1>2. /\ f \in Frame /\ ~IsMapped(f)
        /\ \A t \in Slot : opentab[t].frame = f => t = s
    <2>1. CASE pageref(s) = 0
      BY <1>1, <2>1, FreeFacts
    <2>2. CASE pageref(s) # 0
      <3>1. f = opentab[s].frame /\ f # None /\ pageref(s) <= 1
        BY <1>1, <2>2, PagerefFacts DEF Available
      <3>2. ~IsMapped(f)
        BY <3>1, PagerefFacts
      <3>3. \A t \in Slot : opentab[t].frame = f => t = s
        BY <3>1 DEF FileServerInv, OwnPage
      <3>4. f \in Frame
        BY <3>1 DEF FileServerInv, FileServerTypeOK
      <3> QED
        BY <3>2, <3>3, <3>4
    <2> QED
      BY <2>1, <2>2
  <1>3. /\ opentab[s].fileid \in Nat /\ newid \in Nat /\ newid > opentab[s].fileid
        /\ file \in File \cup {None}
        /\ id \in [Frame -> Nat]
    <2>1. opentab[s].fileid \in Nat /\ opentab[s].file \in File \cup {None} /\ id \in [Frame -> Nat]
      BY DEF FileServerInv, FileServerTypeOK
    <2>2. call[c].file \in File
      BY DEF FileServerInv, FileServerTypeOK
    <2>3. file \in File \cup {None}
      BY <1>1, <2>1, <2>2
    <2>4. newid \in Nat /\ newid > opentab[s].fileid
      <3>1. PICK old \in Nat : old = opentab[s].fileid
        BY <2>1
      <3>2. newid = old + MAXOPEN
        BY <1>b, <3>1
      <3>3. MAXOPEN \in Nat /\ MAXOPEN > 0
        BY SlotFacts
      <3>4. newid \in Nat /\ newid > old
        BY <3>2, <3>3
      <3> QED
        BY <3>1, <3>4
    <2> QED
      BY <2>1, <2>3, <2>4
  <1>4. /\ \A t \in Slot : opentab'[t] = IF t = s THEN [fileid |-> newid, frame |-> f, file |-> file]
                                                  ELSE opentab[t]
        /\ \A g \in Frame : g # f => id'[g] = id[g]
        /\ path => id'[f] = newid
    BY <1>1, <1>2, <1>3 DEF FileServerInv, FileServerTypeOK
  <1>5. FileServerTypeOK'
    BY <1>1, <1>2, <1>3 DEF FileServerInv, FileServerTypeOK
  <1>6. OwnSlot'
    <2>1. NumberOf(newid, s)
      BY <1>1, <1>3, NumberFacts DEF FileServerInv, OwnSlot
    <2> QED
      BY <1>4, <2>1 DEF FileServerInv, OwnSlot, NumberOf
  <1>7. OwnPage'
    BY <1>2, <1>4 DEF FileServerInv, OwnPage
  <1>8. ASSUME NEW d \in Client, NEW i \in Fdnum, Has(d, i)
        PROVE  /\ fd[d][i].frame \in Frame /\ fd[d][i].frame # f
               /\ id'[fd[d][i].frame] = id[fd[d][i].frame]
    <2>1. fd[d][i].frame \in Frame
      BY <1>8 DEF FileServerInv, FileServerTypeOK, Has
    <2>2. fd[d][i].frame # f
      BY <1>2, <1>8 DEF IsMapped
    <2> QED
      BY <1>4, <2>1, <2>2
  <1>9. Dated'
    <2> SUFFICES ASSUME NEW d \in Client, NEW i \in Fdnum, Has(d, i)
                 PROVE  InDate(id[fd[d][i].frame], fd[d][i].file)'
      BY DEF Dated, Has
    <2>1. PICK n \in Nat, t \in Slot : n = id[fd[d][i].frame] /\ t = n % MAXOPEN
      BY <1>3, <1>8, SlotFacts
    <2>2. n <= opentab[t].fileid /\ (n = opentab[t].fileid => opentab[t].file = fd[d][i].file)
      BY <2>1 DEF FileServerInv, Dated, InDate, SlotOf
    <2>3. n <= opentab'[t].fileid /\ (n = opentab'[t].fileid => opentab'[t].file = fd[d][i].file)
      <3>1. CASE t = s
        <4>1. opentab'[t].fileid = newid
          BY <1>4, <3>1
        <4>2. n < newid
          BY <1>3, <2>2, <3>1
        <4> QED
          BY <1>3, <4>1, <4>2
      <3>2. CASE t # s
        BY <1>4, <2>2, <3>2
      <3> QED
        BY <3>1, <3>2
    <2> QED
      BY <1>8, <2>1, <2>3 DEF InDate, SlotOf
  <1>10. Current'
    <2> SUFFICES ASSUME NEW d \in Client, NEW i \in Fdnum, NEW t \in Slot,
                        Has(d, i), fd[d][i].frame = opentab'[t].frame
                 PROVE  id'[fd[d][i].frame] = opentab'[t].fileid
      BY DEF Current, Has
    <2>1. t # s
      BY <1>4, <1>8
    <2> QED
      BY <1>4, <1>8, <2>1 DEF FileServerInv, Current
  <1>11. Answering'
    <2>1. serving'.client = c /\ serving'.page = IF path THEN f ELSE None
      BY <1>1
    <2>2. ASSUME path PROVE Names(s, f, file)'
      BY <1>4, <2>2 DEF Names
    <2>3. path => file = call[c].file
      BY <1>1
    <2>4. ASSUME path
          PROVE  \E t \in Slot : Names(t, serving.page, call[serving.client].file)'
      <3>1. Names(s, serving.page, call[serving.client].file)'
        BY <2>1, <2>2, <2>3, <2>4 DEF Names
      <3> QED
        BY <3>1
    <2> QED
      BY <2>1, <2>4 DEF Answering
  <1> QED
    BY <1>5, <1>6, <1>7, <1>9, <1>10, <1>11 DEF FileServerInv

LEMMA StutterInv == FileServerInv /\ UNCHANGED vars => FileServerInv'
  <1> SUFFICES ASSUME FileServerInv, UNCHANGED vars PROVE FileServerInv'
    OBVIOUS
  <1>1. UNCHANGED <<opentab, id, fd, call, serving, live>>
    BY DEF vars
  <1>2. FileServerTypeOK' /\ Dated' /\ Current'
    BY <1>1 DEF FileServerInv, FileServerTypeOK, Dated, Current, Has, InDate, SlotOf
  <1>3. OwnSlot' /\ OwnPage' /\ Answering'
    BY <1>1, SameTable, StillAnswering DEF FileServerInv
  <1> QED
    BY <1>2, <1>3 DEF FileServerInv

LEMMA NextInv == FileServerInv /\ [Next]_vars => FileServerInv'
  <1> SUFFICES ASSUME FileServerInv, [Next]_vars PROVE FileServerInv'
    OBVIOUS
  <1>1. CASE UNCHANGED vars
    BY <1>1, StutterInv
  <1>2. CASE Answer
    BY <1>2, AnswerInv
  <1>3. ASSUME NEW c \in Client, \E file \in File : Open(c, file)
        PROVE  FileServerInv'
    BY <1>3, AsksInv DEF Asks
  <1>4. ASSUME NEW c \in Client, NEW i \in Fdnum,
               Close(c, i) \/ Seek(c, i) \/ \E j \in Fdnum : Dup(c, i, j)
        PROVE  FileServerInv'
    BY <1>4, AsksInv, SeekInv, DupInv DEF Asks
  <1>5. ASSUME NEW c \in Client, Killed(c) \/ \E d \in Client : Fork(c, d)
        PROVE  FileServerInv'
    BY <1>5, KilledInv, ForkInv
  <1>6. ASSUME NEW c \in Client, ServeOpen(c)
        PROVE  FileServerInv'
    <2>1. ASSUME NEW path \in BOOLEAN, OpenFile(c, path) PROVE FileServerInv'
      BY <1>6, <2>1, OpenFileInv DEF ServeOpen
    <2>2. CASE serving' = [client |-> c, page |-> None] /\ UNCHANGED <<opentab, id>>
      BY <1>6, <2>2, RefusedInv DEF ServeOpen
    <2> QED
      BY <1>6, <2>1, <2>2 DEF ServeOpen
  <1>7. ASSUME NEW c \in Client, ServeFlush(c)
        PROVE  FileServerInv'
    BY <1>7, RefusedInv DEF ServeFlush
  <1> QED
    BY <1>1, <1>2, <1>3, <1>4, <1>5, <1>6, <1>7 DEF Next

LEMMA InitInv == Init => FileServerInv
  <1> SUFFICES ASSUME Init PROVE FileServerInv
    OBVIOUS
  <1>1. FileServerTypeOK
    BY SlotFacts, FileServerAssumption DEF Init, FileServerTypeOK, Closed
  <1>2. OwnSlot
    <2>1. MAXOPEN * 0 = 0
      BY SlotFacts
    <2>2. ASSUME NEW s \in Slot PROVE s = MAXOPEN * 0 + s
      BY <2>1, SlotFacts
    <2> QED
      BY <2>2 DEF Init, OwnSlot, NumberOf
  <1>3. OwnPage /\ Dated /\ Current /\ Answering
    BY DEF Init, OwnPage, Dated, Current, Answering, Has, Closed
  <1> QED
    BY <1>1, <1>2, <1>3 DEF FileServerInv

-----------------------------------------------------------------------------
(* The server's table, the pages and what clients hold stay in step.       *)
THEOREM FileServerInvariant == Spec => []FileServerInv
  BY InitInv, NextInv, PTL DEF Spec

(* A request that openfile_lookup accepts reaches the file the descriptor  *)
(* was opened as, whatever was duplicated, forked, closed and reused.      *)
THEOREM FileServerRightFile == Spec => []RightFile
  <1>1. FileServerInv => RightFile
    BY DEF FileServerInv, Dated, InDate, RightFile, Lookup
  <1> QED
    BY <1>1, FileServerInvariant, PTL

(* openfile_alloc never takes a slot whose page a client still maps, and   *)
(* requests through it are accepted.                                       *)
THEOREM FileServerOpenStaysOpen == Spec => []OpenStaysOpen
  <1>1. ASSUME FileServerInv, NEW c \in Client, NEW i \in Fdnum, NEW s \in Slot,
               Has(c, i), fd[c][i].frame = opentab[s].frame
        PROVE  id[fd[c][i].frame] = opentab[s].fileid /\ Lookup(opentab[s].fileid)
    <2>1. id[fd[c][i].frame] = opentab[s].fileid
      BY <1>1 DEF FileServerInv, Current
    <2>2. opentab[s].fileid \in Nat /\ opentab[s].fileid % MAXOPEN = s
      BY <1>1, NumberFacts DEF FileServerInv, FileServerTypeOK, OwnSlot
    <2>3. opentab[s].frame # None /\ IsMapped(opentab[s].frame)
      BY <1>1, SlotFacts DEF FileServerInv, FileServerTypeOK, Has, IsMapped
    <2>4. pageref(s) # 1
      BY <2>3, PagerefFacts
    <2> QED
      BY <2>1, <2>2, <2>4 DEF Lookup, SlotOf
  <1>2. FileServerInv => OpenStaysOpen
    BY <1>1 DEF OpenStaysOpen
  <1> QED
    BY <1>2, FileServerInvariant, PTL

-----------------------------------------------------------------------------
(* The file system.                                                        *)

BlockNo == {0} \cup DataBlock
AnyBlock == 1..(NBLOCKS - 1)

FileRec == [name : Name \cup {Unnamed, "/"}, size : Nat,
            direct : [1..NDIRECT -> BlockNo], indirect : BlockNo]

(* A File structure whose direct blocks are within its size.               *)
FitFile == {file \in FileRec : \A n \in 1..NDIRECT : file.direct[n] # 0 => n <= file.size}

(* The root's name is nobody else's; a file without a name may have blocks.*)
EntryFile == {file \in FitFile : file.name # "/"}

DataContent == [kind : {"data"}, of : Name \cup {Unnamed}]
PtrsContent == [kind : {"ptrs"}, ptrs : [1..NINDIRECT -> BlockNo]]
FilesContent == [kind : {"files"}, files : [1..BLKFILES -> EntryFile]]
SuperContent == [kind : {"files"}, files : [1..1 -> {file \in FitFile : file.name = "/"}]]
BitmapContent == [kind : {"bits"}, free : SUBSET DataBlock]
Content == {Zeroes} \cup DataContent \cup PtrsContent \cup FilesContent

Memory ==
    {m \in [AnyBlock -> Content \cup SuperContent \cup BitmapContent] :
        /\ m[Super] \in SuperContent
        /\ m[Bitmap] \in BitmapContent
        /\ \A b \in DataBlock : m[b] \in Content}

(* Wherever a File structure may be.                                       *)
FilePlace == {Root} \cup (DataBlock \X (1..BLKFILES))

-----------------------------------------------------------------------------
(* What is read from a block.                                              *)

LEMMA Constants ==
    /\ 0 \notin DataBlock /\ Super \notin DataBlock /\ Bitmap \notin DataBlock
    /\ DataBlock \subseteq AnyBlock /\ Super \in AnyBlock /\ Bitmap \in AnyBlock
    /\ DataBlock \subseteq Nat
    /\ Super # Bitmap
    /\ MAXFILESIZE \in Nat /\ NDIRECT < MAXFILESIZE /\ NDIRECT \in Nat
<1>1. NBLOCKS \in Nat /\ NBLOCKS > 3 /\ NDIRECT \in Nat /\ NINDIRECT \in Nat /\ NINDIRECT # 0
  BY FsAssumption
<1>2. MAXFILESIZE \in Nat /\ NDIRECT < MAXFILESIZE
  BY <1>1 DEF MAXFILESIZE
<1> QED BY <1>1, <1>2 DEF DataBlock, AnyBlock, Super, Bitmap

LEMMA FilePlaces ==
    /\ Root \in FilePlace /\ Root[1] = Super /\ Root[2] = 1
    /\ \A f \in FilePlace : f[1] \in AnyBlock /\ f[1] # Bitmap /\ f[1] # 0
    /\ \A f \in FilePlace : f # Root => f[1] \in DataBlock /\ f[2] \in 1..BLKFILES
    /\ \A f \in FilePlace : f[1] = Super => f = Root
    /\ \A f \in FilePlace : f = <<f[1], f[2]>>
    /\ \A b \in DataBlock, j \in 1..BLKFILES :
           <<b, j>> \in FilePlace /\ <<b, j>> # Root /\ <<b, j>>[1] = b /\ <<b, j>>[2] = j
    /\ NoFile \notin FilePlace
<1>1. 0 \notin DataBlock /\ Super \notin DataBlock /\ Bitmap \notin DataBlock /\ Super # 0 /\ Super # Bitmap
  BY Constants DEF Super, DataBlock
<1>2. Root = <<Super, 1>> /\ FilePlace = {Root} \cup (DataBlock \X (1..BLKFILES))
  BY DEF FilePlace, Root
<1>3. DataBlock \subseteq AnyBlock /\ Super \in AnyBlock
  BY Constants
<1>4. NoFile \notin FilePlace
  BY <1>1, <1>2 DEF NoFile
<1> QED BY <1>1, <1>2, <1>3, <1>4

LEMMA UnusedFits ==
    /\ Unused \in FitFile /\ Unused \in EntryFile /\ Empty(Unused)
    /\ Unused.name = Unnamed
BY FsAssumption DEF Unused, FitFile, EntryFile, FileRec, Empty, BlockNo, Unnamed

(* What is not written as File structures has none that lead anywhere.     *)
LEMMA FilesRead ==
    ASSUME NEW c \in Content
    PROVE  /\ Files(c) \in [1..BLKFILES -> EntryFile]
           /\ c.kind # "files" =>
                  \A j \in 1..BLKFILES : Empty(Files(c)[j]) /\ Files(c)[j].name = Unnamed
<1>1. CASE c \in FilesContent
  BY <1>1 DEF FilesContent, Files
<1>2. CASE c \notin FilesContent
  <2>1. c.kind # "files"
    BY <1>2 DEF Content, FilesContent, Zeroes, DataContent, PtrsContent
  <2>2. Files(c) = [j \in 1..BLKFILES |-> Unused]
    BY <2>1 DEF Files
  <2> QED BY <2>1, <2>2, UnusedFits
<1> QED BY <1>1, <1>2

LEMMA PtrsRead ==
    ASSUME NEW c \in Content
    PROVE  Ptrs(c) \in [1..NINDIRECT -> BlockNo]
BY DEF Content, FilesContent, Zeroes, DataContent, PtrsContent, Ptrs, NoPtrs, BlockNo

LEMMA FileRead ==
    ASSUME NEW m \in Memory, NEW f \in FilePlace
    PROVE  /\ FileAt(m, f) \in FitFile
           /\ f = Root <=> FileAt(m, f).name = "/"
           /\ f # Root => m[f[1]] \in Content
<1>1. CASE f = Root
  BY <1>1, FilePlaces DEF Memory, SuperContent, FileAt, Files
<1>2. CASE f # Root
  <2>1. f[1] \in DataBlock /\ f[2] \in 1..BLKFILES
    BY <1>2, FilePlaces
  <2>2. m[f[1]] \in Content
    BY <2>1 DEF Memory
  <2>3. Files(m[f[1]]) \in [1..BLKFILES -> EntryFile]
    BY <2>2, FilesRead
  <2> QED BY <1>2, <2>1, <2>2, <2>3 DEF FileAt, EntryFile
<1> QED BY <1>1, <1>2

LEMMA FileFields ==
    ASSUME NEW file \in FitFile
    PROVE  /\ file.size \in Nat /\ file.indirect \in BlockNo
           /\ file.direct \in [1..NDIRECT -> BlockNo]
           /\ \A n \in 1..NDIRECT : file.direct[n] \in BlockNo /\ (file.direct[n] # 0 => n <= file.size)
           /\ file.name \in Name \cup {Unnamed, "/"}
BY DEF FitFile, FileRec

-----------------------------------------------------------------------------
(* What a change of the memory changes.                                    *)

SameFile(m, w, f) == FileAt(w, f) = FileAt(m, f)
SameBlock(m, w, b) == w[b] = m[b]

LEMMA WithFileFacts ==
    ASSUME NEW m \in Memory, NEW f \in FilePlace, NEW file \in FitFile,
           f = Root <=> file.name = "/"
    PROVE  /\ WithFile(m, f, file) \in Memory
           /\ FileAt(WithFile(m, f, file), f) = file
           /\ \A g \in FilePlace : g # f => SameFile(m, WithFile(m, f, file), g)
           /\ \A b \in AnyBlock : b # f[1] => SameBlock(m, WithFile(m, f, file), b)
           /\ FreeBlocks(WithFile(m, f, file)) = FreeBlocks(m)
<1> DEFINE c == [kind |-> "files", files |-> [Files(m[f[1]]) EXCEPT ![f[2]] = file]]
           w == [m EXCEPT ![f[1]] = c]
<1>1. WithFile(m, f, file) = w
  BY DEF WithFile
<1>2. f[1] \in AnyBlock /\ f[1] # Bitmap
  BY FilePlaces
<1>3. DOMAIN m = AnyBlock
  BY DEF Memory
<1>4. w[f[1]] = c /\ \A b \in AnyBlock : b # f[1] => w[b] = m[b]
  BY <1>2, <1>3
<1>5. Files(c) = [Files(m[f[1]]) EXCEPT ![f[2]] = file]
  BY DEF Files
<1>6. CASE f = Root
  <2>1. f[1] = Super /\ f[2] = 1
    BY <1>6, FilePlaces
  <2>2. m[Super] \in SuperContent
    BY DEF Memory
  <2>3. Files(m[Super]) \in [1..1 -> {x \in FitFile : x.name = "/"}]
    BY <2>2 DEF SuperContent, Files
  <2>4. [Files(m[Super]) EXCEPT ![1] = file] \in [1..1 -> {x \in FitFile : x.name = "/"}]
    BY <1>6, <2>3
  <2>5. c \in SuperContent
    BY <2>1, <2>4 DEF SuperContent
  <2>6. w \in Memory
    <3>1. w \in [AnyBlock -> Content \cup SuperContent \cup BitmapContent]
      BY <2>5 DEF Memory
    <3>2. w[Super] \in SuperContent /\ w[Bitmap] \in BitmapContent
      BY <1>2, <1>4, <2>1, <2>5, Constants DEF Memory
    <3>3. \A b \in DataBlock : w[b] \in Content
      BY <1>4, <2>1, Constants DEF Memory
    <3> HIDE DEF w
    <3> QED BY <3>1, <3>2, <3>3 DEF Memory
  <2>7. FileAt(w, f) = file
    BY <1>4, <1>5, <2>1, <2>3 DEF FileAt
  <2>8. ASSUME NEW g \in FilePlace, g # f PROVE FileAt(w, g) = FileAt(m, g)
    <3>1. g[1] # f[1] /\ g[1] \in AnyBlock
      BY <1>6, <2>1, <2>8, FilePlaces
    <3> QED BY <1>4, <3>1 DEF FileAt
  <2> HIDE DEF w
  <2> QED BY <1>1, <1>2, <1>4, <2>6, <2>7, <2>8, Constants DEF SameFile, SameBlock, FreeBlocks
<1>7. CASE f # Root
  <2>1. f[1] \in DataBlock /\ f[2] \in 1..BLKFILES
    BY <1>7, FilePlaces
  <2>2. m[f[1]] \in Content
    BY <2>1 DEF Memory
  <2>3. Files(m[f[1]]) \in [1..BLKFILES -> EntryFile] /\ file \in EntryFile
    BY <1>7, <2>2, FilesRead DEF EntryFile
  <2>4. c \in Content
    BY <2>1, <2>3 DEF Content, FilesContent
  <2>6. w \in Memory
    <3>1. w \in [AnyBlock -> Content \cup SuperContent \cup BitmapContent]
      BY <2>4 DEF Memory
    <3>2. w[Super] \in SuperContent /\ w[Bitmap] \in BitmapContent
      BY <1>2, <1>4, <2>1, Constants DEF Memory
    <3>3. \A b \in DataBlock : w[b] \in Content
      BY <1>4, <2>1, <2>4, Constants DEF Memory
    <3> HIDE DEF w
    <3> QED BY <3>1, <3>2, <3>3 DEF Memory
  <2>7. FileAt(w, f) = file
    <3>1. [Files(m[f[1]]) EXCEPT ![f[2]] = file][f[2]] = file
      BY <2>1, <2>3
    <3>2. Files(w[f[1]])[f[2]] = file
      BY <1>4, <1>5, <3>1
    <3> HIDE DEF w
    <3> QED BY <3>2 DEF FileAt
  <2>8. ASSUME NEW g \in FilePlace, g # f PROVE FileAt(w, g) = FileAt(m, g)
    <3>1. CASE g[1] # f[1]
      BY <1>4, <3>1, FilePlaces DEF FileAt
    <3>2. CASE g[1] = f[1]
      <4>1. g[2] # f[2]
        BY <2>8, <3>2, FilePlaces
      <4>2. g # Root
        BY <2>1, <3>2, FilePlaces, Constants
      <4>3. g[2] \in 1..BLKFILES
        BY <4>2, FilePlaces
      <4>4. [Files(m[f[1]]) EXCEPT ![f[2]] = file][g[2]] = Files(m[f[1]])[g[2]]
        BY <2>3, <4>1, <4>3
      <4>5. Files(w[f[1]])[g[2]] = Files(m[f[1]])[g[2]]
        BY <1>4, <1>5, <4>4
      <4> HIDE DEF w
      <4> QED BY <3>2, <4>5 DEF FileAt
    <3> QED BY <3>1, <3>2
  <2> HIDE DEF w
  <2> QED BY <1>1, <1>2, <1>4, <2>6, <2>7, <2>8, Constants DEF SameFile, SameBlock, FreeBlocks
<1> QED BY <1>6, <1>7

(* A block is given to something else than File structures.                *)
Blank(file) == Empty(file) /\ file.name = Unnamed

Overwritten(m, w, b, c) ==
    /\ w \in Memory
    /\ w[b] = c
    /\ \A x \in AnyBlock : x # b => SameBlock(m, w, x)
    /\ \A f \in FilePlace : f[1] # b => SameFile(m, w, f)
    /\ \A f \in FilePlace : f[1] = b => Blank(FileAt(w, f))
    /\ FreeBlocks(w) = FreeBlocks(m)

LEMMA OverwriteFacts ==
    ASSUME NEW m \in Memory, NEW b \in DataBlock, NEW c \in Content, c.kind # "files"
    PROVE  Overwritten(m, [m EXCEPT ![b] = c], b, c)
<1> DEFINE w == [m EXCEPT ![b] = c]
<1>1. DOMAIN m = AnyBlock /\ b \in AnyBlock /\ b # Super /\ b # Bitmap
  BY Constants DEF Memory
<1>2. w[b] = c /\ \A x \in AnyBlock : x # b => w[x] = m[x]
  BY <1>1
<1>3. w \in Memory
  <2>1. w \in [AnyBlock -> Content \cup SuperContent \cup BitmapContent]
    BY DEF Memory
  <2>2. w[Super] \in SuperContent /\ w[Bitmap] \in BitmapContent
    BY <1>1, <1>2, Constants DEF Memory
  <2>3. \A x \in DataBlock : w[x] \in Content
    BY <1>2, Constants DEF Memory
  <2> HIDE DEF w
  <2> QED BY <2>1, <2>2, <2>3 DEF Memory
<1>4. \A f \in FilePlace : f[1] # b => FileAt(w, f) = FileAt(m, f)
  BY <1>2, FilePlaces DEF FileAt
<1>5. ASSUME NEW f \in FilePlace, f[1] = b PROVE Blank(FileAt(w, f))
  <2>1. f[2] \in 1..BLKFILES
    BY <1>1, <1>5, FilePlaces
  <2> QED BY <1>2, <1>5, <2>1, FilesRead DEF FileAt, Blank
<1> HIDE DEF w
<1> QED BY <1>1, <1>2, <1>3, <1>4, <1>5, Constants DEF SameFile, SameBlock, FreeBlocks, Overwritten, w

LEMMA WithFreeFacts ==
    ASSUME NEW m \in Memory, NEW free \in SUBSET DataBlock
    PROVE  /\ WithFree(m, free) \in Memory
           /\ FreeBlocks(WithFree(m, free)) = free
           /\ \A b \in AnyBlock : b # Bitmap => SameBlock(m, WithFree(m, free), b)
           /\ \A f \in FilePlace : SameFile(m, WithFree(m, free), f)
<1> DEFINE c == [kind |-> "bits", free |-> free]
           w == [m EXCEPT ![Bitmap] = c]
<1>1. c \in BitmapContent
  BY DEF BitmapContent
<1>2. DOMAIN m = AnyBlock /\ Bitmap \in AnyBlock
  BY Constants DEF Memory
<1>3. w[Bitmap] = c /\ \A b \in AnyBlock : b # Bitmap => w[b] = m[b]
  BY <1>2
<1>4. w \in Memory
  <2>1. w \in [AnyBlock -> Content \cup SuperContent \cup BitmapContent]
    BY <1>1 DEF Memory
  <2>2. w[Super] \in SuperContent /\ w[Bitmap] \in BitmapContent
    BY <1>1, <1>3, Constants DEF Memory
  <2>3. \A x \in DataBlock : w[x] \in Content
    BY <1>3, Constants DEF Memory
  <2> HIDE DEF w
  <2> QED BY <2>1, <2>2, <2>3 DEF Memory
<1>5. \A f \in FilePlace : FileAt(w, f) = FileAt(m, f)
  BY <1>3, FilePlaces DEF FileAt
<1>6. w = WithFree(m, free)
  BY DEF WithFree
<1>7. c.free = free
  OBVIOUS
<1> HIDE DEF w, c
<1> QED BY <1>3, <1>4, <1>5, <1>6, <1>7 DEF SameFile, SameBlock, FreeBlocks

LEMMA FreeRead ==
    ASSUME NEW m \in Memory
    PROVE  FreeBlocks(m) \subseteq DataBlock
BY DEF Memory, BitmapContent, FreeBlocks

-----------------------------------------------------------------------------
(* The invariant of the memory. h is a block that was just allocated and   *)
(* is in no file yet, 0 if there is none. care.exact: the server has not   *)
(* been restarted, so that no block and no name is lost.                   *)
Live(m) == AllFiles(m) \cup {Root}

Own(m, last) ==
    \A f, g \in FilePlace, n, k \in 0..last :
        BlockOf(m, f, n) # 0 =>
            /\ BlockOf(m, f, n) \in DataBlock \ FreeBlocks(m)
            /\ BlockOf(m, f, n) = BlockOf(m, g, k) => f = g /\ n = k

IndirectOnly(m) == \A f \in FilePlace : FileAt(m, f).indirect # 0 => m[FileAt(m, f).indirect].kind # "files"

(* Only the blocks of the directory have File structures that lead on.     *)
DirOnly(m) == \A f \in FilePlace : f \in Live(m) \/ Empty(FileAt(m, f))

InHand(m, h) ==
    h # 0 => /\ h \in DataBlock \ FreeBlocks(m)
             /\ \A f \in FilePlace, n \in 0..MAXFILESIZE : BlockOf(m, f, n) # h

WithinSize(m) ==
    \A f \in FilePlace, n \in 1..MAXFILESIZE : BlockOf(m, f, n) # 0 => n <= FileAt(m, f).size

NoneLost(m, h) ==
    \A b \in DataBlock \ FreeBlocks(m) :
        b = h \/ \E f \in FilePlace, n \in 0..MAXFILESIZE : BlockOf(m, f, n) = b

(* Names are in the directory, and in one place of it.                     *)
NamesLive(m) == \A f \in FilePlace : FileAt(m, f).name # Unnamed => f \in Live(m)

Unique(m) ==
    \A f, g \in FilePlace : FileAt(m, f).name # Unnamed /\ FileAt(m, g).name = FileAt(m, f).name => f = g

MemoryInv(m, h, care) ==
    /\ Own(m, MAXFILESIZE)
    /\ IndirectOnly(m)
    /\ DirOnly(m)
    /\ InHand(m, h)
    /\ care.exact => WithinSize(m) /\ NoneLost(m, h) /\ NamesLive(m) /\ Unique(m)

(* What the File structures on a disk say is said in memory too.           *)
LedTo(d, m, f) == \A n \in 0..NDIRECT : BlockOf(d, f, n) # 0 => BlockOf(d, f, n) = BlockOf(m, f, n)

(* The File structures in block but are not looked at.                     *)
Under(d, m, but) ==
    /\ FreeBlocks(d) \subseteq FreeBlocks(m)
    /\ \A f \in FilePlace : f[1] # but => LedTo(d, m, f)

-----------------------------------------------------------------------------
LEMMA IndexBounds ==
    /\ 0 \in 0..MAXFILESIZE /\ 0..NDIRECT \subseteq 0..MAXFILESIZE /\ 1..NDIRECT \subseteq 1..MAXFILESIZE
    /\ 1..MAXFILESIZE \subseteq 0..MAXFILESIZE /\ 0..MAXFILESIZE \subseteq Nat
    /\ \A n \in 1..MAXFILESIZE : n # 0 /\ n \in Nat
    /\ \A n \in 0..MAXFILESIZE : n # 0 => n \in 1..MAXFILESIZE
    /\ \A n \in 0..NDIRECT : n # 0 => n \in 1..NDIRECT
    /\ \A n \in Nat : n > NDIRECT /\ n <= MAXFILESIZE => n - NDIRECT \in 1..NINDIRECT
    /\ \A n \in Nat : n > NDIRECT => n # 0 /\ ~(n <= NDIRECT)
    /\ \A n \in 1..NDIRECT : n # 0 /\ n <= NDIRECT
<1>1. NDIRECT \in Nat /\ NINDIRECT \in Nat
  BY FsAssumption
<1>2. MAXFILESIZE = NDIRECT + NINDIRECT
  BY DEF MAXFILESIZE
<1>3. MAXFILESIZE \in Nat /\ NDIRECT <= MAXFILESIZE
  BY <1>1, <1>2
<1>4. \A n \in Nat : n > NDIRECT /\ n <= MAXFILESIZE => n - NDIRECT \in 1..NINDIRECT
  BY <1>1, <1>2
<1>5. 0 \in 0..MAXFILESIZE /\ 0..NDIRECT \subseteq 0..MAXFILESIZE /\ 1..NDIRECT \subseteq 1..MAXFILESIZE
  BY <1>1, <1>3
<1>6. 1..MAXFILESIZE \subseteq 0..MAXFILESIZE /\ 0..MAXFILESIZE \subseteq Nat
  BY <1>3
<1>7. \A n \in 1..MAXFILESIZE : n # 0 /\ n \in Nat
  BY <1>3
<1>8. \A n \in 0..MAXFILESIZE : n # 0 => n \in 1..MAXFILESIZE
  BY <1>3
<1>9. \A n \in 0..NDIRECT : n # 0 => n \in 1..NDIRECT
  BY <1>1
<1>10. \A n \in Nat : n > NDIRECT => n # 0 /\ ~(n <= NDIRECT)
  BY <1>1
<1>11. \A n \in 1..NDIRECT : n # 0 /\ n <= NDIRECT
  BY <1>1
<1> QED BY <1>4, <1>5, <1>6, <1>7, <1>8, <1>9, <1>10, <1>11, Zenon

LEMMA InSize ==
    ASSUME NEW n \in Nat, n # 0, n <= MAXFILESIZE
    PROVE  n \in 1..MAXFILESIZE
BY Constants

LEMMA BlockRead ==
    ASSUME NEW m \in Memory, NEW f \in FilePlace, NEW n \in Nat
    PROVE  /\ BlockOf(m, f, n) \in BlockNo
           /\ n > MAXFILESIZE => BlockOf(m, f, n) = 0
           /\ Empty(FileAt(m, f)) => BlockOf(m, f, n) = 0
           /\ BlockOf(m, f, 0) = FileAt(m, f).indirect
           /\ n \in 1..NDIRECT => BlockOf(m, f, n) = FileAt(m, f).direct[n]
           /\ n > NDIRECT /\ FileAt(m, f).indirect = 0 => BlockOf(m, f, n) = 0
<1>1. FileAt(m, f) \in FitFile
  BY FileRead
<1>2. CASE n = 0
  BY <1>1, <1>2, FileFields, Constants DEF BlockOf, Empty, BlockNo
<1>3. CASE n # 0 /\ n <= NDIRECT
  <2>1. n \in 1..NDIRECT /\ ~(n > NDIRECT) /\ ~(n > MAXFILESIZE)
    BY <1>3, Constants
  <2>2. BlockOf(m, f, n) = FileAt(m, f).direct[n]
    BY <1>3 DEF BlockOf
  <2> QED BY <1>1, <2>1, <2>2, FileFields DEF Empty, BlockOf
<1>4. CASE ~(n <= NDIRECT)
  <2>1. n > NDIRECT /\ n # 0 /\ n \notin 1..NDIRECT
    BY <1>4, Constants
  <2>2. CASE FileAt(m, f).indirect = 0 \/ n > MAXFILESIZE
    BY <1>4, <2>1, <2>2 DEF BlockOf, BlockNo
  <2>3. CASE FileAt(m, f).indirect # 0 /\ ~(n > MAXFILESIZE)
    <3>1. FileAt(m, f).indirect \in DataBlock
      BY <1>1, <2>3, FileFields DEF BlockNo
    <3>2. Ptrs(m[FileAt(m, f).indirect]) \in [1..NINDIRECT -> BlockNo]
      BY <3>1, PtrsRead DEF Memory
    <3>3. n - NDIRECT \in 1..NINDIRECT
      <4>1. n <= MAXFILESIZE
        BY <2>3, Constants
      <4> QED BY <2>1, <4>1, IndexBounds
    <3>4. BlockOf(m, f, n) = Ptrs(m[FileAt(m, f).indirect])[n - NDIRECT]
      BY <1>4, <2>1, <2>3 DEF BlockOf
    <3> QED BY <2>1, <2>3, <3>2, <3>3, <3>4 DEF Empty, BlockOf
  <2> QED BY <2>2, <2>3
<1> QED BY <1>2, <1>3, <1>4

(* A file that keeps its block numbers, also those in its indirect block.  *)
LEMMA BlocksKept ==
    ASSUME NEW m \in Memory, NEW w \in Memory, NEW f \in FilePlace,
           FileAt(w, f).direct = FileAt(m, f).direct,
           FileAt(w, f).indirect = FileAt(m, f).indirect,
           FileAt(m, f).indirect # 0 => SameBlock(m, w, FileAt(m, f).indirect)
    PROVE  \A n \in Nat : BlockOf(w, f, n) = BlockOf(m, f, n)
BY DEF BlockOf, SameBlock

LEMMA NoBlocks ==
    ASSUME NEW m \in Memory, NEW w \in Memory, NEW f \in FilePlace,
           Empty(FileAt(m, f)), Empty(FileAt(w, f))
    PROVE  \A n \in Nat : BlockOf(w, f, n) = BlockOf(m, f, n)
BY BlockRead

LEMMA IndirectRead ==
    ASSUME NEW m \in Memory, NEW f \in FilePlace, FileAt(m, f).indirect # 0
    PROVE  /\ FileAt(m, f).indirect \in DataBlock
           /\ m[FileAt(m, f).indirect] \in Content
BY FileRead, FileFields DEF BlockNo, Memory

LEMMA DirRead ==
    ASSUME NEW m \in Memory
    PROVE  /\ DirBlocks(m) \subseteq DataBlock
           /\ Live(m) \subseteq FilePlace /\ AllFiles(m) \subseteq FilePlace
           /\ Root \in Live(m) /\ Root \notin AllFiles(m)
           /\ \A f \in FilePlace : f \in AllFiles(m) <=> f[1] \in DirBlocks(m)
           /\ \A i \in 1..MAXFILESIZE :
                  i <= FileAt(m, Root).size /\ BlockOf(m, Root, i) # 0 => BlockOf(m, Root, i) \in DirBlocks(m)
           /\ \A b \in DirBlocks(m) :
                  \E i \in 1..MAXFILESIZE : i <= FileAt(m, Root).size /\ BlockOf(m, Root, i) = b /\ b # 0
<1>1. FileAt(m, Root).size \in Nat
  BY FilePlaces, FileRead, FileFields
<1>2. ASSUME NEW b \in DirBlocks(m)
      PROVE  /\ b \in DataBlock
             /\ \E i \in 1..MAXFILESIZE : i <= FileAt(m, Root).size /\ BlockOf(m, Root, i) = b /\ b # 0
  <2>1. PICK i \in 1..FileAt(m, Root).size : BlockOf(m, Root, i) = b /\ b # 0
    BY <1>2 DEF DirBlocks
  <2>2. i \in Nat /\ ~(i > MAXFILESIZE)
    BY <1>1, <2>1, BlockRead, FilePlaces
  <2>3. i \in 1..MAXFILESIZE /\ i <= FileAt(m, Root).size
    BY <1>1, <2>1, <2>2, Constants
  <2>4. b \in DataBlock
    BY <2>1, <2>2, BlockRead, FilePlaces DEF BlockNo
  <2> QED BY <2>1, <2>3, <2>4
<1>3. DirBlocks(m) \subseteq DataBlock
  BY <1>2
<1>4. ASSUME NEW i \in 1..MAXFILESIZE, i <= FileAt(m, Root).size, BlockOf(m, Root, i) # 0
      PROVE  BlockOf(m, Root, i) \in DirBlocks(m)
  <2>1. i \in 1..FileAt(m, Root).size
    BY <1>1, <1>4
  <2> QED BY <1>4, <2>1 DEF DirBlocks
<1>5. ASSUME NEW f \in FilePlace
      PROVE  f \in AllFiles(m) <=> f[1] \in DirBlocks(m)
  <2>1. f = <<f[1], f[2]>>
    BY FilePlaces
  <2>2. f[1] \in DirBlocks(m) => f[2] \in 1..BLKFILES
    BY <1>3, FilePlaces, Constants
  <2> QED BY <2>1, <2>2 DEF AllFiles
<1>6. AllFiles(m) \subseteq FilePlace
  BY <1>3 DEF AllFiles, FilePlace
<1>7. Root \notin AllFiles(m)
  BY <1>3, <1>5, FilePlaces, Constants
<1> QED BY <1>2, <1>3, <1>4, <1>5, <1>6, <1>7, FilePlaces DEF Live

(* The directory has nothing in common with the blocks of other files, and *)
(* no indirect block is a part of it.                                      *)
LEMMA DirApart ==
    ASSUME NEW m \in Memory, Own(m, MAXFILESIZE), NEW f \in Live(m), NEW g \in FilePlace
    PROVE  /\ FileAt(m, g).indirect # f[1]
           /\ g # Root => \A n \in 0..MAXFILESIZE : BlockOf(m, g, n) # f[1]
<1>1. f \in FilePlace
  BY DirRead
<1>2. CASE f = Root
  <2>1. f[1] \notin BlockNo
    BY <1>2, FilePlaces, Constants DEF BlockNo, Super
  <2>2. \A n \in 0..MAXFILESIZE : BlockOf(m, g, n) \in BlockNo
    BY BlockRead
  <2> QED BY <2>1, <2>2, FileRead, FileFields
<1>3. CASE f # Root
  <2>1. f[1] \in DirBlocks(m)
    BY <1>1, <1>3, DirRead DEF Live
  <2>2. PICK i \in 1..MAXFILESIZE : BlockOf(m, Root, i) = f[1] /\ f[1] # 0
    BY <2>1, DirRead
  <2>3. \A n \in 0..MAXFILESIZE : BlockOf(m, g, n) = f[1] => g = Root /\ n = i
    <3>1. i \in 0..MAXFILESIZE
      BY IndexBounds
    <3> QED BY <2>2, <3>1, FilePlaces DEF Own
  <2>4. BlockOf(m, g, 0) # f[1]
    BY <2>3, Constants
  <2> QED BY <2>3, <2>4, BlockRead
<1> QED BY <1>2, <1>3

-----------------------------------------------------------------------------
(* A block that was allocated is put into a place of a file that was empty.*)

OneBlock(m, w, f, n, b) ==
    \A g \in FilePlace, k \in 0..MAXFILESIZE :
        BlockOf(w, g, k) = IF g = f /\ k = n THEN b ELSE BlockOf(m, g, k)

(* No other file is touched, and what is no file is left without blocks.   *)
Untouched(m, w, f) ==
    \A g \in FilePlace : g # f => SameFile(m, w, g) \/ (g \notin Live(m) /\ Blank(FileAt(w, g)))

(* A place keeps its name, but what is no file may lose it.                *)
KeepNames(m, w) ==
    \A g \in FilePlace :
        FileAt(w, g).name = FileAt(m, g).name \/ (g \notin Live(m) /\ FileAt(w, g).name = Unnamed)

(* Nothing is written but to the blocks of f and the one in hand.          *)
Elsewhere(m, w, f, h) ==
    \A b \in AnyBlock :
        b \notin {Bitmap, f[1], h} /\ (\A k \in 0..MAXFILESIZE : BlockOf(m, f, k) # b) => SameBlock(m, w, b)

SameEntry(m, w, f) == FileAt(w, f).name = FileAt(m, f).name /\ FileAt(w, f).size = FileAt(m, f).size

Change(m, w, f, n, b) ==
    /\ w \in Memory
    /\ FreeBlocks(w) = FreeBlocks(m)
    /\ OneBlock(m, w, f, n, b)
    /\ Untouched(m, w, f)
    /\ SameEntry(m, w, f)
    /\ IndirectOnly(w)
    /\ Elsewhere(m, w, f, b)

Calm(m, w, f) ==
    /\ SameEntry(m, w, f)
    /\ \A g \in Live(m) : g # f => SameFile(m, w, g)
    /\ \A i \in 1..MAXFILESIZE : BlockOf(m, Root, i) # 0 => BlockOf(w, Root, i) = BlockOf(m, Root, i)
    /\ \A g \in Live(w) : g \in Live(m) \/ Empty(FileAt(w, g))
    /\ KeepNames(m, w)

LEMMA LiveGrows ==
    ASSUME NEW m \in Memory, NEW w \in Memory,
           FileAt(m, Root).size <= FileAt(w, Root).size,
           \A i \in 1..MAXFILESIZE : BlockOf(m, Root, i) # 0 => BlockOf(w, Root, i) = BlockOf(m, Root, i)
    PROVE  /\ DirBlocks(m) \subseteq DirBlocks(w)
           /\ AllFiles(m) \subseteq AllFiles(w) /\ Live(m) \subseteq Live(w)
<1>1. FileAt(m, Root).size \in Nat /\ FileAt(w, Root).size \in Nat
  BY FilePlaces, FileRead, FileFields
<1>2. ASSUME NEW b \in DirBlocks(m) PROVE b \in DirBlocks(w)
  <2>1. PICK i \in 1..MAXFILESIZE : i <= FileAt(m, Root).size /\ BlockOf(m, Root, i) = b /\ b # 0
    BY DirRead
  <2>2. i \in Nat
    BY IndexBounds
  <2>3. i <= FileAt(w, Root).size
    BY <1>1, <2>1, <2>2
  <2>4. BlockOf(w, Root, i) = b
    BY <2>1
  <2> QED BY <2>1, <2>3, <2>4, DirRead
<1> QED BY <1>2 DEF AllFiles, Live

LEMMA CalmLive ==
    ASSUME NEW m \in Memory, NEW w \in Memory, NEW f \in Live(m), Calm(m, w, f)
    PROVE  /\ FileAt(w, Root).size = FileAt(m, Root).size
           /\ AllFiles(m) \subseteq AllFiles(w) /\ Live(m) \subseteq Live(w) /\ f \in Live(w)
<1>1. FileAt(w, Root).size = FileAt(m, Root).size
  BY DirRead DEF Calm, SameEntry, SameFile
<1>2. FileAt(m, Root).size \in Nat
  BY FilePlaces, FileRead, FileFields
<1>3. AllFiles(m) \subseteq AllFiles(w) /\ Live(m) \subseteq Live(w)
  BY <1>1, <1>2, LiveGrows DEF Calm
<1> QED BY <1>1, <1>3

LEMMA CalmSame ==
    ASSUME NEW m \in Memory, NEW f
    PROVE  Calm(m, m, f)
BY DEF Calm, SameEntry, SameFile, KeepNames

LEMMA CalmTwice ==
    ASSUME NEW m \in Memory, NEW v \in Memory, NEW w \in Memory, NEW f \in Live(m),
           Calm(m, v, f), Calm(v, w, f)
    PROVE  Calm(m, w, f)
<1>1. Live(m) \subseteq Live(v)
  BY CalmLive
<1>2. \A g \in Live(m) : g # f => SameFile(m, w, g)
  BY <1>1 DEF Calm, SameFile
<1>3. ASSUME NEW i \in 1..MAXFILESIZE, BlockOf(m, Root, i) # 0
      PROVE  BlockOf(w, Root, i) = BlockOf(m, Root, i)
  <2>1. BlockOf(v, Root, i) = BlockOf(m, Root, i)
    BY <1>3 DEF Calm
  <2> QED BY <1>3, <2>1 DEF Calm
<1>4. ASSUME NEW g \in Live(w), g \notin Live(m) PROVE Empty(FileAt(w, g))
  <2>1. CASE g \notin Live(v)
    BY <2>1 DEF Calm
  <2>2. CASE g \in Live(v)
    <3>1. Empty(FileAt(v, g))
      BY <1>4, <2>2 DEF Calm
    <3>2. SameFile(v, w, g)
      BY <1>4, <2>2 DEF Calm
    <3> QED BY <3>1, <3>2 DEF SameFile
  <2> QED BY <2>1, <2>2
<1>5. SameEntry(m, w, f)
  BY DEF Calm, SameEntry
<1>6. KeepNames(m, w)
  <2> SUFFICES ASSUME NEW g \in FilePlace
               PROVE  FileAt(w, g).name = FileAt(m, g).name \/ (g \notin Live(m) /\ FileAt(w, g).name = Unnamed)
    BY DEF KeepNames
  <2>1. FileAt(v, g).name = FileAt(m, g).name \/ (g \notin Live(m) /\ FileAt(v, g).name = Unnamed)
    BY DEF Calm, KeepNames
  <2>2. FileAt(w, g).name = FileAt(v, g).name \/ (g \notin Live(v) /\ FileAt(w, g).name = Unnamed)
    BY DEF Calm, KeepNames
  <2> QED BY <1>1, <2>1, <2>2
<1> QED BY <1>2, <1>3, <1>4, <1>5, <1>6 DEF Calm

LEMMA NamesStay ==
    ASSUME NEW m \in Memory, NEW w \in Memory, NamesLive(m), Unique(m), KeepNames(m, w), Live(m) \subseteq Live(w)
    PROVE  /\ NamesLive(w) /\ Unique(w)
           /\ \A f \in FilePlace : FileAt(w, f).name = FileAt(m, f).name
<1>1. \A f \in FilePlace : FileAt(w, f).name = FileAt(m, f).name
  BY DEF KeepNames, NamesLive
<1>2. NamesLive(w)
  BY <1>1 DEF NamesLive
<1>3. Unique(w)
  BY <1>1 DEF Unique
<1> QED BY <1>1, <1>2, <1>3

LEMMA ChangeCalm ==
    ASSUME NEW m \in Memory, NEW w, NEW h, NEW f \in Live(m), NEW n \in 0..MAXFILESIZE,
           Change(m, w, f, n, h), BlockOf(m, f, n) = 0, DirOnly(m)
    PROVE  Calm(m, w, f) /\ DirOnly(w)
<1> USE DEF Change
<1>0. f \in FilePlace /\ Root \in FilePlace /\ Root \in Live(m) /\ Live(m) \subseteq FilePlace /\ Live(w) \subseteq FilePlace
  BY DirRead, FilePlaces
<1>1. \A g \in Live(m) : g # f => SameFile(m, w, g)
  BY <1>0 DEF Untouched
<1>2. ASSUME NEW i \in 1..MAXFILESIZE, BlockOf(m, Root, i) # 0
      PROVE  BlockOf(w, Root, i) = BlockOf(m, Root, i)
  <2>1. i \in 0..MAXFILESIZE
    BY IndexBounds
  <2> QED BY <1>0, <1>2, <2>1 DEF OneBlock
<1>3. ASSUME NEW g \in FilePlace, g \notin Live(m) PROVE Empty(FileAt(w, g))
  <2>1. g # f /\ Empty(FileAt(m, g))
    BY <1>3 DEF DirOnly
  <2> QED BY <2>1 DEF Untouched, SameFile, Blank
<1>3a. KeepNames(m, w)
  BY DEF KeepNames, Untouched, SameFile, Blank, SameEntry
<1>4. Calm(m, w, f)
  BY <1>0, <1>1, <1>2, <1>3, <1>3a DEF Calm
<1>5. Live(m) \subseteq Live(w)
  BY <1>4, CalmLive
<1> QED BY <1>3, <1>4, <1>5 DEF DirOnly

LEMMA ChangeUnder ==
    ASSUME NEW m, NEW w, NEW d, NEW f \in FilePlace, NEW n \in 0..MAXFILESIZE, NEW h,
           Change(m, w, f, n, h), BlockOf(m, f, n) = 0, Under(d, m, 0)
    PROVE  Under(d, w, 0)
<1>1. FreeBlocks(d) \subseteq FreeBlocks(w)
  BY DEF Change, Under
<1>2. ASSUME NEW g \in FilePlace, g[1] # 0, NEW k \in 0..NDIRECT, BlockOf(d, g, k) # 0
      PROVE  BlockOf(d, g, k) = BlockOf(w, g, k)
  <2>1. BlockOf(d, g, k) = BlockOf(m, g, k)
    BY <1>2 DEF Under, LedTo
  <2>2. k \in 0..MAXFILESIZE
    BY IndexBounds
  <2>3. BlockOf(w, g, k) = BlockOf(m, g, k)
    BY <1>2, <2>1, <2>2 DEF Change, OneBlock
  <2> QED BY <2>1, <2>3
<1> QED BY <1>1, <1>2 DEF Under, LedTo

LEMMA ChangeInv ==
    ASSUME NEW m \in Memory, NEW w, NEW h, h # 0, NEW care, NEW f \in Live(m), NEW n \in 0..MAXFILESIZE,
           MemoryInv(m, h, care), Change(m, w, f, n, h), BlockOf(m, f, n) = 0,
           n <= FileAt(m, f).size
    PROVE  MemoryInv(w, 0, care)
<1> USE DEF Change
<1>0. f \in FilePlace
  BY DirRead
<1>a. /\ h \in DataBlock \ FreeBlocks(m)
      /\ \A g \in FilePlace, k \in 0..MAXFILESIZE : BlockOf(m, g, k) # h
  BY DEF MemoryInv, InHand
<1>1. Own(w, MAXFILESIZE)
  <2> SUFFICES ASSUME NEW g \in FilePlace, NEW g2 \in FilePlace,
                      NEW k \in 0..MAXFILESIZE, NEW k2 \in 0..MAXFILESIZE,
                      BlockOf(w, g, k) # 0
               PROVE  /\ BlockOf(w, g, k) \in DataBlock \ FreeBlocks(w)
                      /\ BlockOf(w, g, k) = BlockOf(w, g2, k2) => g = g2 /\ k = k2
    BY DEF Own
  <2>1. /\ BlockOf(m, g, k) # 0 =>
              /\ BlockOf(m, g, k) \in DataBlock \ FreeBlocks(m)
              /\ BlockOf(m, g, k) = BlockOf(m, g2, k2) => g = g2 /\ k = k2
    BY DEF MemoryInv, Own
  <2>2. /\ BlockOf(w, g, k) = IF g = f /\ k = n THEN h ELSE BlockOf(m, g, k)
        /\ BlockOf(w, g2, k2) = IF g2 = f /\ k2 = n THEN h ELSE BlockOf(m, g2, k2)
    BY DEF OneBlock
  <2>3. BlockOf(m, g, k) # h /\ BlockOf(m, g2, k2) # h
    BY <1>a
  <2> QED BY <1>a, <2>1, <2>2, <2>3
<1>2. DirOnly(w)
  BY ChangeCalm DEF MemoryInv
<1>3. InHand(w, 0)
  BY DEF InHand
<1>4. ASSUME care.exact PROVE WithinSize(w)
  <2> SUFFICES ASSUME NEW g \in FilePlace, NEW k \in 1..MAXFILESIZE, BlockOf(w, g, k) # 0
               PROVE  k <= FileAt(w, g).size
    BY DEF WithinSize
  <2>1. k \in 0..MAXFILESIZE /\ k \in Nat
    BY IndexBounds
  <2>2. CASE g = f /\ k = n
    BY <2>2 DEF SameEntry
  <2>3. CASE ~(g = f /\ k = n)
    <3>1. BlockOf(m, g, k) # 0
      BY <2>1, <2>3 DEF OneBlock
    <3>2. k <= FileAt(m, g).size
      BY <1>4, <3>1 DEF MemoryInv, WithinSize
    <3>3. FileAt(w, g).size = FileAt(m, g).size
      <4>1. CASE g = f
        BY <4>1 DEF SameEntry
      <4>2. CASE g # f
        <5>1. ~Empty(FileAt(w, g))
          BY <2>1, BlockRead
        <5> QED BY <4>2, <5>1 DEF Untouched, SameFile, Blank
      <4> QED BY <4>1, <4>2
    <3> QED BY <3>2, <3>3
  <2> QED BY <2>2, <2>3
<1>5. ASSUME care.exact PROVE NoneLost(w, 0)
  <2> SUFFICES ASSUME NEW b \in DataBlock \ FreeBlocks(w)
               PROVE  \E g \in FilePlace, k \in 0..MAXFILESIZE : BlockOf(w, g, k) = b
    BY DEF NoneLost
  <2>1. CASE b = h
    BY <1>0, <2>1 DEF OneBlock
  <2>2. CASE b # h
    <3>1. PICK g \in FilePlace, k \in 0..MAXFILESIZE : BlockOf(m, g, k) = b
      BY <1>5, <2>2 DEF MemoryInv, NoneLost
    <3>2. b # 0
      BY Constants
    <3>3. BlockOf(w, g, k) = b
      BY <3>1, <3>2 DEF OneBlock
    <3> QED BY <3>3
  <2> QED BY <2>1, <2>2
<1>6. ASSUME care.exact PROVE NamesLive(w) /\ Unique(w)
  <2>1. Calm(m, w, f)
    BY ChangeCalm DEF MemoryInv
  <2>2. KeepNames(m, w) /\ Live(m) \subseteq Live(w)
    BY <2>1, CalmLive DEF Calm
  <2> QED BY <1>6, <2>2, NamesStay DEF MemoryInv
<1> QED BY <1>1, <1>2, <1>3, <1>4, <1>5, <1>6 DEF MemoryInv

LEMMA SameIndirect ==
    ASSUME NEW m \in Memory, NEW w \in Memory, IndirectOnly(m),
           NEW g \in FilePlace, FileAt(w, g).indirect # 0,
           FileAt(w, g).indirect = FileAt(m, g).indirect,
           SameBlock(m, w, FileAt(m, g).indirect)
    PROVE  w[FileAt(w, g).indirect].kind # "files"
BY DEF IndirectOnly, SameBlock

LEMMA WithDirectFits ==
    ASSUME NEW file \in FitFile, NEW n \in 1..NDIRECT, n <= file.size, NEW b \in DataBlock
    PROVE  LET new == [file EXCEPT !.direct[n] = b] IN
           /\ new \in FitFile /\ new.indirect = file.indirect
           /\ new.size = file.size /\ new.name = file.name
           /\ \A k \in 1..NDIRECT : new.direct[k] = IF k = n THEN b ELSE file.direct[k]
<1> DEFINE direct == [file.direct EXCEPT ![n] = b]
           new == [file EXCEPT !.direct = direct]
<1>1. file \in FileRec /\ file.direct \in [1..NDIRECT -> BlockNo]
  BY DEF FitFile, FileRec
<1>2. \A k \in 1..NDIRECT : direct[k] = IF k = n THEN b ELSE file.direct[k]
  BY <1>1
<1>3. direct \in [1..NDIRECT -> BlockNo]
  BY <1>1 DEF BlockNo
<1> HIDE DEF direct
<1>4. new \in FileRec /\ new.direct = direct
  BY <1>1, <1>3 DEF FileRec
<1>5. new.indirect = file.indirect /\ new.size = file.size /\ new.name = file.name
  BY <1>1 DEF FileRec
<1>6. \A k \in 1..NDIRECT : new.direct[k] # 0 => k <= new.size
  BY <1>2, <1>4, <1>5, FileFields
<1> HIDE DEF new
<1>7. new \in FitFile
  BY <1>4, <1>5, <1>6 DEF FitFile
<1> QED BY <1>2, <1>4, <1>5, <1>7 DEF new, direct

(* What a change of one entry of the directory leaves as it was.           *)
LEMMA EntryChange ==
    ASSUME NEW m \in Memory, Own(m, MAXFILESIZE), IndirectOnly(m), NEW f \in Live(m),
           NEW file \in FitFile, f = Root <=> file.name = "/",
           file.indirect = FileAt(m, f).indirect
    PROVE  LET w == WithFile(m, f, file) IN
           /\ w \in Memory /\ FreeBlocks(w) = FreeBlocks(m)
           /\ FileAt(w, f) = file
           /\ Untouched(m, w, f)
           /\ IndirectOnly(w)
           /\ \A g \in FilePlace, k \in 0..MAXFILESIZE :
                  g # f \/ k \notin 1..NDIRECT => BlockOf(w, g, k) = BlockOf(m, g, k)
           /\ \A k \in 1..NDIRECT : BlockOf(w, f, k) = file.direct[k]
           /\ \A h : Elsewhere(m, w, f, h)
<1> DEFINE w == WithFile(m, f, file)
<1>0. f \in FilePlace
  BY DirRead
<1>1. /\ w \in Memory /\ FreeBlocks(w) = FreeBlocks(m)
      /\ FileAt(w, f) = file
      /\ \A g \in FilePlace : g # f => SameFile(m, w, g)
      /\ \A b \in AnyBlock : b # f[1] => SameBlock(m, w, b)
  BY <1>0, WithFileFacts
<1> HIDE DEF w
<1>2. Untouched(m, w, f)
  BY <1>1 DEF Untouched
<1>3. ASSUME NEW g \in FilePlace
      PROVE  /\ FileAt(w, g).indirect = FileAt(m, g).indirect
             /\ FileAt(m, g).indirect # 0 => SameBlock(m, w, FileAt(m, g).indirect)
  <2>1. FileAt(w, g).indirect = FileAt(m, g).indirect
    BY <1>1 DEF SameFile
  <2>2. FileAt(m, g).indirect # 0 => FileAt(m, g).indirect \in AnyBlock
    BY IndirectRead, Constants
  <2>3. FileAt(m, g).indirect # f[1]
    BY DirApart
  <2> QED BY <1>1, <2>1, <2>2, <2>3
<1>4. IndirectOnly(w)
  BY <1>1, <1>3, SameIndirect DEF IndirectOnly
<1>5. ASSUME NEW g \in FilePlace, NEW k \in 0..MAXFILESIZE, g # f \/ k \notin 1..NDIRECT
      PROVE  BlockOf(w, g, k) = BlockOf(m, g, k)
  <2>1. k \in Nat
    BY IndexBounds
  <2>2. CASE g # f
    <3>1. FileAt(w, g) = FileAt(m, g)
      BY <1>1, <2>2 DEF SameFile
    <3> QED BY <1>1, <1>3, <2>1, <3>1, BlocksKept
  <2>3. CASE g = f /\ k = 0
    BY <1>1, <1>3, <2>3, BlockRead, <2>1
  <2>4. CASE g = f /\ k # 0
    <3>1. ~(k <= NDIRECT)
      BY <1>5, <2>1, <2>4, Constants
    <3>2. BlockOf(w, g, k) = IF FileAt(w, g).indirect = 0 \/ k > MAXFILESIZE THEN 0
                             ELSE Ptrs(w[FileAt(w, g).indirect])[k - NDIRECT]
      BY <2>4, <3>1 DEF BlockOf
    <3>3. BlockOf(m, g, k) = IF FileAt(m, g).indirect = 0 \/ k > MAXFILESIZE THEN 0
                             ELSE Ptrs(m[FileAt(m, g).indirect])[k - NDIRECT]
      BY <2>4, <3>1 DEF BlockOf
    <3> QED BY <1>3, <3>2, <3>3 DEF SameBlock
  <2> QED BY <2>2, <2>3, <2>4
<1>6. ASSUME NEW k \in 1..NDIRECT PROVE BlockOf(w, f, k) = file.direct[k]
  <2>1. k \in Nat
    BY IndexBounds
  <2> QED BY <1>0, <1>1, <2>1, BlockRead
<1>7. \A h : Elsewhere(m, w, f, h)
  BY <1>1 DEF Elsewhere
<1> QED BY <1>1, <1>2, <1>4, <1>5, <1>6, <1>7 DEF w

LEMMA DirectChange ==
    ASSUME NEW m \in Memory, Own(m, MAXFILESIZE), IndirectOnly(m), NEW f \in Live(m), NEW b \in DataBlock,
           NEW n \in 1..NDIRECT, n <= FileAt(m, f).size
    PROVE  Change(m, WithBlock(m, f, n, b), f, n, b)
<1> DEFINE new == [FileAt(m, f) EXCEPT !.direct[n] = b]
           w == WithFile(m, f, new)
<1>0. f \in FilePlace
  BY DirRead
<1>1. FileAt(m, f) \in FitFile /\ (f = Root <=> FileAt(m, f).name = "/")
  BY <1>0, FileRead
<1>2. /\ new \in FitFile /\ new.indirect = FileAt(m, f).indirect
      /\ new.size = FileAt(m, f).size /\ new.name = FileAt(m, f).name
      /\ \A k \in 1..NDIRECT : new.direct[k] = IF k = n THEN b ELSE FileAt(m, f).direct[k]
  BY <1>1, WithDirectFits
<1> HIDE DEF new
<1>3. /\ w \in Memory /\ FreeBlocks(w) = FreeBlocks(m)
      /\ FileAt(w, f) = new
      /\ Untouched(m, w, f)
      /\ IndirectOnly(w)
      /\ \A g \in FilePlace, k \in 0..MAXFILESIZE :
             g # f \/ k \notin 1..NDIRECT => BlockOf(w, g, k) = BlockOf(m, g, k)
      /\ \A k \in 1..NDIRECT : BlockOf(w, f, k) = new.direct[k]
      /\ Elsewhere(m, w, f, b)
  BY <1>1, <1>2, EntryChange
<1> HIDE DEF w
<1>4. OneBlock(m, w, f, n, b)
  <2> SUFFICES ASSUME NEW g \in FilePlace, NEW k \in 0..MAXFILESIZE
               PROVE  BlockOf(w, g, k) = IF g = f /\ k = n THEN b ELSE BlockOf(m, g, k)
    BY DEF OneBlock
  <2>1. CASE g # f \/ k \notin 1..NDIRECT
    BY <1>3, <2>1
  <2>2. CASE g = f /\ k \in 1..NDIRECT
    <3>1. BlockOf(m, f, k) = FileAt(m, f).direct[k]
      BY <1>0, <2>2, IndexBounds, BlockRead
    <3> QED BY <1>2, <1>3, <2>2, <3>1
  <2> QED BY <2>1, <2>2
<1>5. SameEntry(m, w, f)
  BY <1>2, <1>3 DEF SameEntry
<1>6. WithBlock(m, f, n, b) = w
  BY IndexBounds DEF WithBlock, w, new
<1> QED BY <1>3, <1>4, <1>5, <1>6 DEF Change

LEMMA IndirectChange ==
    ASSUME NEW m \in Memory, Own(m, MAXFILESIZE), IndirectOnly(m), DirOnly(m), NEW f \in Live(m), NEW b \in DataBlock,
           NEW n \in 1..MAXFILESIZE, n > NDIRECT, FileAt(m, f).indirect # 0
    PROVE  Change(m, WithBlock(m, f, n, b), f, n, b)
<1> DEFINE x == FileAt(m, f).indirect
           ptrs == [Ptrs(m[x]) EXCEPT ![n - NDIRECT] = b]
           c == [kind |-> "ptrs", ptrs |-> ptrs]
           w == [m EXCEPT ![x] = c]
<1>0. f \in FilePlace /\ n \in Nat /\ n # 0 /\ ~(n <= NDIRECT) /\ NDIRECT \in Nat
  BY DirRead, IndexBounds, Constants
<1>1. x \in DataBlock /\ m[x] \in Content /\ m[x].kind # "files" /\ x \in AnyBlock
  BY <1>0, IndirectRead, Constants DEF IndirectOnly
<1>2. Ptrs(m[x]) \in [1..NINDIRECT -> BlockNo]
  BY <1>1, PtrsRead
<1>3. n <= MAXFILESIZE /\ n - NDIRECT \in 1..NINDIRECT
  BY <1>0, IndexBounds, Constants
<1>4. /\ ptrs \in [1..NINDIRECT -> BlockNo]
      /\ \A i \in 1..NINDIRECT : ptrs[i] = IF i = n - NDIRECT THEN b ELSE Ptrs(m[x])[i]
  BY <1>2, <1>3 DEF BlockNo
<1> HIDE DEF ptrs
<1>5. c \in Content /\ c.kind # "files" /\ Ptrs(c) = ptrs
  BY <1>4 DEF Content, PtrsContent, Ptrs
<1> HIDE DEF c
<1>6a. Overwritten(m, w, x, c)
  BY <1>1, <1>5, OverwriteFacts
<1>6. /\ w \in Memory /\ w[x] = c
      /\ \A y \in AnyBlock : y # x => SameBlock(m, w, y)
      /\ \A g \in FilePlace : g[1] # x => SameFile(m, w, g)
      /\ \A g \in FilePlace : g[1] = x => Blank(FileAt(w, g))
      /\ FreeBlocks(w) = FreeBlocks(m)
  BY <1>6a DEF Overwritten
<1> HIDE DEF w
<1>7. ASSUME NEW g \in FilePlace, g[1] = x PROVE g \notin Live(m) /\ Empty(FileAt(m, g))
  <2>1. g \notin Live(m)
    BY <1>0, <1>7, DirApart
  <2> QED BY <2>1 DEF DirOnly
<1>8. Untouched(m, w, f)
  BY <1>6, <1>7 DEF Untouched
<1>9. f[1] # x
  BY <1>0, DirApart
<1>10. FileAt(w, f) = FileAt(m, f)
  BY <1>0, <1>6, <1>9 DEF SameFile
<1>11. ASSUME NEW g \in FilePlace, g # f PROVE FileAt(m, g).indirect # x
  <2>1. BlockOf(m, f, 0) = x /\ BlockOf(m, g, 0) = FileAt(m, g).indirect /\ 0 \in 0..MAXFILESIZE /\ x # 0
    BY <1>0, <1>1, BlockRead, IndexBounds, Constants
  <2> QED BY <1>0, <1>11, <2>1 DEF Own
<1>12. IndirectOnly(w)
  <2> SUFFICES ASSUME NEW g \in FilePlace, FileAt(w, g).indirect # 0
               PROVE  w[FileAt(w, g).indirect].kind # "files"
    BY DEF IndirectOnly
  <2>1. CASE g[1] = x
    BY <1>6, <2>1 DEF Empty, Blank
  <2>2. CASE g = f
    BY <1>5, <1>6, <1>10, <2>2
  <2>3. CASE g # f /\ g[1] # x
    <3>1. FileAt(w, g) = FileAt(m, g)
      BY <1>6, <2>3 DEF SameFile
    <3>2. FileAt(m, g).indirect \in AnyBlock
      BY <3>1, IndirectRead, Constants
    <3> QED BY <1>6, <1>11, <2>3, <3>1, <3>2, SameIndirect
  <2> QED BY <2>1, <2>2, <2>3
<1>13. OneBlock(m, w, f, n, b)
  <2> SUFFICES ASSUME NEW g \in FilePlace, NEW k \in 0..MAXFILESIZE
               PROVE  BlockOf(w, g, k) = IF g = f /\ k = n THEN b ELSE BlockOf(m, g, k)
    BY DEF OneBlock
  <2>0. k \in Nat
    BY IndexBounds
  <2>1. CASE g[1] = x
    BY <1>6, <1>7, <1>9, <2>0, <2>1, NoBlocks DEF Blank
  <2>2. CASE g # f /\ g[1] # x
    <3>1. FileAt(w, g) = FileAt(m, g)
      BY <1>6, <2>2 DEF SameFile
    <3>2. FileAt(m, g).indirect # 0 => FileAt(m, g).indirect \in AnyBlock
      BY IndirectRead, Constants
    <3>3. FileAt(m, g).indirect # 0 => SameBlock(m, w, FileAt(m, g).indirect)
      BY <1>6, <1>11, <2>2, <3>2
    <3> QED BY <1>6, <2>0, <2>2, <3>1, <3>3, BlocksKept
  <2>3. CASE g = f /\ k <= NDIRECT
    BY <1>0, <1>10, <2>3 DEF BlockOf
  <2>4. CASE g = f /\ ~(k <= NDIRECT)
    <3>1. k <= MAXFILESIZE /\ k > NDIRECT
      BY <2>0, <2>4, Constants
    <3>2. ~(k > MAXFILESIZE) /\ k # 0 /\ k - NDIRECT \in 1..NINDIRECT
      BY <2>0, <3>1, IndexBounds, Constants
    <3>3. BlockOf(w, f, k) = ptrs[k - NDIRECT] /\ BlockOf(m, f, k) = Ptrs(m[x])[k - NDIRECT]
      BY <1>1, <1>5, <1>6, <1>10, <2>4, <3>2, Constants DEF BlockOf
    <3>4. k - NDIRECT = n - NDIRECT <=> k = n
      BY <1>0, <2>0
    <3> QED BY <1>4, <2>4, <3>2, <3>3, <3>4
  <2> QED BY <2>1, <2>2, <2>3, <2>4
<1>14. SameEntry(m, w, f)
  BY <1>10 DEF SameEntry
<1>15. WithBlock(m, f, n, b) = w
  BY <1>0 DEF WithBlock, w, c, ptrs
<1>16. Elsewhere(m, w, f, b)
  <2>1. BlockOf(m, f, 0) = x /\ 0 \in 0..MAXFILESIZE
    BY <1>0, BlockRead, IndexBounds
  <2> QED BY <1>6, <2>1 DEF Elsewhere
<1> QED BY <1>6, <1>8, <1>12, <1>13, <1>14, <1>15, <1>16 DEF Change

LEMMA WithIndirectFits ==
    ASSUME NEW file \in FitFile, NEW b \in DataBlock
    PROVE  LET new == [file EXCEPT !.indirect = b] IN
           /\ new \in FitFile /\ new.indirect = b /\ new.direct = file.direct
           /\ new.size = file.size /\ new.name = file.name
<1> DEFINE new == [file EXCEPT !.indirect = b]
<1>1. file \in FileRec
  BY DEF FitFile
<1>2. /\ new \in FileRec /\ new.indirect = b /\ new.direct = file.direct
      /\ new.size = file.size /\ new.name = file.name
  BY <1>1 DEF FileRec, BlockNo
<1> HIDE DEF new
<1>3. new \in FitFile
  BY <1>2 DEF FitFile
<1> QED BY <1>2, <1>3 DEF new

LEMMA NewIndirectChange ==
    ASSUME NEW m \in Memory, NEW h, h # 0, NEW care, MemoryInv(m, h, care), NEW f \in Live(m),
           FileAt(m, f).indirect = 0
    PROVE  Change(m, WithIndirect(m, f, h), f, 0, h)
<1> DEFINE new == [FileAt(m, f) EXCEPT !.indirect = h]
           v == WithFile(m, f, new)
           w == [v EXCEPT ![h] = Zeroes]
<1>a. /\ Own(m, MAXFILESIZE) /\ IndirectOnly(m) /\ DirOnly(m)
      /\ h \in DataBlock \ FreeBlocks(m)
      /\ \A g \in FilePlace, k \in 0..MAXFILESIZE : BlockOf(m, g, k) # h
  BY DEF MemoryInv, InHand
<1>0. f \in FilePlace /\ h \in AnyBlock /\ Zeroes \in Content /\ Zeroes.kind # "files"
  BY <1>a, DirRead, Constants DEF Zeroes, Content
<1>1. FileAt(m, f) \in FitFile /\ (f = Root <=> FileAt(m, f).name = "/")
  BY <1>0, FileRead
<1>2. /\ new \in FitFile /\ new.indirect = h /\ new.direct = FileAt(m, f).direct
      /\ new.size = FileAt(m, f).size /\ new.name = FileAt(m, f).name
  BY <1>a, <1>1, WithIndirectFits
<1> HIDE DEF new
<1>3. /\ v \in Memory /\ FreeBlocks(v) = FreeBlocks(m)
      /\ FileAt(v, f) = new
      /\ \A g \in FilePlace : g # f => SameFile(m, v, g)
      /\ \A b \in AnyBlock : b # f[1] => SameBlock(m, v, b)
  BY <1>0, <1>1, <1>2, WithFileFacts
<1> HIDE DEF v
<1>4a. Overwritten(v, w, h, Zeroes)
  BY <1>a, <1>0, <1>3, OverwriteFacts
<1>4. /\ w \in Memory /\ w[h] = Zeroes
      /\ \A y \in AnyBlock : y # h => SameBlock(v, w, y)
      /\ \A g \in FilePlace : g[1] # h => SameFile(v, w, g)
      /\ \A g \in FilePlace : g[1] = h => Blank(FileAt(w, g))
      /\ FreeBlocks(w) = FreeBlocks(v)
  BY <1>4a DEF Overwritten
<1> HIDE DEF w
<1>5. ASSUME NEW g \in FilePlace, g[1] = h PROVE g \notin Live(m) /\ Empty(FileAt(m, g))
  <2>1. g # Root
    BY <1>a, <1>5, FilePlaces, Constants
  <2>2. g[1] \notin DirBlocks(m)
    BY <1>a, <1>5, DirRead, IndexBounds, FilePlaces
  <2>3. g \notin Live(m)
    BY <2>1, <2>2, DirRead DEF Live
  <2> QED BY <1>a, <2>3 DEF DirOnly
<1>6. f[1] # h
  BY <1>0, <1>5
<1>7. FileAt(w, f) = new
  BY <1>0, <1>3, <1>4, <1>6 DEF SameFile
<1>8. ASSUME NEW g \in FilePlace, g # f, g[1] # h PROVE FileAt(w, g) = FileAt(m, g)
  BY <1>3, <1>4, <1>8 DEF SameFile
<1>9. Untouched(m, w, f)
  BY <1>4, <1>5, <1>8 DEF Untouched, SameFile
<1>10. ASSUME NEW g \in FilePlace, FileAt(m, g).indirect # 0
       PROVE  SameBlock(m, w, FileAt(m, g).indirect) /\ FileAt(m, g).indirect # h
  <2>1. FileAt(m, g).indirect \in AnyBlock
    BY <1>10, IndirectRead, Constants
  <2>2. FileAt(m, g).indirect # f[1]
    BY <1>a, DirApart
  <2>3. BlockOf(m, g, 0) = FileAt(m, g).indirect /\ 0 \in 0..MAXFILESIZE
    BY BlockRead, IndexBounds
  <2>4. FileAt(m, g).indirect # h
    BY <1>a, <2>3
  <2> QED BY <1>3, <1>4, <2>1, <2>2, <2>4 DEF SameBlock
<1>11. IndirectOnly(w)
  <2> SUFFICES ASSUME NEW g \in FilePlace, FileAt(w, g).indirect # 0
               PROVE  w[FileAt(w, g).indirect].kind # "files"
    BY DEF IndirectOnly
  <2>1. CASE g[1] = h
    BY <1>4, <2>1 DEF Empty, Blank
  <2>2. CASE g = f
    BY <1>0, <1>2, <1>4, <1>7, <2>2
  <2>3. CASE g # f /\ g[1] # h
    BY <1>a, <1>4, <1>8, <1>10, <2>3, SameIndirect
  <2> QED BY <2>1, <2>2, <2>3
<1>12. OneBlock(m, w, f, 0, h)
  <2> SUFFICES ASSUME NEW g \in FilePlace, NEW k \in 0..MAXFILESIZE
               PROVE  BlockOf(w, g, k) = IF g = f /\ k = 0 THEN h ELSE BlockOf(m, g, k)
    BY DEF OneBlock
  <2>0. k \in Nat
    BY IndexBounds
  <2>1. CASE g[1] = h
    BY <1>4, <1>5, <1>6, <2>0, <2>1, NoBlocks DEF Blank
  <2>2. CASE g # f /\ g[1] # h
    BY <1>4, <1>8, <1>10, <2>0, <2>2, BlocksKept
  <2>3. CASE g = f /\ k = 0
    BY <1>2, <1>4, <1>7, <2>0, <2>3, BlockRead
  <2>4. CASE g = f /\ k # 0 /\ k <= NDIRECT
    BY <1>2, <1>7, <2>4 DEF BlockOf
  <2>5. CASE g = f /\ k # 0 /\ ~(k <= NDIRECT)
    <3>1. k <= MAXFILESIZE /\ k > NDIRECT
      BY <2>0, <2>5, Constants
    <3>2. ~(k > MAXFILESIZE) /\ k - NDIRECT \in 1..NINDIRECT
      BY <2>0, <3>1, IndexBounds, Constants
    <3>3. BlockOf(m, f, k) = 0
      BY <1>0, <2>0, <3>1, BlockRead
    <3>4. BlockOf(w, f, k) = Ptrs(Zeroes)[k - NDIRECT]
      BY <1>0, <1>2, <1>4, <1>7, <2>5, <3>2, <1>a, Constants DEF BlockOf
    <3>5. Ptrs(Zeroes)[k - NDIRECT] = 0
      BY <3>2 DEF Ptrs, Zeroes, NoPtrs
    <3> QED BY <2>5, <3>3, <3>4, <3>5
  <2> QED BY <2>1, <2>2, <2>3, <2>4, <2>5
<1>13. SameEntry(m, w, f)
  BY <1>2, <1>7 DEF SameEntry
<1>14. WithIndirect(m, f, h) = w
  BY DEF WithIndirect, w, v, new
<1>15. Elsewhere(m, w, f, h)
  BY <1>3, <1>4 DEF Elsewhere, SameBlock
<1> QED BY <1>3, <1>4, <1>9, <1>11, <1>12, <1>13, <1>14, <1>15 DEF Change

(* What Change needs of the file that is given a block.                    *)
LEMMA PutChange ==
    ASSUME NEW m \in Memory, NEW h, h # 0, NEW care, MemoryInv(m, h, care), NEW f \in Live(m),
           NEW n \in 1..MAXFILESIZE, n <= FileAt(m, f).size,
           n > NDIRECT => FileAt(m, f).indirect # 0
    PROVE  Change(m, WithBlock(m, f, n, h), f, n, h)
<1>1. /\ Own(m, MAXFILESIZE) /\ IndirectOnly(m) /\ DirOnly(m) /\ h \in DataBlock
  BY DEF MemoryInv, InHand
<1>2. n \in Nat /\ n # 0 /\ (n <= NDIRECT => n \in 1..NDIRECT) /\ (~(n <= NDIRECT) => n > NDIRECT)
  BY Constants
<1>3. CASE n <= NDIRECT
  BY <1>1, <1>2, <1>3, DirectChange
<1>4. CASE ~(n <= NDIRECT)
  BY <1>1, <1>2, <1>4, IndirectChange
<1> QED BY <1>3, <1>4

(* A block is taken off the bitmap.                                        *)
LEMMA TakenInv ==
    ASSUME NEW m \in Memory, NEW care, MemoryInv(m, 0, care), NEW h \in FreeBlocks(m)
    PROVE  LET w == WithFree(m, FreeBlocks(m) \ {h}) IN
           /\ w \in Memory /\ MemoryInv(w, h, care) /\ h \in DataBlock
           /\ FreeBlocks(w) = FreeBlocks(m) \ {h}
           /\ \A f \in FilePlace : SameFile(m, w, f)
           /\ \A b \in AnyBlock : b # Bitmap => SameBlock(m, w, b)
           /\ \A f \in FilePlace, n \in 0..MAXFILESIZE : BlockOf(w, f, n) = BlockOf(m, f, n)
<1> DEFINE w == WithFree(m, FreeBlocks(m) \ {h})
<1>0. FreeBlocks(m) \ {h} \in SUBSET DataBlock /\ h \in DataBlock
  BY FreeRead
<1>1. /\ w \in Memory
      /\ FreeBlocks(w) = FreeBlocks(m) \ {h}
      /\ \A b \in AnyBlock : b # Bitmap => SameBlock(m, w, b)
      /\ \A f \in FilePlace : SameFile(m, w, f)
  BY <1>0, WithFreeFacts
<1> HIDE DEF w
<1>2. ASSUME NEW f \in FilePlace
      PROVE  /\ FileAt(w, f) = FileAt(m, f)
             /\ FileAt(m, f).indirect # 0 => SameBlock(m, w, FileAt(m, f).indirect)
  <2>1. FileAt(m, f).indirect # 0 => FileAt(m, f).indirect \in AnyBlock /\ FileAt(m, f).indirect # Bitmap
    BY IndirectRead, Constants
  <2> QED BY <1>1, <2>1 DEF SameFile
<1>3. ASSUME NEW f \in FilePlace, NEW n \in Nat PROVE BlockOf(w, f, n) = BlockOf(m, f, n)
  BY <1>1, <1>2, BlocksKept
<1>4. \A f \in FilePlace, n \in 0..MAXFILESIZE : BlockOf(w, f, n) = BlockOf(m, f, n)
  BY <1>3, IndexBounds
<1>5. ASSUME NEW f \in FilePlace, NEW n \in 0..MAXFILESIZE PROVE BlockOf(m, f, n) # h
  <2>1. h # 0
    BY <1>0, Constants
  <2> QED BY <2>1 DEF MemoryInv, Own
<1>6. Own(w, MAXFILESIZE)
  BY <1>1, <1>4, <1>5 DEF MemoryInv, Own
<1>7. IndirectOnly(w)
  BY <1>1, <1>2, SameIndirect DEF IndirectOnly, MemoryInv
<1>7a. Live(m) \subseteq Live(w)
  <2>1. /\ FileAt(m, Root).size <= FileAt(w, Root).size
        /\ \A i \in 1..MAXFILESIZE : BlockOf(m, Root, i) # 0 => BlockOf(w, Root, i) = BlockOf(m, Root, i)
    <3>1. FileAt(m, Root).size \in Nat
      BY FilePlaces, FileRead, FileFields
    <3> QED BY <1>2, <1>4, <3>1, FilePlaces, IndexBounds
  <2> QED BY <1>1, <2>1, LiveGrows
<1>8. DirOnly(w)
  BY <1>2, <1>7a DEF DirOnly, MemoryInv
<1>9. InHand(w, h)
  BY <1>0, <1>1, <1>4, <1>5 DEF InHand
<1>10. ASSUME care.exact PROVE WithinSize(w)
  BY <1>2, <1>4, <1>10, IndexBounds DEF WithinSize, MemoryInv
<1>11. ASSUME care.exact PROVE NoneLost(w, h)
  <2> SUFFICES ASSUME NEW b \in DataBlock \ FreeBlocks(w), b # h
               PROVE  \E f \in FilePlace, n \in 0..MAXFILESIZE : BlockOf(w, f, n) = b
    BY DEF NoneLost
  <2>1. b \in DataBlock \ FreeBlocks(m) /\ b # 0
    BY <1>1, Constants
  <2>2. PICK f \in FilePlace, n \in 0..MAXFILESIZE : BlockOf(m, f, n) = b
    BY <1>11, <2>1 DEF NoneLost, MemoryInv
  <2> QED BY <1>4, <2>2
<1>11a. ASSUME care.exact PROVE NamesLive(w) /\ Unique(w)
  <2>1. KeepNames(m, w)
    BY <1>2 DEF KeepNames
  <2> QED BY <1>1, <1>7a, <1>11a, <2>1, NamesStay DEF MemoryInv
<1>12. MemoryInv(w, h, care)
  BY <1>6, <1>7, <1>8, <1>9, <1>10, <1>11, <1>11a DEF MemoryInv
<1> QED BY <1>0, <1>1, <1>4, <1>12 DEF w

-----------------------------------------------------------------------------
(* Flushed files. care says what a request has to take care of: kept, the  *)
(* names of the flushed files that it does not change, and saved, what     *)
(* they hold. at is the place whose name the disk may be behind with; dir, *)
(* that the directory on the disk leads only where that in memory does.    *)

SameData(m, w, f) == \A k \in 0..MAXFILESIZE : BlockOf(m, f, k) # 0 => SameBlock(m, w, BlockOf(m, f, k))

Agree(m, w, n) == \A f \in FilePlace : FileAt(m, f).name = n => SameFile(m, w, f) /\ SameData(m, w, f)

(* The directory on d, too, has the block with the File structure.         *)
Slotted(m, d, n) ==
    \A f \in FilePlace : FileAt(m, f).name = n =>
        \E i \in 1..MAXFILESIZE :
            i <= FileAt(d, Root).size /\ BlockOf(m, Root, i) = f[1] /\ BlockOf(d, Root, i) = f[1]

DirOn(m, d) == \A i \in 1..MAXFILESIZE : BlockOf(d, Root, i) # 0 => BlockOf(m, Root, i) = BlockOf(d, Root, i)

NamesOn(m, d, care) ==
    \A f \in FilePlace :
        \/ FileAt(d, f).name = FileAt(m, f).name
        \/ f = care.at /\ FileAt(m, f).name \notin care.kept /\ FileAt(d, f).name \notin care.kept

OnDisk(m, d, care) ==
    /\ NamesOn(m, d, care)
    /\ \A n \in care.kept : Agree(m, d, n) /\ Slotted(m, d, n)
    /\ care.dir => DirOn(m, d)

Holds(m, care) == \A n \in care.kept : Contents(m, n) = care.saved[n]

Safe(s, care) ==
    care.exact => /\ care.kept \subseteq Name
                  /\ OnDisk(s.mem, s.disk, care)
                  /\ Holds(s.mem, care)
                  /\ \A d \in s.stops : Holds(d, care)

(* What a change of the memory must leave alone.                           *)
Spares(m, w, care) ==
    /\ NamesOn(m, w, care)
    /\ \A n \in care.kept : Agree(m, w, n)
    /\ DirOn(w, m)
    /\ FileAt(m, Root).size <= FileAt(w, Root).size

LEMMA AgreeBlocks ==
    ASSUME NEW m \in Memory, NEW w \in Memory, NEW n, Agree(m, w, n), NEW f \in FilePlace, FileAt(m, f).name = n
    PROVE  /\ FileAt(w, f) = FileAt(m, f)
           /\ \A k \in Nat : BlockOf(w, f, k) = BlockOf(m, f, k)
           /\ \A k \in Nat : BlockOf(m, f, k) # 0 => w[BlockOf(m, f, k)] = m[BlockOf(m, f, k)]
<1>1. FileAt(w, f) = FileAt(m, f) /\ SameData(m, w, f)
  BY DEF Agree, SameFile
<1>2. FileAt(m, f).indirect # 0 => SameBlock(m, w, FileAt(m, f).indirect)
  <2>1. BlockOf(m, f, 0) = FileAt(m, f).indirect /\ 0 \in 0..MAXFILESIZE
    BY BlockRead, IndexBounds
  <2> QED BY <1>1, <2>1 DEF SameData
<1>3. \A k \in Nat : BlockOf(w, f, k) = BlockOf(m, f, k)
  BY <1>1, <1>2, BlocksKept
<1>4. ASSUME NEW k \in Nat, BlockOf(m, f, k) # 0 PROVE w[BlockOf(m, f, k)] = m[BlockOf(m, f, k)]
  <2>1. ~(k > MAXFILESIZE)
    BY <1>4, BlockRead
  <2>2. k \in 0..MAXFILESIZE
    BY <2>1, Constants
  <2> QED BY <1>1, <1>4, <2>2 DEF SameData, SameBlock
<1> QED BY <1>1, <1>3, <1>4

LEMMA AgreeContents ==
    ASSUME NEW m \in Memory, NEW w \in Memory, NEW n, Agree(m, w, n),
           \A f \in FilePlace : FileAt(w, f).name = n <=> FileAt(m, f).name = n,
           \A f \in FilePlace : FileAt(m, f).name = n => f \in AllFiles(m) /\ f \in AllFiles(w)
    PROVE  Contents(w, n) = Contents(m, n)
<1> DEFINE C(x, f) == [size |-> FileAt(x, f).size,
                       blocks |-> [i \in 1..FileAt(x, f).size |->
                           IF BlockOf(x, f, i) = 0 THEN [kind |-> "hole"] ELSE x[BlockOf(x, f, i)]]]
<1>1. AllFiles(m) \subseteq FilePlace /\ AllFiles(w) \subseteq FilePlace
  BY DirRead
<1>2. Named(w, n) = Named(m, n)
  BY <1>1 DEF Named
<1>3. ASSUME NEW f \in Named(m, n) PROVE C(w, f) = C(m, f)
  <2>1. f \in FilePlace /\ FileAt(m, f).name = n
    BY <1>1, <1>3 DEF Named
  <2>2. /\ FileAt(w, f) = FileAt(m, f)
        /\ \A k \in Nat : BlockOf(w, f, k) = BlockOf(m, f, k)
        /\ \A k \in Nat : BlockOf(m, f, k) # 0 => w[BlockOf(m, f, k)] = m[BlockOf(m, f, k)]
    BY <2>1, AgreeBlocks
  <2>3. \A k \in 1..FileAt(m, f).size : k \in Nat
    BY <2>1, FileRead, FileFields
  <2>4. [i \in 1..FileAt(w, f).size |-> IF BlockOf(w, f, i) = 0 THEN [kind |-> "hole"] ELSE w[BlockOf(w, f, i)]]
        = [i \in 1..FileAt(m, f).size |-> IF BlockOf(m, f, i) = 0 THEN [kind |-> "hole"] ELSE m[BlockOf(m, f, i)]]
    BY <2>2, <2>3
  <2> QED BY <2>2, <2>4
<1>4. Contents(m, n) = {C(m, f) : f \in Named(m, n)} /\ Contents(w, n) = {C(w, f) : f \in Named(w, n)}
  BY DEF Contents
<1> HIDE DEF C
<1> QED BY <1>2, <1>3, <1>4

LEMMA RootNamed ==
    ASSUME NEW m \in Memory
    PROVE  FileAt(m, Root).name = "/" /\ FileAt(m, Root).name # Unnamed /\ FileAt(m, Root).size \in Nat
BY FilePlaces, FileRead, FileFields DEF Unnamed

LEMMA KeptLive ==
    ASSUME NEW m \in Memory, NamesLive(m), NEW n \in Name, NEW f \in FilePlace, FileAt(m, f).name = n
    PROVE  f \in AllFiles(m) /\ f # Root /\ f \in Live(m)
BY FsAssumption, RootNamed DEF NamesLive, Live, Unnamed

LEMMA HeldContents ==
    ASSUME NEW m \in Memory, NEW d \in Memory, NEW care, care.kept \subseteq Name, NamesLive(m),
           OnDisk(m, d, care), Holds(m, care)
    PROVE  Holds(d, care)
<1> SUFFICES ASSUME NEW n \in care.kept
             PROVE  Contents(d, n) = Contents(m, n)
  BY DEF Holds
<1>1. Agree(m, d, n) /\ Slotted(m, d, n) /\ n \in Name
  BY DEF OnDisk
<1>2. \A f \in FilePlace : FileAt(d, f).name = n <=> FileAt(m, f).name = n
  BY DEF OnDisk, NamesOn
<1>3. ASSUME NEW f \in FilePlace, FileAt(m, f).name = n PROVE f \in AllFiles(m) /\ f \in AllFiles(d)
  <2>1. f \in AllFiles(m) /\ f # Root
    BY <1>1, <1>3, KeptLive
  <2>2. PICK i \in 1..MAXFILESIZE : i <= FileAt(d, Root).size /\ BlockOf(d, Root, i) = f[1]
    BY <1>1, <1>3 DEF Slotted
  <2>3. f[1] # 0
    BY FilePlaces
  <2> QED BY <2>1, <2>2, <2>3, DirRead
<1> QED BY <1>1, <1>2, <1>3, AgreeContents

(* Memory that is replaced by what spares the flushed files.               *)
LEMMA SafeMemory ==
    ASSUME NEW s, s.mem \in Memory, s.disk \in Memory, NEW care, Safe(s, care),
           NEW t, t.mem \in Memory, t.disk = s.disk, t.stops = s.stops,
           care.exact => NamesLive(s.mem) /\ Spares(s.mem, t.mem, care)
    PROVE  Safe(t, care)
<1> DEFINE m == s.mem
           w == t.mem
           d == s.disk
<1> SUFFICES ASSUME care.exact
             PROVE  OnDisk(w, d, care) /\ Holds(w, care)
  BY DEF Safe
<1>0. /\ care.kept \subseteq Name /\ OnDisk(m, d, care) /\ Holds(m, care)
      /\ NamesLive(m) /\ Spares(m, w, care)
  BY DEF Safe
<1>a. m \in Memory /\ w \in Memory /\ d \in Memory
  OBVIOUS
<1> HIDE DEF m, w, d
<1>1. NamesOn(m, w, care) /\ NamesOn(m, d, care)
  BY <1>0 DEF Spares, OnDisk
<1>2. NamesOn(w, d, care)
  BY <1>1 DEF NamesOn
<1>3. ASSUME NEW n \in care.kept PROVE /\ \A f \in FilePlace : FileAt(w, f).name = n <=> FileAt(m, f).name = n
                                       /\ Agree(m, w, n) /\ Agree(m, d, n) /\ Slotted(m, d, n) /\ n \in Name
  BY <1>0, <1>1 DEF NamesOn, Spares, OnDisk
<1>4. ASSUME NEW n \in care.kept PROVE Agree(w, d, n)
  <2> SUFFICES ASSUME NEW f \in FilePlace, FileAt(w, f).name = n PROVE SameFile(w, d, f) /\ SameData(w, d, f)
    BY DEF Agree
  <2>1. FileAt(m, f).name = n
    BY <1>3
  <2>2. /\ FileAt(w, f) = FileAt(m, f)
        /\ \A k \in Nat : BlockOf(w, f, k) = BlockOf(m, f, k)
        /\ \A k \in Nat : BlockOf(m, f, k) # 0 => w[BlockOf(m, f, k)] = m[BlockOf(m, f, k)]
    BY <1>3, <1>a, <2>1, AgreeBlocks
  <2>3. /\ FileAt(d, f) = FileAt(m, f)
        /\ \A k \in Nat : BlockOf(m, f, k) # 0 => d[BlockOf(m, f, k)] = m[BlockOf(m, f, k)]
    BY <1>3, <1>a, <2>1, AgreeBlocks
  <2> QED BY <2>2, <2>3, IndexBounds DEF SameFile, SameData, SameBlock
<1>5. DirOn(w, m)
  BY <1>0 DEF Spares
<1>6. ASSUME NEW n \in care.kept PROVE Slotted(w, d, n)
  <2> SUFFICES ASSUME NEW f \in FilePlace, FileAt(w, f).name = n
               PROVE  \E i \in 1..MAXFILESIZE :
                        i <= FileAt(d, Root).size /\ BlockOf(w, Root, i) = f[1] /\ BlockOf(d, Root, i) = f[1]
    BY DEF Slotted
  <2>1. PICK i \in 1..MAXFILESIZE :
            i <= FileAt(d, Root).size /\ BlockOf(m, Root, i) = f[1] /\ BlockOf(d, Root, i) = f[1]
    BY <1>3 DEF Slotted
  <2>2. BlockOf(w, Root, i) = f[1]
    BY <1>5, <2>1, FilePlaces DEF DirOn
  <2> QED BY <2>1, <2>2
<1>7. care.dir => DirOn(w, d)
  BY <1>0, <1>5 DEF DirOn, OnDisk
<1>8. ASSUME NEW n \in care.kept PROVE Contents(w, n) = Contents(m, n)
  <2>1. AllFiles(m) \subseteq AllFiles(w)
    BY <1>0, <1>5, <1>a, LiveGrows DEF DirOn, Spares
  <2>2. \A f \in FilePlace : FileAt(m, f).name = n => f \in AllFiles(m)
    BY <1>0, <1>3, <1>a, KeptLive
  <2> QED BY <1>3, <1>a, <2>1, <2>2, AgreeContents
<1>9. Holds(w, care)
  BY <1>0, <1>8 DEF Holds
<1> QED BY <1>2, <1>4, <1>6, <1>7, <1>9 DEF OnDisk

LEMMA SafeSame ==
    ASSUME NEW s, NEW t, NEW care, Safe(s, care), t.mem = s.mem, t.disk = s.disk, t.stops = s.stops
    PROVE  Safe(t, care)
BY DEF Safe

(* Only the bitmap is different.                                           *)
LEMMA SameSpares ==
    ASSUME NEW m \in Memory, NEW w \in Memory, NEW care,
           \A f \in FilePlace : SameFile(m, w, f),
           \A f \in FilePlace, n \in 0..MAXFILESIZE : BlockOf(w, f, n) = BlockOf(m, f, n),
           \A b \in AnyBlock : b # Bitmap => SameBlock(m, w, b)
    PROVE  Spares(m, w, care)
<1>1. NamesOn(m, w, care)
  BY DEF NamesOn, SameFile
<1>2. \A n : Agree(m, w, n)
  <2> SUFFICES ASSUME NEW f \in FilePlace, NEW k \in 0..MAXFILESIZE, BlockOf(m, f, k) # 0
               PROVE  SameBlock(m, w, BlockOf(m, f, k))
    BY DEF Agree, SameData
  <2>1. BlockOf(m, f, k) \in DataBlock
    BY BlockRead, IndexBounds DEF BlockNo
  <2> QED BY <2>1, Constants
<1>3. DirOn(w, m)
  BY FilePlaces, IndexBounds DEF DirOn
<1>4. FileAt(m, Root).size <= FileAt(w, Root).size
  BY FilePlaces, RootNamed DEF SameFile
<1> QED BY <1>1, <1>2, <1>3, <1>4 DEF Spares

(* Other files than f.                                                     *)
LEMMA ElsewhereAgrees ==
    ASSUME NEW m \in Memory, NEW w, NEW care, NEW h, care.kept \subseteq Name,
           Own(m, MAXFILESIZE), InHand(m, h), NamesLive(m),
           NEW f \in Live(m), FileAt(m, f).name \notin care.kept,
           Elsewhere(m, w, f, h), \A g \in Live(m) : g # f => SameFile(m, w, g)
    PROVE  \A n \in care.kept : Agree(m, w, n)
<1> SUFFICES ASSUME NEW n \in care.kept, NEW g \in FilePlace, FileAt(m, g).name = n
             PROVE  SameFile(m, w, g) /\ SameData(m, w, g)
  BY DEF Agree
<1>1. g # f /\ g \in Live(m) /\ g # Root /\ f \in FilePlace
  BY KeptLive, DirRead
<1>2. SameFile(m, w, g)
  BY <1>1
<1>3. ASSUME NEW k \in 0..MAXFILESIZE, BlockOf(m, g, k) # 0
      PROVE  SameBlock(m, w, BlockOf(m, g, k))
  <2> DEFINE b == BlockOf(m, g, k)
  <2>1. b \in DataBlock
    BY <1>3 DEF Own
  <2>2. b \in AnyBlock /\ b # Bitmap
    BY <2>1, Constants
  <2>3. b # f[1]
    BY <1>1, DirApart
  <2>4. b # h
    BY <1>3 DEF InHand
  <2>5. ASSUME NEW j \in 0..MAXFILESIZE PROVE BlockOf(m, f, j) # b
    BY <1>1, <1>3 DEF Own
  <2> QED BY <2>2, <2>3, <2>4, <2>5 DEF Elsewhere
<1> QED BY <1>2, <1>3 DEF SameData

LEMMA ElsewhereSpares ==
    ASSUME NEW m \in Memory, NEW w \in Memory, NEW care, NEW h, care.kept \subseteq Name,
           care.exact, MemoryInv(m, h, care),
           NEW f \in Live(m), FileAt(m, f).name \notin care.kept,
           Elsewhere(m, w, f, h), \A g \in Live(m) : g # f => SameFile(m, w, g),
           KeepNames(m, w), DirOn(w, m), FileAt(m, Root).size <= FileAt(w, Root).size
    PROVE  Spares(m, w, care)
<1>1. NamesLive(m) /\ Own(m, MAXFILESIZE) /\ InHand(m, h)
  BY DEF MemoryInv
<1>2. \A n \in care.kept : Agree(m, w, n)
  BY <1>1, ElsewhereAgrees
<1>3. NamesOn(m, w, care)
  BY <1>1 DEF NamesOn, KeepNames, NamesLive
<1> QED BY <1>2, <1>3 DEF Spares

-----------------------------------------------------------------------------
(* Requests: what reaches the disk, and when.                              *)

Requests ==
    [mem : Memory, disk : Memory, stops : SUBSET Memory, failed : BOOLEAN, haunted : BOOLEAN,
     blk : BlockNo, file : FilePlace \cup {NoFile}]

Sound(stops) == \A d \in stops : Own(d, NDIRECT)

(* but: the block with a File structure that the disk is behind with.      *)
Pending(s, h, care, but) ==
    /\ s \in Requests
    /\ MemoryInv(s.mem, h, care)
    /\ Under(s.disk, s.mem, but)
    /\ Sound(s.stops)
    /\ Safe(s, care)

(* A file that the request is about.                                       *)
MayChange(m, f, care) == care.exact => FileAt(m, f).name \notin care.kept

(* A block that is not legible stays in hand when the call is given up.    *)
Held(s) == IF s.haunted THEN s.blk ELSE 0

RequestInv(s, care) == Pending(s, Held(s), care, 0) /\ (s.haunted => s.failed)

LEMMA Unhaunted ==
    ASSUME NEW s, NEW care
    PROVE  /\ RequestInv(s, care) /\ s.failed = FALSE => s.haunted = FALSE /\ Pending(s, 0, care, 0)
           /\ s.haunted = FALSE /\ Pending(s, 0, care, 0) => RequestInv(s, care)
<1>1. s \in Requests => s.haunted \in BOOLEAN
  BY DEF Requests
<1> QED BY <1>1 DEF RequestInv, Held, Pending

LEMMA UnderSound ==
    ASSUME NEW d, NEW m, NEW h, NEW care, MemoryInv(m, h, care), Under(d, m, 0)
    PROVE  Own(d, NDIRECT)
<1> SUFFICES ASSUME NEW f \in FilePlace, NEW g \in FilePlace, NEW n \in 0..NDIRECT, NEW k \in 0..NDIRECT,
                    BlockOf(d, f, n) # 0
             PROVE  /\ BlockOf(d, f, n) \in DataBlock \ FreeBlocks(d)
                    /\ BlockOf(d, f, n) = BlockOf(d, g, k) => f = g /\ n = k
  BY DEF Own
<1>1. f[1] # 0 /\ g[1] # 0 /\ n \in 0..MAXFILESIZE /\ k \in 0..MAXFILESIZE
  BY FilePlaces, IndexBounds
<1>2. BlockOf(d, f, n) = BlockOf(m, f, n)
  BY <1>1 DEF Under, LedTo
<1>3. BlockOf(d, g, k) # 0 => BlockOf(d, g, k) = BlockOf(m, g, k)
  BY <1>1 DEF Under, LedTo
<1>4. /\ BlockOf(m, f, n) \in DataBlock \ FreeBlocks(m)
      /\ BlockOf(m, f, n) = BlockOf(m, g, k) => f = g /\ n = k
  BY <1>1, <1>2 DEF MemoryInv, Own
<1> QED BY <1>2, <1>3, <1>4 DEF Under

LEMMA SameEntryBlocks ==
    ASSUME NEW d, NEW w, NEW f, FileAt(w, f) = FileAt(d, f), NEW n \in 0..NDIRECT
    PROVE  BlockOf(w, f, n) = BlockOf(d, f, n)
<1>1. n = 0 \/ n <= NDIRECT
  BY Constants
<1> QED BY <1>1 DEF BlockOf

LEMMA WrittenFacts ==
    ASSUME NEW s \in Requests, NEW bs
    PROVE  /\ Written(s, bs) \in Memory
           /\ \A b \in AnyBlock : Written(s, bs)[b] = IF b \in bs THEN s.mem[b] ELSE s.disk[b]
           /\ \A f \in FilePlace :
                  FileAt(Written(s, bs), f) = IF f[1] \in bs THEN FileAt(s.mem, f) ELSE FileAt(s.disk, f)
           /\ FreeBlocks(Written(s, bs)) = IF Bitmap \in bs THEN FreeBlocks(s.mem) ELSE FreeBlocks(s.disk)
<1> DEFINE w == Written(s, bs)
<1>1. s.mem \in Memory /\ s.disk \in Memory
  BY DEF Requests
<1>2. w = [b \in AnyBlock |-> IF b \in bs THEN s.mem[b] ELSE s.disk[b]]
  BY DEF Written, AnyBlock
<1> HIDE DEF w
<1>3. \A b \in AnyBlock : w[b] = IF b \in bs THEN s.mem[b] ELSE s.disk[b]
  BY <1>2
<1>4. w \in [AnyBlock -> Content \cup SuperContent \cup BitmapContent]
  BY <1>1, <1>2 DEF Memory
<1>5. w[Super] \in SuperContent /\ w[Bitmap] \in BitmapContent /\ \A b \in DataBlock : w[b] \in Content
  BY <1>1, <1>3, Constants DEF Memory
<1>6. w \in Memory
  BY <1>4, <1>5 DEF Memory
<1> QED BY <1>3, <1>6, FilePlaces, Constants DEF FileAt, FreeBlocks, w

LEMMA WrittenUnder ==
    ASSUME NEW s \in Requests, NEW bs, NEW but, Under(s.disk, s.mem, but), but = 0 \/ but \in bs
    PROVE  Under(Written(s, bs), s.mem, 0)
<1> DEFINE w == Written(s, bs)
<1>1. /\ \A f \in FilePlace :
             FileAt(w, f) = IF f[1] \in bs THEN FileAt(s.mem, f) ELSE FileAt(s.disk, f)
      /\ FreeBlocks(w) = IF Bitmap \in bs THEN FreeBlocks(s.mem) ELSE FreeBlocks(s.disk)
  BY WrittenFacts
<1> HIDE DEF w
<1>2. FreeBlocks(w) \subseteq FreeBlocks(s.mem)
  BY <1>1 DEF Under
<1>3. ASSUME NEW f \in FilePlace, NEW n \in 0..NDIRECT, BlockOf(w, f, n) # 0
      PROVE  BlockOf(w, f, n) = BlockOf(s.mem, f, n)
  <2>1. CASE f[1] \in bs
    BY <1>1, <2>1, SameEntryBlocks
  <2>2. CASE f[1] \notin bs
    <3>1. f[1] # but
      BY <2>2, FilePlaces
    <3>2. BlockOf(w, f, n) = BlockOf(s.disk, f, n)
      BY <1>1, <2>2, SameEntryBlocks
    <3> QED BY <1>3, <3>1, <3>2 DEF Under, LedTo
  <2> QED BY <2>1, <2>2
<1>4. Under(w, s.mem, 0)
  BY <1>2, <1>3 DEF Under, LedTo
<1> QED BY <1>4 DEF w

(* The directory on the disk when blocks are written: it leads where it    *)
(* led and, if the super block is not among them, nowhere else but where   *)
(* that in memory leads.                                                   *)
LEMMA DirWritten ==
    ASSUME NEW s \in Requests, NEW bs, LedTo(s.disk, s.mem, Root), NEW i \in 1..MAXFILESIZE
    PROVE  LET w == Written(s, bs) IN
           /\ BlockOf(s.disk, Root, i) # 0 /\ BlockOf(s.mem, Root, i) = BlockOf(s.disk, Root, i)
                  => BlockOf(w, Root, i) = BlockOf(s.disk, Root, i)
           /\ Super \notin bs =>
                  BlockOf(w, Root, i) \in {0, BlockOf(s.mem, Root, i), BlockOf(s.disk, Root, i)}
<1> DEFINE w == Written(s, bs)
           m == s.mem
           d == s.disk
<1>1. /\ w \in Memory
      /\ \A b \in AnyBlock : w[b] = IF b \in bs THEN m[b] ELSE d[b]
      /\ FileAt(w, Root) = IF Super \in bs THEN FileAt(m, Root) ELSE FileAt(d, Root)
  BY WrittenFacts, FilePlaces
<1>2. m \in Memory /\ d \in Memory /\ LedTo(d, m, Root)
  BY DEF Requests
<1> HIDE DEF w, m, d
<1>3. i \in Nat /\ i # 0
  BY IndexBounds
<1>4. CASE i <= NDIRECT
  <2>1. \A x : BlockOf(x, Root, i) = FileAt(x, Root).direct[i]
    BY <1>3, <1>4 DEF BlockOf
  <2>2. BlockOf(w, Root, i) = IF Super \in bs THEN BlockOf(m, Root, i) ELSE BlockOf(d, Root, i)
    BY <1>1, <2>1
  <2> QED BY <2>2 DEF w, m, d
<1>5. CASE ~(i <= NDIRECT)
  <2> DEFINE p == FileAt(d, Root).indirect
  <2>1. \A x : BlockOf(x, Root, 0) = FileAt(x, Root).indirect
    BY DEF BlockOf
  <2>2. p # 0 => FileAt(m, Root).indirect = p
    BY <1>2, <2>1, Constants DEF LedTo
  <2>3. p # 0 => p \in AnyBlock
    BY <1>2, FilePlaces, IndirectRead, Constants
  <2>4. ~(i > MAXFILESIZE)
    BY <1>3, Constants
  <2>5. \A x : BlockOf(x, Root, i) = IF FileAt(x, Root).indirect = 0 THEN 0
                                     ELSE Ptrs(x[FileAt(x, Root).indirect])[i - NDIRECT]
    BY <1>3, <1>5, <2>4 DEF BlockOf
  <2>6. CASE p = 0
    <3>1. BlockOf(d, Root, i) = 0 /\ (Super \notin bs => BlockOf(w, Root, i) = 0)
      BY <1>1, <2>5, <2>6
    <3> QED BY <3>1 DEF w, m, d
  <2>7. CASE p # 0
    <3>1. FileAt(w, Root).indirect = p
      BY <1>1, <2>2, <2>7
    <3>2. w[p] = m[p] \/ w[p] = d[p]
      BY <1>1, <2>3, <2>7
    <3>3. BlockOf(w, Root, i) = BlockOf(m, Root, i) \/ BlockOf(w, Root, i) = BlockOf(d, Root, i)
      BY <2>2, <2>5, <2>7, <3>1, <3>2
    <3> QED BY <3>3 DEF w, m, d
  <2> QED BY <2>6, <2>7
<1> QED BY <1>4, <1>5

LEMMA OnDiskWritten ==
    ASSUME NEW s \in Requests, NEW bs, NEW care, LedTo(s.disk, s.mem, Root), WithinSize(s.mem),
           OnDisk(s.mem, s.disk, care), care.dir => Super \notin bs
    PROVE  OnDisk(s.mem, Written(s, bs), care)
<1> DEFINE w == Written(s, bs)
           m == s.mem
           d == s.disk
<1>1. /\ \A b \in AnyBlock : w[b] = IF b \in bs THEN m[b] ELSE d[b]
      /\ \A f \in FilePlace : FileAt(w, f) = IF f[1] \in bs THEN FileAt(m, f) ELSE FileAt(d, f)
  BY WrittenFacts
<1>2. LedTo(d, m, Root)
  OBVIOUS
<1>3. \A i \in 1..MAXFILESIZE :
          /\ BlockOf(d, Root, i) # 0 /\ BlockOf(m, Root, i) = BlockOf(d, Root, i)
                 => BlockOf(w, Root, i) = BlockOf(d, Root, i)
          /\ Super \notin bs => BlockOf(w, Root, i) \in {0, BlockOf(m, Root, i), BlockOf(d, Root, i)}
  BY <1>2, DirWritten
<1>4. OnDisk(m, d, care) /\ WithinSize(m) /\ m \in Memory /\ (care.dir => Super \notin bs)
  BY DEF Requests
<1> HIDE DEF w, m, d
<1>5. NamesOn(m, w, care)
  BY <1>1, <1>4 DEF OnDisk, NamesOn
<1>6. ASSUME NEW n \in care.kept PROVE Agree(m, w, n)
  <2> SUFFICES ASSUME NEW f \in FilePlace, FileAt(m, f).name = n PROVE SameFile(m, w, f) /\ SameData(m, w, f)
    BY DEF Agree
  <2>1. SameFile(m, d, f) /\ SameData(m, d, f)
    BY <1>4 DEF OnDisk, Agree
  <2>2. ASSUME NEW k \in 0..MAXFILESIZE, BlockOf(m, f, k) # 0 PROVE w[BlockOf(m, f, k)] = m[BlockOf(m, f, k)]
    <3>1. BlockOf(m, f, k) \in AnyBlock
      BY <1>4, <2>2, BlockRead, IndexBounds, Constants DEF BlockNo
    <3> QED BY <1>1, <2>1, <2>2, <3>1 DEF SameData, SameBlock
  <2> QED BY <1>1, <2>1, <2>2 DEF SameFile, SameData, SameBlock
<1>7. ASSUME NEW n \in care.kept PROVE Slotted(m, w, n)
  <2> SUFFICES ASSUME NEW f \in FilePlace, FileAt(m, f).name = n
               PROVE  \E i \in 1..MAXFILESIZE :
                        i <= FileAt(w, Root).size /\ BlockOf(m, Root, i) = f[1] /\ BlockOf(w, Root, i) = f[1]
    BY DEF Slotted
  <2>1. PICK i \in 1..MAXFILESIZE :
            i <= FileAt(d, Root).size /\ BlockOf(m, Root, i) = f[1] /\ BlockOf(d, Root, i) = f[1]
    BY <1>4 DEF OnDisk, Slotted
  <2>2. f[1] # 0
    BY FilePlaces
  <2>3. BlockOf(w, Root, i) = f[1]
    BY <1>3, <2>1, <2>2
  <2>4. i <= FileAt(m, Root).size
    BY <1>4, <2>1, <2>2, FilePlaces DEF WithinSize
  <2>5. i <= FileAt(w, Root).size
    BY <1>1, <2>1, <2>4, FilePlaces
  <2> QED BY <2>1, <2>3, <2>5
<1>8. care.dir => DirOn(m, w)
  <2> SUFFICES ASSUME care.dir, NEW i \in 1..MAXFILESIZE, BlockOf(w, Root, i) # 0
               PROVE  BlockOf(m, Root, i) = BlockOf(w, Root, i)
    BY DEF DirOn
  <2>1. BlockOf(w, Root, i) \in {0, BlockOf(m, Root, i), BlockOf(d, Root, i)}
    BY <1>3, <1>4
  <2>2. BlockOf(d, Root, i) # 0 => BlockOf(m, Root, i) = BlockOf(d, Root, i)
    BY <1>4 DEF OnDisk, DirOn
  <2> QED BY <2>1, <2>2
<1>9. OnDisk(m, w, care)
  BY <1>5, <1>6, <1>7, <1>8 DEF OnDisk
<1> QED BY <1>9 DEF w, m

LEMMA SafeWritten ==
    ASSUME NEW s \in Requests, NEW bs, NEW h, NEW care, MemoryInv(s.mem, h, care),
           LedTo(s.disk, s.mem, Root), Safe(s, care), care.dir => Super \notin bs
    PROVE  care.exact => OnDisk(s.mem, Written(s, bs), care) /\ Holds(Written(s, bs), care)
<1> DEFINE w == Written(s, bs)
<1> SUFFICES ASSUME care.exact PROVE OnDisk(s.mem, w, care) /\ Holds(w, care)
  OBVIOUS
<1>1. /\ care.kept \subseteq Name /\ OnDisk(s.mem, s.disk, care) /\ Holds(s.mem, care)
      /\ WithinSize(s.mem) /\ NamesLive(s.mem) /\ s.mem \in Memory
  BY DEF Safe, MemoryInv, Requests
<1>2. w \in Memory
  BY WrittenFacts
<1>3. OnDisk(s.mem, w, care)
  BY <1>1, OnDiskWritten
<1> HIDE DEF w
<1>4. Holds(w, care)
  BY <1>1, <1>2, <1>3, HeldContents
<1> QED BY <1>3, <1>4

SameResult(s, t) ==
    t.mem = s.mem /\ t.failed = s.failed /\ t.haunted = s.haunted /\ t.blk = s.blk /\ t.file = s.file

LEMMA FlushRequests ==
    ASSUME NEW s \in Requests, NEW b
    PROVE  Flush(s, b) \in Requests /\ SameResult(s, Flush(s, b))
<1>1. Written(s, {b}) \in Memory
  BY WrittenFacts
<1> QED BY <1>1 DEF Flush, Requests, SameResult

LEMMA FlushAllRequests ==
    ASSUME NEW s \in Requests, NEW blocks, NEW last
    PROVE  FlushAll(s, blocks, last) \in Requests /\ FlushAll(s, blocks, last).mem = s.mem
<1> DEFINE D(k) == Written(s, {blocks[n] : n \in 1..k})
           t == FlushAll(s, blocks, last)
<1>1. \A k : D(k) \in Memory
  BY WrittenFacts
<1>2. t = [s EXCEPT !.disk = D(last), !.stops = @ \cup {D(k) : k \in 1..last}]
  BY DEF FlushAll
<1> HIDE DEF D, t
<1>3. t \in Requests /\ t.mem = s.mem
  BY <1>1, <1>2 DEF Requests
<1> QED BY <1>3 DEF t

LEMMA FlushInv ==
    ASSUME NEW s, NEW h, NEW care, NEW but, Pending(s, h, care, but), NEW b, but = 0 \/ but = b,
           but # Super, care.dir => b # Super
    PROVE  Pending(Flush(s, b), h, care, 0) /\ SameResult(s, Flush(s, b))
<1> DEFINE w == Written(s, {b})
           t == Flush(s, b)
<1>1. s \in Requests
  BY DEF Pending
<1>2. w \in Memory
  BY <1>1, WrittenFacts
<1>3. Under(w, s.mem, 0)
  BY <1>1, WrittenUnder DEF Pending
<1>4. Own(w, NDIRECT)
  BY <1>3, UnderSound DEF Pending
<1>5. t = [s EXCEPT !.disk = w, !.stops = @ \cup {w}]
  BY DEF Flush
<1> HIDE DEF w, t
<1>6. t \in Requests /\ t.mem = s.mem /\ t.disk = w /\ t.stops = s.stops \cup {w}
  BY <1>1, <1>2, <1>5 DEF Requests
<1>7. SameResult(s, t)
  BY <1>1, <1>5 DEF Requests, SameResult
<1>8. LedTo(s.disk, s.mem, Root)
  BY FilePlaces DEF Pending, Under
<1>9. care.exact => OnDisk(s.mem, w, care) /\ Holds(w, care)
  BY <1>1, <1>8, SafeWritten DEF Pending, w
<1>10. Safe(t, care)
  BY <1>6, <1>9 DEF Pending, Safe
<1>11. Pending(t, h, care, 0)
  BY <1>3, <1>4, <1>6, <1>10 DEF Pending, Sound
<1> QED BY <1>7, <1>11 DEF t

LEMMA FlushAllInv ==
    ASSUME NEW s, NEW care, RequestInv(s, care), NEW blocks, NEW last \in Nat,
           care.dir => \A n \in 1..last : blocks[n] # Super
    PROVE  RequestInv(FlushAll(s, blocks, last), care) /\ SameResult(s, FlushAll(s, blocks, last))
<1> DEFINE D(k) == Written(s, {blocks[n] : n \in 1..k})
           t == FlushAll(s, blocks, last)
           K == {last} \cup 1..last
<1>1. s \in Requests
  BY DEF Pending, RequestInv
<1>2. \A k : D(k) \in Memory
  BY <1>1, WrittenFacts
<1>3. \A k : Under(D(k), s.mem, 0)
  BY <1>1, WrittenUnder DEF Pending, RequestInv
<1>5. t = [s EXCEPT !.disk = D(last), !.stops = @ \cup {D(k) : k \in 1..last}]
  BY DEF FlushAll
<1>5a. LedTo(s.disk, s.mem, Root)
  BY FilePlaces DEF Pending, RequestInv, Under
<1>5b. ASSUME NEW k \in K PROVE care.exact => OnDisk(s.mem, D(k), care) /\ Holds(D(k), care)
  <2>1. \A n \in 1..k : n \in 1..last
    <3>1. CASE k = last
      BY <3>1
    <3>2. CASE k \in 1..last
      BY <3>2
    <3> QED BY <1>5b, <3>1, <3>2
  <2>2. care.dir => Super \notin {blocks[n] : n \in 1..k}
    BY <2>1
  <2> QED BY <1>1, <1>5a, <2>2, SafeWritten DEF Pending, RequestInv
<1> HIDE DEF D, t
<1>4. \A k : Own(D(k), NDIRECT)
  BY <1>3, UnderSound DEF Pending, RequestInv
<1>6. t \in Requests /\ t.mem = s.mem /\ t.disk = D(last) /\ t.stops = s.stops \cup {D(k) : k \in 1..last}
  BY <1>1, <1>2, <1>5 DEF Requests
<1>7. SameResult(s, t)
  BY <1>1, <1>5 DEF Requests, SameResult
<1>8. Sound(t.stops)
  BY <1>4, <1>6 DEF Sound, Pending, RequestInv
<1>9. Safe(t, care)
  BY <1>5b, <1>6 DEF Pending, RequestInv, Safe
<1>9a. Held(t) = Held(s) /\ (t.haunted => t.failed)
  BY <1>7 DEF SameResult, Held, RequestInv
<1>10. RequestInv(t, care)
  BY <1>3, <1>6, <1>8, <1>9, <1>9a DEF Pending, RequestInv
<1> QED BY <1>7, <1>10 DEF t

LEMMA LeastNat ==
    ASSUME NEW A \in SUBSET Nat, A # {}
    PROVE  \E n \in A : \A k \in A : n <= k
<1>1. PICK n \in A : \A k \in A : <<k, n>> \notin OpToRel(<, Nat)
  BY NatLessThanWellFounded, WFMin, Zenon
<1>2. ASSUME NEW k \in A, k < n PROVE FALSE
  <2>1. <<k, n>> \in OpToRel(<, Nat)
    BY <1>2, Zenon DEF OpToRel
  <2> QED BY <1>1, <2>1, Zenon
<1>3. ASSUME NEW k \in A PROVE n <= k
  <2>1. ~(k < n)
    BY <1>2
  <2> QED BY <2>1
<1> QED BY <1>3

LEMMA LeastOf ==
    ASSUME NEW A \in SUBSET Nat, A # {}
    PROVE  Min(A) \in A
BY LeastNat DEF Min

LEMMA SameAllCalm ==
    ASSUME NEW m \in Memory, NEW w \in Memory,
           \A f \in FilePlace : SameFile(m, w, f),
           \A f \in FilePlace, n \in 0..MAXFILESIZE : BlockOf(w, f, n) = BlockOf(m, f, n)
    PROVE  Live(w) = Live(m) /\ \A f \in FilePlace : Calm(m, w, f)
<1>1. FileAt(w, Root).size = FileAt(m, Root).size /\ FileAt(m, Root).size \in Nat
  BY FilePlaces, FileRead, FileFields DEF SameFile
<1>2. \A i \in 1..MAXFILESIZE : BlockOf(w, Root, i) = BlockOf(m, Root, i)
  BY FilePlaces, IndexBounds
<1>3. Live(w) = Live(m)
  <2>1. FileAt(m, Root).size <= FileAt(w, Root).size /\ FileAt(w, Root).size <= FileAt(m, Root).size
    BY <1>1
  <2>2. Live(m) \subseteq Live(w)
    BY <1>2, <2>1, LiveGrows
  <2>3. Live(w) \subseteq Live(m)
    BY <1>2, <2>1, LiveGrows
  <2> QED BY <2>2, <2>3
<1>4. Live(m) \subseteq FilePlace
  BY DirRead
<1> QED BY <1>2, <1>3, <1>4 DEF Calm, SameEntry, SameFile, KeepNames

Taken(a, care) == a.haunted = FALSE /\ Pending(a, a.blk, care, 0)

Allocated(s, a, care) ==
    /\ a.failed = FALSE /\ a.file = s.file
    /\ a.blk # 0 /\ a.blk \in DataBlock
    /\ Taken(a, care)
    /\ \A f \in FilePlace : SameFile(s.mem, a.mem, f)
    /\ \A f \in FilePlace, n \in 0..MAXFILESIZE : BlockOf(a.mem, f, n) = BlockOf(s.mem, f, n)

NoDisk(s, a, care) == a.failed /\ a.haunted = FALSE /\ a.mem = s.mem /\ a.file = s.file /\ RequestInv(a, care)

LEMMA AllocBlockInv ==
    ASSUME NEW s, NEW care, RequestInv(s, care), s.failed = FALSE
    PROVE  Allocated(s, AllocBlock(s), care) \/ NoDisk(s, AllocBlock(s), care)
<1> DEFINE a == AllocBlock(s)
           b == Min(FreeBlocks(s.mem))
           w == WithFree(s.mem, FreeBlocks(s.mem) \ {b})
           t == [s EXCEPT !.mem = w, !.blk = b]
<1>0. /\ s \in Requests /\ MemoryInv(s.mem, 0, care) /\ Under(s.disk, s.mem, 0) /\ Sound(s.stops)
      /\ Safe(s, care) /\ s.haunted = FALSE
  BY Unhaunted DEF Pending
<1>1. s.mem \in Memory /\ s.disk \in Memory
  BY <1>0 DEF Requests
<1>2. CASE FreeBlocks(s.mem) = {}
  <2>1. a = [s EXCEPT !.failed = TRUE]
    BY <1>2 DEF AllocBlock
  <2> HIDE DEF a
  <2>2. /\ a \in Requests /\ a.failed /\ a.mem = s.mem /\ a.disk = s.disk /\ a.stops = s.stops
        /\ a.file = s.file /\ a.haunted = FALSE
    BY <1>0, <2>1 DEF Requests
  <2>3. NoDisk(s, a, care)
    BY <1>0, <2>2, SafeSame, Unhaunted DEF NoDisk, Pending
  <2> QED BY <2>3 DEF a
<1>3. CASE FreeBlocks(s.mem) # {}
  <2>1. b \in FreeBlocks(s.mem)
    <3>1. FreeBlocks(s.mem) \in SUBSET Nat
      BY <1>1, FreeRead, Constants
    <3> QED BY <1>3, <3>1, LeastOf
  <2>2. a = Flush(t, Bitmap)
    BY <1>3 DEF AllocBlock
  <2> HIDE DEF b
  <2>3. /\ w \in Memory /\ MemoryInv(w, b, care) /\ b \in DataBlock
        /\ FreeBlocks(w) = FreeBlocks(s.mem) \ {b}
        /\ \A f \in FilePlace : SameFile(s.mem, w, f)
        /\ \A f \in FilePlace, n \in 0..MAXFILESIZE : BlockOf(w, f, n) = BlockOf(s.mem, f, n)
        /\ \A c \in AnyBlock : c # Bitmap => SameBlock(s.mem, w, c)
    BY <1>0, <1>1, <2>1, TakenInv
  <2> HIDE DEF w, a
  <2>4. /\ t \in Requests /\ t.mem = w /\ t.disk = s.disk /\ t.stops = s.stops
        /\ t.failed = FALSE /\ t.haunted = FALSE /\ t.blk = b /\ t.file = s.file
    BY <1>0, <2>3 DEF Requests, BlockNo
  <2> HIDE DEF t
  <2>4a. Safe(t, care)
    <3>1. Spares(s.mem, w, care)
      BY <1>1, <2>3, SameSpares
    <3> QED BY <1>0, <1>1, <2>3, <2>4, <3>1, SafeMemory DEF MemoryInv
  <2> DEFINE d == Written(t, {Bitmap})
  <2>5. a = [t EXCEPT !.disk = d, !.stops = @ \cup {d}]
    BY <2>2 DEF Flush
  <2>6. /\ d \in Memory
        /\ \A f \in FilePlace : FileAt(d, f) = FileAt(s.disk, f)
        /\ FreeBlocks(d) = FreeBlocks(w)
    BY <2>4, WrittenFacts, FilePlaces
  <2> HIDE DEF d
  <2>7. Under(d, w, 0)
    <3> SUFFICES ASSUME NEW f \in FilePlace, NEW n \in 0..NDIRECT, BlockOf(d, f, n) # 0
                 PROVE  BlockOf(d, f, n) = BlockOf(w, f, n)
      BY <2>6 DEF Under, LedTo
    <3>1. BlockOf(d, f, n) = BlockOf(s.disk, f, n)
      BY <2>6, SameEntryBlocks
    <3>2. BlockOf(s.disk, f, n) = BlockOf(s.mem, f, n)
      BY <1>0, <3>1, FilePlaces DEF Under, LedTo
    <3> QED BY <2>3, <3>1, <3>2, IndexBounds
  <2>8. Own(d, NDIRECT)
    BY <2>3, <2>7, UnderSound
  <2>9. /\ a \in Requests /\ a.mem = w /\ a.disk = d /\ a.stops = s.stops \cup {d}
        /\ a.failed = FALSE /\ a.haunted = FALSE /\ a.blk = b /\ a.file = s.file
    BY <2>4, <2>5, <2>6 DEF Requests
  <2>9a. Safe(a, care)
    <3>1. LedTo(t.disk, t.mem, Root)
      <4> SUFFICES ASSUME NEW n \in 0..NDIRECT, BlockOf(s.disk, Root, n) # 0
                   PROVE  BlockOf(s.disk, Root, n) = BlockOf(w, Root, n)
        BY <2>4 DEF LedTo
      <4>1. BlockOf(s.disk, Root, n) = BlockOf(s.mem, Root, n)
        BY <1>0, FilePlaces DEF Under, LedTo
      <4> QED BY <2>3, <4>1, FilePlaces, IndexBounds
    <3>2. care.exact => OnDisk(w, d, care) /\ Holds(d, care)
      BY <2>3, <2>4, <2>4a, <3>1, SafeWritten, Constants DEF d
    <3> QED BY <2>4, <2>4a, <2>9, <3>2 DEF Safe
  <2>10. Pending(a, b, care, 0)
    BY <1>0, <2>3, <2>7, <2>8, <2>9, <2>9a DEF Pending, Sound
  <2>11. Allocated(s, a, care)
    BY <2>3, <2>9, <2>10, Constants DEF Allocated, Taken
  <2> QED BY <2>11 DEF a
<1> QED BY <1>2, <1>3

LEMMA AllocatedCalm ==
    ASSUME NEW s, NEW a, NEW care, s \in Requests, Allocated(s, a, care)
    PROVE  /\ Live(a.mem) = Live(s.mem)
           /\ \A f \in FilePlace : Calm(s.mem, a.mem, f)
<1>1. s.mem \in Memory /\ a.mem \in Memory
  BY DEF Requests, Allocated, Taken, Pending
<1> QED BY <1>1, SameAllCalm DEF Allocated

LEMMA PutInv ==
    ASSUME NEW a, NEW care, a.blk # 0, Taken(a, care), NEW f \in Live(a.mem),
           NEW n \in 0..MAXFILESIZE, n <= FileAt(a.mem, f).size,
           BlockOf(a.mem, f, n) = 0, NEW w, Change(a.mem, w, f, n, a.blk), MayChange(a.mem, f, care)
    PROVE  LET t == [a EXCEPT !.mem = w] IN
           /\ RequestInv(t, care) /\ Calm(a.mem, w, f) /\ BlockOf(w, f, n) = a.blk
           /\ t.mem = w /\ t.blk = a.blk /\ t.failed = a.failed /\ t.file = a.file
<1> DEFINE t == [a EXCEPT !.mem = w]
<1>1. /\ a \in Requests /\ MemoryInv(a.mem, a.blk, care) /\ Under(a.disk, a.mem, 0) /\ Sound(a.stops)
      /\ Safe(a, care)
  BY DEF Taken, Pending
<1>2. a.mem \in Memory /\ w \in Memory
  BY <1>1 DEF Requests, Change
<1>3. f \in FilePlace
  BY <1>2, DirRead
<1>4. MemoryInv(w, 0, care)
  BY <1>1, <1>2, ChangeInv
<1>5. Under(a.disk, w, 0)
  BY <1>1, <1>3, ChangeUnder
<1>6. Calm(a.mem, w, f)
  BY <1>1, <1>2, ChangeCalm DEF MemoryInv
<1>7. BlockOf(w, f, n) = a.blk
  BY <1>3 DEF Change, OneBlock
<1>8. /\ t \in Requests /\ t.mem = w /\ t.blk = a.blk /\ t.failed = a.failed /\ t.file = a.file
      /\ t.disk = a.disk /\ t.stops = a.stops /\ t.haunted = FALSE
  BY <1>1, <1>2 DEF Taken, Requests
<1> HIDE DEF t
<1>8a. care.exact => NamesLive(a.mem) /\ Spares(a.mem, w, care)
  <2>1. FileAt(a.mem, Root).size <= FileAt(w, Root).size
    BY <1>2, <1>6, CalmLive, RootNamed
  <2>2. DirOn(w, a.mem) /\ KeepNames(a.mem, w) /\ \A g \in Live(a.mem) : g # f => SameFile(a.mem, w, g)
    BY <1>6 DEF Calm, DirOn
  <2>3. Elsewhere(a.mem, w, f, a.blk)
    BY DEF Change
  <2> QED BY <1>1, <1>2, <2>1, <2>2, <2>3, ElsewhereSpares DEF MayChange, MemoryInv, Safe
<1>8b. Safe(t, care)
  BY <1>1, <1>2, <1>8, <1>8a, SafeMemory DEF Requests
<1>9. RequestInv(t, care)
  BY <1>1, <1>4, <1>5, <1>8, <1>8b, Unhaunted DEF Pending
<1> QED BY <1>6, <1>7, <1>8, <1>9 DEF t

(* file_block_walk and file_get_block. *)
Gotten(s, t, f, care) == RequestInv(t, care) /\ Calm(s.mem, t.mem, f) /\ t.file = s.file

LEMMA FileBlockWalkInv ==
    ASSUME NEW s, NEW care, RequestInv(s, care), s.failed = FALSE, NEW f \in Live(s.mem),
           NEW n \in Nat \ {0}, n <= FileAt(s.mem, f).size,
           MayChange(s.mem, f, care)
    PROVE  LET w == FileBlockWalk(s, f, n) IN
           /\ Gotten(s, w, f, care)
           /\ ~w.failed => /\ w.failed = FALSE /\ n <= MAXFILESIZE
                           /\ n > NDIRECT => FileAt(w.mem, f).indirect # 0
<1> DEFINE w == FileBlockWalk(s, f, n)
           a == AllocBlock(s)
<1>0. s \in Requests /\ s.mem \in Memory
  BY DEF RequestInv, Pending, Requests
<1>a. f \in FilePlace /\ NDIRECT \in Nat /\ MAXFILESIZE \in Nat
  BY <1>0, DirRead, Constants
<1>1. CASE n > MAXFILESIZE
  <2>1. w = [s EXCEPT !.failed = TRUE]
    BY <1>1 DEF FileBlockWalk
  <2> HIDE DEF w
  <2>2. /\ w \in Requests /\ w.failed /\ w.mem = s.mem /\ w.disk = s.disk /\ w.stops = s.stops
        /\ w.file = s.file /\ w.haunted = s.haunted
    BY <1>0, <2>1 DEF Requests
  <2>3. Gotten(s, w, f, care)
    BY <1>0, <2>2, CalmSame, SafeSame, Unhaunted DEF Gotten, Pending
  <2> QED BY <2>2, <2>3 DEF w
<1>2. CASE ~(n > MAXFILESIZE) /\ (n <= NDIRECT \/ FileAt(s.mem, f).indirect # 0)
  <2>1. w = s
    BY <1>2 DEF FileBlockWalk
  <2> HIDE DEF w
  <2>2. Gotten(s, w, f, care)
    BY <1>0, <2>1, CalmSame DEF Gotten
  <2>3. n <= MAXFILESIZE /\ (n > NDIRECT => FileAt(s.mem, f).indirect # 0)
    BY <1>2, <1>a
  <2> QED BY <2>1, <2>2, <2>3 DEF w
<1>3. CASE ~(n > MAXFILESIZE) /\ ~(n <= NDIRECT) /\ FileAt(s.mem, f).indirect = 0
  <2>1. w = IF a.failed THEN a ELSE [a EXCEPT !.mem = WithIndirect(a.mem, f, a.blk)]
    BY <1>3 DEF FileBlockWalk, WithNewIndirect
  <2>2. Allocated(s, a, care) \/ NoDisk(s, a, care)
    BY AllocBlockInv
  <2> HIDE DEF a, w
  <2>3. CASE NoDisk(s, a, care)
    <3>1. w = a /\ a.failed
      BY <2>1, <2>3 DEF NoDisk
    <3>2. Gotten(s, w, f, care)
      BY <1>0, <2>3, <3>1, CalmSame DEF Gotten, NoDisk
    <3> QED BY <3>1, <3>2 DEF w
  <2>4. CASE Allocated(s, a, care)
    <3> DEFINE v == WithIndirect(a.mem, f, a.blk)
               t == [a EXCEPT !.mem = v]
    <3>1. /\ a.failed = FALSE /\ a.file = s.file /\ a.blk # 0 /\ a.blk \in DataBlock
          /\ Taken(a, care)
          /\ Live(a.mem) = Live(s.mem) /\ Calm(s.mem, a.mem, f)
          /\ FileAt(a.mem, f) = FileAt(s.mem, f)
      BY <1>0, <1>a, <2>4, AllocatedCalm DEF Allocated, SameFile
    <3>2. a.mem \in Memory /\ MemoryInv(a.mem, a.blk, care)
      BY <3>1 DEF Taken, Pending, Requests
    <3>3. w = t
      BY <2>1, <3>1
    <3>4. Change(a.mem, v, f, 0, a.blk)
      BY <1>3, <3>1, <3>2, NewIndirectChange
    <3> HIDE DEF v
    <3>5. BlockOf(a.mem, f, 0) = 0 /\ 0 \in 0..MAXFILESIZE
      BY <1>3, <1>a, <3>1, <3>2, BlockRead, IndexBounds
    <3>6. 0 <= FileAt(a.mem, f).size
      BY <1>a, <3>2, FileRead, FileFields
    <3>6a. MayChange(a.mem, f, care)
      BY <3>1 DEF MayChange
    <3>7. /\ RequestInv(t, care) /\ Calm(a.mem, v, f) /\ BlockOf(v, f, 0) = a.blk
          /\ t.mem = v /\ t.blk = a.blk /\ t.failed = a.failed /\ t.file = a.file
      BY <3>1, <3>4, <3>5, <3>6, <3>6a, PutInv
    <3> HIDE DEF t
    <3>8. v \in Memory
      BY <3>4 DEF Change
    <3>9. Calm(s.mem, v, f)
      BY <1>0, <3>1, <3>2, <3>7, <3>8, CalmTwice
    <3>10. Gotten(s, w, f, care)
      BY <3>1, <3>3, <3>7, <3>9 DEF Gotten
    <3>11. FileAt(w.mem, f).indirect # 0
      BY <1>a, <3>1, <3>3, <3>7, <3>8, BlockRead
    <3>12. n <= MAXFILESIZE /\ w.failed = FALSE
      BY <1>3, <1>a, <3>1, <3>3, <3>7
    <3> QED BY <3>10, <3>11, <3>12 DEF w
  <2> QED BY <2>2, <2>3, <2>4
<1> QED BY <1>1, <1>2, <1>3

LEMMA FileGetBlockInv ==
    ASSUME NEW s, NEW care, RequestInv(s, care), s.failed = FALSE, NEW f \in Live(s.mem),
           NEW n \in Nat \ {0}, n <= FileAt(s.mem, f).size,
           MayChange(s.mem, f, care)
    PROVE  LET g == FileGetBlock(s, f, n) IN
           /\ Gotten(s, g, f, care)
           /\ ~g.failed => /\ g.failed = FALSE /\ n \in 1..MAXFILESIZE
                           /\ g.blk # 0 /\ g.blk = BlockOf(g.mem, f, n)
<1> DEFINE w == FileBlockWalk(s, f, n)
           a == AllocBlock(w)
           g == FileGetBlock(s, f, n)
<1>0. s \in Requests /\ s.mem \in Memory
  BY DEF RequestInv, Pending, Requests
<1>a. f \in FilePlace /\ NDIRECT \in Nat /\ MAXFILESIZE \in Nat
  BY <1>0, DirRead, Constants
<1>1. /\ Gotten(s, w, f, care)
      /\ ~w.failed => /\ w.failed = FALSE /\ n <= MAXFILESIZE
                      /\ n > NDIRECT => FileAt(w.mem, f).indirect # 0
  BY FileBlockWalkInv
<1>2. g = IF w.failed THEN w
          ELSE IF BlockOf(w.mem, f, n) # 0 THEN [w EXCEPT !.blk = BlockOf(w.mem, f, n)]
          ELSE IF a.failed THEN a
          ELSE IF f = Root /\ ~Legible(a.mem[a.blk]) THEN [a EXCEPT !.failed = TRUE, !.haunted = TRUE]
          ELSE [a EXCEPT !.mem = WithBlock(a.mem, f, n, a.blk)]
  BY DEF FileGetBlock, BlockAt, WithNewBlock
<1> HIDE DEF g, w
<1>3. /\ RequestInv(w, care) /\ Calm(s.mem, w.mem, f) /\ w.file = s.file
      /\ w \in Requests /\ w.mem \in Memory
  BY <1>1 DEF Gotten, RequestInv, Pending, Requests
<1>4. /\ f \in Live(w.mem) /\ FileAt(w.mem, f).name = FileAt(s.mem, f).name
      /\ FileAt(w.mem, f).size = FileAt(s.mem, f).size
  BY <1>0, <1>3, CalmLive DEF Calm, SameEntry
<1>5. CASE w.failed
  BY <1>1, <1>2, <1>5 DEF g
<1>6. CASE ~w.failed /\ BlockOf(w.mem, f, n) # 0
  <2>1. g = [w EXCEPT !.blk = BlockOf(w.mem, f, n)]
    BY <1>2, <1>6
  <2>2. BlockOf(w.mem, f, n) \in BlockNo
    BY <1>3, <1>a, BlockRead
  <2>3. /\ g \in Requests /\ g.mem = w.mem /\ g.disk = w.disk /\ g.stops = w.stops /\ g.file = w.file
        /\ g.blk = BlockOf(w.mem, f, n) /\ g.failed = w.failed /\ g.haunted = w.haunted
    BY <1>3, <2>1, <2>2 DEF Requests
  <2>4. Gotten(s, g, f, care)
    BY <1>1, <1>3, <1>6, <2>3, SafeSame, Unhaunted DEF Gotten, Pending
  <2>5. n \in 1..MAXFILESIZE
    BY <1>1, <1>6, InSize
  <2> QED BY <1>1, <1>6, <2>3, <2>4, <2>5 DEF g
<1>7. CASE ~w.failed /\ BlockOf(w.mem, f, n) = 0
  <2>1. g = IF a.failed THEN a
            ELSE IF f = Root /\ ~Legible(a.mem[a.blk]) THEN [a EXCEPT !.failed = TRUE, !.haunted = TRUE]
            ELSE [a EXCEPT !.mem = WithBlock(a.mem, f, n, a.blk)]
    BY <1>2, <1>7
  <2>2. Allocated(w, a, care) \/ NoDisk(w, a, care)
    BY <1>1, <1>3, <1>7, AllocBlockInv
  <2>3. n \in 1..MAXFILESIZE /\ n \in 0..MAXFILESIZE
    BY <1>1, <1>7, InSize, IndexBounds
  <2> HIDE DEF a
  <2>4. CASE NoDisk(w, a, care)
    <3>1. g = a /\ a.failed
      BY <2>1, <2>4 DEF NoDisk
    <3>2. Gotten(s, g, f, care)
      BY <1>3, <2>4, <3>1 DEF Gotten, NoDisk
    <3> QED BY <3>1, <3>2 DEF g
  <2>5. CASE Allocated(w, a, care)
    <3> DEFINE v == WithBlock(a.mem, f, n, a.blk)
               t == [a EXCEPT !.mem = v]
    <3>1. /\ a.failed = FALSE /\ a.file = w.file /\ a.blk # 0 /\ a.blk \in DataBlock
          /\ Taken(a, care)
          /\ Live(a.mem) = Live(w.mem) /\ Calm(w.mem, a.mem, f)
          /\ FileAt(a.mem, f) = FileAt(w.mem, f)
          /\ BlockOf(a.mem, f, n) = 0
      BY <1>3, <1>7, <1>a, <2>3, <2>5, AllocatedCalm DEF Allocated, SameFile
    <3>2. a.mem \in Memory /\ MemoryInv(a.mem, a.blk, care)
      BY <3>1 DEF Taken, Pending, Requests
    <3>3. CASE f = Root /\ ~Legible(a.mem[a.blk])
      <4>1. g = [a EXCEPT !.failed = TRUE, !.haunted = TRUE]
        BY <2>1, <3>1, <3>3
      <4> HIDE DEF g, v, t
      <4>2. /\ g \in Requests /\ g.mem = a.mem /\ g.disk = a.disk /\ g.stops = a.stops
            /\ g.file = a.file /\ g.blk = a.blk /\ g.failed /\ g.haunted
        BY <3>1, <4>1 DEF Taken, Pending, Requests
      <4>3. RequestInv(g, care)
        BY <3>1, <4>2, SafeSame DEF Taken, Pending, RequestInv, Held
      <4>4. Calm(s.mem, g.mem, f)
        BY <1>0, <1>3, <3>1, <3>2, <4>2, CalmTwice
      <4>5. Gotten(s, g, f, care)
        BY <1>3, <3>1, <4>2, <4>3, <4>4 DEF Gotten
      <4> QED BY <4>2, <4>5 DEF g
    <3>4. CASE ~(f = Root /\ ~Legible(a.mem[a.blk]))
      <4>3. g = t
        BY <2>1, <3>1, <3>4
      <4>4. Change(a.mem, v, f, n, a.blk)
        BY <1>1, <1>4, <1>7, <2>3, <3>1, <3>2, PutChange
      <4> HIDE DEF v
      <4>5. n <= FileAt(a.mem, f).size /\ f \in Live(a.mem)
        BY <1>4, <3>1
      <4>5a. MayChange(a.mem, f, care)
        BY <1>4, <3>1 DEF MayChange
      <4>6. /\ RequestInv(t, care) /\ Calm(a.mem, v, f) /\ BlockOf(v, f, n) = a.blk
            /\ t.mem = v /\ t.blk = a.blk /\ t.failed = a.failed /\ t.file = a.file
        BY <2>3, <3>1, <4>4, <4>5, <4>5a, PutInv
      <4> HIDE DEF t
      <4>7. v \in Memory
        BY <4>4 DEF Change
      <4>8. Calm(w.mem, v, f)
        BY <1>3, <1>4, <3>1, <3>2, <4>6, <4>7, CalmTwice
      <4>9. Calm(s.mem, v, f)
        BY <1>0, <1>3, <4>7, <4>8, CalmTwice
      <4>10. Gotten(s, g, f, care)
        BY <1>3, <3>1, <4>3, <4>6, <4>9 DEF Gotten
      <4> QED BY <2>3, <3>1, <4>3, <4>6, <4>10 DEF g
    <3> QED BY <3>3, <3>4
  <2> QED BY <2>2, <2>4, <2>5
<1> QED BY <1>5, <1>6, <1>7

-----------------------------------------------------------------------------
(* The scan of the directory: an induction over its blocks.                *)

LEMMA RootMayChange ==
    ASSUME NEW s, s.mem \in Memory, NEW care, Safe(s, care)
    PROVE  MayChange(s.mem, Root, care)
BY FsAssumption, RootNamed DEF Safe, MayChange

(* The nth block of the directory has no file of that name.                *)
NotIn(m, name, n) ==
    /\ BlockOf(m, Root, n) # 0
    /\ \A j \in 1..BLKFILES : FileAt(m, <<BlockOf(m, Root, n), j>>).name # name

(* As far as the ith block.                                                *)
Scanned(s, t, name, i, care) ==
    /\ RequestInv(t, care) /\ Calm(s.mem, t.mem, Root)
    /\ t.file # NoFile => t.file \in AllFiles(t.mem) /\ FileAt(t.mem, t.file).name = name
    /\ ~t.failed /\ t.file = NoFile => i <= MAXFILESIZE /\ \A n \in 1..i : NotIn(t.mem, name, n)

LEMMA NotInStays ==
    ASSUME NEW m \in Memory, NEW w \in Memory, Calm(m, w, Root), NEW name, NEW n \in 1..MAXFILESIZE,
           n <= FileAt(m, Root).size, NotIn(m, name, n)
    PROVE  NotIn(w, name, n)
<1>1. BlockOf(m, Root, n) # 0 /\ BlockOf(w, Root, n) = BlockOf(m, Root, n)
  BY DEF NotIn, Calm
<1>2. BlockOf(m, Root, n) \in DirBlocks(m)
  BY <1>1, DirRead
<1>3. ASSUME NEW j \in 1..BLKFILES PROVE FileAt(w, <<BlockOf(m, Root, n), j>>).name # name
  <2> DEFINE f == <<BlockOf(m, Root, n), j>>
  <2>1. f \in AllFiles(m)
    BY <1>2 DEF AllFiles
  <2> HIDE DEF f
  <2>2. f # Root /\ f \in Live(m)
    BY <2>1, DirRead DEF Live
  <2>3. FileAt(w, f) = FileAt(m, f)
    BY <2>2 DEF Calm, SameFile
  <2>4. FileAt(m, f).name # name
    BY DEF NotIn, f
  <2> QED BY <2>3, <2>4 DEF f
<1> QED BY <1>1, <1>3 DEF NotIn

LEMMA FindInv ==
    ASSUME NEW s, NEW care, RequestInv(s, care), ~s.failed, s.file = NoFile,
           NEW name, s.blk \in DirBlocks(s.mem)
    PROVE  LET t == Find(s, name) IN
           /\ RequestInv(t, care) /\ t.mem = s.mem
           /\ t.file # NoFile => t.file \in AllFiles(t.mem) /\ FileAt(t.mem, t.file).name = name
           /\ t.file = NoFile => \A j \in 1..BLKFILES : FileAt(s.mem, <<s.blk, j>>).name # name
           /\ t.failed = s.failed
<1> DEFINE hits == {j \in 1..BLKFILES : Files(s.mem[s.blk])[j].name = name}
           t == Find(s, name)
<1>0. s \in Requests /\ s.mem \in Memory
  BY DEF RequestInv, Pending, Requests
<1>a. s.failed = FALSE
  BY <1>0 DEF Requests
<1>1. CASE hits = {}
  <2>1. t = s
    BY <1>1 DEF Find
  <2>2. \A j \in 1..BLKFILES : FileAt(s.mem, <<s.blk, j>>).name # name
    BY <1>1 DEF FileAt
  <2> QED BY <2>1, <2>2
<1>2. CASE hits # {}
  <2> DEFINE f == <<s.blk, Min(hits)>>
  <2>1. Min(hits) \in hits
    <3>1. hits \in SUBSET Nat
      OBVIOUS
    <3> QED BY <1>2, <3>1, LeastOf
  <2>2. Min(hits) \in 1..BLKFILES /\ Files(s.mem[s.blk])[Min(hits)].name = name
    BY <2>1
  <2>3. t = [s EXCEPT !.file = <<s.blk, Min(hits)>>]
    BY <1>2 DEF Find
  <2> HIDE DEF t, hits
  <2>4. f \in AllFiles(s.mem)
    BY <2>2 DEF AllFiles
  <2>5. FileAt(s.mem, f).name = name
    BY <2>2 DEF FileAt
  <2>6. f \in FilePlace
    BY <1>0, <2>4, DirRead
  <2> HIDE DEF f
  <2>7. /\ t \in Requests /\ t.mem = s.mem /\ t.disk = s.disk /\ t.stops = s.stops /\ t.file = f
        /\ t.failed = s.failed /\ t.haunted = s.haunted
    BY <1>0, <2>3, <2>6 DEF Requests, f
  <2>8. RequestInv(t, care)
    BY <1>a, <2>7, SafeSame, Unhaunted DEF Pending
  <2>9. t.file # NoFile
    BY <2>6, <2>7, FilePlaces
  <2> QED BY <2>4, <2>5, <2>7, <2>8, <2>9 DEF t
<1> QED BY <1>1, <1>2

LEMMA ScanBlockInv ==
    ASSUME NEW s, NEW t, NEW name, NEW care, s.mem \in Memory,
           NEW i \in Nat \ {0}, i <= FileAt(s.mem, Root).size, Scanned(s, t, name, i - 1, care)
    PROVE  Scanned(s, ScanBlock(t, name, i), name, i, care)
<1> DEFINE g == FileGetBlock(t, Root, i)
           u == ScanBlock(t, name, i)
<1>0. /\ t \in Requests /\ t.mem \in Memory /\ RequestInv(t, care) /\ Calm(s.mem, t.mem, Root)
      /\ Root \in Live(s.mem) /\ Root \in Live(t.mem)
  BY DirRead DEF Scanned, RequestInv, Pending, Requests
<1>1. u = IF t.failed \/ t.file # NoFile THEN t ELSE IF g.failed THEN g ELSE Find(g, name)
  BY DEF ScanBlock
<1>2. CASE t.failed \/ t.file # NoFile
  <2>1. u = t
    BY <1>1, <1>2
  <2> HIDE DEF u
  <2>2. Scanned(s, u, name, i, care)
    BY <1>2, <2>1 DEF Scanned
  <2> QED BY <2>2 DEF u
<1>3. CASE ~t.failed /\ t.file = NoFile
  <2>1. t.failed = FALSE
    BY <1>0, <1>3 DEF Requests
  <2>2. i <= FileAt(t.mem, Root).size
    BY <1>0, CalmLive
  <2>3. /\ Gotten(t, g, Root, care)
        /\ ~g.failed => /\ g.failed = FALSE /\ i \in 1..MAXFILESIZE
                        /\ g.blk # 0 /\ g.blk = BlockOf(g.mem, Root, i)
    <3>1. MayChange(t.mem, Root, care)
      BY <1>0, RootMayChange DEF RequestInv, Pending
    <3> QED BY <1>0, <2>1, <2>2, <3>1, RootNamed, FileGetBlockInv
  <2> HIDE DEF g, u
  <2>4. /\ RequestInv(g, care) /\ g.file = NoFile /\ g.mem \in Memory /\ Calm(t.mem, g.mem, Root)
    BY <1>3, <2>3 DEF Gotten, RequestInv, Pending, Requests
  <2>5. Calm(s.mem, g.mem, Root) /\ FileAt(g.mem, Root).size = FileAt(s.mem, Root).size
    BY <1>0, <2>4, CalmTwice, CalmLive
  <2>6. CASE g.failed
    BY <1>1, <1>3, <2>4, <2>5, <2>6 DEF Scanned, u
  <2>7. CASE ~g.failed
    <3>1. g.blk \in DirBlocks(g.mem)
      BY <2>3, <2>4, <2>5, <2>7, DirRead
    <3>2. LET v == Find(g, name) IN
          /\ RequestInv(v, care) /\ v.mem = g.mem
          /\ v.file # NoFile => v.file \in AllFiles(v.mem) /\ FileAt(v.mem, v.file).name = name
          /\ v.file = NoFile => \A j \in 1..BLKFILES : FileAt(g.mem, <<g.blk, j>>).name # name
      BY <2>4, <2>7, <3>1, FindInv
    <3>3. u = Find(g, name)
      BY <1>1, <1>3, <2>7
    <3>4. u.file = NoFile => NotIn(u.mem, name, i)
      BY <2>3, <2>7, <3>2, <3>3 DEF NotIn
    <3>5. i \in 1..MAXFILESIZE /\ i <= MAXFILESIZE
      BY <2>3, <2>7, Constants
    <3>6. ASSUME NEW n \in 1..(i - 1) PROVE NotIn(g.mem, name, n)
      <4>1. n \in 1..MAXFILESIZE /\ n <= FileAt(t.mem, Root).size
        <5>1. n <= i /\ n \in Nat /\ n # 0
          BY <3>6
        <5>2. FileAt(t.mem, Root).size \in Nat
          BY <1>0, RootNamed
        <5> QED BY <2>2, <3>5, <5>1, <5>2, Constants
      <4>2. NotIn(t.mem, name, n)
        BY <1>3, <3>6 DEF Scanned
      <4> QED BY <1>0, <2>4, <4>1, <4>2, NotInStays
    <3>7. \A n \in 1..i : n = i \/ n \in 1..(i - 1)
      OBVIOUS
    <3>8. u.file = NoFile => \A n \in 1..i : NotIn(u.mem, name, n)
      BY <3>2, <3>3, <3>4, <3>6, <3>7
    <3>9. Scanned(s, u, name, i, care)
      BY <2>5, <3>2, <3>3, <3>5, <3>8 DEF Scanned
    <3> QED BY <3>9 DEF u
  <2> QED BY <2>6, <2>7 DEF u
<1> QED BY <1>2, <1>3

IsScan(h, s, name, last) ==
    h = [i \in 0..last |-> IF i = 0 THEN s ELSE ScanBlock(h[i - 1], name, i)]

LEMMA ScanExists ==
    ASSUME NEW s, NEW name, NEW last \in Nat
    PROVE  \E h : IsScan(h, s, name, last)
<1> DEFINE A == {n \in Nat : ~ \E h : IsScan(h, s, name, n)}
<1> SUFFICES ASSUME A # {} PROVE FALSE
  OBVIOUS
<1>1. PICK n \in A : \A k \in A : n <= k
  BY LeastNat
<1>2. n \in Nat /\ ~ \E h : IsScan(h, s, name, n)
  OBVIOUS
<1>3. n # 0
  <2>1. ASSUME n = 0 PROVE FALSE
    <3> DEFINE h == [i \in 0..0 |-> s]
    <3>1. IsScan(h, s, name, 0)
      BY DEF IsScan
    <3> QED BY <1>2, <2>1, <3>1
  <2> QED BY <2>1
<1>4. n - 1 \in Nat /\ ~(n <= n - 1)
  BY <1>2, <1>3
<1>5. n - 1 \notin A
  BY <1>1, <1>4
<1>6. PICK g : IsScan(g, s, name, n - 1)
  BY <1>4, <1>5
<1> DEFINE h == [i \in 0..n |-> IF i = n THEN ScanBlock(g[n - 1], name, n) ELSE g[i]]
<1>7. \A i \in 0..(n - 1) : g[i] = IF i = 0 THEN s ELSE ScanBlock(g[i - 1], name, i)
  BY <1>6 DEF IsScan
<1>8. ASSUME NEW i \in 0..n
      PROVE  h[i] = IF i = 0 THEN s ELSE ScanBlock(h[i - 1], name, i)
  <2>1. CASE i = n
    <3>1. h[n] = ScanBlock(g[n - 1], name, n)
      BY <1>2
    <3>2. h[n - 1] = g[n - 1]
      BY <1>2, <1>3
    <3> QED BY <1>3, <2>1, <3>1, <3>2
  <2>2. CASE i # n /\ i # 0
    <3>1. i \in 0..(n - 1) /\ i - 1 \in 0..n /\ i - 1 # n
      BY <1>2, <2>2
    <3>2. h[i] = g[i] /\ h[i - 1] = g[i - 1]
      BY <2>2, <3>1
    <3> QED BY <1>7, <2>2, <3>1, <3>2
  <2>3. CASE i # n /\ i = 0
    <3>1. 0 \in 0..(n - 1)
      BY <1>2, <1>3
    <3>2. h[i] = g[0]
      BY <2>3
    <3> QED BY <1>7, <2>3, <3>1, <3>2
  <2> QED BY <2>1, <2>2, <2>3
<1>9. h = [i \in 0..n |-> h[i]]
  OBVIOUS
<1> HIDE DEF h
<1>10. IsScan(h, s, name, n)
  BY <1>8, <1>9 DEF IsScan
<1> QED BY <1>2, <1>10

LEMMA DirLookupInv ==
    ASSUME NEW s, NEW name, NEW care, RequestInv(s, care), s.file = NoFile
    PROVE  Scanned(s, DirLookup(s, name), name, FileAt(s.mem, Root).size, care)
<1> DEFINE last == FileAt(s.mem, Root).size
<1>0. s.mem \in Memory /\ last \in Nat
  BY RootNamed DEF RequestInv, Pending, Requests
<1> HIDE DEF last
<1>1. PICK h : IsScan(h, s, name, last) /\ DirLookup(s, name) = h[last]
  <2>1. \E h : IsScan(h, s, name, last)
    BY <1>0, ScanExists
  <2> QED BY <2>1 DEF IsScan, DirLookup, last
<1>2. \A i \in 0..last : h[i] = IF i = 0 THEN s ELSE ScanBlock(h[i - 1], name, i)
  BY <1>1 DEF IsScan
<1> DEFINE A == {i \in 0..last : ~Scanned(s, h[i], name, i, care)}
<1>3. A = {}
  <2> SUFFICES ASSUME A # {} PROVE FALSE
    OBVIOUS
  <2>1. A \in SUBSET Nat
    BY <1>0
  <2>2. PICK n \in A : \A k \in A : n <= k
    BY <2>1, LeastNat
  <2>3. n \in 0..last /\ n \in Nat /\ n <= last /\ ~Scanned(s, h[n], name, n, care)
    BY <1>0, <2>2
  <2>4. CASE n = 0
    <3>1. h[n] = s
      BY <1>2, <2>3, <2>4
    <3>2. Scanned(s, s, name, 0, care)
      BY <1>0, CalmSame, Constants DEF Scanned
    <3> QED BY <2>3, <2>4, <3>1, <3>2
  <2>5. CASE n # 0
    <3>1. n - 1 \in 0..last /\ ~(n <= n - 1)
      BY <1>0, <2>3, <2>5
    <3>2. Scanned(s, h[n - 1], name, n - 1, care)
      BY <2>2, <3>1
    <3>3. h[n] = ScanBlock(h[n - 1], name, n)
      BY <1>2, <2>3, <2>5
    <3>4. Scanned(s, h[n], name, n, care)
      BY <1>0, <2>3, <2>5, <3>2, <3>3, ScanBlockInv DEF last
    <3> QED BY <2>3, <3>4
  <2> QED BY <2>4, <2>5
<1>4. Scanned(s, h[last], name, last, care)
  BY <1>0, <1>3
<1> QED BY <1>1, <1>4 DEF last

(* What dir_lookup does not find there is not.                             *)
LEMMA NotFound ==
    ASSUME NEW s, NEW t, NEW name, NEW care, s.mem \in Memory, name # "/", name # Unnamed,
           Scanned(s, t, name, FileAt(s.mem, Root).size, care), ~t.failed, t.file = NoFile, care.exact
    PROVE  \A f \in FilePlace : FileAt(t.mem, f).name # name
<1>1. /\ t.mem \in Memory /\ Calm(s.mem, t.mem, Root) /\ Root \in Live(s.mem) /\ NamesLive(t.mem)
      /\ \A n \in 1..FileAt(s.mem, Root).size : NotIn(t.mem, name, n)
  BY DirRead DEF Scanned, RequestInv, Pending, Requests, MemoryInv
<1>2. FileAt(t.mem, Root).size = FileAt(s.mem, Root).size
  BY <1>1, CalmLive
<1> SUFFICES ASSUME NEW f \in FilePlace, FileAt(t.mem, f).name = name PROVE FALSE
  OBVIOUS
<1>3. f \in Live(t.mem) /\ f # Root
  BY <1>1, RootNamed DEF NamesLive
<1>4. f[1] \in DirBlocks(t.mem)
  BY <1>1, <1>3, DirRead DEF Live
<1>5. PICK i \in 1..MAXFILESIZE : i <= FileAt(t.mem, Root).size /\ BlockOf(t.mem, Root, i) = f[1]
  BY <1>1, <1>4, DirRead
<1>6. i \in 1..FileAt(s.mem, Root).size
  <2>1. FileAt(s.mem, Root).size \in Nat /\ i \in Nat /\ i # 0
    BY <1>5, RootNamed, IndexBounds
  <2> QED BY <1>2, <1>5, <2>1
<1>7. NotIn(t.mem, name, i)
  BY <1>1, <1>6
<1>8. f = <<f[1], f[2]>> /\ f[2] \in 1..BLKFILES
  BY <1>3, FilePlaces
<1> QED BY <1>5, <1>7, <1>8 DEF NotIn

-----------------------------------------------------------------------------
(* Changes of one entry: its name, its size.                               *)

Only(m, w, f) == Live(w) = Live(m) /\ \A g \in Live(m) : g # f => SameFile(m, w, g)

SamePointers(m, f, file) == file.direct = FileAt(m, f).direct /\ file.indirect = FileAt(m, f).indirect

(* A name that f has, or none, or one that no file has.                    *)
NameFits(m, f, name) ==
    \/ name = FileAt(m, f).name \/ name = Unnamed
    \/ \A g \in FilePlace : FileAt(m, g).name # name

EntrySet(m, w, f, file, care) ==
    /\ w \in Memory /\ MemoryInv(w, 0, care)
    /\ FileAt(w, f) = file
    /\ \A g \in FilePlace : g # f => SameFile(m, w, g)
    /\ \A g \in FilePlace, k \in 0..MAXFILESIZE : BlockOf(w, g, k) = BlockOf(m, g, k)
    /\ Live(m) \subseteq Live(w)
    /\ \A g \in Live(w) : g \in Live(m) \/ Empty(FileAt(w, g))
    /\ f # Root => Only(m, w, f)
    /\ Elsewhere(m, w, f, 0)
    /\ \A d, but : Under(d, m, but) => Under(d, w, but)

LEMMA EntryInv ==
    ASSUME NEW m \in Memory, NEW care, MemoryInv(m, 0, care), NEW f \in Live(m), NEW file \in FitFile,
           SamePointers(m, f, file),
           f = Root <=> file.name = "/", f = Root => FileAt(m, Root).size <= file.size,
           care.exact => NameFits(m, f, file.name) /\ \A n \in 1..MAXFILESIZE : BlockOf(m, f, n) # 0 => n <= file.size
    PROVE  EntrySet(m, WithFile(m, f, file), f, file, care)
<1> DEFINE w == WithFile(m, f, file)
<1>0. f \in FilePlace /\ Live(m) \subseteq FilePlace /\ Root \in FilePlace
  BY DirRead, FilePlaces
<1>a. Own(m, MAXFILESIZE) /\ IndirectOnly(m) /\ DirOnly(m)
  BY DEF MemoryInv
<1>1. /\ w \in Memory /\ FreeBlocks(w) = FreeBlocks(m)
      /\ FileAt(w, f) = file
      /\ IndirectOnly(w)
      /\ \A g \in FilePlace, k \in 0..MAXFILESIZE :
             g # f \/ k \notin 1..NDIRECT => BlockOf(w, g, k) = BlockOf(m, g, k)
      /\ \A k \in 1..NDIRECT : BlockOf(w, f, k) = file.direct[k]
      /\ Elsewhere(m, w, f, 0)
  BY <1>a, EntryChange DEF SamePointers
<1>2. \A g \in FilePlace : g # f => SameFile(m, w, g)
  BY <1>0, WithFileFacts
<1> HIDE DEF w
<1>3. ASSUME NEW g \in FilePlace, NEW k \in 0..MAXFILESIZE PROVE BlockOf(w, g, k) = BlockOf(m, g, k)
  <2>1. k \in 1..NDIRECT => BlockOf(m, f, k) = FileAt(m, f).direct[k]
    BY <1>0, IndexBounds, BlockRead
  <2> QED BY <1>1, <2>1 DEF SamePointers
<1>4. Own(w, MAXFILESIZE)
  BY <1>a, <1>1, <1>3 DEF Own
<1>5. FileAt(m, Root).size \in Nat /\ FileAt(m, Root).size <= FileAt(w, Root).size
  BY <1>0, <1>1, <1>2, RootNamed DEF SameFile
<1>6. DirBlocks(m) \subseteq DirBlocks(w) /\ Live(m) \subseteq Live(w)
  BY <1>0, <1>1, <1>3, <1>5, IndexBounds, LiveGrows
<1>7. DirOnly(w)
  BY <1>a, <1>2, <1>6 DEF DirOnly, SameFile
<1>8. InHand(w, 0)
  BY DEF InHand
<1>9. ASSUME care.exact PROVE WithinSize(w) /\ NoneLost(w, 0)
  <2>1. WithinSize(m) /\ NoneLost(m, 0)
    BY <1>9 DEF MemoryInv
  <2>2. WithinSize(w)
    <3> SUFFICES ASSUME NEW g \in FilePlace, NEW k \in 1..MAXFILESIZE, BlockOf(w, g, k) # 0
                 PROVE  k <= FileAt(w, g).size
      BY DEF WithinSize
    <3>1. BlockOf(m, g, k) # 0
      BY <1>3, IndexBounds
    <3> QED BY <1>1, <1>2, <1>9, <2>1, <3>1 DEF WithinSize, SameFile
  <2>3. NoneLost(w, 0)
    BY <1>1, <1>3, <2>1 DEF NoneLost
  <2> QED BY <2>2, <2>3
<1>9a. ASSUME care.exact PROVE NamesLive(w) /\ Unique(w)
  <2>1. /\ NameFits(m, f, FileAt(w, f).name)
        /\ \A g \in FilePlace : g # f => FileAt(w, g).name = FileAt(m, g).name
    BY <1>1, <1>2, <1>9a DEF SameFile
  <2>2. NamesLive(m) /\ Unique(m)
    BY <1>9a DEF MemoryInv
  <2>3. NamesLive(w)
    BY <1>6, <2>1, <2>2 DEF NamesLive
  <2>4. Unique(w)
    BY <1>0, <2>1, <2>2 DEF Unique, NameFits
  <2> QED BY <2>3, <2>4
<1>10. MemoryInv(w, 0, care)
  BY <1>1, <1>4, <1>7, <1>8, <1>9, <1>9a DEF MemoryInv
<1>11. ASSUME NEW g \in Live(w), g \notin Live(m) PROVE Empty(FileAt(w, g))
  <2>1. g \in FilePlace /\ g # f
    BY <1>1, <1>11, DirRead
  <2> QED BY <1>a, <1>2, <1>11, <2>1 DEF DirOnly, SameFile
<1>12. ASSUME f # Root PROVE Only(m, w, f)
  <2>1. FileAt(w, Root).size <= FileAt(m, Root).size
    BY <1>0, <1>2, <1>5, <1>12 DEF SameFile
  <2>2. Live(w) \subseteq Live(m)
    BY <1>0, <1>1, <1>3, <2>1, IndexBounds, LiveGrows
  <2> QED BY <1>0, <1>2, <1>6, <2>2 DEF Only
<1>13. ASSUME NEW d, NEW but, Under(d, m, but) PROVE Under(d, w, but)
  BY <1>1, <1>3, <1>13, IndexBounds DEF Under, LedTo
<1>14. EntrySet(m, w, f, file, care)
  BY <1>1, <1>2, <1>3, <1>6, <1>10, <1>11, <1>12, <1>13 DEF EntrySet
<1> QED BY <1>14 DEF w

LEMMA EntrySpares ==
    ASSUME NEW m \in Memory, NEW w, NEW care, care.kept \subseteq Name, care.exact, MemoryInv(m, 0, care),
           NEW f \in Live(m), FileAt(m, f).name \notin care.kept, NEW file, EntrySet(m, w, f, file, care),
           file.name = FileAt(m, f).name \/ (f = care.at /\ file.name \notin care.kept),
           f = Root => FileAt(m, Root).size <= file.size
    PROVE  Spares(m, w, care)
<1>0. f \in FilePlace /\ Live(m) \subseteq FilePlace
  BY DirRead
<1>1. /\ w \in Memory /\ Elsewhere(m, w, f, 0) /\ FileAt(w, f) = file
      /\ \A g \in FilePlace : g # f => SameFile(m, w, g)
      /\ \A g \in FilePlace, k \in 0..MAXFILESIZE : BlockOf(w, g, k) = BlockOf(m, g, k)
  BY DEF EntrySet
<1>2. \A n \in care.kept : Agree(m, w, n)
  <2>1. Own(m, MAXFILESIZE) /\ InHand(m, 0) /\ NamesLive(m)
    BY DEF MemoryInv
  <2> QED BY <1>0, <1>1, <2>1, ElsewhereAgrees
<1>3. NamesOn(m, w, care)
  BY <1>1 DEF NamesOn, SameFile
<1>4. DirOn(w, m)
  BY <1>1, FilePlaces, IndexBounds DEF DirOn
<1>5. FileAt(m, Root).size <= FileAt(w, Root).size
  BY <1>1, FilePlaces, RootNamed DEF SameFile
<1> QED BY <1>2, <1>3, <1>4, <1>5 DEF Spares

LEMMA NewSizeFits ==
    ASSUME NEW file \in FitFile, NEW size \in Nat,
           \A n \in 1..NDIRECT : file.direct[n] # 0 => n <= size
    PROVE  LET new == [file EXCEPT !.size = size] IN
           /\ new \in FitFile /\ new.name = file.name /\ new.size = size
           /\ new.direct = file.direct /\ new.indirect = file.indirect
<1> DEFINE new == [file EXCEPT !.size = size]
<1>1. file \in FileRec
  BY DEF FitFile
<1>2. /\ new \in FileRec /\ new.indirect = file.indirect /\ new.direct = file.direct
      /\ new.size = size /\ new.name = file.name
  BY <1>1 DEF FileRec
<1> HIDE DEF new
<1>3. new \in FitFile
  BY <1>2 DEF FitFile
<1> QED BY <1>2, <1>3 DEF new

LEMMA NewNameFits ==
    ASSUME NEW file \in FitFile, NEW name \in Name
    PROVE  LET new == [file EXCEPT !.name = name] IN
           /\ new \in FitFile /\ new.name = name /\ new.size = file.size
           /\ new.direct = file.direct /\ new.indirect = file.indirect
<1> DEFINE new == [file EXCEPT !.name = name]
<1>1. file \in FileRec
  BY DEF FitFile
<1>2. /\ new \in FileRec /\ new.indirect = file.indirect /\ new.direct = file.direct
      /\ new.name = name /\ new.size = file.size
  BY <1>1 DEF FileRec
<1>3. \A n \in 1..NDIRECT : new.direct[n] # 0 => n <= new.size
  BY <1>2, FileFields
<1> HIDE DEF new
<1>4. new \in FitFile
  BY <1>1, <1>2, <1>3 DEF FitFile
<1> QED BY <1>2, <1>4 DEF new

LEMMA RemovedFits ==
    ASSUME NEW file \in FitFile, file.indirect = 0, \A n \in 1..NDIRECT : file.direct[n] = 0
    PROVE  /\ Removed(file) \in FitFile /\ Removed(file).name = Unnamed /\ Empty(Removed(file))
           /\ Removed(file).direct = file.direct /\ Removed(file).indirect = file.indirect
<1> DEFINE new == Removed(file)
<1>1. file \in FileRec
  BY DEF FitFile
<1>2. /\ new \in FileRec /\ new.indirect = file.indirect /\ new.direct = file.direct
      /\ new.name = Unnamed /\ new.size = 0
  BY <1>1 DEF FileRec, Removed
<1> HIDE DEF new
<1>3. Empty(new)
  BY <1>2 DEF Empty
<1>4. new \in FitFile
  BY <1>2, <1>3 DEF FitFile
<1> QED BY <1>2, <1>3, <1>4 DEF new

(* The memory of a request is replaced.                                    *)
LEMMA SetMemory ==
    ASSUME NEW s \in Requests, NEW w \in Memory
    PROVE  LET t == [s EXCEPT !.mem = w] IN
           /\ t \in Requests /\ t.mem = w /\ t.disk = s.disk /\ t.stops = s.stops
           /\ t.failed = s.failed /\ t.haunted = s.haunted /\ t.blk = s.blk /\ t.file = s.file
BY DEF Requests

-----------------------------------------------------------------------------
(* file_truncate_blocks *)

Cut(m, f, size, k) ==
    \/ k \in Gone(FileAt(m, f), size)
    \/ LosesIndirect(FileAt(m, f), size) /\ (k = 0 \/ k > NDIRECT)

CutFile(file, size) ==
    [file EXCEPT !.direct = Left(@, 0, Gone(file, size)),
                 !.indirect = IF LosesIndirect(file, size) THEN 0 ELSE @]

LEMMA CutFits ==
    ASSUME NEW file \in FitFile, NEW size \in Nat
    PROVE  LET new == CutFile(file, size) IN
           /\ new \in FitFile /\ new.name = file.name /\ new.size = file.size
           /\ new.indirect = IF LosesIndirect(file, size) THEN 0 ELSE file.indirect
           /\ \A k \in 1..NDIRECT :
                  new.direct[k] = IF k \in Gone(file, size) THEN 0 ELSE file.direct[k]
<1> DEFINE direct == Left(file.direct, 0, Gone(file, size))
           indirect == IF LosesIndirect(file, size) THEN 0 ELSE file.indirect
           new == CutFile(file, size)
<1>1. file \in FileRec /\ file.direct \in [1..NDIRECT -> BlockNo] /\ file.indirect \in BlockNo
  BY DEF FitFile, FileRec
<1>2. \A k \in 1..NDIRECT : direct[k] = IF k \in Gone(file, size) THEN 0 ELSE file.direct[k]
  <2>1. \A k \in 1..NDIRECT : 0 + k = k
    OBVIOUS
  <2> QED BY <1>1, <2>1 DEF Left
<1>3. direct \in [1..NDIRECT -> BlockNo]
  <2>1. DOMAIN file.direct = 1..NDIRECT
    BY <1>1
  <2>2. direct = [k \in 1..NDIRECT |-> direct[k]]
    BY <2>1 DEF Left
  <2> QED BY <1>1, <1>2, <2>2 DEF BlockNo
<1>4. indirect \in BlockNo
  BY <1>1 DEF BlockNo
<1>5. new = [file EXCEPT !.direct = direct, !.indirect = indirect]
  BY DEF CutFile
<1> HIDE DEF direct, new
<1>6. /\ new \in FileRec /\ new.indirect = indirect /\ new.direct = direct
      /\ new.name = file.name /\ new.size = file.size
  BY <1>1, <1>3, <1>4, <1>5 DEF FileRec
<1>7. \A k \in 1..NDIRECT : new.direct[k] # 0 => k <= new.size
  BY <1>2, <1>6, FileFields
<1>8. new \in FitFile
  BY <1>6, <1>7 DEF FitFile
<1> QED BY <1>2, <1>6, <1>8 DEF new

(* What is left of it when it is done: the entry still has its old size.   *)
Cutted(m, w, f, size) ==
    /\ w \in Memory
    /\ FreeBlocks(w) = FreeBlocks(m) \cup Freed(m, f, size)
    /\ FileAt(w, f) = CutFile(FileAt(m, f), size)
    /\ Untouched(m, w, f)
    /\ IndirectOnly(w)
    /\ Elsewhere(m, w, f, 0)
    /\ \A g \in FilePlace, k \in 0..MAXFILESIZE :
           BlockOf(w, g, k) = IF g = f /\ Cut(m, f, size, k) THEN 0 ELSE BlockOf(m, g, k)

LEMMA TruncatedNoIndirect ==
    ASSUME NEW m \in Memory, Own(m, MAXFILESIZE), IndirectOnly(m), NEW f \in Live(m),
           NEW size \in Nat, FileAt(m, f).indirect = 0
    PROVE  Cutted(m, Truncated(m, f, size), f, size)
<1> DEFINE free == FreeBlocks(m) \cup Freed(m, f, size)
           t == WithFree(m, free)
           new == CutFile(FileAt(m, f), size)
           w == WithFile(t, f, new)
<1>0. f \in FilePlace
  BY DirRead
<1>1. FileAt(m, f) \in FitFile /\ (f = Root <=> FileAt(m, f).name = "/")
  BY <1>0, FileRead
<1>2. free \in SUBSET DataBlock
  <2>1. \A n \in Gone(FileAt(m, f), size) : n \in Nat
    BY <1>1, FileFields DEF Gone
  <2>2. Freed(m, f, size) \subseteq DataBlock
    BY <1>0, <1>1, <2>1, BlockRead, FileFields DEF Freed, BlockNo
  <2> QED BY <2>2, FreeRead
<1> HIDE DEF free
<1>3. /\ t \in Memory /\ FreeBlocks(t) = free
      /\ \A b \in AnyBlock : b # Bitmap => SameBlock(m, t, b)
      /\ \A g \in FilePlace : SameFile(m, t, g)
  BY <1>2, WithFreeFacts
<1> HIDE DEF t
<1>4. /\ new \in FitFile /\ new.name = FileAt(m, f).name /\ new.size = FileAt(m, f).size
      /\ new.indirect = 0
      /\ \A k \in 1..NDIRECT :
             new.direct[k] = IF k \in Gone(FileAt(m, f), size) THEN 0 ELSE FileAt(m, f).direct[k]
  BY <1>1, CutFits
<1>5. Truncated(m, f, size) = w
  BY DEF Truncated, CutFile, w, t, free
<1> HIDE DEF new
<1>6. /\ w \in Memory /\ FileAt(w, f) = new /\ FreeBlocks(w) = FreeBlocks(t)
      /\ \A g \in FilePlace : g # f => SameFile(t, w, g)
      /\ \A b \in AnyBlock : b # f[1] => SameBlock(t, w, b)
  BY <1>0, <1>1, <1>3, <1>4, WithFileFacts
<1> HIDE DEF w
<1>7. \A g \in FilePlace : g # f => FileAt(w, g) = FileAt(m, g)
  BY <1>3, <1>6 DEF SameFile
<1>8. ASSUME NEW g \in FilePlace, FileAt(m, g).indirect # 0
      PROVE  SameBlock(m, w, FileAt(m, g).indirect)
  <2>1. FileAt(m, g).indirect \in AnyBlock /\ FileAt(m, g).indirect # Bitmap
    BY <1>8, IndirectRead, Constants
  <2>2. FileAt(m, g).indirect # f[1]
    BY DirApart
  <2> QED BY <1>3, <1>6, <2>1, <2>2 DEF SameBlock
<1>9. Untouched(m, w, f)
  BY <1>7 DEF Untouched, SameFile
<1>10. IndirectOnly(w)
  <2> SUFFICES ASSUME NEW g \in FilePlace, FileAt(w, g).indirect # 0
               PROVE  w[FileAt(w, g).indirect].kind # "files"
    BY DEF IndirectOnly
  <2>1. g # f
    BY <1>4, <1>6
  <2> QED BY <1>6, <1>7, <1>8, <2>1, SameIndirect
<1>11. ASSUME NEW g \in FilePlace, NEW k \in 0..MAXFILESIZE
       PROVE  BlockOf(w, g, k) = IF g = f /\ Cut(m, f, size, k) THEN 0 ELSE BlockOf(m, g, k)
  <2>0. k \in Nat /\ NDIRECT \in Nat
    BY IndexBounds, Constants
  <2>1. CASE g # f
    BY <1>6, <1>7, <1>8, <2>0, <2>1, BlocksKept
  <2>2. CASE g = f /\ k = 0
    BY <1>0, <1>4, <1>6, <2>0, <2>2, BlockRead
  <2>3. CASE g = f /\ k # 0 /\ k <= NDIRECT
    <3>1. k \in 1..NDIRECT /\ ~(k > NDIRECT)
      BY <2>0, <2>3
    <3>2. BlockOf(w, f, k) = new.direct[k] /\ BlockOf(m, f, k) = FileAt(m, f).direct[k]
      BY <1>0, <1>6, <2>0, <3>1, BlockRead
    <3>3. Cut(m, f, size, k) <=> k \in Gone(FileAt(m, f), size)
      BY <2>3, <3>1 DEF Cut
    <3> QED BY <1>4, <2>3, <3>1, <3>2, <3>3
  <2>4. CASE g = f /\ k # 0 /\ ~(k <= NDIRECT)
    <3>1. k > NDIRECT
      BY <2>0, <2>4
    <3> QED BY <1>0, <1>4, <1>6, <2>0, <2>4, <3>1, BlockRead
  <2> QED BY <2>1, <2>2, <2>3, <2>4
<1>11a. Elsewhere(m, w, f, 0)
  BY <1>3, <1>6 DEF Elsewhere, SameBlock
<1>12. Cutted(m, w, f, size)
  BY <1>3, <1>6, <1>9, <1>10, <1>11, <1>11a DEF Cutted, new, free
<1> QED BY <1>5, <1>12

LEMMA TruncatedIndirect ==
    ASSUME NEW m \in Memory, Own(m, MAXFILESIZE), IndirectOnly(m), DirOnly(m), NEW f \in Live(m),
           NEW size \in Nat, FileAt(m, f).indirect # 0
    PROVE  Cutted(m, Truncated(m, f, size), f, size)
<1> DEFINE free == FreeBlocks(m) \cup Freed(m, f, size)
           t == WithFree(m, free)
           x == FileAt(m, f).indirect
           gone == Gone(FileAt(m, f), size)
           ptrs == Left(Ptrs(t[x]), NDIRECT, gone)
           c == [kind |-> "ptrs", ptrs |-> ptrs]
           u == [t EXCEPT ![x] = c]
           new == CutFile(FileAt(m, f), size)
           w == WithFile(u, f, new)
<1>0. f \in FilePlace
  BY DirRead
<1>1. FileAt(m, f) \in FitFile /\ (f = Root <=> FileAt(m, f).name = "/")
  BY <1>0, FileRead
<1>2. free \in SUBSET DataBlock
  <2>1. \A n \in Gone(FileAt(m, f), size) : n \in Nat
    BY <1>1, FileFields DEF Gone
  <2>2. Freed(m, f, size) \subseteq DataBlock
    BY <1>0, <1>1, <2>1, BlockRead, FileFields DEF Freed, BlockNo
  <2> QED BY <2>2, FreeRead
<1>5. Truncated(m, f, size) = w
  BY DEF Truncated, CutFile, w, u, c, ptrs, gone, t, free
<1> HIDE DEF free
<1>3. /\ t \in Memory /\ FreeBlocks(t) = free
      /\ \A b \in AnyBlock : b # Bitmap => SameBlock(m, t, b)
      /\ \A g \in FilePlace : SameFile(m, t, g)
  BY <1>2, WithFreeFacts
<1> HIDE DEF t
<1>4. /\ new \in FitFile /\ new.name = FileAt(m, f).name /\ new.size = FileAt(m, f).size
      /\ new.indirect = IF LosesIndirect(FileAt(m, f), size) THEN 0 ELSE x
      /\ \A k \in 1..NDIRECT :
             new.direct[k] = IF k \in gone THEN 0 ELSE FileAt(m, f).direct[k]
  BY <1>1, CutFits
<1> HIDE DEF new
<1>a. x \in DataBlock /\ x \in AnyBlock /\ x # Bitmap /\ x # 0
  BY <1>0, IndirectRead, Constants
<1>b. t[x] = m[x] /\ m[x] \in Content /\ m[x].kind # "files"
  BY <1>0, <1>3, <1>a, IndirectRead DEF SameBlock, IndirectOnly
<1>c. Ptrs(m[x]) \in [1..NINDIRECT -> BlockNo]
  BY <1>b, PtrsRead
<1>d. /\ \A i \in 1..NINDIRECT : ptrs[i] = IF NDIRECT + i \in gone THEN 0 ELSE Ptrs(m[x])[i]
      /\ ptrs \in [1..NINDIRECT -> BlockNo]
  <2>1. ptrs = [i \in 1..NINDIRECT |-> IF NDIRECT + i \in gone THEN 0 ELSE Ptrs(m[x])[i]]
    BY <1>b, <1>c DEF Left
  <2> HIDE DEF ptrs, gone
  <2> QED BY <1>c, <2>1 DEF BlockNo
<1> HIDE DEF ptrs
<1>e. c \in Content /\ c.kind # "files" /\ Ptrs(c) = ptrs
  BY <1>d DEF Content, PtrsContent, Ptrs
<1> HIDE DEF c
<1>f. Overwritten(t, u, x, c)
  BY <1>3, <1>a, <1>e, OverwriteFacts
<1>g. /\ u \in Memory /\ u[x] = c
      /\ \A y \in AnyBlock : y # x => SameBlock(t, u, y)
      /\ \A g \in FilePlace : g[1] # x => SameFile(t, u, g)
      /\ \A g \in FilePlace : g[1] = x => Blank(FileAt(u, g))
      /\ FreeBlocks(u) = FreeBlocks(t)
  BY <1>f DEF Overwritten
<1> HIDE DEF u
<1>6. /\ w \in Memory /\ FileAt(w, f) = new /\ FreeBlocks(w) = FreeBlocks(u)
      /\ \A g \in FilePlace : g # f => SameFile(u, w, g)
      /\ \A b \in AnyBlock : b # f[1] => SameBlock(u, w, b)
  BY <1>0, <1>1, <1>4, <1>g, WithFileFacts
<1> HIDE DEF w
<1>h. ASSUME NEW g \in FilePlace, g[1] = x PROVE g \notin Live(m) /\ Empty(FileAt(m, g)) /\ g # f
  <2>1. g \notin Live(m)
    BY <1>0, <1>h, DirApart
  <2> QED BY <2>1 DEF DirOnly
<1>i. f[1] # x /\ w[x] = c
  <2>1. f[1] # x
    BY <1>0, <1>h
  <2> QED BY <1>6, <1>a, <1>g, <2>1 DEF SameBlock
<1>7. ASSUME NEW g \in FilePlace, g # f, g[1] # x PROVE FileAt(w, g) = FileAt(m, g)
  BY <1>3, <1>6, <1>7, <1>g DEF SameFile
<1>7a. ASSUME NEW g \in FilePlace, g[1] = x PROVE Blank(FileAt(w, g)) /\ Empty(FileAt(w, g))
  BY <1>6, <1>7a, <1>g, <1>h DEF SameFile, Blank
<1>8. ASSUME NEW g \in FilePlace, g # f, FileAt(m, g).indirect # 0
      PROVE  SameBlock(m, w, FileAt(m, g).indirect)
  <2>1. FileAt(m, g).indirect \in AnyBlock /\ FileAt(m, g).indirect # Bitmap
    BY <1>8, IndirectRead, Constants
  <2>2. FileAt(m, g).indirect # f[1]
    BY DirApart
  <2>3. FileAt(m, g).indirect # x
    <3>1. /\ BlockOf(m, f, 0) = x /\ BlockOf(m, g, 0) = FileAt(m, g).indirect /\ 0 \in 0..MAXFILESIZE
      BY <1>0, BlockRead, IndexBounds
    <3> QED BY <1>0, <1>8, <3>1 DEF Own
  <2> QED BY <1>3, <1>6, <1>g, <2>1, <2>2, <2>3 DEF SameBlock
<1>9. Untouched(m, w, f)
  BY <1>7, <1>7a, <1>h DEF Untouched, SameFile
<1>10. IndirectOnly(w)
  <2> SUFFICES ASSUME NEW g \in FilePlace, FileAt(w, g).indirect # 0
               PROVE  w[FileAt(w, g).indirect].kind # "files"
    BY DEF IndirectOnly
  <2>1. CASE g = f
    <3>1. FileAt(w, g).indirect = x
      BY <1>4, <1>6, <2>1
    <3> QED BY <1>e, <1>i, <3>1
  <2>2. CASE g # f
    <3>1. g[1] # x
      BY <1>7a DEF Empty
    <3> QED BY <1>6, <1>7, <1>8, <2>2, <3>1, SameIndirect
  <2> QED BY <2>1, <2>2
<1>11. ASSUME NEW g \in FilePlace, NEW k \in 0..MAXFILESIZE
       PROVE  BlockOf(w, g, k) = IF g = f /\ Cut(m, f, size, k) THEN 0 ELSE BlockOf(m, g, k)
  <2>0. k \in Nat /\ NDIRECT \in Nat
    BY IndexBounds, Constants
  <2>1. CASE g # f /\ g[1] # x
    BY <1>6, <1>7, <1>8, <2>0, <2>1, BlocksKept
  <2>2. CASE g[1] = x
    BY <1>6, <1>7a, <1>h, <2>0, <2>2, NoBlocks
  <2>3. CASE g = f /\ k = 0
    <3>1. ~(0 > NDIRECT) /\ 0 \notin gone
      BY <1>1, <2>0, FileFields DEF Gone
    <3>2. BlockOf(w, f, 0) = new.indirect /\ BlockOf(m, f, 0) = x
      BY <1>0, <1>6, <2>0, BlockRead
    <3> QED BY <1>4, <2>3, <3>1, <3>2 DEF Cut
  <2>4. CASE g = f /\ k # 0 /\ k <= NDIRECT
    <3>1. k \in 1..NDIRECT /\ ~(k > NDIRECT)
      BY <2>0, <2>4
    <3>2. BlockOf(w, f, k) = new.direct[k] /\ BlockOf(m, f, k) = FileAt(m, f).direct[k]
      BY <1>0, <1>6, <2>0, <3>1, BlockRead
    <3>3. Cut(m, f, size, k) <=> k \in gone
      BY <2>4, <3>1 DEF Cut
    <3> QED BY <1>4, <2>4, <3>1, <3>2, <3>3
  <2>5. CASE g = f /\ k # 0 /\ ~(k <= NDIRECT)
    <3>1. k > NDIRECT /\ k <= MAXFILESIZE /\ ~(k > MAXFILESIZE)
      BY <2>0, <2>5, Constants
    <3>2. k - NDIRECT \in 1..NINDIRECT /\ NDIRECT + (k - NDIRECT) = k
      BY <2>0, <3>1, IndexBounds
    <3>3. BlockOf(m, f, k) = Ptrs(m[x])[k - NDIRECT]
      BY <1>a, <2>5, <3>1 DEF BlockOf
    <3>4. CASE LosesIndirect(FileAt(m, f), size)
      <4>1. BlockOf(w, f, k) = 0
        BY <1>0, <1>4, <1>6, <2>0, <3>1, <3>4, BlockRead
      <4>2. Cut(m, f, size, k)
        BY <3>1, <3>4 DEF Cut
      <4> QED BY <2>5, <4>1, <4>2
    <3>5. CASE ~LosesIndirect(FileAt(m, f), size)
      <4>1. BlockOf(w, f, k) = ptrs[k - NDIRECT]
        BY <1>4, <1>6, <1>a, <1>e, <1>i, <2>5, <3>1, <3>5 DEF BlockOf
      <4>2. Cut(m, f, size, k) <=> k \in gone
        BY <3>5 DEF Cut
      <4> QED BY <1>d, <2>5, <3>2, <3>3, <4>1, <4>2
    <3> QED BY <3>4, <3>5
  <2> QED BY <2>1, <2>2, <2>3, <2>4, <2>5, <1>h
<1>11a. Elsewhere(m, w, f, 0)
  <2>1. BlockOf(m, f, 0) = x /\ 0 \in 0..MAXFILESIZE
    BY <1>0, BlockRead, IndexBounds
  <2> QED BY <1>3, <1>6, <1>g, <2>1 DEF Elsewhere, SameBlock
<1>12. Cutted(m, w, f, size)
  BY <1>3, <1>6, <1>9, <1>10, <1>11, <1>11a, <1>g DEF Cutted, new, free
<1> QED BY <1>5, <1>12

LEMMA TruncatedCut ==
    ASSUME NEW m \in Memory, NEW care, MemoryInv(m, 0, care), NEW f \in Live(m),
           NEW size \in Nat
    PROVE  Cutted(m, Truncated(m, f, size), f, size)
BY TruncatedNoIndirect, TruncatedIndirect DEF MemoryInv

LEMMA FreedAre ==
    ASSUME NEW m \in Memory, NEW f \in FilePlace, NEW size \in Nat, NEW b \in Freed(m, f, size)
    PROVE  \E k \in 0..MAXFILESIZE : Cut(m, f, size, k) /\ BlockOf(m, f, k) = b /\ b # 0
<1>0. FileAt(m, f).size \in Nat
  BY FileRead, FileFields
<1>1. CASE b \in {BlockOf(m, f, n) : n \in Gone(FileAt(m, f), size)}
  <2>1. PICK n \in Gone(FileAt(m, f), size) : BlockOf(m, f, n) = b
    BY <1>1
  <2>2. n \in Nat /\ n # 0 /\ b # 0
    BY <1>0, <2>1 DEF Gone, Freed
  <2>3. ~(n > MAXFILESIZE)
    BY <2>1, <2>2, BlockRead
  <2>4. n \in 0..MAXFILESIZE
    BY <2>2, <2>3, Constants
  <2> QED BY <2>1, <2>2, <2>4 DEF Cut
<1>2. CASE b \notin {BlockOf(m, f, n) : n \in Gone(FileAt(m, f), size)}
  <2>1. b = FileAt(m, f).indirect /\ LosesIndirect(FileAt(m, f), size) /\ b # 0
    BY <1>2 DEF Freed
  <2>2. BlockOf(m, f, 0) = b /\ 0 \in 0..MAXFILESIZE
    BY <2>1, BlockRead, IndexBounds
  <2> QED BY <2>1, <2>2 DEF Cut
<1> QED BY <1>1, <1>2

(* Only the blocks that the file has lost are free now, and they all are.  *)
LEMMA CuttedInv ==
    ASSUME NEW m \in Memory, NEW care, MemoryInv(m, 0, care), NEW f \in AllFiles(m),
           NEW size \in Nat, size <= FileAt(m, f).size, NEW w, Cutted(m, w, f, size)
    PROVE  /\ MemoryInv(w, 0, care)
           /\ Only(m, w, f) /\ f \in AllFiles(w)
           /\ FileAt(w, f).name = FileAt(m, f).name
           /\ KeepNames(m, w)
           /\ \A d : Under(d, m, 0) => Under(d, w, f[1])
<1> USE DEF Cutted
<1>0. f \in FilePlace /\ f # Root /\ f \in Live(m) /\ Root \in FilePlace /\ Root \in Live(m)
  BY DirRead DEF Live
<1>a. Own(m, MAXFILESIZE) /\ IndirectOnly(m) /\ DirOnly(m)
  BY DEF MemoryInv
<1>b. /\ FileAt(m, f) \in FitFile /\ FileAt(m, f).size \in Nat
      /\ FileAt(w, f).size = FileAt(m, f).size /\ FileAt(w, f).name = FileAt(m, f).name
  <2>1. FileAt(m, f) \in FitFile /\ FileAt(m, f).size \in Nat
    BY <1>0, FileRead, FileFields
  <2>2. FileAt(w, f) = CutFile(FileAt(m, f), size)
    OBVIOUS
  <2>3. \A file \in FitFile : CutFile(file, size).size = file.size /\ CutFile(file, size).name = file.name
    BY DEF CutFile, FitFile, FileRec
  <2> QED BY <2>1, <2>2, <2>3
<1>1. Own(w, MAXFILESIZE)
  <2> SUFFICES ASSUME NEW g \in FilePlace, NEW g2 \in FilePlace,
                      NEW k \in 0..MAXFILESIZE, NEW k2 \in 0..MAXFILESIZE,
                      BlockOf(w, g, k) # 0
               PROVE  /\ BlockOf(w, g, k) \in DataBlock \ FreeBlocks(w)
                      /\ BlockOf(w, g, k) = BlockOf(w, g2, k2) => g = g2 /\ k = k2
    BY DEF Own
  <2>1. BlockOf(w, g, k) = BlockOf(m, g, k) /\ ~(g = f /\ Cut(m, f, size, k))
    OBVIOUS
  <2>2. BlockOf(w, g2, k2) # 0 => BlockOf(w, g2, k2) = BlockOf(m, g2, k2)
    OBVIOUS
  <2>3. BlockOf(m, g, k) \in DataBlock \ FreeBlocks(m)
    BY <1>a, <2>1 DEF Own
  <2>4. BlockOf(m, g, k) = BlockOf(m, g2, k2) => g = g2 /\ k = k2
    BY <1>a, <2>1 DEF Own
  <2>5. BlockOf(m, g, k) \notin Freed(m, f, size)
    <3> SUFFICES ASSUME BlockOf(m, g, k) \in Freed(m, f, size) PROVE FALSE
      OBVIOUS
    <3>1. PICK j \in 0..MAXFILESIZE : Cut(m, f, size, j) /\ BlockOf(m, f, j) = BlockOf(m, g, k) /\ BlockOf(m, f, j) # 0
      BY <1>0, FreedAre
    <3>2. g = f /\ j = k
      BY <1>0, <1>a, <3>1 DEF Own
    <3> QED BY <2>1, <3>1, <3>2
  <2> QED BY <2>1, <2>2, <2>3, <2>4, <2>5
<1>2. InHand(w, 0)
  BY DEF InHand
<1>3. FileAt(w, Root) = FileAt(m, Root)
  BY <1>0 DEF Untouched, SameFile
<1>4. \A i \in 1..MAXFILESIZE : BlockOf(w, Root, i) = BlockOf(m, Root, i)
  BY <1>0, IndexBounds
<1>5. Live(w) = Live(m) /\ AllFiles(w) = AllFiles(m)
  <2>1. FileAt(m, Root).size <= FileAt(w, Root).size /\ FileAt(w, Root).size <= FileAt(m, Root).size
    BY <1>3, RootNamed
  <2>2. Live(m) \subseteq Live(w) /\ AllFiles(m) \subseteq AllFiles(w)
    BY <1>4, <2>1, LiveGrows
  <2>3. Live(w) \subseteq Live(m) /\ AllFiles(w) \subseteq AllFiles(m)
    BY <1>4, <2>1, LiveGrows
  <2> QED BY <2>2, <2>3
<1>6. DirOnly(w)
  BY <1>0, <1>5, <1>a DEF DirOnly, Untouched, SameFile, Blank
<1>7. Only(m, w, f)
  <2>1. Live(m) \subseteq FilePlace
    BY DirRead
  <2> QED BY <1>5, <2>1 DEF Only, Untouched
<1>8. ASSUME care.exact PROVE WithinSize(w)
  <2> SUFFICES ASSUME NEW g \in FilePlace, NEW k \in 1..MAXFILESIZE, BlockOf(w, g, k) # 0
               PROVE  k <= FileAt(w, g).size
    BY DEF WithinSize
  <2>1. k \in 0..MAXFILESIZE /\ k \in Nat
    BY IndexBounds
  <2>2. BlockOf(m, g, k) # 0
    BY <2>1
  <2>3. k <= FileAt(m, g).size
    BY <1>8, <2>2 DEF MemoryInv, WithinSize
  <2>4. CASE g = f
    BY <1>b, <2>3, <2>4
  <2>5. CASE g # f
    <3>1. ~Empty(FileAt(w, g))
      BY <2>1, BlockRead
    <3> QED BY <2>3, <2>5, <3>1 DEF Untouched, SameFile, Blank
  <2> QED BY <2>4, <2>5
<1>9. ASSUME care.exact PROVE NoneLost(w, 0)
  <2> SUFFICES ASSUME NEW b \in DataBlock \ FreeBlocks(w)
               PROVE  \E g \in FilePlace, k \in 0..MAXFILESIZE : BlockOf(w, g, k) = b
    BY DEF NoneLost
  <2>1. b \in DataBlock \ FreeBlocks(m) /\ b \notin Freed(m, f, size) /\ b # 0
    BY Constants
  <2>2. PICK g \in FilePlace, k \in 0..MAXFILESIZE : BlockOf(m, g, k) = b
    BY <1>9, <2>1 DEF MemoryInv, NoneLost
  <2>3. ~(g = f /\ Cut(m, f, size, k))
    <3> SUFFICES ASSUME g = f, Cut(m, f, size, k) PROVE FALSE
      OBVIOUS
    <3>1. CASE k \in Gone(FileAt(m, f), size)
      BY <2>1, <2>2, <3>1 DEF Freed
    <3>2. CASE k = 0 /\ LosesIndirect(FileAt(m, f), size)
      BY <2>1, <2>2, <3>2, BlockRead DEF Freed
    <3>3. CASE k > NDIRECT /\ LosesIndirect(FileAt(m, f), size)
      <4>1. k \in Nat /\ NDIRECT \in Nat /\ k # 0
        BY <3>3, IndexBounds, Constants
      <4>2. k \in 1..MAXFILESIZE
        BY <4>1, IndexBounds
      <4>3. k <= FileAt(m, f).size
        BY <1>9, <2>1, <2>2, <4>2 DEF MemoryInv, WithinSize
      <4>4. k \in Gone(FileAt(m, f), size)
        BY <1>b, <3>3, <4>1, <4>3 DEF Gone, LosesIndirect
      <4> QED BY <2>1, <2>2, <4>4 DEF Freed
    <3> QED BY <3>1, <3>2, <3>3 DEF Cut
  <2>4. BlockOf(w, g, k) = b
    BY <2>2, <2>3
  <2> QED BY <2>4
<1>9a. KeepNames(m, w)
  BY <1>b DEF KeepNames, Untouched, SameFile, Blank
<1>10. MemoryInv(w, 0, care)
  BY <1>1, <1>2, <1>5, <1>6, <1>8, <1>9, <1>9a, NamesStay DEF MemoryInv
<1>11. ASSUME NEW d, Under(d, m, 0) PROVE Under(d, w, f[1])
  <2>1. FreeBlocks(d) \subseteq FreeBlocks(w)
    BY <1>11 DEF Under
  <2>2. ASSUME NEW g \in FilePlace, g[1] # f[1], NEW k \in 0..NDIRECT, BlockOf(d, g, k) # 0
        PROVE  BlockOf(d, g, k) = BlockOf(w, g, k)
    <3>1. g # f /\ g[1] # 0 /\ k \in 0..MAXFILESIZE
      BY <2>2, FilePlaces, IndexBounds
    <3> QED BY <1>11, <2>2, <3>1 DEF Under, LedTo
  <2> QED BY <2>1, <2>2 DEF Under, LedTo
<1> QED BY <1>0, <1>5, <1>7, <1>9a, <1>10, <1>11, <1>b

(* What a truncated file has left is within its new size.                  *)
LEMMA CuttedWithin ==
    ASSUME NEW m \in Memory, NEW care, MemoryInv(m, 0, care), NEW f \in AllFiles(m),
           NEW size \in Nat, NEW w, Cutted(m, w, f, size)
    PROVE  /\ \A n \in 1..NDIRECT : FileAt(w, f).direct[n] # 0 => n <= size
           /\ care.exact => \A n \in 1..MAXFILESIZE : BlockOf(w, f, n) # 0 => n <= size
           /\ size = 0 => FileAt(w, f).indirect = 0 /\ \A n \in 1..NDIRECT : FileAt(w, f).direct[n] = 0
<1>0. f \in FilePlace /\ NDIRECT \in Nat
  BY DirRead, Constants
<1>1. FileAt(m, f) \in FitFile /\ FileAt(m, f).size \in Nat
  BY <1>0, FileRead, FileFields
<1>2. FileAt(w, f) = CutFile(FileAt(m, f), size)
  BY DEF Cutted
<1>3. /\ FileAt(w, f).indirect = IF LosesIndirect(FileAt(m, f), size) THEN 0 ELSE FileAt(m, f).indirect
      /\ \A k \in 1..NDIRECT :
             FileAt(w, f).direct[k] = IF k \in Gone(FileAt(m, f), size) THEN 0 ELSE FileAt(m, f).direct[k]
  <2> DEFINE file == FileAt(m, f)
             new == CutFile(file, size)
  <2>1. /\ new.indirect = IF LosesIndirect(file, size) THEN 0 ELSE file.indirect
        /\ \A k \in 1..NDIRECT : new.direct[k] = IF k \in Gone(file, size) THEN 0 ELSE file.direct[k]
    <3> HIDE DEF file
    <3>1. file \in FitFile
      BY <1>1 DEF file
    <3> QED BY <3>1, CutFits, Zenon
  <2> QED BY <1>2, <2>1
<1>4. ASSUME NEW n \in Nat \ {0}, n <= FileAt(m, f).size, n \notin Gone(FileAt(m, f), size) PROVE n <= size
  BY <1>1, <1>4 DEF Gone
<1>5. ASSUME NEW n \in 1..NDIRECT, FileAt(w, f).direct[n] # 0 PROVE n <= size
  <2>1. n \in Nat \ {0}
    BY IndexBounds
  <2>2. n <= FileAt(m, f).size /\ n \notin Gone(FileAt(m, f), size)
    BY <1>1, <1>3, <1>5, FileFields
  <2> QED BY <1>4, <2>1, <2>2
<1>6. ASSUME care.exact, NEW n \in 1..MAXFILESIZE, BlockOf(w, f, n) # 0 PROVE n <= size
  <2>1. n \in Nat \ {0} /\ n \in 0..MAXFILESIZE
    BY IndexBounds
  <2>2. BlockOf(m, f, n) # 0 /\ ~Cut(m, f, size, n)
    BY <1>0, <1>6, <2>1 DEF Cutted
  <2>3. n <= FileAt(m, f).size
    BY <1>0, <1>6, <2>2 DEF MemoryInv, WithinSize
  <2> QED BY <1>4, <2>1, <2>2, <2>3 DEF Cut
<1>7. ASSUME size = 0
      PROVE  FileAt(w, f).indirect = 0 /\ \A n \in 1..NDIRECT : FileAt(w, f).direct[n] = 0
  <2>1. FileAt(w, f).indirect = 0
    BY <1>0, <1>3, <1>7 DEF LosesIndirect
  <2>2. \A n \in 1..NDIRECT : ~(n <= 0)
    BY <1>0
  <2> QED BY <1>5, <1>7, <2>1, <2>2
<1> QED BY <1>5, <1>6, <1>7

-----------------------------------------------------------------------------
(* The calls that clients make.                                            *)

LEMMA CuttedSpares ==
    ASSUME NEW m \in Memory, NEW care, MemoryInv(m, 0, care), NEW f \in AllFiles(m),
           NEW size \in Nat, size <= FileAt(m, f).size, NEW w, Cutted(m, w, f, size),
           care.exact, care.kept \subseteq Name, FileAt(m, f).name \notin care.kept
    PROVE  Spares(m, w, care)
<1>0. w \in Memory /\ Elsewhere(m, w, f, 0)
  BY DEF Cutted
<1>1. Only(m, w, f) /\ KeepNames(m, w)
  BY CuttedInv
<1>2. f \in Live(m) /\ f # Root /\ Root \in Live(m) /\ Root \in FilePlace
  BY DirRead DEF Live
<1>3. DirOn(w, m)
  BY <1>2, IndexBounds DEF Cutted, DirOn
<1>4. FileAt(m, Root).size <= FileAt(w, Root).size
  BY <1>1, <1>2, RootNamed DEF Only, SameFile
<1> QED BY <1>0, <1>1, <1>2, <1>3, <1>4, ElsewhereSpares DEF Only

LEMMA FlushRequestInv ==
    ASSUME NEW s, NEW care, RequestInv(s, care), NEW b, care.dir => b # Super
    PROVE  RequestInv(Flush(s, b), care) /\ SameResult(s, Flush(s, b))
<1> DEFINE t == Flush(s, b)
<1>1. 0 # Super
  BY DEF Super
<1>2. Pending(s, Held(s), care, 0) /\ (s.haunted => s.failed)
  BY DEF RequestInv
<1>3. Pending(t, Held(s), care, 0) /\ SameResult(s, t)
  BY <1>1, <1>2, FlushInv
<1> HIDE DEF t
<1>4. Held(t) = Held(s) /\ (t.haunted => t.failed)
  BY <1>2, <1>3 DEF SameResult, Held
<1>5. RequestInv(t, care)
  BY <1>3, <1>4 DEF RequestInv
<1> QED BY <1>3, <1>5 DEF t

LEMMA FileFlushInv ==
    ASSUME NEW s, NEW care, RequestInv(s, care), NEW f \in FilePlace, care.dir => f # Root
    PROVE  RequestInv(FileFlush(s, f), care) /\ SameResult(s, FileFlush(s, f))
<1> DEFINE t == FlushBlocks(s, f)
           u == Flush(t, f[1])
<1>0. s.mem \in Memory
  BY DEF RequestInv, Pending, Requests
<1>1. RequestInv(t, care) /\ SameResult(s, t)
  <2> DEFINE size == FileAt(s.mem, f).size
             blocks == [n \in 1..size |-> BlockOf(s.mem, f, n)]
  <2>1. size \in Nat
    BY <1>0, FileRead, FileFields
  <2> HIDE DEF size
  <2>2. ASSUME NEW n \in 1..size PROVE blocks[n] # Super
    <3>1. n \in Nat /\ blocks[n] = BlockOf(s.mem, f, n)
      BY <2>1
    <3>2. BlockOf(s.mem, f, n) \in BlockNo
      BY <1>0, <3>1, BlockRead
    <3>3. Super # 0
      BY DEF Super
    <3> QED BY <3>1, <3>2, <3>3, Constants DEF BlockNo
  <2>3. t = FlushAll(s, blocks, size)
    BY DEF FlushBlocks, size
  <2> HIDE DEF blocks
  <2> QED BY <2>1, <2>2, <2>3, FlushAllInv
<1> HIDE DEF t
<1>2. RequestInv(u, care) /\ SameResult(t, u)
  BY <1>1, FlushRequestInv, FilePlaces
<1> HIDE DEF u
<1>3. RequestInv(FlushIndirect(u, f), care) /\ SameResult(u, FlushIndirect(u, f))
  <2>1. u.mem \in Memory
    BY <1>2 DEF RequestInv, Pending, Requests
  <2>2. CASE FileAt(u.mem, f).indirect = 0
    BY <1>2, <2>2 DEF FlushIndirect, SameResult
  <2>3. CASE FileAt(u.mem, f).indirect # 0
    <3>1. FileAt(u.mem, f).indirect # Super
      BY <2>1, <2>3, IndirectRead, Constants
    <3> QED BY <1>2, <2>3, <3>1, FlushRequestInv DEF FlushIndirect
  <2> QED BY <2>2, <2>3
<1>4. FileFlush(s, f) = FlushIndirect(u, f)
  BY DEF FileFlush, u, t
<1> QED BY <1>1, <1>2, <1>3, <1>4 DEF SameResult

LEMMA FsSyncInv ==
    ASSUME NEW s, NEW care, RequestInv(s, care), ~care.dir
    PROVE  RequestInv(FsSync(s), care) /\ SameResult(s, FsSync(s))
<1>1. NBLOCKS - 1 \in Nat
  <2>1. NBLOCKS \in Nat /\ NBLOCKS > 3
    BY FsAssumption
  <2> QED BY <2>1
<1> QED BY <1>1, FlushAllInv DEF FsSync

Resized(s, t, f, size, care) ==
    /\ RequestInv(t, care) /\ Only(s.mem, t.mem, f) /\ f \in AllFiles(t.mem)
    /\ t.failed = FALSE
    /\ FileAt(t.mem, f).name = FileAt(s.mem, f).name /\ FileAt(t.mem, f).size = size

LEMMA FileSetSizeInv ==
    ASSUME NEW s, NEW care, RequestInv(s, care), s.failed = FALSE, NEW f \in AllFiles(s.mem),
           NEW size \in Nat, MayChange(s.mem, f, care)
    PROVE  Resized(s, FileSetSize(s, f, size), f, size, care)
<1> DEFINE m == s.mem
           cut == FileAt(m, f).size > size
           v == IF cut THEN Truncated(m, f, size) ELSE m
           new == [FileAt(v, f) EXCEPT !.size = size]
           w == WithFile(v, f, new)
           u == [s EXCEPT !.mem = w]
           t == FileSetSize(s, f, size)
<1>0. /\ s \in Requests /\ m \in Memory /\ MemoryInv(m, 0, care) /\ Under(s.disk, m, 0) /\ Sound(s.stops)
      /\ Safe(s, care) /\ s.disk \in Memory /\ s.haunted = FALSE
  <2>1. s.haunted = FALSE /\ Pending(s, 0, care, 0)
    BY Unhaunted
  <2> QED BY <2>1 DEF Pending, Requests
<1>c. care.exact => /\ care.kept \subseteq Name /\ FileAt(m, f).name \notin care.kept
                    /\ NamesLive(m)
  BY <1>0 DEF Safe, MayChange, MemoryInv
<1> HIDE DEF m
<1>a. f \in FilePlace /\ f # Root /\ f \in Live(m)
  BY <1>0, DirRead DEF Live, m
<1>b. FileAt(m, f) \in FitFile /\ FileAt(m, f).size \in Nat
  BY <1>0, <1>a, FileRead, FileFields DEF m
<1>1. t = Flush(u, f[1])
  <2>1. CASE cut
    <3> DEFINE y == FileTruncateBlocks(s, f, size)
    <3>1. y = [s EXCEPT !.mem = v]
      BY <2>1 DEF FileTruncateBlocks, m
    <3>2. t = Flush([y EXCEPT !.mem = WithSize(@, f, size)], f[1])
      BY <2>1 DEF FileSetSize, m
    <3> HIDE DEF v, y
    <3>3. y.mem = v /\ [y EXCEPT !.mem = w] = [s EXCEPT !.mem = w]
      BY <1>0, <3>1 DEF Requests
    <3>4. [y EXCEPT !.mem = WithSize(@, f, size)] = u
      BY <3>3 DEF WithSize
    <3> QED BY <3>2, <3>4
  <2>2. CASE ~cut
    BY <2>2 DEF FileSetSize, WithSize, m
  <2> QED BY <2>1, <2>2
<1>2. /\ v \in Memory /\ MemoryInv(v, 0, care)
      /\ Only(m, v, f) /\ f \in AllFiles(v) /\ FileAt(v, f).name = FileAt(m, f).name
      /\ Under(s.disk, v, f[1])
      /\ \A n \in 1..NDIRECT : FileAt(v, f).direct[n] # 0 => n <= size
      /\ care.exact => \A n \in 1..MAXFILESIZE : BlockOf(v, f, n) # 0 => n <= size
      /\ care.exact => Spares(m, v, care)
  <2>1. CASE cut
    <3>1. size <= FileAt(m, f).size
      BY <1>b, <2>1
    <3>2. Cutted(m, v, f, size)
      BY <1>0, <1>a, <1>b, <2>1, TruncatedCut
    <3> HIDE DEF v
    <3>3. v \in Memory
      BY <3>2 DEF Cutted
    <3>4. /\ MemoryInv(v, 0, care)
          /\ Only(m, v, f) /\ f \in AllFiles(v)
          /\ FileAt(v, f).name = FileAt(m, f).name
          /\ \A d : Under(d, m, 0) => Under(d, v, f[1])
      BY <1>0, <3>1, <3>2, CuttedInv DEF m
    <3>5. /\ \A n \in 1..NDIRECT : FileAt(v, f).direct[n] # 0 => n <= size
          /\ care.exact => \A n \in 1..MAXFILESIZE : BlockOf(v, f, n) # 0 => n <= size
      BY <1>0, <1>b, <3>2, CuttedWithin DEF m
    <3>6. care.exact => Spares(m, v, care)
      BY <1>0, <1>c, <3>1, <3>2, CuttedSpares DEF m
    <3> QED BY <1>0, <3>3, <3>4, <3>5, <3>6
  <2>2. CASE ~cut
    <3>0. v = m
      BY <2>2
    <3> HIDE DEF v
    <3>1. FileAt(m, f).size <= size
      BY <1>b, <2>2
    <3>2. \A n \in 1..NDIRECT : FileAt(m, f).direct[n] # 0 => n <= FileAt(m, f).size
      BY <1>b, FileFields
    <3>3. ASSUME NEW n \in 1..NDIRECT, FileAt(m, f).direct[n] # 0 PROVE n <= size
      <4>1. n <= FileAt(m, f).size /\ n \in Nat
        BY <3>2, <3>3, IndexBounds
      <4> QED BY <1>b, <3>1, <4>1
    <3>4. ASSUME care.exact, NEW n \in 1..MAXFILESIZE, BlockOf(m, f, n) # 0 PROVE n <= size
      <4>1. n <= FileAt(m, f).size /\ n \in Nat
        BY <1>0, <1>a, <3>4, IndexBounds DEF MemoryInv, WithinSize
      <4> QED BY <1>b, <3>1, <4>1
    <3>5. Only(m, m, f)
      BY DEF Only, SameFile
    <3>6. Under(s.disk, m, f[1])
      BY <1>0, FilePlaces DEF Under
    <3>7. f \in AllFiles(m)
      BY DEF m
    <3>8. Spares(m, m, care)
      BY <1>0, SameSpares DEF SameFile, SameBlock
    <3> QED BY <1>0, <3>0, <3>3, <3>4, <3>5, <3>6, <3>7, <3>8
  <2> QED BY <2>1, <2>2
<1> HIDE DEF v, t
<1>3. FileAt(v, f) \in FitFile /\ FileAt(v, f).name # "/"
  BY <1>2, <1>a, FileRead
<1>4. /\ new \in FitFile /\ new.name = FileAt(v, f).name /\ new.size = size
      /\ new.direct = FileAt(v, f).direct /\ new.indirect = FileAt(v, f).indirect
  BY <1>2, <1>3, <1>b, NewSizeFits
<1> HIDE DEF new
<1>5. EntrySet(v, w, f, new, care) /\ (care.exact => Spares(v, w, care))
  <2>1. f \in Live(v)
    BY <1>2 DEF Live
  <2>2. SamePointers(v, f, new) /\ NameFits(v, f, new.name)
    BY <1>4 DEF SamePointers, NameFits
  <2>3. EntrySet(v, w, f, new, care)
    BY <1>2, <1>3, <1>4, <1>a, <2>1, <2>2, EntryInv
  <2> HIDE DEF w
  <2> QED BY <1>2, <1>4, <1>a, <1>c, <2>1, <2>3, EntrySpares
<1> HIDE DEF w
<1>6. /\ w \in Memory /\ MemoryInv(w, 0, care) /\ FileAt(w, f) = new
      /\ Only(v, w, f) /\ Under(s.disk, w, f[1]) /\ Live(v) \subseteq Live(w)
  BY <1>2, <1>5, <1>a DEF EntrySet
<1>7. /\ u \in Requests /\ u.mem = w /\ u.disk = s.disk /\ u.stops = s.stops
      /\ u.failed = s.failed /\ u.blk = s.blk /\ u.file = s.file /\ u.haunted = FALSE
  BY <1>0, <1>6, SetMemory
<1> HIDE DEF u
<1>7a. Safe(u, care)
  <2> DEFINE x == [s EXCEPT !.mem = v]
  <2>1. x.mem = v /\ x.disk = s.disk /\ x.stops = s.stops
    BY <1>0, <1>2, SetMemory
  <2> HIDE DEF x
  <2>2. Safe(x, care)
    BY <1>0, <1>2, <1>c, <2>1, SafeMemory DEF m
  <2>3. care.exact => NamesLive(v) /\ Spares(v, w, care)
    BY <1>2, <1>5 DEF MemoryInv
  <2> QED BY <1>0, <1>2, <1>6, <1>7, <2>1, <2>2, <2>3, SafeMemory
<1>8. Pending(u, 0, care, f[1])
  BY <1>0, <1>6, <1>7, <1>7a DEF Pending
<1>9. RequestInv(t, care) /\ SameResult(u, t)
  <2>1. f[1] # Super
    BY <1>a, FilePlaces
  <2>2. Pending(t, 0, care, 0) /\ SameResult(u, t)
    BY <1>1, <1>8, <2>1, FlushInv
  <2> QED BY <1>7, <2>2, Unhaunted DEF SameResult
<1>10. t.mem = w /\ t.failed = FALSE
  BY <1>7, <1>9 DEF SameResult
<1>11. Only(m, w, f)
  BY <1>2, <1>6 DEF Only, SameFile
<1>12. f \in AllFiles(w)
  BY <1>a, <1>11 DEF Only, Live
<1> QED BY <1>2, <1>4, <1>6, <1>9, <1>10, <1>11, <1>12 DEF Resized, m, t

(* Data goes to a block of a file that is no directory.                    *)
LEMMA DataInv ==
    ASSUME NEW m \in Memory, NEW care, MemoryInv(m, 0, care), NEW f \in AllFiles(m), NEW n \in 1..MAXFILESIZE,
           NEW b, b = BlockOf(m, f, n), b # 0, NEW c \in Content, c.kind # "files"
    PROVE  LET w == [m EXCEPT ![b] = c] IN
           /\ w \in Memory /\ MemoryInv(w, 0, care)
           /\ Live(w) = Live(m) /\ AllFiles(w) = AllFiles(m)
           /\ \A g \in Live(m) : SameFile(m, w, g)
           /\ KeepNames(m, w) /\ Elsewhere(m, w, f, 0)
           /\ \A i \in 1..MAXFILESIZE : BlockOf(w, Root, i) = BlockOf(m, Root, i)
           /\ \A d : Under(d, m, 0) => Under(d, w, 0)
<1> DEFINE w == [m EXCEPT ![b] = c]
<1>0. f \in FilePlace /\ f # Root /\ n \in Nat /\ n # 0 /\ n \in 0..MAXFILESIZE /\ Live(m) \subseteq FilePlace
  BY DirRead, IndexBounds DEF Live
<1>a. Own(m, MAXFILESIZE) /\ IndirectOnly(m) /\ DirOnly(m)
  BY DEF MemoryInv
<1>b. b \in DataBlock
  BY <1>0, <1>a DEF Own
<1>c. Overwritten(m, w, b, c)
  BY <1>b, OverwriteFacts
<1>1. /\ w \in Memory
      /\ \A x \in AnyBlock : x # b => SameBlock(m, w, x)
      /\ \A g \in FilePlace : g[1] # b => SameFile(m, w, g)
      /\ \A g \in FilePlace : g[1] = b => Empty(FileAt(w, g)) /\ FileAt(w, g).name = Unnamed
      /\ FreeBlocks(w) = FreeBlocks(m)
  BY <1>c DEF Overwritten, Blank
<1> HIDE DEF w
<1>2. ASSUME NEW g \in FilePlace, g[1] = b PROVE g \notin Live(m) /\ Empty(FileAt(m, g))
  <2>1. g \notin Live(m)
    BY <1>0, <1>2, <1>a, DirApart
  <2> QED BY <1>a, <2>1 DEF DirOnly
<1>3. \A g \in Live(m) : SameFile(m, w, g)
  BY <1>0, <1>1, <1>2
<1>4. ASSUME NEW g \in FilePlace, FileAt(m, g).indirect # 0
      PROVE  SameBlock(m, w, FileAt(m, g).indirect)
  <2>1. FileAt(m, g).indirect \in AnyBlock
    BY <1>4, IndirectRead, Constants
  <2>2. BlockOf(m, g, 0) = FileAt(m, g).indirect /\ 0 \in 0..MAXFILESIZE
    BY BlockRead, IndexBounds
  <2>3. FileAt(m, g).indirect # b
    BY <1>0, <1>a, <2>2 DEF Own
  <2> QED BY <1>1, <2>1, <2>3
<1>5. ASSUME NEW g \in FilePlace, NEW k \in 0..MAXFILESIZE PROVE BlockOf(w, g, k) = BlockOf(m, g, k)
  <2>0. k \in Nat
    BY IndexBounds
  <2>1. CASE g[1] = b
    BY <1>1, <1>2, <2>0, <2>1, NoBlocks
  <2>2. CASE g[1] # b
    <3>1. FileAt(w, g) = FileAt(m, g)
      BY <1>1, <2>2 DEF SameFile
    <3> QED BY <1>1, <1>4, <2>0, <3>1, BlocksKept
  <2> QED BY <2>1, <2>2
<1>6. Own(w, MAXFILESIZE)
  BY <1>a, <1>1, <1>5 DEF Own
<1>7. IndirectOnly(w)
  <2> SUFFICES ASSUME NEW g \in FilePlace, FileAt(w, g).indirect # 0
               PROVE  w[FileAt(w, g).indirect].kind # "files"
    BY DEF IndirectOnly
  <2>1. g[1] # b
    BY <1>1 DEF Empty
  <2>2. FileAt(w, g) = FileAt(m, g)
    BY <1>1, <2>1 DEF SameFile
  <2> QED BY <1>1, <1>4, <1>a, <2>2, SameIndirect
<1>8. Live(w) = Live(m) /\ AllFiles(w) = AllFiles(m)
  <2>1. FileAt(m, Root).size <= FileAt(w, Root).size /\ FileAt(w, Root).size <= FileAt(m, Root).size
    BY <1>3, RootNamed, DirRead DEF SameFile
  <2>2. Live(m) \subseteq Live(w) /\ AllFiles(m) \subseteq AllFiles(w)
    BY <1>1, <1>5, <2>1, LiveGrows, IndexBounds, FilePlaces
  <2>3. Live(w) \subseteq Live(m) /\ AllFiles(w) \subseteq AllFiles(m)
    BY <1>1, <1>5, <2>1, LiveGrows, IndexBounds, FilePlaces
  <2> QED BY <2>2, <2>3
<1>9. DirOnly(w)
  BY <1>1, <1>8, <1>a DEF DirOnly, SameFile
<1>10. InHand(w, 0)
  BY DEF InHand
<1>11. ASSUME care.exact PROVE WithinSize(w) /\ NoneLost(w, 0)
  <2>1. WithinSize(m) /\ NoneLost(m, 0)
    BY <1>11 DEF MemoryInv
  <2>2. WithinSize(w)
    <3> SUFFICES ASSUME NEW g \in FilePlace, NEW k \in 1..MAXFILESIZE, BlockOf(w, g, k) # 0
                 PROVE  k <= FileAt(w, g).size
      BY DEF WithinSize
    <3>1. BlockOf(m, g, k) # 0 /\ k \in Nat
      BY <1>5, IndexBounds
    <3>2. g[1] # b
      BY <1>1, <3>1, BlockRead
    <3> QED BY <1>1, <2>1, <3>1, <3>2 DEF WithinSize, SameFile
  <2>3. NoneLost(w, 0)
    BY <1>1, <1>5, <2>1 DEF NoneLost
  <2> QED BY <2>2, <2>3
<1>11a. KeepNames(m, w)
  BY <1>1, <1>2 DEF KeepNames, SameFile
<1>11b. Elsewhere(m, w, f, 0)
  BY <1>0, <1>1 DEF Elsewhere
<1>11c. \A i \in 1..MAXFILESIZE : BlockOf(w, Root, i) = BlockOf(m, Root, i)
  BY <1>5, FilePlaces, IndexBounds
<1>12. MemoryInv(w, 0, care)
  BY <1>1, <1>6, <1>7, <1>8, <1>9, <1>10, <1>11, <1>11a, NamesStay DEF MemoryInv
<1>13. ASSUME NEW d, Under(d, m, 0) PROVE Under(d, w, 0)
  BY <1>1, <1>5, <1>13, IndexBounds DEF Under, LedTo
<1> QED BY <1>1, <1>3, <1>8, <1>11a, <1>11b, <1>11c, <1>12, <1>13 DEF w

-----------------------------------------------------------------------------
(* For the time of a request the disk may be behind with more: with the    *)
(* name of one place, with the directory.                                  *)
Loose(care, f, dir) ==
    [exact |-> care.exact, kept |-> care.kept, saved |-> care.saved, at |-> f, dir |-> dir]

LEMMA Loosened ==
    ASSUME NEW s, NEW h, NEW care, NEW but, Pending(s, h, care, but), care.at = NoFile, NEW f, NEW dir, dir => care.dir
    PROVE  Pending(s, h, Loose(care, f, dir), but)
<1> DEFINE loose == Loose(care, f, dir)
<1>1. /\ loose.exact = care.exact /\ loose.kept = care.kept /\ loose.saved = care.saved
      /\ loose.at = f /\ loose.dir = dir
  BY DEF Loose
<1> HIDE DEF loose
<1>2. NamesOn(s.mem, s.disk, care) => NamesOn(s.mem, s.disk, loose)
  BY FilePlaces DEF NamesOn
<1>3. OnDisk(s.mem, s.disk, care) => OnDisk(s.mem, s.disk, loose)
  BY <1>1, <1>2 DEF OnDisk
<1>4. \A d : Holds(d, care) => Holds(d, loose)
  BY <1>1 DEF Holds
<1>5. Safe(s, loose)
  BY <1>1, <1>3, <1>4 DEF Pending, Safe
<1>6. MemoryInv(s.mem, h, loose)
  BY <1>1 DEF Pending, MemoryInv
<1>7. Pending(s, h, loose, but)
  BY <1>5, <1>6 DEF Pending
<1> QED BY <1>7 DEF loose

LEMMA Tightened ==
    ASSUME NEW s, NEW h, NEW care, NEW but, NEW f, NEW dir, Pending(s, h, Loose(care, f, dir), but),
           care.exact => NamesOn(s.mem, s.disk, care) /\ (care.dir => DirOn(s.mem, s.disk))
    PROVE  Pending(s, h, care, but)
<1> DEFINE loose == Loose(care, f, dir)
<1>1. loose.exact = care.exact /\ loose.kept = care.kept /\ loose.saved = care.saved
  BY DEF Loose
<1>0. Pending(s, h, loose, but)
  OBVIOUS
<1> HIDE DEF loose
<1>3. care.exact /\ OnDisk(s.mem, s.disk, loose) => OnDisk(s.mem, s.disk, care)
  BY <1>1 DEF OnDisk
<1>4. \A d : Holds(d, loose) => Holds(d, care)
  BY <1>1 DEF Holds
<1>5. Safe(s, care)
  BY <1>0, <1>1, <1>3, <1>4 DEF Pending, Safe
<1>6. MemoryInv(s.mem, h, care)
  BY <1>0, <1>1 DEF Pending, MemoryInv
<1> QED BY <1>0, <1>5, <1>6 DEF Pending

Clean(s, b) == SameBlock(s.mem, s.disk, b)

LEMMA FlushClean ==
    ASSUME NEW s \in Requests, NEW b, NEW c \in AnyBlock, c = b \/ Clean(s, c)
    PROVE  Clean(Flush(s, b), c)
<1>1. Written(s, {b})[c] = IF c = b THEN s.mem[c] ELSE s.disk[c]
  BY WrittenFacts
<1>2. Flush(s, b).mem = s.mem /\ Flush(s, b).disk = Written(s, {b})
  BY DEF Flush, Requests
<1> QED BY <1>1, <1>2 DEF Clean, SameBlock

LEMMA FlushAllClean ==
    ASSUME NEW s \in Requests, NEW blocks, NEW last, NEW c \in AnyBlock,
           Clean(s, c) \/ \E n \in 1..last : blocks[n] = c
    PROVE  Clean(FlushAll(s, blocks, last), c)
<1> DEFINE bs == {blocks[n] : n \in 1..last}
<1>1. Written(s, bs)[c] = IF c \in bs THEN s.mem[c] ELSE s.disk[c]
  BY WrittenFacts
<1>2. FlushAll(s, blocks, last).mem = s.mem /\ FlushAll(s, blocks, last).disk = Written(s, bs)
  BY DEF FlushAll, Requests
<1>3. c \in bs \/ Clean(s, c)
  OBVIOUS
<1> HIDE DEF bs
<1> QED BY <1>1, <1>2, <1>3 DEF Clean, SameBlock

(* file_flush leaves nothing of a file to be written.                      *)
LEMMA FileFlushClean ==
    ASSUME NEW s, NEW care, RequestInv(s, care), NEW f \in FilePlace, care.dir => f # Root,
           NEW c \in AnyBlock,
           \/ c = f[1] \/ c = FileAt(s.mem, f).indirect
           \/ \E n \in 1..FileAt(s.mem, f).size : BlockOf(s.mem, f, n) = c
    PROVE  Clean(FileFlush(s, f), c)
<1> DEFINE t == FlushBlocks(s, f)
           u == Flush(t, f[1])
           size == FileAt(s.mem, f).size
           blocks == [n \in 1..size |-> BlockOf(s.mem, f, n)]
<1>0. s \in Requests
  BY DEF RequestInv, Pending
<1>1. t = FlushAll(s, blocks, size)
  BY DEF FlushBlocks
<1>2. \A n \in 1..size : blocks[n] = BlockOf(s.mem, f, n)
  OBVIOUS
<1> HIDE DEF blocks
<1>3. (\E n \in 1..size : BlockOf(s.mem, f, n) = c) => Clean(t, c)
  BY <1>0, <1>1, <1>2, FlushAllClean
<1>4. t \in Requests /\ t.mem = s.mem
  BY <1>0, <1>1, FlushAllRequests
<1> HIDE DEF t, size
<1>5. u \in Requests /\ u.mem = s.mem
  BY <1>4, FlushRequests DEF SameResult
<1>6. c = f[1] \/ (\E n \in 1..size : BlockOf(s.mem, f, n) = c) => Clean(u, c)
  BY <1>3, <1>4, FlushClean
<1> HIDE DEF u
<1>7. FileFlush(s, f) = FlushIndirect(u, f)
  BY DEF FileFlush, u, t
<1>8. CASE FileAt(u.mem, f).indirect = 0
  <2>1. c # 0
    <3>1. NBLOCKS \in Nat
      BY FsAssumption
    <3> QED BY <3>1 DEF AnyBlock
  <2> QED BY <1>5, <1>6, <1>7, <1>8, <2>1 DEF FlushIndirect, size
<1>9. CASE FileAt(u.mem, f).indirect # 0
  <2>1. FileFlush(s, f) = Flush(u, FileAt(s.mem, f).indirect)
    BY <1>5, <1>7, <1>9 DEF FlushIndirect
  <2> QED BY <1>5, <1>6, <2>1, FlushClean DEF size
<1> QED BY <1>8, <1>9

(* When the directory is flushed.                                          *)
LEMMA DirClean ==
    ASSUME NEW s \in Requests, Clean(s, Super), FileAt(s.mem, Root).indirect # 0 => Clean(s, FileAt(s.mem, Root).indirect)
    PROVE  DirOn(s.mem, s.disk)
<1>1. s.mem \in Memory /\ s.disk \in Memory
  BY DEF Requests
<1>2. FileAt(s.disk, Root) = FileAt(s.mem, Root)
  BY FilePlaces DEF Clean, SameBlock, FileAt
<1>3. \A n \in Nat : BlockOf(s.disk, Root, n) = BlockOf(s.mem, Root, n)
  BY <1>1, <1>2, FilePlaces, BlocksKept DEF Clean
<1> QED BY <1>3, IndexBounds DEF DirOn

LEMMA NameClean ==
    ASSUME NEW s, NEW care, NEW f \in FilePlace, NEW dir, NamesOn(s.mem, s.disk, Loose(care, f, dir)), Clean(s, f[1])
    PROVE  NamesOn(s.mem, s.disk, care)
<1>1. FileAt(s.disk, f) = FileAt(s.mem, f)
  BY DEF Clean, SameBlock, FileAt
<1>2. Loose(care, f, dir).at = f
  BY DEF Loose
<1> QED BY <1>1, <1>2 DEF NamesOn

-----------------------------------------------------------------------------
(* The operations on files.                                                *)

(* The directory may have grown, and keeps the blocks that it had.         *)
DirKept(m, w) ==
    /\ FileAt(m, Root).size <= FileAt(w, Root).size
    /\ \A i \in 1..MAXFILESIZE : BlockOf(m, Root, i) # 0 => BlockOf(w, Root, i) = BlockOf(m, Root, i)

LEMMA CalmDir ==
    ASSUME NEW m \in Memory, NEW w \in Memory, NEW f \in Live(m), Calm(m, w, f)
    PROVE  DirKept(m, w)
<1>1. FileAt(m, Root).size <= FileAt(w, Root).size
  BY RootNamed, CalmLive
<1> QED BY <1>1 DEF DirKept, Calm

LEMMA DirKeptGrows ==
    ASSUME NEW m \in Memory, NEW w \in Memory, DirKept(m, w)
    PROVE  AllFiles(m) \subseteq AllFiles(w)
BY LiveGrows DEF DirKept

LEMMA DirKeptTwice ==
    ASSUME NEW m \in Memory, NEW v \in Memory, NEW w \in Memory, DirKept(m, v), DirKept(v, w)
    PROVE  DirKept(m, w)
<1>1. FileAt(m, Root).size <= FileAt(w, Root).size
  <2>1. FileAt(m, Root).size \in Nat /\ FileAt(v, Root).size \in Nat /\ FileAt(w, Root).size \in Nat
    BY RootNamed
  <2>2. FileAt(m, Root).size <= FileAt(v, Root).size /\ FileAt(v, Root).size <= FileAt(w, Root).size
    BY DEF DirKept
  <2> QED BY <2>1, <2>2
<1>2. ASSUME NEW i \in 1..MAXFILESIZE, BlockOf(m, Root, i) # 0
      PROVE  BlockOf(w, Root, i) = BlockOf(m, Root, i)
  <2>1. BlockOf(v, Root, i) = BlockOf(m, Root, i)
    BY <1>2 DEF DirKept
  <2> QED BY <1>2, <2>1 DEF DirKept
<1> QED BY <1>1, <1>2 DEF DirKept

SameNames(m, w, care) == care.exact => \A g \in FilePlace : FileAt(w, g).name = FileAt(m, g).name

LEMMA CalmNames ==
    ASSUME NEW m \in Memory, NEW w \in Memory, NEW care, NEW h, MemoryInv(m, h, care), NEW f \in Live(m), Calm(m, w, f)
    PROVE  SameNames(m, w, care)
<1>1. Live(m) \subseteq Live(w) /\ KeepNames(m, w)
  BY CalmLive DEF Calm
<1> QED BY <1>1, NamesStay DEF MemoryInv, SameNames

LEMMA GrownInv ==
    ASSUME NEW s, NEW care, RequestInv(s, care), s.failed = FALSE
    PROVE  LET t == Grown(s) IN
           /\ RequestInv(t, care) /\ DirKept(s.mem, t.mem) /\ SameNames(s.mem, t.mem, care)
           /\ FileAt(t.mem, Root).size = FileAt(s.mem, Root).size + 1
           /\ t.failed = s.failed /\ t.file = s.file
<1> DEFINE m == s.mem
           last == FileAt(m, Root).size
           file == [FileAt(m, Root) EXCEPT !.size = last + 1]
           w == WithFile(m, Root, file)
           t == Grown(s)
<1>0. s \in Requests /\ m \in Memory /\ MemoryInv(m, 0, care) /\ s.haunted = FALSE
  <2>1. s.haunted = FALSE /\ Pending(s, 0, care, 0)
    BY Unhaunted
  <2> QED BY <2>1 DEF Pending, Requests
<1>1. FileAt(m, Root) \in FitFile /\ FileAt(m, Root).name = "/" /\ FileAt(m, Root).name # Unnamed /\ last \in Nat
  BY <1>0, FilePlaces, FileRead, RootNamed
<1>2. t = [s EXCEPT !.mem = w]
  BY DEF Grown, WithSize
<1>3. last + 1 \in Nat /\ last <= last + 1 /\ \A n \in Nat : n <= last => n <= last + 1
  BY <1>1
<1>4. \A n \in 1..NDIRECT : FileAt(m, Root).direct[n] # 0 => n <= last + 1
  <2>1. \A n \in 1..NDIRECT : n \in Nat /\ (FileAt(m, Root).direct[n] # 0 => n <= last)
    BY <1>1, FileFields
  <2> QED BY <1>3, <2>1
<1>5. care.exact => \A n \in 1..MAXFILESIZE : BlockOf(m, Root, n) # 0 => n <= last + 1
  <2>1. care.exact => \A n \in 1..MAXFILESIZE : BlockOf(m, Root, n) # 0 => n <= last
    BY <1>0, FilePlaces DEF MemoryInv, WithinSize
  <2> QED BY <1>3, <2>1, IndexBounds
<1> HIDE DEF t, w
<1>6. /\ file \in FitFile /\ file.name = "/" /\ file.size = last + 1 /\ SamePointers(m, Root, file)
  BY <1>1, <1>3, <1>4, NewSizeFits DEF SamePointers
<1> HIDE DEF file
<1>7. EntrySet(m, w, Root, file, care)
  <2>1. NameFits(m, Root, file.name)
    BY <1>1, <1>6 DEF NameFits
  <2> QED BY <1>0, <1>3, <1>5, <1>6, <2>1, EntryInv, DirRead DEF w
<1>7a. care.exact => NamesLive(m) /\ Spares(m, w, care)
  <2>1. care.exact => care.kept \subseteq Name /\ FileAt(m, Root).name \notin care.kept
    BY <1>0, RootMayChange DEF RequestInv, Pending, Safe, MayChange
  <2> QED BY <1>0, <1>1, <1>3, <1>6, <1>7, <2>1, DirRead, EntrySpares DEF MemoryInv
<1> HIDE DEF m, last
<1>8. w \in Memory /\ MemoryInv(w, 0, care) /\ FileAt(w, Root) = file /\ Under(s.disk, w, 0)
  BY <1>7 DEF EntrySet, RequestInv, Pending, m
<1>9. /\ t \in Requests /\ t.mem = w /\ t.disk = s.disk /\ t.stops = s.stops
      /\ t.failed = s.failed /\ t.blk = s.blk /\ t.file = s.file /\ t.haunted = FALSE
  BY <1>0, <1>2, <1>8, SetMemory
<1>9a. Safe(t, care)
  BY <1>0, <1>7a, <1>8, <1>9, SafeMemory DEF RequestInv, Pending, Requests, m
<1>10. RequestInv(t, care)
  BY <1>8, <1>9, <1>9a, Unhaunted DEF RequestInv, Pending
<1>10a. SameNames(m, w, care)
  BY <1>1, <1>6, <1>7, <1>8 DEF EntrySet, SameFile, SameNames, m
<1>11. DirKept(m, w)
  <2>1. last <= FileAt(w, Root).size
    BY <1>3, <1>6, <1>8
  <2>2. \A i \in 1..MAXFILESIZE : BlockOf(w, Root, i) = BlockOf(m, Root, i)
    BY <1>7, FilePlaces, IndexBounds DEF EntrySet
  <2> QED BY <2>1, <2>2 DEF DirKept, last
<1> QED BY <1>6, <1>8, <1>9, <1>10, <1>10a, <1>11 DEF t, m, last

LEMMA DirAllocFileInv ==
    ASSUME NEW s, NEW care, RequestInv(s, care), s.failed = FALSE, s.file = NoFile
    PROVE  LET d == DirAllocFile(s) IN
           /\ RequestInv(d, care) /\ DirKept(s.mem, d.mem) /\ SameNames(s.mem, d.mem, care)
           /\ d.failed \/ (d.failed = FALSE /\ d.file \in AllFiles(d.mem)
                           /\ (care.exact => FileAt(d.mem, d.file).name = Unnamed))
<1> DEFINE l == DirLookup(s, Unnamed)
           u == Grown(l)
           n == FileAt(l.mem, Root).size + 1
           g == FileGetBlock(u, Root, n)
           d == DirAllocFile(s)
<1>0. Scanned(s, l, Unnamed, FileAt(s.mem, Root).size, care) /\ s.mem \in Memory
  BY DirLookupInv DEF RequestInv, Pending, Requests
<1>a. d = IF l.failed \/ l.file # NoFile THEN l
          ELSE IF g.failed THEN g
          ELSE [g EXCEPT !.file = <<g.blk, 1>>]
  BY DEF DirAllocFile
<1> HIDE DEF l, d
<1>1. /\ RequestInv(l, care) /\ l \in Requests /\ l.mem \in Memory
      /\ l.failed \in BOOLEAN
  BY <1>0 DEF Scanned, RequestInv, Pending, Requests
<1>2. DirKept(s.mem, l.mem)
  BY <1>0, <1>1, DirRead, CalmDir DEF Scanned
<1>2a. SameNames(s.mem, l.mem, care)
  BY <1>0, <1>1, CalmNames, DirRead DEF Scanned, RequestInv, Pending
<1>3. CASE l.failed \/ l.file # NoFile
  <2>1. d = l
    BY <1>3, <1>a
  <2>2. ~l.failed => /\ l.failed = FALSE /\ l.file \in AllFiles(l.mem)
                     /\ FileAt(l.mem, l.file).name = Unnamed
    BY <1>0, <1>1, <1>3 DEF Scanned
  <2> QED BY <1>1, <1>2, <1>2a, <2>1, <2>2 DEF d
<1>4. CASE l.failed = FALSE /\ l.file = NoFile
  <2>1. /\ RequestInv(u, care) /\ DirKept(l.mem, u.mem) /\ SameNames(l.mem, u.mem, care)
        /\ FileAt(u.mem, Root).size = n
        /\ u.failed = FALSE /\ u.file = NoFile
    BY <1>1, <1>4, GrownInv
  <2>2. u.mem \in Memory /\ Root \in Live(u.mem) /\ FileAt(u.mem, Root).name # Unnamed
    BY <2>1, DirRead, RootNamed DEF RequestInv, Pending, Requests
  <2>3. n \in Nat \ {0} /\ n <= n
    BY <1>1, RootNamed
  <2> HIDE DEF u
  <2>4. /\ Gotten(u, g, Root, care)
        /\ ~g.failed => g.failed = FALSE /\ n \in 1..MAXFILESIZE /\ g.blk # 0 /\ g.blk = BlockOf(g.mem, Root, n)
    <3>1. MayChange(u.mem, Root, care)
      BY <2>1, <2>2, RootMayChange DEF RequestInv, Pending
    <3> QED BY <2>1, <2>2, <2>3, <3>1, FileGetBlockInv
  <2> HIDE DEF g
  <2>5. RequestInv(g, care) /\ g \in Requests /\ g.mem \in Memory /\ Calm(u.mem, g.mem, Root)
    BY <2>4 DEF Gotten, RequestInv, Pending, Requests
  <2>6. DirKept(u.mem, g.mem)
    BY <2>2, <2>5, CalmDir
  <2>7. DirKept(l.mem, g.mem)
    BY <1>1, <2>1, <2>2, <2>5, <2>6, DirKeptTwice
  <2>8. DirKept(s.mem, g.mem)
    BY <1>0, <1>1, <1>2, <2>5, <2>7, DirKeptTwice
  <2>8a. SameNames(l.mem, g.mem, care) /\ SameNames(s.mem, g.mem, care)
    <3>1. SameNames(u.mem, g.mem, care)
      BY <2>1, <2>2, <2>5, CalmNames DEF RequestInv, Pending
    <3> QED BY <1>2a, <2>1, <3>1 DEF SameNames
  <2>9. CASE g.failed
    <3>1. d = g
      BY <1>4, <1>a, <2>9
    <3> QED BY <2>5, <2>8, <2>8a, <2>9, <3>1 DEF d
  <2>10. CASE ~g.failed
    <3> DEFINE f == <<g.blk, 1>>
    <3>1. d = [g EXCEPT !.file = f]
      BY <1>4, <1>a, <2>10
    <3>2. n \in 1..MAXFILESIZE /\ g.blk # 0 /\ g.blk = BlockOf(g.mem, Root, n)
      BY <2>4, <2>10
    <3>3. FileAt(g.mem, Root).size = n
      BY <2>1, <2>2, <2>5, CalmLive
    <3>4. g.blk \in DirBlocks(g.mem)
      BY <2>3, <2>5, <3>2, <3>3, DirRead
    <3>5. f \in AllFiles(g.mem) /\ f[1] = g.blk
      <4>1. BLKFILES \in Nat /\ BLKFILES # 0
        BY FsAssumption
      <4>2. 1 \in 1..BLKFILES
        BY <4>1
      <4> QED BY <3>4, <4>2 DEF AllFiles
    <3>6. f \notin AllFiles(l.mem)
      <4>1. SUFFICES ASSUME g.blk \in DirBlocks(l.mem) PROVE FALSE
        BY DEF AllFiles
      <4>2. PICK i \in 1..MAXFILESIZE : i <= FileAt(l.mem, Root).size /\ BlockOf(l.mem, Root, i) = g.blk
        BY <1>1, <4>1, DirRead
      <4>3. BlockOf(g.mem, Root, i) = g.blk
        BY <2>7, <3>2, <4>2 DEF DirKept
      <4>4. i = n
        <5>1. Own(g.mem, MAXFILESIZE)
          BY <2>5 DEF RequestInv, Pending, MemoryInv
        <5>2. i \in 0..MAXFILESIZE /\ n \in 0..MAXFILESIZE
          BY <3>2, <4>2, IndexBounds
        <5> QED BY <3>2, <4>3, <5>1, <5>2, FilePlaces DEF Own
      <4>5. FileAt(l.mem, Root).size \in Nat /\ i \in Nat
        BY <1>1, RootNamed, IndexBounds
      <4> QED BY <4>2, <4>4, <4>5
    <3>8. f \in FilePlace
      BY <2>5, <3>5, DirRead
    <3> HIDE DEF f
    <3>8a. care.exact => FileAt(g.mem, f).name = Unnamed
      <4>1. f \notin Live(l.mem)
        BY <1>1, <2>5, <3>5, <3>6, DirRead DEF Live
      <4>2. care.exact => NamesLive(l.mem)
        BY <1>1 DEF RequestInv, Pending, MemoryInv
      <4> QED BY <2>8a, <3>8, <4>1, <4>2 DEF NamesLive, SameNames
    <3>9. d \in Requests /\ d.mem = g.mem /\ d.disk = g.disk /\ d.stops = g.stops /\ d.file = f
          /\ d.failed = g.failed /\ d.haunted = g.haunted
      BY <2>5, <3>1, <3>8 DEF Requests
    <3>10. g.failed = FALSE
      BY <2>4, <2>10
    <3>11. RequestInv(d, care)
      BY <2>5, <3>9, <3>10, SafeSame, Unhaunted DEF Pending
    <3> QED BY <2>8, <2>8a, <3>5, <3>8a, <3>9, <3>10, <3>11 DEF d
  <2> QED BY <2>9, <2>10
<1> QED BY <1>1, <1>3, <1>4

(* What every request does: it keeps the invariant, and no open file goes  *)
(* out of the directory.                                                   *)
Done(s, t, care) == RequestInv(t, care) /\ AllFiles(s.mem) \subseteq AllFiles(t.mem)

LEMMA DataContentOf ==
    ASSUME NEW name \in Name \cup {Unnamed}
    PROVE  DataOf(name) \in Content /\ DataOf(name).kind # "files"
BY DEF DataOf, Content, DataContent, Zeroes

LEMMA FileWriteInv ==
    ASSUME NEW s, NEW care, RequestInv(s, care), s.failed = FALSE, NEW f \in AllFiles(s.mem),
           FileAt(s.mem, f).name \in Name \cup {Unnamed}, NEW n \in Nat \ {0}, MayChange(s.mem, f, care)
    PROVE  Done(s, FileWrite(s, f, n), care)
<1> DEFINE t == IF n > FileAt(s.mem, f).size THEN FileSetSize(s, f, n) ELSE s
           g == FileGetBlock(t, f, n)
           c == DataOf(FileAt(g.mem, f).name)
           w == [g.mem EXCEPT ![g.blk] = c]
           u == FileWrite(s, f, n)
<1>0. s.mem \in Memory /\ f \in FilePlace
  BY DirRead DEF RequestInv, Pending, Requests
<1>1. u = IF g.failed THEN g ELSE [g EXCEPT !.mem = w]
  BY DEF FileWrite
<1>2. FileAt(s.mem, f).size \in Nat
  BY <1>0, FileRead, FileFields
<1>3. /\ RequestInv(t, care) /\ t.failed = FALSE /\ f \in AllFiles(t.mem)
      /\ AllFiles(t.mem) = AllFiles(s.mem)
      /\ \A x \in AllFiles(s.mem) : FileAt(t.mem, x).name = FileAt(s.mem, x).name
      /\ n <= FileAt(t.mem, f).size
  <2>1. CASE n > FileAt(s.mem, f).size
    <3>1. t = FileSetSize(s, f, n)
      BY <2>1
    <3> HIDE DEF t
    <3>2. /\ RequestInv(t, care) /\ Only(s.mem, t.mem, f) /\ f \in AllFiles(t.mem)
          /\ t.failed = FALSE
          /\ FileAt(t.mem, f).name = FileAt(s.mem, f).name /\ FileAt(t.mem, f).size = n
      <4>1. n \in Nat
        OBVIOUS
      <4>2. Resized(s, FileSetSize(s, f, n), f, n, care)
        BY <4>1, FileSetSizeInv
      <4> QED BY <3>1, <4>2 DEF Resized
    <3>3. t.mem \in Memory
      BY <3>2 DEF RequestInv, Pending, Requests
    <3>4. AllFiles(t.mem) = AllFiles(s.mem)
      BY <1>0, <3>2, <3>3, DirRead DEF Only, Live
    <3>5. \A x \in AllFiles(s.mem) : FileAt(t.mem, x).name = FileAt(s.mem, x).name
      BY <3>2 DEF Only, SameFile, Live
    <3> QED BY <3>2, <3>4, <3>5
  <2>2. CASE ~(n > FileAt(s.mem, f).size)
    <3>1. t = s
      BY <2>2
    <3>2. n <= FileAt(s.mem, f).size
      BY <1>2, <2>2
    <3> HIDE DEF t
    <3> QED BY <3>1, <3>2
  <2> QED BY <2>1, <2>2
<1> HIDE DEF t, u
<1>4. t.mem \in Memory /\ f \in Live(t.mem)
  BY <1>3 DEF RequestInv, Pending, Requests, Live
<1>4a. MayChange(t.mem, f, care)
  BY <1>3 DEF MayChange
<1>5. /\ Gotten(t, g, f, care)
      /\ ~g.failed => g.failed = FALSE /\ n \in 1..MAXFILESIZE /\ g.blk # 0 /\ g.blk = BlockOf(g.mem, f, n)
  BY <1>3, <1>4, <1>4a, FileGetBlockInv
<1> HIDE DEF g
<1>6. RequestInv(g, care) /\ g \in Requests /\ g.mem \in Memory /\ Calm(t.mem, g.mem, f)
  BY <1>5 DEF Gotten, RequestInv, Pending, Requests
<1>7. AllFiles(s.mem) \subseteq AllFiles(g.mem)
  BY <1>3, <1>4, <1>6, CalmLive
<1>8. CASE g.failed
  BY <1>1, <1>6, <1>7, <1>8 DEF Done, u
<1>9. CASE ~g.failed
  <2>0. g.haunted = FALSE /\ Pending(g, 0, care, 0)
    BY <1>5, <1>6, <1>9, Unhaunted
  <2>0a. MemoryInv(g.mem, 0, care) /\ Under(g.disk, g.mem, 0) /\ Sound(g.stops) /\ Safe(g, care) /\ g.disk \in Memory
    BY <1>6, <2>0 DEF Pending, Requests
  <2>1. FileAt(g.mem, f).name \in Name \cup {Unnamed}
    BY <1>3, <1>6 DEF Calm, SameEntry
  <2>2. c \in Content /\ c.kind # "files"
    BY <2>1, DataContentOf
  <2>3. f \in AllFiles(g.mem)
    BY <1>3, <1>4, <1>6, CalmLive
  <2> HIDE DEF c
  <2>4. /\ w \in Memory /\ MemoryInv(w, 0, care)
        /\ AllFiles(w) = AllFiles(g.mem)
        /\ \A x \in Live(g.mem) : SameFile(g.mem, w, x)
        /\ Under(g.disk, w, 0)
        /\ KeepNames(g.mem, w) /\ Elsewhere(g.mem, w, f, 0)
        /\ \A i \in 1..MAXFILESIZE : BlockOf(w, Root, i) = BlockOf(g.mem, Root, i)
    <3> QED BY <1>5, <1>6, <1>9, <2>0a, <2>2, <2>3, DataInv
  <2> HIDE DEF w
  <2>5. u = [g EXCEPT !.mem = w]
    BY <1>1, <1>9
  <2>6. u \in Requests /\ u.mem = w /\ u.disk = g.disk /\ u.stops = g.stops /\ u.haunted = FALSE
    BY <1>6, <2>0, <2>4, <2>5, SetMemory
  <2>6a. care.exact => NamesLive(g.mem) /\ Spares(g.mem, w, care)
    <3>1. care.exact => care.kept \subseteq Name /\ FileAt(g.mem, f).name \notin care.kept /\ NamesLive(g.mem)
      BY <1>4a, <1>6, <2>0a DEF Calm, SameEntry, MayChange, Safe, MemoryInv
    <3>2. f \in Live(g.mem) /\ DirOn(w, g.mem)
      BY <2>3, <2>4 DEF Live, DirOn
    <3>3. FileAt(g.mem, Root).size <= FileAt(w, Root).size
      BY <1>6, <2>4, RootNamed, DirRead DEF SameFile
    <3> QED BY <1>6, <2>0a, <2>4, <3>1, <3>2, <3>3, ElsewhereSpares
  <2>6b. Safe(u, care)
    BY <1>6, <2>0a, <2>4, <2>6, <2>6a, SafeMemory
  <2>7. RequestInv(u, care)
    BY <2>0a, <2>4, <2>6, <2>6b, Unhaunted DEF Pending
  <2>8. AllFiles(s.mem) \subseteq AllFiles(u.mem)
    BY <1>7, <2>4, <2>6
  <2> QED BY <2>7, <2>8 DEF Done, u
<1> QED BY <1>8, <1>9

LEMMA FileCreateInv ==
    ASSUME NEW s, NEW care, RequestInv(s, care), s.failed = FALSE, s.file = NoFile, NEW name \in Name,
           care.at = NoFile, care.exact => name \notin care.kept
    PROVE  /\ Done(s, FileCreate(s, name), care)
           /\ Found(FileCreate(s, name)) \subseteq AllFiles(FileCreate(s, name).mem)
<1> DEFINE l == DirLookup(s, name)
           d == DirAllocFile(l)
           f == d.file
           file == [FileAt(d.mem, f) EXCEPT !.name = name]
           w == WithFile(d.mem, f, file)
           v == [d EXCEPT !.mem = w]
           u == FileCreate(s, name)
<1>0. Scanned(s, l, name, FileAt(s.mem, Root).size, care) /\ s.mem \in Memory
  BY DirLookupInv DEF RequestInv, Pending, Requests
<1>1. u = IF l.failed \/ l.file # NoFile THEN l ELSE IF d.failed THEN d ELSE FileFlush(v, Root)
  BY DEF FileCreate, WithName
<1> HIDE DEF l, u
<1>2. RequestInv(l, care) /\ l.mem \in Memory /\ l.failed \in BOOLEAN
  BY <1>0 DEF Scanned, RequestInv, Pending, Requests
<1>3. DirKept(s.mem, l.mem)
  BY <1>0, <1>2, DirRead, CalmDir DEF Scanned
<1>4. CASE l.failed \/ l.file # NoFile
  <2>1. u = l
    BY <1>1, <1>4
  <2>2. Found(l) \subseteq AllFiles(l.mem)
    BY <1>0 DEF Scanned, Found
  <2>3. Done(s, l, care)
    BY <1>0, <1>2, <1>3, DirKeptGrows DEF Done
  <2> QED BY <2>1, <2>2, <2>3 DEF u
<1>5. CASE l.failed = FALSE /\ l.file = NoFile
  <2>1. /\ RequestInv(d, care) /\ DirKept(l.mem, d.mem) /\ SameNames(l.mem, d.mem, care)
        /\ d.failed \/ (d.failed = FALSE /\ f \in AllFiles(d.mem)
                        /\ (care.exact => FileAt(d.mem, f).name = Unnamed))
    BY <1>2, <1>5, DirAllocFileInv
  <2> HIDE DEF d
  <2>2. d \in Requests /\ d.mem \in Memory
    BY <2>1 DEF RequestInv, Pending, Requests
  <2>3. DirKept(s.mem, d.mem)
    BY <1>0, <1>2, <1>3, <2>1, <2>2, DirKeptTwice
  <2>4. CASE d.failed
    <3>1. u = d
      BY <1>1, <1>5, <2>4
    <3>2. Found(d) = {}
      BY <2>4 DEF Found
    <3>3. Done(s, d, care)
      BY <1>0, <2>1, <2>2, <2>3, DirKeptGrows DEF Done
    <3> QED BY <3>1, <3>2, <3>3 DEF u
  <2>5. CASE ~d.failed
    <3>1. /\ d.failed = FALSE /\ f \in AllFiles(d.mem)
          /\ care.exact => FileAt(d.mem, f).name = Unnamed
      BY <2>1, <2>5
    <3>a. d.haunted = FALSE /\ Pending(d, 0, care, 0)
      BY <2>1, <3>1, Unhaunted
    <3>b. MemoryInv(d.mem, 0, care) /\ Under(d.disk, d.mem, 0) /\ Safe(d, care) /\ d.disk \in Memory
      BY <2>2, <3>a DEF Pending, Requests
    <3> HIDE DEF f
    <3> DEFINE loose == Loose(care, f, FALSE)
               r == FileFlush(v, Root)
    <3>1a. Pending(d, 0, loose, 0)
      BY <3>a, Loosened
    <3>1b. loose.exact = care.exact /\ loose.kept = care.kept /\ loose.at = f /\ loose.dir = FALSE
      BY DEF Loose
    <3> HIDE DEF loose
    <3>2. f \in FilePlace /\ f \in Live(d.mem) /\ f # Root /\ f[1] \in AnyBlock
      BY <2>2, <3>1, DirRead, FilePlaces DEF Live
    <3>3. FileAt(d.mem, f) \in FitFile
      BY <2>2, <3>2, FileRead
    <3>4. /\ file \in FitFile /\ SamePointers(d.mem, f, file) /\ file.size = FileAt(d.mem, f).size
          /\ file.name = name
      BY <3>3, NewNameFits DEF SamePointers
    <3>5. loose.exact => \A n \in 1..MAXFILESIZE : BlockOf(d.mem, f, n) # 0 => n <= file.size
      BY <3>1b, <3>2, <3>4, <3>b DEF MemoryInv, WithinSize
    <3>6. ~(f = Root) /\ ~(file.name = "/")
      BY <3>2, <3>4, FsAssumption
    <3>6a. care.exact => NameFits(d.mem, f, name)
      <4>1. name # "/" /\ name # Unnamed
        BY FsAssumption DEF Unnamed
      <4>2. care.exact => \A g \in FilePlace : FileAt(l.mem, g).name # name
        BY <1>0, <1>5, <4>1, NotFound
      <4> QED BY <2>1, <4>2 DEF SameNames, NameFits
    <3> HIDE DEF file, w
    <3>7. MemoryInv(d.mem, 0, loose) /\ EntrySet(d.mem, w, f, file, loose)
      <4>1. MemoryInv(d.mem, 0, loose)
        BY <3>1a DEF Pending
      <4>2. loose.exact => NameFits(d.mem, f, file.name)
        BY <3>1b, <3>4, <3>6a
      <4> QED BY <2>2, <3>2, <3>4, <3>5, <3>6, <4>1, <4>2, EntryInv DEF w
    <3>8. w \in Memory /\ MemoryInv(w, 0, loose) /\ FileAt(w, f) = file /\ Under(d.disk, w, 0) /\ Only(d.mem, w, f)
      BY <2>2, <3>2, <3>7, <3>b DEF EntrySet
    <3> HIDE DEF v
    <3>9. /\ v \in Requests /\ v.mem = w /\ v.disk = d.disk /\ v.stops = d.stops
          /\ v.haunted = FALSE /\ v.file = d.file
      BY <2>2, <3>8, <3>a, SetMemory DEF v
    <3>9a. care.exact => NamesLive(d.mem) /\ Spares(d.mem, w, loose)
      <4>1. care.exact => /\ care.kept \subseteq Name /\ Unnamed \notin care.kept /\ name \notin care.kept
                          /\ FileAt(d.mem, f).name = Unnamed /\ NamesLive(d.mem)
        BY <3>1, <3>b, FsAssumption DEF Safe, MemoryInv, Unnamed
      <4> QED BY <2>2, <3>1b, <3>2, <3>4, <3>7, <4>1, EntrySpares
    <3>9b. Safe(v, loose)
      <4>1. Safe(d, loose)
        BY <3>1a DEF Pending
      <4> QED BY <2>2, <3>1b, <3>8, <3>9, <3>9a, <3>b, <4>1, SafeMemory
    <3>10. RequestInv(v, loose)
      <4>1. Pending(v, 0, loose, 0)
        BY <3>1a, <3>8, <3>9, <3>9b DEF Pending
      <4> QED BY <3>9, <4>1, Unhaunted
    <3>10a. RequestInv(r, loose) /\ SameResult(v, r)
      BY <3>1b, <3>10, FileFlushInv, FilePlaces
    <3>11. r.mem = w /\ r \in Requests /\ r.haunted = FALSE /\ r.file = d.file /\ Pending(r, 0, loose, 0)
      <4>1. r.mem = w /\ r.haunted = FALSE /\ r.file = d.file
        BY <3>9, <3>10a DEF SameResult
      <4>2. Pending(r, 0, loose, 0)
        BY <3>10a, <4>1 DEF RequestInv, Held
      <4> QED BY <4>1, <4>2 DEF Pending
    <3>11a. Clean(r, Super) /\ Clean(r, f[1])
            /\ (FileAt(w, Root).indirect # 0 => Clean(r, FileAt(w, Root).indirect))
      <4>1. \A c \in AnyBlock :
                c = Root[1] \/ c = FileAt(w, Root).indirect \/ (\E n \in 1..FileAt(w, Root).size : BlockOf(w, Root, n) = c)
                    => Clean(r, c)
        BY <3>1b, <3>9, <3>10, FileFlushClean, FilePlaces
      <4>2. Clean(r, Super)
        BY <4>1, FilePlaces, Constants
      <4>3. \E n \in 1..FileAt(w, Root).size : BlockOf(w, Root, n) = f[1]
        <5>1. f[1] \in DirBlocks(w)
          BY <3>1, <3>2, <3>8, DirRead DEF Only, Live
        <5>2. PICK i \in 1..MAXFILESIZE : i <= FileAt(w, Root).size /\ BlockOf(w, Root, i) = f[1]
          BY <3>8, <5>1, DirRead
        <5>3. i \in Nat /\ i # 0 /\ FileAt(w, Root).size \in Nat
          BY <3>8, <5>2, RootNamed, IndexBounds
        <5>4. i \in 1..FileAt(w, Root).size
          BY <5>2, <5>3
        <5> QED BY <5>2, <5>4
      <4>4. Clean(r, f[1])
        BY <3>2, <4>1, <4>3
      <4>5. FileAt(w, Root).indirect # 0 => FileAt(w, Root).indirect \in AnyBlock
        BY <3>8, IndirectRead, FilePlaces, Constants
      <4> QED BY <4>1, <4>2, <4>4, <4>5
    <3> HIDE DEF r
    <3>11b. RequestInv(r, care)
      <4>1. DirOn(r.mem, r.disk)
        BY <3>11, <3>11a, DirClean
      <4>2. care.exact => NamesOn(r.mem, r.disk, care)
        BY <3>1b, <3>2, <3>11, <3>11a, NameClean DEF Pending, Safe, OnDisk, loose
      <4>3. Pending(r, 0, care, 0)
        BY <3>11, <4>1, <4>2, Tightened DEF loose
      <4> QED BY <3>11, <4>3, Unhaunted
    <3>12. AllFiles(w) = AllFiles(d.mem) /\ AllFiles(s.mem) \subseteq AllFiles(w)
      <4>1. AllFiles(w) = AllFiles(d.mem)
        BY <2>2, <3>8, DirRead DEF Only, Live
      <4>2. AllFiles(s.mem) \subseteq AllFiles(d.mem)
        BY <1>0, <2>2, <2>3, DirKeptGrows
      <4> QED BY <4>1, <4>2
    <3>13. Done(s, r, care)
      BY <3>11, <3>11b, <3>12 DEF Done
    <3>14. Found(r) \subseteq AllFiles(r.mem)
      <4>1. r.file \in AllFiles(r.mem)
        BY <3>1, <3>11, <3>12 DEF f
      <4> QED BY <4>1 DEF Found
    <3>15. u = r
      BY <1>1, <1>5, <2>5 DEF r
    <3> QED BY <3>13, <3>14, <3>15 DEF u
  <2> QED BY <2>4, <2>5
<1> QED BY <1>2, <1>4, <1>5

LEMMA FileRemoveInv ==
    ASSUME NEW s, NEW care, RequestInv(s, care), s.failed = FALSE, s.file = NoFile, NEW name \in Name,
           care.at = NoFile, care.exact => name \notin care.kept
    PROVE  Done(s, FileRemove(s, name), care)
<1> DEFINE l == DirLookup(s, name)
           f == l.file
           v == Truncated(l.mem, f, 0)
           t == [l EXCEPT !.mem = v]
           file == Removed(FileAt(v, f))
           w == WithFile(v, f, file)
           e == [t EXCEPT !.mem = w]
           u == FileRemove(s, name)
<1>0. Scanned(s, l, name, FileAt(s.mem, Root).size, care) /\ s.mem \in Memory
  BY DirLookupInv DEF RequestInv, Pending, Requests
<1>1. u = IF l.failed \/ l.file = NoFile THEN l ELSE RemoveEntry(FileTruncateBlocks(l, f, 0), f)
  BY DEF FileRemove
<1>a. FileTruncateBlocks(l, f, 0) = t
  BY DEF FileTruncateBlocks
<1> HIDE DEF l, u
<1>2. RequestInv(l, care) /\ l \in Requests /\ l.mem \in Memory /\ l.failed \in BOOLEAN
  BY <1>0 DEF Scanned, RequestInv, Pending, Requests
<1>3. DirKept(s.mem, l.mem)
  BY <1>0, <1>2, DirRead, CalmDir DEF Scanned
<1>3a. AllFiles(s.mem) \subseteq AllFiles(l.mem)
  BY <1>0, <1>2, <1>3, DirKeptGrows
<1>4. CASE l.failed \/ l.file = NoFile
  BY <1>1, <1>2, <1>3a, <1>4 DEF Done, u
<1>5. CASE ~(l.failed \/ l.file = NoFile)
  <2>1. f \in AllFiles(l.mem) /\ FileAt(l.mem, f).name = name
    BY <1>0, <1>5 DEF Scanned
  <2>a. l.haunted = FALSE /\ Pending(l, 0, care, 0)
    <3>1. l.failed = FALSE
      BY <1>2, <1>5
    <3> QED BY <1>2, <3>1, Unhaunted
  <2>b. /\ MemoryInv(l.mem, 0, care) /\ Under(l.disk, l.mem, 0) /\ Safe(l, care)
        /\ l.disk \in Memory /\ Sound(l.stops)
    BY <1>2, <2>a DEF Pending, Requests
  <2> HIDE DEF f
  <2>2. f \in FilePlace /\ f \in Live(l.mem) /\ f # Root
    BY <1>2, <2>1, DirRead DEF Live
  <2> DEFINE loose == Loose(care, f, care.dir)
  <2>2a. Pending(l, 0, loose, 0) /\ MemoryInv(l.mem, 0, loose) /\ Safe(l, loose)
    BY <2>a, Loosened DEF Pending
  <2>2b. loose.exact = care.exact /\ loose.kept = care.kept /\ loose.at = f /\ loose.dir = care.dir
    BY DEF Loose
  <2>2c. care.exact => care.kept \subseteq Name /\ Unnamed \notin care.kept /\ NamesLive(l.mem)
    BY <2>b, FsAssumption DEF Safe, MemoryInv, Unnamed
  <2> HIDE DEF loose
  <2>3. 0 \in Nat /\ 0 <= FileAt(l.mem, f).size
    BY <1>2, <2>2, FileRead, FileFields
  <2>4. Cutted(l.mem, v, f, 0)
    BY <1>2, <2>2, <2>3, <2>b, TruncatedCut
  <2> HIDE DEF v
  <2>5. /\ v \in Memory /\ MemoryInv(v, 0, loose) /\ Only(l.mem, v, f) /\ f \in AllFiles(v)
        /\ \A x : Under(x, l.mem, 0) => Under(x, v, f[1])
        /\ FileAt(v, f).name = name
    BY <1>2, <2>1, <2>2a, <2>3, <2>4, CuttedInv DEF Cutted
  <2>5a. care.exact => Spares(l.mem, v, loose)
    BY <1>2, <2>1, <2>2a, <2>2b, <2>2c, <2>3, <2>4, CuttedSpares
  <2>6. /\ care.exact => \A n \in 1..MAXFILESIZE : BlockOf(v, f, n) # 0 => n <= 0
        /\ FileAt(v, f).indirect = 0 /\ \A n \in 1..NDIRECT : FileAt(v, f).direct[n] = 0
    <3> DEFINE size == 0
    <3>1. size \in Nat /\ Cutted(l.mem, v, f, size)
      BY <2>3, <2>4
    <3>2. size = 0
      OBVIOUS
    <3> HIDE DEF size
    <3>3. /\ care.exact => \A n \in 1..MAXFILESIZE : BlockOf(v, f, n) # 0 => n <= size
          /\ size = 0 => FileAt(v, f).indirect = 0 /\ \A n \in 1..NDIRECT : FileAt(v, f).direct[n] = 0
      BY <1>2, <2>1, <2>b, <3>1, CuttedWithin
    <3> QED BY <3>2, <3>3
  <2>7. f \in Live(v) /\ FileAt(v, f) \in FitFile
    BY <2>2, <2>5, FileRead DEF Live
  <2>8. file \in FitFile /\ Empty(file) /\ SamePointers(v, f, file) /\ file.name = Unnamed
    BY <2>6, <2>7, RemovedFits DEF SamePointers
  <2>9. file.size = 0
    <3>1. FileAt(v, f) \in FileRec
      BY <2>7 DEF FitFile
    <3> QED BY <3>1 DEF Removed, FileRec
  <2> HIDE DEF file, w
  <2>10. EntrySet(v, w, f, file, loose)
    <3>1. NameFits(v, f, file.name)
      BY <2>8 DEF NameFits
    <3>2. ~(f = Root) /\ ~(file.name = "/")
      BY <2>2, <2>8 DEF Unnamed
    <3> QED BY <2>2b, <2>5, <2>6, <2>7, <2>8, <2>9, <3>1, <3>2, EntryInv DEF w
  <2>10a. care.exact => NamesLive(v) /\ Spares(v, w, loose)
    BY <2>2, <2>2b, <2>2c, <2>5, <2>7, <2>8, <2>10, EntrySpares DEF MemoryInv
  <2>11. w \in Memory /\ MemoryInv(w, 0, loose) /\ FileAt(w, f) = file /\ Only(v, w, f) /\ Under(l.disk, w, f[1])
    <3>1. Under(l.disk, v, f[1])
      BY <2>b, <2>5
    <3> QED BY <2>2, <2>10, <3>1 DEF EntrySet
  <2>12. t \in Requests /\ t.mem = v /\ t.disk = l.disk /\ t.stops = l.stops /\ t.haunted = FALSE
    BY <1>2, <2>5, <2>a, SetMemory
  <2> HIDE DEF t
  <2>13. e \in Requests /\ e.mem = w /\ e.disk = l.disk /\ e.stops = l.stops /\ e.haunted = FALSE
    BY <2>11, <2>12, SetMemory
  <2>14. u = Flush(e, f[1])
    BY <1>1, <1>5, <1>a, <2>12 DEF RemoveEntry, w, file
  <2> HIDE DEF e
  <2>14a. Safe(e, loose)
    <3>1. Safe(t, loose)
      BY <1>2, <2>2a, <2>2b, <2>2c, <2>5, <2>5a, <2>12, <2>b, SafeMemory
    <3> QED BY <2>2b, <2>5, <2>10a, <2>11, <2>12, <2>13, <2>b, <3>1, SafeMemory
  <2>15. Pending(e, 0, loose, f[1])
    BY <2>11, <2>13, <2>14a, <2>b DEF Pending
  <2>16. Pending(u, 0, loose, 0) /\ SameResult(e, u)
    <3>1. f[1] # Super
      BY <2>2, FilePlaces
    <3> QED BY <2>14, <2>15, <3>1, FlushInv
  <2>16a. Pending(u, 0, care, 0)
    <3>1. f[1] \in AnyBlock
      BY <2>2, FilePlaces
    <3>2. Clean(u, f[1])
      BY <2>13, <2>14, <3>1, FlushClean
    <3>3. care.exact => NamesOn(u.mem, u.disk, care)
      BY <2>2, <2>2b, <2>16, <3>2, NameClean DEF Pending, Safe, OnDisk, loose
    <3>4. care.exact => (care.dir => DirOn(u.mem, u.disk))
      BY <2>2b, <2>16 DEF Pending, Safe, OnDisk
    <3> QED BY <2>16, <3>3, <3>4, Tightened DEF loose
  <2>17. RequestInv(u, care) /\ u.mem = w
    <3>1. u.mem = w /\ u.haunted = FALSE
      BY <2>13, <2>16 DEF SameResult
    <3> QED BY <2>16a, <3>1, Unhaunted
  <2>18. AllFiles(s.mem) \subseteq AllFiles(w)
    <3>1. AllFiles(w) = AllFiles(v) /\ AllFiles(v) = AllFiles(l.mem)
      BY <1>2, <2>5, <2>11, DirRead DEF Only, Live
    <3> QED BY <1>3a, <3>1
  <2> QED BY <2>17, <2>18 DEF Done, u
<1> QED BY <1>4, <1>5

-----------------------------------------------------------------------------
(* The state machine.                                                      *)

(* Until the server is started again what was flushed is on the disk.      *)
Care(touched) ==
    [exact |-> state = "formatted", kept |-> {n \in Name \ touched : saved[n] # {}}, saved |-> saved,
     at |-> NoFile, dir |-> TRUE]

FsInv ==
    /\ mem \in Memory /\ disk \in Memory
    /\ state \in {"formatted", "restarted", "broken", "haunted"}
    /\ restarts \in Nat
    /\ state = "formatted" => restarts = 0
    /\ state \in {"restarted", "broken"} => restarts # 0
    /\ Own(disk, NDIRECT)
    /\ Going => RequestInv(S, Care({})) /\ open \subseteq AllFiles(mem)

LEMMA CareFields ==
    ASSUME NEW touched
    PROVE  /\ Care(touched).exact = (state = "formatted")
           /\ Care(touched).kept = {n \in Name \ touched : saved[n] # {}}
           /\ Care(touched).saved = saved /\ Care(touched).at = NoFile /\ Care(touched).dir
BY DEF Care

LEMMA FirstRequest ==
    ASSUME mem \in Memory, disk \in Memory
    PROVE  /\ S \in Requests /\ S.mem = mem /\ S.disk = disk /\ S.stops = {} /\ S.file = NoFile
           /\ S.failed = FALSE /\ S.haunted = FALSE
BY DEF S, Requests, BlockNo

LEMMA FormattedInv ==
    ASSUME FsInit
    PROVE  FsInv
<1> DEFINE top == [Unused EXCEPT !.name = "/"]
<1>1. top \in FitFile /\ top.name = "/" /\ Empty(top)
  BY UnusedFits DEF Unused, FitFile, FileRec, Empty, Unnamed
<1> HIDE DEF top
<1>2. disk = [b \in AnyBlock |->
                 IF b = Super THEN [kind |-> "files", files |-> <<top>>]
                 ELSE IF b = Bitmap THEN [kind |-> "bits", free |-> DataBlock] ELSE Zeroes]
  BY DEF FsInit, AnyBlock, top
<1>3. <<top>> \in [1..1 -> {file \in FitFile : file.name = "/"}] /\ <<top>>[1] = top
  BY <1>1
<1>4. [kind |-> "files", files |-> <<top>>] \in SuperContent
  BY <1>3 DEF SuperContent
<1>5. [kind |-> "bits", free |-> DataBlock] \in BitmapContent
  BY DEF BitmapContent
<1>6. Zeroes \in Content
  BY DEF Content
<1>7. /\ disk \in [AnyBlock -> Content \cup SuperContent \cup BitmapContent]
      /\ disk[Super] = [kind |-> "files", files |-> <<top>>]
      /\ disk[Bitmap] = [kind |-> "bits", free |-> DataBlock]
      /\ \A b \in DataBlock : disk[b] = Zeroes
  <2>1. disk \in [AnyBlock -> Content \cup SuperContent \cup BitmapContent]
    BY <1>2, <1>4, <1>5, <1>6
  <2> QED BY <1>2, <2>1, Constants
<1>8. disk \in Memory
  BY <1>4, <1>5, <1>6, <1>7 DEF Memory
<1>9. ASSUME NEW f \in FilePlace PROVE Empty(FileAt(disk, f))
  <2>1. CASE f = Root
    BY <1>1, <1>3, <1>7, <2>1, FilePlaces DEF FileAt, Files
  <2>2. CASE f # Root
    <3>1. disk[f[1]] = Zeroes /\ f[2] \in 1..BLKFILES
      BY <1>7, <2>2, FilePlaces
    <3>2. Zeroes.kind # "files"
      BY DEF Zeroes
    <3> QED BY <1>6, <3>1, <3>2, FilesRead DEF FileAt
  <2> QED BY <2>1, <2>2
<1>10. \A f \in FilePlace, n \in Nat : BlockOf(disk, f, n) = 0
  BY <1>8, <1>9, BlockRead
<1>11. \A f \in FilePlace, n \in 0..MAXFILESIZE : BlockOf(disk, f, n) = 0
  BY <1>10, IndexBounds
<1>12. \A f \in FilePlace, n \in 0..NDIRECT : BlockOf(disk, f, n) = 0
  BY <1>11, IndexBounds
<1>13. FreeBlocks(disk) = DataBlock
  BY <1>7 DEF FreeBlocks
<1>14. Own(disk, MAXFILESIZE) /\ Own(disk, NDIRECT) /\ Under(disk, disk, 0)
  BY <1>11, <1>12 DEF Own, Under, LedTo
<1>15. WithinSize(disk) /\ NoneLost(disk, 0) /\ InHand(disk, 0)
  BY <1>11, <1>13, IndexBounds DEF WithinSize, NoneLost, InHand
<1>16. IndirectOnly(disk) /\ DirOnly(disk)
  BY <1>9 DEF IndirectOnly, DirOnly, Empty
<1>16a. ASSUME NEW f \in FilePlace, f # Root PROVE FileAt(disk, f).name = Unnamed
  <2>1. disk[f[1]] = Zeroes /\ f[2] \in 1..BLKFILES
    BY <1>7, <1>16a, FilePlaces
  <2>2. Zeroes.kind # "files"
    BY DEF Zeroes
  <2> QED BY <1>6, <2>1, <2>2, FilesRead DEF FileAt
<1>16b. NamesLive(disk) /\ Unique(disk)
  BY <1>8, <1>16a, DirRead DEF NamesLive, Unique
<1>17. mem = disk /\ state = "formatted" /\ restarts = 0 /\ open = {} /\ \A n \in Name : saved[n] = {}
  BY DEF FsInit
<1>18. /\ S \in Requests /\ S.mem = disk /\ S.disk = disk /\ S.stops = {} /\ S.haunted = FALSE
  BY <1>8, <1>17, FirstRequest
<1>19. Care({}).kept = {}
  BY <1>17 DEF Care
<1>20. Safe(S, Care({}))
  <2>1. NamesOn(disk, disk, Care({})) /\ DirOn(disk, disk)
    BY DEF NamesOn, DirOn
  <2> QED BY <1>18, <1>19, <2>1 DEF Safe, OnDisk, Holds
<1>21. MemoryInv(disk, 0, Care({}))
  BY <1>14, <1>15, <1>16, <1>16b DEF MemoryInv
<1>22. RequestInv(S, Care({}))
  <2>1. Pending(S, 0, Care({}), 0)
    BY <1>14, <1>18, <1>20, <1>21 DEF Pending, Sound
  <2> QED BY <1>18, <2>1, Unhaunted
<1> QED BY <1>8, <1>14, <1>17, <1>22 DEF FsInv

(* A server that was started on a disk without indirect blocks of two files*)
(* has what it needs, though blocks may be lost.                           *)
LEMMA WholeStarted ==
    ASSUME NEW m \in Memory, Whole(m), NEW care, ~care.exact
    PROVE  MemoryInv(m, 0, care) /\ Under(m, m, 0)
<1>1. DirOnly(m)
  <2> SUFFICES ASSUME NEW f \in FilePlace, f \notin Live(m) PROVE Empty(FileAt(m, f))
    BY DEF DirOnly
  <2>1. f # Root /\ f[1] \notin DirBlocks(m)
    BY DirRead DEF Live
  <2>2. f[1] \in DataBlock /\ f[2] \in 1..BLKFILES /\ f = <<f[1], f[2]>>
    BY <2>1, FilePlaces
  <2> QED BY <2>1, <2>2 DEF Whole
<1>2. Own(m, MAXFILESIZE)
  <2> SUFFICES ASSUME NEW f \in FilePlace, NEW g \in FilePlace,
                      NEW n \in 0..MAXFILESIZE, NEW k \in 0..MAXFILESIZE, BlockOf(m, f, n) # 0
               PROVE  /\ BlockOf(m, f, n) \in DataBlock \ FreeBlocks(m)
                      /\ BlockOf(m, f, n) = BlockOf(m, g, k) => f = g /\ n = k
    BY DEF Own
  <2>1. f \in Live(m)
    BY <1>1, BlockRead, IndexBounds DEF DirOnly
  <2>2. BlockOf(m, g, k) # 0 => g \in Live(m)
    BY <1>1, BlockRead, IndexBounds DEF DirOnly
  <2>3. \A x, y \in Live(m) :
           /\ BlockOf(m, x, n) # 0 => BlockOf(m, x, n) \in DataBlock \ FreeBlocks(m)
           /\ BlockOf(m, x, n) # 0 => (BlockOf(m, x, n) = BlockOf(m, y, k) => x = y /\ n = k)
    BY DEF Whole, OwnBlocks, Live
  <2> QED BY <2>1, <2>2, <2>3
<1>3. IndirectOnly(m)
  <2> SUFFICES ASSUME NEW f \in FilePlace, FileAt(m, f).indirect # 0
               PROVE  m[FileAt(m, f).indirect].kind # "files"
    BY DEF IndirectOnly
  <2>1. f \in Live(m)
    BY <1>1 DEF DirOnly, Empty
  <2> QED BY <2>1 DEF Whole, Live
<1>4. InHand(m, 0) /\ Under(m, m, 0)
  BY DEF InHand, Under, LedTo
<1> QED BY <1>1, <1>2, <1>3, <1>4 DEF MemoryInv

(* What was flushed in the server's first life is there when it is started *)
(* again.                                                                  *)
Survives == restarts = 0 => FlushedSurvives'

LEMMA StopInv ==
    ASSUME restarts \in Nat, state = "formatted" => restarts = 0,
           restarts = 0 => state \in {"formatted", "haunted"}, Going,
           NEW d \in Memory, Own(d, NDIRECT), NEW touched, StopAfter(d, touched),
           state = "formatted" => Holds(d, Care(touched))
    PROVE  FsInv' /\ restarts' # restarts /\ Survives
<1>1. /\ mem' = d /\ disk' = d /\ restarts' = restarts + 1 /\ open' = {}
      /\ state' = IF Haunted(d) THEN "haunted" ELSE IF Whole(d) THEN "restarted" ELSE "broken"
  BY DEF StopAfter
<1>2. restarts' \in Nat /\ restarts' # restarts /\ restarts' # 0
  BY <1>1
<1>3. state' # "formatted" /\ state' \in {"formatted", "restarted", "broken", "haunted"}
  BY <1>1
<1>4. ASSUME Going' PROVE RequestInv(S, Care({}))' /\ (open \subseteq AllFiles(mem))'
  <2> DEFINE care == Care({})'
             s == S'
  <2>1. ~care.exact
    BY <1>3 DEF Care
  <2>2. s \in Requests /\ s.mem = d /\ s.disk = d /\ s.stops = {} /\ s.haunted = FALSE
    BY <1>1 DEF S, Requests, BlockNo
  <2> HIDE DEF care, s
  <2>3. MemoryInv(d, 0, care) /\ Under(d, d, 0)
    <3>1. Whole(d)
      BY <1>1, <1>4 DEF Going
    <3> QED BY <2>1, <3>1, WholeStarted
  <2>4. RequestInv(s, care)
    <3>1. Pending(s, 0, care, 0)
      BY <2>1, <2>2, <2>3 DEF Pending, Sound, Safe
    <3> QED BY <2>2, <3>1, Unhaunted
  <2> QED BY <1>1, <2>4 DEF s, care
<1>4a. restarts = 0 => state = "formatted"
  BY DEF Going
<1>5. ASSUME restarts = 0, NEW n \in Name, saved'[n] # {} PROVE Contents(d, n) = saved'[n]
  <2>1. saved' = [x \in Name |-> IF x \in touched THEN {} ELSE saved[x]]
    BY DEF StopAfter
  <2>2. n \notin touched /\ saved'[n] = saved[n]
    BY <1>5, <2>1
  <2>3. n \in Care(touched).kept /\ Care(touched).saved = saved
    BY <1>5, <2>2, CareFields
  <2> QED BY <1>4a, <1>5, <2>2, <2>3 DEF Holds
<1>6. Survives
  BY <1>1, <1>5 DEF Survives, FlushedSurvives
<1>7. FsInv'
  BY <1>1, <1>2, <1>3, <1>4 DEF FsInv
<1> QED BY <1>2, <1>6, <1>7

LEMMA SurvivesNow ==
    ASSUME FsInv, state = "formatted"
    PROVE  Holds(disk, Care({})) /\ FlushedSurvives
<1>1. RequestInv(S, Care({})) /\ S.mem = mem /\ S.disk = disk /\ S.failed = FALSE
      /\ mem \in Memory /\ disk \in Memory
  BY FirstRequest DEF FsInv, Going
<1>2. Care({}).exact /\ Care({}).saved = saved /\ \A n \in Name : saved[n] # {} => n \in Care({}).kept
  <2>1. Care({}).exact
    BY <1>1 DEF Care
  <2>2. Care({}).kept = {n \in Name \ {} : saved[n] # {}} /\ Care({}).saved = saved
    BY CareFields
  <2> QED BY <2>1, <2>2
<1>3. /\ Care({}).kept \subseteq Name /\ OnDisk(mem, disk, Care({})) /\ Holds(mem, Care({})) /\ NamesLive(mem)
  <2>1. Pending(S, 0, Care({}), 0)
    BY <1>1, Unhaunted
  <2> QED BY <1>1, <1>2, <2>1 DEF Pending, Safe, MemoryInv
<1>4. Holds(disk, Care({}))
  BY <1>1, <1>3, HeldContents
<1>5. FlushedSurvives
  BY <1>2, <1>4 DEF FlushedSurvives, Holds
<1> QED BY <1>4, <1>5

(* What a file that was flushed may be said to have on the disk.           *)
Flushed(s, n) ==
    Named(s.disk, n) = Named(mem, n) => s.mem = mem /\ Agree(mem, s.disk, n) /\ Slotted(mem, s.disk, n)

LEMMA RequestStep ==
    ASSUME FsInv, NEW s, NEW touched, NEW flushed, NEW opened, Request(s, touched, flushed, opened),
           Done(S, s, Care(touched)), opened \subseteq AllFiles(s.mem),
           state = "formatted" => \A n \in (Name \ touched) \cap flushed : Flushed(s, n)
    PROVE  FsInv' /\ Survives
<1> DEFINE care == Care(touched)
<1>0. /\ mem \in Memory /\ disk \in Memory /\ restarts \in Nat /\ (state = "formatted" => restarts = 0)
      /\ restarts = 0 => state \in {"formatted", "haunted"}
      /\ state \in {"formatted", "restarted"} /\ open \subseteq AllFiles(mem) /\ Own(disk, NDIRECT)
      /\ S.mem = mem
  BY FirstRequest DEF FsInv, Request, Going
<1>1. /\ RequestInv(s, care) /\ s \in Requests /\ AllFiles(mem) \subseteq AllFiles(s.mem)
      /\ Sound(s.stops) /\ Safe(s, care) /\ Under(s.disk, s.mem, 0)
      /\ MemoryInv(s.mem, Held(s), care)
  BY <1>0 DEF Done, RequestInv, Pending
<1>a. care.exact = (state = "formatted") /\ care.saved = saved /\ care.at = NoFile /\ care.dir
      /\ care.kept = {n \in Name \ touched : saved[n] # {}}
  BY CareFields
<1> HIDE DEF care
<1>2. CASE /\ ~s.haunted
           /\ mem' = s.mem /\ disk' = s.disk /\ UNCHANGED <<state, restarts>>
           /\ open' = open \cup opened
           /\ saved' = [n \in Name |-> IF n \in touched THEN {}
                                       ELSE IF n \in flushed /\ Named(s.disk, n) = Named(mem, n)
                                            THEN Contents(mem, n) ELSE saved[n]]
  <2> DEFINE new == Care({})'
             z == S'
  <2>0. MemoryInv(s.mem, 0, care)
    BY <1>1, <1>2 DEF Held
  <2>1. Own(s.disk, NDIRECT)
    BY <1>1, UnderSound
  <2>2. s.mem \in Memory /\ s.disk \in Memory
    BY <1>1 DEF Requests
  <2>3. /\ new.exact = (state = "formatted") /\ new.saved = saved' /\ new.at = NoFile
        /\ new.kept = {n \in Name : saved'[n] # {}}
    BY <1>2 DEF Care
  <2>4. z \in Requests /\ z.mem = s.mem /\ z.disk = s.disk /\ z.stops = {} /\ z.haunted = FALSE
    BY <1>2, <2>2 DEF S, Requests, BlockNo
  <2> HIDE DEF new, z
  <2>5. MemoryInv(s.mem, 0, new)
    BY <1>a, <2>0, <2>3 DEF MemoryInv
  <2>6. ASSUME state = "formatted", NEW n \in new.kept
        PROVE  Agree(s.mem, s.disk, n) /\ Slotted(s.mem, s.disk, n) /\ Contents(s.mem, n) = new.saved[n]
    <3>1. n \in Name /\ saved'[n] # {} /\ n \notin touched
      BY <1>2, <2>3
    <3>2. CASE n \in flushed /\ Named(s.disk, n) = Named(mem, n)
      <4>1. s.mem = mem /\ Agree(mem, s.disk, n) /\ Slotted(mem, s.disk, n)
        BY <2>6, <3>1, <3>2 DEF Flushed
      <4>2. saved'[n] = Contents(mem, n)
        BY <1>2, <3>1, <3>2
      <4> QED BY <2>3, <4>1, <4>2
    <3>3. CASE ~(n \in flushed /\ Named(s.disk, n) = Named(mem, n))
      <4>1. saved'[n] = saved[n] /\ n \in care.kept
        BY <1>2, <1>a, <3>1, <3>3
      <4> QED BY <1>1, <1>a, <2>3, <2>6, <4>1 DEF Safe, OnDisk, Holds
    <3> QED BY <3>2, <3>3
  <2>7. ASSUME state = "formatted" PROVE NamesOn(s.mem, s.disk, new) /\ DirOn(s.mem, s.disk)
    <3>1. NamesOn(s.mem, s.disk, care) /\ DirOn(s.mem, s.disk)
      BY <1>1, <1>a, <2>7 DEF Safe, OnDisk
    <3> QED BY <1>a, <3>1, FilePlaces DEF NamesOn
  <2>8. Safe(z, new)
    BY <2>3, <2>4, <2>6, <2>7 DEF Safe, OnDisk, Holds
  <2>9. RequestInv(z, new)
    <3>1. Pending(z, 0, new, 0)
      BY <1>1, <2>4, <2>5, <2>8 DEF Pending, Sound
    <3> QED BY <2>4, <3>1, Unhaunted
  <2>10. FsInv'
    <3>1. RequestInv(S, Care({}))'
      BY <2>9 DEF z, new
    <3>2. mem' \in Memory /\ disk' \in Memory /\ Own(disk', NDIRECT)
      BY <1>2, <2>1, <2>2
    <3>3. state' = state /\ restarts' = restarts /\ restarts' \in Nat
          /\ state' \in {"formatted", "restarted", "broken", "haunted"}
          /\ (state' = "formatted" => restarts' = 0)
          /\ (state' \in {"restarted", "broken"} => restarts' # 0)
      BY <1>0, <1>2 DEF FsInv
    <3>4. (open \subseteq AllFiles(mem))'
      <4>1. open' \subseteq AllFiles(s.mem)
        BY <1>0, <1>1, <1>2
      <4>2. AllFiles(mem') = AllFiles(s.mem)
        BY <1>2
      <4> QED BY <4>1, <4>2 DEF AllFiles, DirBlocks, BlockOf, FileAt
    <3> QED BY <3>1, <3>2, <3>3, <3>4 DEF FsInv
  <2>11. restarts' = 0 => FlushedSurvives'
    <3>1. FsInv /\ state = "formatted" => FlushedSurvives
      BY SurvivesNow
    <3>2. (FsInv /\ state = "formatted" => FlushedSurvives)'
      BY SurvivesNow, PTL
    <3>3. restarts' = 0 => state' = "formatted"
      BY <1>0, <1>2
    <3> QED BY <2>10, <3>2, <3>3
  <2> QED BY <1>2, <2>10, <2>11 DEF Survives
<1>2a. CASE state' = "haunted" /\ UNCHANGED <<mem, disk, saved, open, restarts>>
  <2>1. FsInv'
    BY <1>0, <1>2a DEF FsInv, Going
  <2>2. FlushedSurvives'
    BY <1>2a DEF FlushedSurvives
  <2> QED BY <2>1, <2>2 DEF Survives
<1>3. CASE \E d \in Stops(s) : StopAfter(d, touched)
  <2>1. PICK d \in s.stops : StopAfter(d, touched)
    BY <1>3 DEF Stops
  <2>2. d \in Memory /\ Own(d, NDIRECT)
    BY <1>1, <2>1 DEF Requests, Sound
  <2>3. state = "formatted" => Holds(d, Care(touched))
    BY <1>1, <1>a, <2>1 DEF Safe, care
  <2>4. Going
    BY <1>0 DEF Going
  <2> QED BY <1>0, <2>1, <2>2, <2>3, <2>4, StopInv
<1> QED BY <1>2, <1>2a, <1>3 DEF Request

LEMMA RequestBegins ==
    ASSUME FsInv, Going, NEW touched
    PROVE  /\ RequestInv(S, Care(touched))
           /\ S.mem = mem /\ S.failed = FALSE /\ S.file = NoFile /\ S.haunted = FALSE
<1> DEFINE care == Care({})
           new == Care(touched)
<1>1. /\ S.mem = mem /\ S.failed = FALSE /\ S.file = NoFile /\ S.haunted = FALSE /\ RequestInv(S, care)
  BY FirstRequest DEF FsInv
<1>1a. Pending(S, 0, care, 0)
  BY <1>1, Unhaunted
<1>2. /\ new.exact = care.exact /\ new.saved = care.saved /\ new.at = care.at /\ new.dir = care.dir
      /\ new.kept \subseteq care.kept
  BY DEF Care
<1> HIDE DEF care, new
<1>3. NamesOn(S.mem, S.disk, care) => NamesOn(S.mem, S.disk, new)
  BY <1>2 DEF NamesOn
<1>4. \A d : Holds(d, care) => Holds(d, new)
  BY <1>2 DEF Holds
<1>5. OnDisk(S.mem, S.disk, care) => OnDisk(S.mem, S.disk, new)
  BY <1>2, <1>3 DEF OnDisk
<1>6. Safe(S, new)
  BY <1>1a, <1>2, <1>4, <1>5 DEF Pending, Safe
<1>7. RequestInv(S, new)
  <2>1. Pending(S, 0, new, 0)
    BY <1>1a, <1>2, <1>6 DEF Pending, MemoryInv
  <2> QED BY <1>1, <2>1, Unhaunted
<1> QED BY <1>1, <1>7 DEF new

LEMMA OpenedFile ==
    ASSUME FsInv, Going, NEW f \in open
    PROVE  f \in AllFiles(mem) /\ f \in Live(mem) /\ NameOf(f) \in Name \cup {Unnamed}
<1>1. f \in AllFiles(mem) /\ mem \in Memory
  BY DEF FsInv
<1>2. f \in FilePlace /\ f # Root
  BY <1>1, DirRead
<1>3. NameOf(f) \in Name \cup {Unnamed}
  BY <1>1, <1>2, FileRead, FileFields DEF NameOf
<1> QED BY <1>1, <1>3 DEF Live

LEMMA SizesAreNumbers ==
    ASSUME NEW name \in Name \cup {Unnamed}
    PROVE  /\ \A size \in 0..MaxSize[name] : size \in Nat
           /\ \A n \in 1..MaxSize[name] : n \in Nat \ {0}
<1>1. MaxSize[name] \in 1..(NDIRECT + NINDIRECT) /\ NDIRECT \in Nat /\ NINDIRECT \in Nat
  BY FsAssumption
<1>2. MaxSize[name] \in Nat
  BY <1>1
<1> QED BY <1>2

(* A request may change the file that it names.                            *)
LEMMA MayChangeNamed ==
    ASSUME NEW name, NEW f, FileAt(mem, f).name = name
    PROVE  MayChange(mem, f, Care({name})) /\ name \notin Care({name}).kept
BY CareFields DEF MayChange

(* A block that is there is only read.                                     *)
LEMMA BlockIsThere ==
    ASSUME NEW s, NEW care, RequestInv(s, care), s.failed = FALSE, NEW f, NEW n \in Nat \ {0}, BlockOf(s.mem, f, n) # 0
    PROVE  FileGetBlock(s, f, n) = [s EXCEPT !.blk = BlockOf(s.mem, f, n)]
<1>1. ~(n > MAXFILESIZE) /\ (n <= NDIRECT \/ FileAt(s.mem, f).indirect # 0)
  <2>1. NDIRECT \in Nat /\ MAXFILESIZE \in Nat /\ NDIRECT < MAXFILESIZE
    BY Constants
  <2>2. n > MAXFILESIZE => ~(n <= NDIRECT)
    BY <2>1
  <2> QED BY <2>2 DEF BlockOf
<1>2. FileBlockWalk(s, f, n) = s
  BY <1>1 DEF FileBlockWalk
<1> QED BY <1>2 DEF FileGetBlock, BlockAt

LEMMA BlockIsRead ==
    ASSUME NEW s, NEW care, RequestInv(s, care), s.failed = FALSE, NEW f \in Live(s.mem), NEW n \in Nat \ {0},
           BlockOf(s.mem, f, n) # 0
    PROVE  Done(s, FileGetBlock(s, f, n), care)
<1> DEFINE g == FileGetBlock(s, f, n)
<1>0. s \in Requests /\ s.mem \in Memory /\ f \in FilePlace
  BY DirRead DEF RequestInv, Pending, Requests
<1>1. g = [s EXCEPT !.blk = BlockOf(s.mem, f, n)]
  BY BlockIsThere
<1> HIDE DEF g
<1>2. BlockOf(s.mem, f, n) \in BlockNo
  BY <1>0, BlockRead
<1>2a. s.haunted = FALSE /\ Pending(s, 0, care, 0)
  BY Unhaunted
<1>3. g \in Requests /\ g.mem = s.mem /\ g.disk = s.disk /\ g.stops = s.stops /\ g.haunted = s.haunted
  BY <1>0, <1>1, <1>2 DEF Requests
<1>4. RequestInv(g, care)
  <2>1. Pending(g, 0, care, 0)
    BY <1>2a, <1>3, SafeSame DEF Pending
  <2> QED BY <1>2a, <1>3, <2>1, Unhaunted
<1> QED BY <1>3, <1>4 DEF Done, g

(* A flushed file is on the disk as it is in memory, and the directory     *)
(* there leads to it if it leads to a file of that name at all.            *)
LEMMA FileIsFlushed ==
    ASSUME NEW s, NEW care, RequestInv(s, care), s.mem = mem, care.exact, care.dir,
           NEW name \in Name, NEW f \in AllFiles(mem), FileAt(mem, f).name = name
    PROVE  Flushed(FileFlush(s, f), name)
<1> DEFINE u == FileFlush(s, f)
<1>0. mem \in Memory /\ f \in FilePlace /\ f # Root
  BY DirRead DEF RequestInv, Pending, Requests
<1>1. RequestInv(u, care) /\ u.mem = mem
  BY <1>0, FileFlushInv DEF SameResult
<1>2. \A c \in AnyBlock :
          c = f[1] \/ c = FileAt(mem, f).indirect \/ (\E n \in 1..FileAt(mem, f).size : BlockOf(mem, f, n) = c)
              => Clean(u, c)
  BY <1>0, FileFlushClean
<1> HIDE DEF u
<1>3. /\ u.disk \in Memory /\ WithinSize(mem) /\ Unique(mem) /\ DirOn(mem, u.disk)
  BY <1>1 DEF RequestInv, Pending, Requests, MemoryInv, Safe, OnDisk
<1>4. \A g \in FilePlace : FileAt(mem, g).name = name => g = f
  <2>1. name # Unnamed
    BY FsAssumption DEF Unnamed
  <2> QED BY <1>0, <1>3, <2>1 DEF Unique
<1>5. SameFile(mem, u.disk, f)
  <2>1. f[1] \in AnyBlock
    BY <1>0, FilePlaces
  <2>2. Clean(u, f[1])
    BY <1>2, <2>1
  <2> QED BY <1>1, <2>2 DEF Clean, SameBlock, SameFile, FileAt
<1>6. ASSUME NEW k \in 0..MAXFILESIZE, BlockOf(mem, f, k) # 0 PROVE SameBlock(mem, u.disk, BlockOf(mem, f, k))
  <2>1. BlockOf(mem, f, k) \in AnyBlock
    BY <1>0, <1>6, BlockRead, IndexBounds, Constants DEF BlockNo
  <2>2. CASE k = 0
    <3>1. BlockOf(mem, f, k) = FileAt(mem, f).indirect
      BY <2>2 DEF BlockOf
    <3> QED BY <1>1, <1>2, <2>1, <3>1 DEF Clean
  <2>3. CASE k # 0
    <3>1. k \in 1..MAXFILESIZE /\ k \in Nat
      BY <2>3, IndexBounds
    <3>2. k <= FileAt(mem, f).size /\ FileAt(mem, f).size \in Nat
      BY <1>0, <1>3, <1>6, <3>1, FileRead, FileFields DEF WithinSize
    <3>3. k \in 1..FileAt(mem, f).size
      BY <2>3, <3>1, <3>2
    <3> QED BY <1>1, <1>2, <2>1, <3>3 DEF Clean
  <2> QED BY <2>2, <2>3
<1>7. Agree(mem, u.disk, name)
  BY <1>4, <1>5, <1>6 DEF Agree, SameData
<1>8. ASSUME Named(u.disk, name) = Named(mem, name) PROVE Slotted(mem, u.disk, name)
  <2>1. f \in AllFiles(u.disk)
    BY <1>8 DEF Named
  <2>2. f[1] \in DirBlocks(u.disk) /\ f[1] # 0
    BY <1>0, <1>3, <2>1, DirRead, FilePlaces
  <2>3. PICK i \in 1..MAXFILESIZE : i <= FileAt(u.disk, Root).size /\ BlockOf(u.disk, Root, i) = f[1]
    BY <1>3, <2>2, DirRead
  <2>4. BlockOf(mem, Root, i) = f[1]
    BY <1>3, <2>2, <2>3 DEF DirOn
  <2> QED BY <1>4, <2>3, <2>4 DEF Slotted
<1> QED BY <1>1, <1>7, <1>8 DEF Flushed, u

(* After fs_sync the disk holds what memory does.                          *)
LEMMA AllIsFlushed ==
    ASSUME NEW s, NEW care, RequestInv(s, care), s.failed = FALSE, s.mem = mem, care.at = NoFile
    PROVE  /\ RequestInv(FsSync(s), care) /\ FsSync(s).mem = mem
           /\ care.exact => \A n \in Name : Flushed(FsSync(s), n)
<1> DEFINE u == FsSync(s)
           loose == Loose(care, NoFile, FALSE)
<1>0. s.haunted = FALSE /\ Pending(s, 0, care, 0)
  BY Unhaunted
<1>1. RequestInv(s, loose) /\ s \in Requests /\ mem \in Memory
  <2>1. Pending(s, 0, loose, 0)
    BY <1>0, Loosened
  <2> HIDE DEF loose
  <2>2. RequestInv(s, loose)
    BY <1>0, <2>1, Unhaunted
  <2> QED BY <2>1, <2>2 DEF Pending, Requests
<1>2. ~loose.dir /\ loose.exact = care.exact
  BY DEF Loose
<1>3. RequestInv(u, loose) /\ u.mem = mem /\ u.haunted = FALSE
  <2> HIDE DEF loose, u
  <2>1. RequestInv(u, loose) /\ SameResult(s, u)
    BY <1>1, <1>2, FsSyncInv DEF u
  <2> QED BY <1>0, <2>1 DEF SameResult
<1>4. ASSUME NEW c \in AnyBlock PROVE Clean(u, c)
  <2> DEFINE blocks == [b \in 1..(NBLOCKS - 1) |-> b]
  <2>1. c \in 1..(NBLOCKS - 1) /\ blocks[c] = c
    BY DEF AnyBlock
  <2>2. u = FlushAll(s, blocks, NBLOCKS - 1)
    BY DEF FsSync
  <2> HIDE DEF blocks, u
  <2> QED BY <1>1, <2>1, <2>2, FlushAllClean
<1> HIDE DEF u
<1>5. u.disk = mem
  <2>1. u.disk \in Memory
    BY <1>3 DEF RequestInv, Pending, Requests
  <2>2. mem = [b \in AnyBlock |-> mem[b]] /\ u.disk = [b \in AnyBlock |-> u.disk[b]]
    BY <1>1, <2>1 DEF Memory
  <2>3. \A b \in AnyBlock : u.disk[b] = mem[b]
    BY <1>3, <1>4 DEF Clean, SameBlock
  <2> QED BY <2>2, <2>3
<1>6. RequestInv(u, care)
  <2>1. NamesOn(u.mem, u.disk, care) /\ DirOn(u.mem, u.disk)
    BY <1>3, <1>5 DEF NamesOn, DirOn
  <2>2. Pending(u, 0, loose, 0)
    BY <1>3 DEF RequestInv, Held
  <2>3. Pending(u, 0, care, 0)
    BY <2>1, <2>2, Tightened
  <2> QED BY <1>3, <2>3, Unhaunted
<1>7. ASSUME care.exact, NEW n \in Name PROVE Flushed(u, n)
  <2>1. Agree(mem, mem, n)
    BY DEF Agree, SameFile, SameData, SameBlock
  <2>2. NamesLive(mem)
    BY <1>3, <1>6, <1>7 DEF RequestInv, Pending, MemoryInv
  <2>3. ASSUME NEW f \in FilePlace, FileAt(mem, f).name = n
        PROVE  \E i \in 1..MAXFILESIZE : i <= FileAt(mem, Root).size /\ BlockOf(mem, Root, i) = f[1]
    <3>1. f \in AllFiles(mem)
      BY <1>1, <2>2, <2>3, KeptLive
    <3>2. f[1] \in DirBlocks(mem)
      BY <1>1, <2>3, <3>1, DirRead
    <3> QED BY <1>1, <3>2, DirRead
  <2>4. Slotted(mem, mem, n)
    BY <2>3 DEF Slotted
  <2> QED BY <1>3, <1>5, <2>1, <2>4 DEF Flushed
<1> QED BY <1>3, <1>6, <1>7 DEF u

FsKept == FsInv' /\ Survives

LEMMA FsStep ==
    ASSUME FsInv, [FsNext]_fsVars
    PROVE  FsKept
<1> DEFINE care == Care({})
           its(f) == Care({NameOf(f)})
<1>1. CASE UNCHANGED fsVars
  <2>1. mem' = mem /\ disk' = disk /\ saved' = saved /\ open' = open /\ state' = state /\ restarts' = restarts
    BY <1>1 DEF fsVars
  <2>2. S' = S /\ Care({})' = Care({})
    BY <2>1 DEF S, Care
  <2>3. AllFiles(mem)' = AllFiles(mem) /\ Going' = Going
    BY <2>1 DEF AllFiles, DirBlocks, BlockOf, FileAt, Going
  <2>4. FsInv'
    BY <2>1, <2>2, <2>3 DEF FsInv
  <2>5. FlushedSurvives => FlushedSurvives'
    BY <2>1 DEF FlushedSurvives
  <2>6. restarts = 0 => FlushedSurvives
    BY SurvivesNow DEF FsInv, FlushedSurvives
  <2> QED BY <2>4, <2>5, <2>6 DEF Survives, FsKept
<1>2. CASE Stop
  <2>1. /\ restarts \in Nat /\ (state = "formatted" => restarts = 0) /\ disk \in Memory /\ Own(disk, NDIRECT)
        /\ restarts = 0 => state \in {"formatted", "haunted"}
        /\ Going /\ StopAfter(disk, {})
    BY <1>2 DEF FsInv, Stop
  <2>2. state = "formatted" => Holds(disk, Care({}))
    BY SurvivesNow
  <2>3. FsInv' /\ Survives
    BY <2>1, <2>2, StopInv
  <2> QED BY <2>3 DEF FsKept
<1>3. ASSUME NEW s, NEW touched, NEW flushed, NEW opened, Request(s, touched, flushed, opened),
             Done(S, s, Care(touched)), opened \subseteq AllFiles(s.mem),
             state = "formatted" => \A n \in (Name \ touched) \cap flushed : Flushed(s, n)
      PROVE  FsKept
  BY <1>3, RequestStep DEF FsKept
<1>4. ASSUME NEW s, NEW t, NEW f, NEW o, Request(s, t, f, o), NEW touched
      PROVE  /\ Going /\ RequestInv(S, Care(touched)) /\ S.mem = mem /\ S.failed = FALSE /\ S.file = NoFile
             /\ S.mem \in Memory /\ Care(touched).at = NoFile /\ Care(touched).dir
             /\ state = "formatted" => Care(touched).exact
  BY <1>4, RequestBegins DEF Request, FsInv, Care
<1>4a. \A f : MayChange(mem, f, its(f))
  BY MayChangeNamed DEF NameOf
<1>4b. \A name : name \notin Care({name}).kept
  BY CareFields
<1> HIDE DEF care, its
<1>5. ASSUME NEW name \in Name, FileOpen(name) PROVE FsKept
  <2> DEFINE s == DirLookup(S, name)
  <2>1. Request(s, {}, {}, Found(s))
    BY <1>5 DEF FileOpen
  <2>2. RequestInv(S, care) /\ S.mem = mem /\ S.file = NoFile /\ S.mem \in Memory
    BY <1>4, <2>1 DEF care
  <2> DEFINE last == FileAt(S.mem, Root).size
  <2>2a. Scanned(S, s, name, last, care)
    BY <2>2, DirLookupInv
  <2> HIDE DEF s, last
  <2>3. RequestInv(s, care) /\ Calm(S.mem, s.mem, Root) /\ Found(s) \subseteq AllFiles(s.mem)
    BY <2>2a DEF Scanned, Found
  <2>4. s.mem \in Memory
    BY <2>3 DEF RequestInv, Pending, Requests
  <2>5. Done(S, s, care)
    BY <2>2, <2>3, <2>4, DirRead, CalmLive DEF Done
  <2> QED BY <1>3, <2>1, <2>3, <2>5 DEF care
<1>6. ASSUME NEW name \in Name, Create(name) PROVE FsKept
  <2> DEFINE s == FileCreate(S, name)
             new == Care({name})
  <2>1. Request(s, {name}, {}, Found(s))
    BY <1>6 DEF Create
  <2>2. RequestInv(S, new) /\ S.failed = FALSE /\ S.file = NoFile /\ new.at = NoFile
    BY <1>4, <2>1
  <2>3. name \notin new.kept
    BY <1>4b
  <2> HIDE DEF new
  <2>4. Done(S, s, new) /\ Found(s) \subseteq AllFiles(s.mem)
    BY <2>2, <2>3, FileCreateInv
  <2> HIDE DEF s
  <2> QED BY <1>3, <2>1, <2>4 DEF new
<1>7. ASSUME NEW name \in Name, RemoveFile(name) PROVE FsKept
  <2> DEFINE s == FileRemove(S, name)
             new == Care({name})
  <2>1. Request(s, {name}, {}, {})
    BY <1>7 DEF RemoveFile
  <2>2. RequestInv(S, new) /\ S.failed = FALSE /\ S.file = NoFile /\ new.at = NoFile
    BY <1>4, <2>1
  <2>3. name \notin new.kept
    BY <1>4b
  <2> HIDE DEF new
  <2>4. Done(S, s, new)
    BY <2>2, <2>3, FileRemoveInv
  <2> HIDE DEF s
  <2> QED BY <1>3, <2>1, <2>4 DEF new
<1>8. ASSUME NEW f \in open, FlushFile(f) PROVE FsKept
  <2> DEFINE s == FileFlush(S, f)
  <2>1. Request(s, {}, {NameOf(f)}, {})
    BY <1>8 DEF FlushFile
  <2>2. RequestInv(S, care) /\ S.mem = mem /\ S.mem \in Memory /\ care.dir /\ (state = "formatted" => care.exact)
        /\ Going
    BY <1>4, <2>1 DEF care
  <2>3. f \in AllFiles(mem) /\ FileAt(mem, f).name = NameOf(f)
    BY <2>2, OpenedFile DEF NameOf
  <2>4. f \in FilePlace /\ f # Root
    BY <2>2, <2>3, DirRead
  <2>5. RequestInv(s, care) /\ s.mem = S.mem
    BY <2>2, <2>4, FileFlushInv DEF SameResult
  <2>6. Done(S, s, care)
    BY <2>5 DEF Done
  <2>7. state = "formatted" /\ NameOf(f) \in Name => Flushed(s, NameOf(f))
    BY <2>2, <2>3, FileIsFlushed
  <2> HIDE DEF s
  <2>8. state = "formatted" => \A n \in (Name \ {}) \cap {NameOf(f)} : Flushed(s, n)
    BY <2>7
  <2> QED BY <1>3, <2>1, <2>6, <2>8 DEF care
<1>9. ASSUME NEW f \in open, NEW size \in 0..MaxSize[NameOf(f)], SetSize(f, size) PROVE FsKept
  <2> DEFINE s == FileSetSize(S, f, size)
  <2>1. Request(s, {NameOf(f)}, {}, {})
    BY <1>9 DEF SetSize
  <2>2. RequestInv(S, its(f)) /\ S.mem = mem /\ S.failed = FALSE /\ S.mem \in Memory /\ Going
    BY <1>4, <2>1 DEF its
  <2>3. f \in AllFiles(S.mem) /\ MayChange(S.mem, f, its(f)) /\ size \in Nat
    BY <1>4a, <2>2, OpenedFile, SizesAreNumbers
  <2>4. Resized(S, s, f, size, its(f))
    BY <2>2, <2>3, FileSetSizeInv
  <2>5. RequestInv(s, its(f)) /\ Only(S.mem, s.mem, f) /\ s.mem \in Memory
    BY <2>4 DEF Resized, RequestInv, Pending, Requests
  <2>6. AllFiles(S.mem) \subseteq AllFiles(s.mem)
    BY <2>2, <2>5, DirRead DEF Only, Live
  <2>7. Done(S, s, its(f))
    BY <2>5, <2>6 DEF Done
  <2> HIDE DEF s
  <2> QED BY <1>3, <2>1, <2>7 DEF its
<1>10. ASSUME NEW f \in open, NEW n \in 1..MaxSize[NameOf(f)], Write(f, n) PROVE FsKept
  <2> DEFINE s == FileWrite(S, f, n)
  <2>1. Request(s, {NameOf(f)}, {}, {})
    BY <1>10 DEF Write
  <2>2. RequestInv(S, its(f)) /\ S.mem = mem /\ S.failed = FALSE /\ Going
    BY <1>4, <2>1 DEF its
  <2>3. /\ f \in AllFiles(S.mem) /\ FileAt(S.mem, f).name \in Name \cup {Unnamed}
        /\ MayChange(S.mem, f, its(f)) /\ n \in Nat \ {0}
    BY <1>4a, <2>2, OpenedFile, SizesAreNumbers DEF NameOf
  <2>4. Done(S, s, its(f))
    BY <2>2, <2>3, FileWriteInv
  <2> HIDE DEF s
  <2> QED BY <1>3, <2>1, <2>4 DEF its
<1>11. ASSUME NEW f \in open, NEW n \in 1..MaxSize[NameOf(f)], Read(f, n) PROVE FsKept
  <2> DEFINE s == FileGetBlock(S, f, n)
  <2>1. /\ n <= FileAt(mem, f).size
        /\ Request(s, IF BlockOf(mem, f, n) = 0 THEN {NameOf(f)} ELSE {}, {}, {})
    BY <1>11 DEF Read
  <2>2. /\ RequestInv(S, its(f)) /\ RequestInv(S, care) /\ Going
        /\ S.mem = mem /\ S.failed = FALSE /\ S.mem \in Memory
    BY <1>4, <2>1 DEF its, care
  <2>3. f \in Live(S.mem) /\ MayChange(S.mem, f, its(f)) /\ n \in Nat \ {0}
    BY <1>4a, <2>2, OpenedFile, SizesAreNumbers
  <2>4. CASE BlockOf(mem, f, n) = 0
    <3>1. Gotten(S, s, f, its(f))
      BY <2>1, <2>2, <2>3, FileGetBlockInv
    <3>2. RequestInv(s, its(f)) /\ Calm(S.mem, s.mem, f) /\ s.mem \in Memory
      BY <3>1 DEF Gotten, RequestInv, Pending, Requests
    <3>3. Done(S, s, its(f))
      BY <2>2, <2>3, <3>2, CalmLive DEF Done
    <3>4. Request(s, {NameOf(f)}, {}, {})
      BY <2>1, <2>4
    <3> HIDE DEF s
    <3> QED BY <1>3, <3>3, <3>4 DEF its
  <2>5. CASE BlockOf(mem, f, n) # 0
    <3>1. Done(S, s, care)
      BY <2>2, <2>3, <2>5, BlockIsRead
    <3>2. Request(s, {}, {}, {})
      BY <2>1, <2>5
    <3> HIDE DEF s
    <3> QED BY <1>3, <3>1, <3>2 DEF care
  <2> QED BY <2>4, <2>5
<1>12. ASSUME Sync PROVE FsKept
  <2> DEFINE s == FsSync(S)
  <2>1. Request(s, {}, Name, {})
    BY <1>12 DEF Sync
  <2>2. /\ RequestInv(S, care) /\ S.mem = mem /\ S.failed = FALSE /\ care.at = NoFile
        /\ state = "formatted" => care.exact
    BY <1>4, <2>1 DEF care
  <2>3. /\ RequestInv(s, care) /\ s.mem = mem
        /\ care.exact => \A n \in Name : Flushed(s, n)
    BY <2>2, AllIsFlushed
  <2>4. Done(S, s, care)
    BY <2>2, <2>3 DEF Done
  <2> HIDE DEF s
  <2>5. state = "formatted" => \A n \in (Name \ {}) \cap Name : Flushed(s, n)
    BY <2>2, <2>3
  <2> QED BY <1>3, <2>1, <2>4, <2>5 DEF care
<1> QED BY <1>1, <1>2, <1>5, <1>6, <1>7, <1>8, <1>9, <1>10, <1>11, <1>12 DEF FsNext

-----------------------------------------------------------------------------
(* The theorems.                                                           *)

(* FsInv is an invariant: as long as the directory has taken in no block   *)
(* with old data in it, memory and disk hold what they should, no block of *)
(* the memory is in two places of files, and the File structures on the    *)
(* disk lead only where those in memory do. Files that are open and those  *)
(* that were removed while they were open are among them.                  *)
THEOREM FsInvariant == FsSpec => []FsInv
<1>1. FsInit => FsInv
  BY FormattedInv
<1>2. FsInv /\ [FsNext]_fsVars => FsInv'
  BY FsStep DEF FsKept
<1> QED BY <1>1, <1>2, PTL DEF FsSpec

(* The two ways to say whose blocks are whose.                             *)
LEMMA OwnIsOwnBlocks ==
    ASSUME NEW m \in Memory, NEW last, Own(m, last)
    PROVE  OwnBlocks(m, last)
<1>1. AllFiles(m) \cup {Root} \subseteq FilePlace
  BY DirRead DEF Live
<1> QED BY <1>1 DEF Own, OwnBlocks

LEMMA AccountedAlways ==
    FsInv => BlocksAccounted
<1> SUFFICES ASSUME FsInv, Going
             PROVE  /\ OwnBlocks(mem, MAXFILESIZE)
                    /\ state = "formatted" =>
                         DataBlock \ FreeBlocks(mem)
                           = {BlockOf(mem, f, n) : f \in AllFiles(mem) \cup {Root}, n \in 0..MAXFILESIZE} \ {0}
  BY DEF BlocksAccounted
<1>1. mem \in Memory /\ MemoryInv(mem, 0, Care({})) /\ (state = "formatted" => Care({}).exact)
  <2>1. Pending(S, 0, Care({}), 0) /\ S.mem = mem
    BY RequestBegins, Unhaunted
  <2> QED BY <2>1 DEF FsInv, Pending, Care
<1>2. OwnBlocks(mem, MAXFILESIZE)
  BY <1>1, OwnIsOwnBlocks DEF MemoryInv
<1>3. ASSUME state = "formatted", NEW b \in DataBlock \ FreeBlocks(mem)
      PROVE  \E f \in AllFiles(mem) \cup {Root}, n \in 0..MAXFILESIZE : BlockOf(mem, f, n) = b /\ b # 0
  <2>1. b # 0
    BY Constants
  <2>2. PICK f \in FilePlace, n \in 0..MAXFILESIZE : BlockOf(mem, f, n) = b
    BY <1>1, <1>3, <2>1 DEF MemoryInv, NoneLost
  <2>3. ~Empty(FileAt(mem, f))
    BY <1>1, <2>1, <2>2, BlockRead, IndexBounds
  <2>4. f \in Live(mem)
    BY <1>1, <2>3 DEF MemoryInv, DirOnly
  <2> QED BY <2>1, <2>2, <2>4 DEF Live
<1>4. ASSUME NEW f \in AllFiles(mem) \cup {Root}, NEW n \in 0..MAXFILESIZE, BlockOf(mem, f, n) # 0
      PROVE  BlockOf(mem, f, n) \in DataBlock \ FreeBlocks(mem)
  <2>1. f \in FilePlace
    BY <1>1, DirRead DEF Live
  <2> QED BY <1>1, <1>4, <2>1 DEF MemoryInv, Own
<1> QED BY <1>2, <1>3, <1>4

(* Blocks are accounted for in memory, whatever calls fail and however     *)
(* often the machine stops between two writes: see alloc_block,            *)
(* file_get_block, file_truncate_blocks. Only until the directory takes in *)
(* a block that is not cleared (fs/fs.c:198) and holds old data.           *)
THEOREM BlocksAlwaysAccounted == FsSpec => []BlocksAccounted
<1>1. FsInv => BlocksAccounted
  BY AccountedAlways
<1> QED BY <1>1, FsInvariant, PTL

(* No write order of a request leaves two File structures on the disk with *)
(* a block in common, or one with a free block: alloc_block flushes the    *)
(* bitmap before a number is used, file_set_size and file_remove the File  *)
(* before the bitmap with its blocks is. The directory on the disk must    *)
(* lead to no block with old data, and indirect blocks are left out.       *)
THEOREM DiskAlwaysSound == FsSpec => []DiskSound
<1>1. FsInv => DiskSound
  BY OwnIsOwnBlocks DEF FsInv, DiskSound
<1> QED BY <1>1, FsInvariant, PTL

(* Until the first restart a file that was flushed while the directory on  *)
(* the disk led to it, and that no request has touched since, is on the    *)
(* disk as it was: its size and every block of it, and the directory leads *)
(* to it. The first restart finds it so after whatever write the machine   *)
(* stopped. FLUSH and SYNC write the file's blocks, its indirect block and *)
(* its File structure, and no write of another request changes these.      *)
THEOREM FlushedSurvivesFirstLife ==
    FsSpec => /\ [](restarts = 0 => FlushedSurvives)
              /\ [][restarts = 0 => FlushedSurvives']_fsVars
<1>1. FsInv => (restarts = 0 => FlushedSurvives)
  BY SurvivesNow DEF FsInv, FlushedSurvives
<1>2. FsInv /\ [FsNext]_fsVars => [restarts = 0 => FlushedSurvives']_fsVars
  BY FsStep DEF FsKept, Survives
<1> QED BY <1>1, <1>2, FsInvariant, PTL DEF FsSpec
=============================================================================
