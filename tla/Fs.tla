-------------------------------- MODULE Fs --------------------------------
(* The file system (fs/fs.c) over its block cache (fs/bc.c). The server    *)
(* works on the blocks in memory and decides, call by call, which of them  *)
(* go to the disk and in what order. The server has one thread, so that a  *)
(* request is one step; but the machine may stop before, between or after  *)
(* the ide_writes of a request, and starts again with what is on the disk. *)
(*                                                                         *)
(* Sizes are in blocks, paths have one element, and what a block holds is  *)
(* abstracted to its use. Dirty blocks are those that differ from the disk.*)
EXTENDS Naturals, FiniteSets, FiniteSetsExt

CONSTANTS NBLOCKS,      \* s_nblocks
          NDIRECT, NINDIRECT, BLKFILES,
          Name,         \* what files may be called
          NonZero,      \* bound: the names under which files get anything but zeroes
          MaxSize,      \* bound: no file grows beyond this, name by name
          MaxGap,       \* bound: how far beyond its end a file is extended or written
          MaxRestarts   \* bound

Unnamed == ""

ASSUME FsAssumption ==
    /\ NBLOCKS \in Nat /\ NBLOCKS > 3
    /\ NDIRECT \in Nat \ {0} /\ NINDIRECT \in Nat \ {0} /\ BLKFILES \in Nat \ {0}
    /\ MaxSize \in [Name \cup {Unnamed} -> 1..(NDIRECT + NINDIRECT)]
    /\ Unnamed \notin Name /\ "/" \notin Name /\ NonZero \subseteq Name \cup {Unnamed}
    /\ MaxGap \in Nat /\ MaxRestarts \in Nat

VARIABLES mem,          \* the block cache: what each block holds
          disk,         \* what the disk holds
          saved,        \* history: what a file held when it was last flushed
          open,         \* the files in opentab
          state,        \* what the server was started on, or that it went wrong
          restarts

fsVars == <<mem, disk, saved, open, state, restarts>>

Super == 1
Bitmap == 2
DataBlock == 3..(NBLOCKS - 1)
MAXFILESIZE == NDIRECT + NINDIRECT

Unused == [name |-> Unnamed, size |-> 0, direct |-> [i \in 1..NDIRECT |-> 0], indirect |-> 0]

(* What a block holds: zeroes, the data of a file, File structures, the    *)
(* numbers of blocks, or the bitmap.                                       *)
Zeroes == [kind |-> "zeroes"]
DataOf(n) == IF n \in NonZero THEN [kind |-> "data", of |-> n] ELSE Zeroes
NoPtrs == [i \in 1..NINDIRECT |-> 0]
Ptrs(c) == IF c.kind = "ptrs" THEN c.ptrs ELSE NoPtrs

(* A block that becomes a directory's is not cleared, and what user data or*)
(* the block numbers in it spell as File structures can be anything.       *)
Legible(c) == c.kind \in {"files", "zeroes"} \/ c = [kind |-> "ptrs", ptrs |-> NoPtrs]
Files(c) == IF c.kind = "files" THEN c.files ELSE [j \in 1..BLKFILES |-> Unused]

(* A struct File * : a block and the place in it. s_root is in the super   *)
(* block.                                                                  *)
Root == <<Super, 1>>
FileAt(m, f) == Files(m[f[1]])[f[2]]
NoFile == <<0, 0>>

(* Where file_block_walk points: the number of the nth block of a file, or *)
(* as its 0th that of its indirect block.                                  *)
BlockOf(m, f, n) ==
    LET file == FileAt(m, f) IN
    IF n = 0 THEN file.indirect
    ELSE IF n <= NDIRECT THEN file.direct[n]
    ELSE IF file.indirect = 0 \/ n > MAXFILESIZE THEN 0
    ELSE Ptrs(m[file.indirect])[n - NDIRECT]

-----------------------------------------------------------------------------
(* What the C functions do to the memory.                                  *)
WithFile(m, f, file) ==
    [m EXCEPT ![f[1]] = [kind |-> "files", files |-> [Files(@) EXCEPT ![f[2]] = file]]]

WithBlock(m, f, n, b) ==
    LET file == FileAt(m, f) IN
    IF n <= NDIRECT THEN WithFile(m, f, [file EXCEPT !.direct[n] = b])
    ELSE [m EXCEPT ![file.indirect] =
                    [kind |-> "ptrs", ptrs |-> [Ptrs(@) EXCEPT ![n - NDIRECT] = b]]]

WithIndirect(m, f, b) ==
    [WithFile(m, f, [FileAt(m, f) EXCEPT !.indirect = b]) EXCEPT ![b] = Zeroes]

WithSize(m, f, size) == WithFile(m, f, [FileAt(m, f) EXCEPT !.size = size])
WithName(m, f, name) == WithFile(m, f, [FileAt(m, f) EXCEPT !.name = name])

FreeBlocks(m) == m[Bitmap].free
WithFree(m, free) == [m EXCEPT ![Bitmap] = [kind |-> "bits", free |-> free]]

Gone(file, size) == (size + 1)..file.size
LosesIndirect(file, size) == size <= NDIRECT /\ file.indirect # 0

(* Mutant: the indirect block is not given back.                           *)
FreedWithoutIndirect(m, f, size) == {BlockOf(m, f, n) : n \in Gone(FileAt(m, f), size)} \ {0}

Freed(m, f, size) ==
    ({BlockOf(m, f, n) : n \in Gone(FileAt(m, f), size)}
        \cup (IF LosesIndirect(FileAt(m, f), size) THEN {FileAt(m, f).indirect} ELSE {})) \ {0}

(* The block numbers that are left in an array that begins at the firstth. *)
Left(array, first, gone) == [i \in DOMAIN array |-> IF first + i \in gone THEN 0 ELSE array[i]]

Truncated(m, f, size) ==
    LET file == FileAt(m, f)
        gone == Gone(file, size)
        t == WithFree(m, FreeBlocks(m) \cup Freed(m, f, size))
        u == IF file.indirect = 0 THEN t
             ELSE [t EXCEPT ![file.indirect] =
                     [kind |-> "ptrs", ptrs |-> Left(Ptrs(@), NDIRECT, gone)]]
    IN WithFile(u, f, [file EXCEPT !.direct = Left(@, 0, gone),
                                   !.indirect = IF LosesIndirect(file, size) THEN 0 ELSE @])

-----------------------------------------------------------------------------
(* The C functions map request states to request states: the memory, the   *)
(* disk as it will be after the ide_writes made so far, what the disk was  *)
(* after each of them, whether the call failed with E_NO_DISK, the block   *)
(* and the File it returns; and whether the directory has taken in a block *)
(* that is not legible. The call is followed no further then: it goes on   *)
(* with whatever the old bytes spell.                                      *)
S == [mem |-> mem, disk |-> disk, stops |-> {}, failed |-> FALSE, haunted |-> FALSE,
      blk |-> 0, file |-> NoFile]

Written(s, bs) == [b \in 1..(NBLOCKS - 1) |-> IF b \in bs THEN s.mem[b] ELSE s.disk[b]]

Flush(s, b) == [s EXCEPT !.disk = Written(s, {b}), !.stops = @ \cup {Written(s, {b})}]

(* Several blocks, one after the other; 0 stands for a hole.               *)
FlushAll(s, blocks, last) ==
    LET Done(k) == Written(s, {blocks[n] : n \in 1..k})
    IN [s EXCEPT !.disk = Done(last), !.stops = @ \cup {Done(k) : k \in 1..last}]

(* Mutant: the bitmap goes to the disk some other time.                    *)
AllocBlockUnflushed(s) ==
    LET b == Min(FreeBlocks(s.mem)) IN
    IF FreeBlocks(s.mem) = {} THEN [s EXCEPT !.failed = TRUE]
    ELSE [s EXCEPT !.mem = WithFree(@, FreeBlocks(@) \ {b}), !.blk = b]

AllocBlock(s) ==
    LET b == Min(FreeBlocks(s.mem)) IN
    IF FreeBlocks(s.mem) = {} THEN [s EXCEPT !.failed = TRUE]
    ELSE Flush([s EXCEPT !.mem = WithFree(@, FreeBlocks(@) \ {b}), !.blk = b], Bitmap)

(* With alloc set. Only an indirect block is cleared.                      *)
WithNewIndirect(a, f) ==
    IF a.failed THEN a ELSE [a EXCEPT !.mem = WithIndirect(@, f, a.blk)]

FileBlockWalk(s, f, n) ==
    IF n > MAXFILESIZE THEN [s EXCEPT !.failed = TRUE]
    ELSE IF n <= NDIRECT \/ FileAt(s.mem, f).indirect # 0 THEN s
    ELSE WithNewIndirect(AllocBlock(s), f)

WithNewBlock(a, f, n) ==
    IF a.failed THEN a
    ELSE IF f = Root /\ ~Legible(a.mem[a.blk]) THEN [a EXCEPT !.failed = TRUE, !.haunted = TRUE]
    ELSE [a EXCEPT !.mem = WithBlock(@, f, n, a.blk)]

BlockAt(w, f, n) ==
    IF w.failed THEN w
    ELSE IF BlockOf(w.mem, f, n) # 0 THEN [w EXCEPT !.blk = BlockOf(w.mem, f, n)]
    ELSE WithNewBlock(AllocBlock(w), f, n)

FileGetBlock(s, f, n) == BlockAt(FileBlockWalk(s, f, n), f, n)

(* The scan of dir_lookup, and of dir_alloc_file, which looks for a file   *)
(* without a name: block by block, the blocks that are missing allocated.  *)
Find(s, name) ==
    LET hits == {j \in 1..BLKFILES : Files(s.mem[s.blk])[j].name = name}
    IN IF hits = {} THEN s ELSE [s EXCEPT !.file = <<s.blk, Min(hits)>>]

ScanBlock(s, name, i) ==
    LET g == FileGetBlock(s, Root, i) IN
    IF s.failed \/ s.file # NoFile THEN s
    ELSE IF g.failed THEN g
    ELSE Find(g, name)

DirLookup(s, name) ==
    LET last == FileAt(s.mem, Root).size
        scan[i \in 0..last] == IF i = 0 THEN s ELSE ScanBlock(scan[i - 1], name, i)
    IN scan[last]

Grown(s) == [s EXCEPT !.mem = WithSize(@, Root, FileAt(@, Root).size + 1)]

DirAllocFile(s) ==
    LET l == DirLookup(s, Unnamed)
        g == FileGetBlock(Grown(l), Root, FileAt(l.mem, Root).size + 1)
    IN IF l.failed \/ l.file # NoFile THEN l
       ELSE IF g.failed THEN g
       ELSE [g EXCEPT !.file = <<g.blk, 1>>]

FlushBlocks(s, f) ==
    LET size == FileAt(s.mem, f).size
    IN FlushAll(s, [n \in 1..size |-> BlockOf(s.mem, f, n)], size)

(* Mutant: the indirect block is forgotten.                                *)
FlushNoIndirect(s, f) == s

FlushIndirect(s, f) ==
    IF FileAt(s.mem, f).indirect = 0 THEN s ELSE Flush(s, FileAt(s.mem, f).indirect)

(* Data blocks, then the File structure, then the indirect block.          *)
FileFlush(s, f) == FlushIndirect(Flush(FlushBlocks(s, f), f[1]), f)

FileTruncateBlocks(s, f, size) == [s EXCEPT !.mem = Truncated(@, f, size)]

FileSetSize(s, f, size) ==
    LET t == IF FileAt(s.mem, f).size > size THEN FileTruncateBlocks(s, f, size) ELSE s
    IN Flush([t EXCEPT !.mem = WithSize(@, f, size)], f[1])

(* One block; the size is set before there is a block to hold the data.    *)
FileWrite(s, f, n) ==
    LET t == IF n > FileAt(s.mem, f).size THEN FileSetSize(s, f, n) ELSE s
        g == FileGetBlock(t, f, n)
    IN IF g.failed THEN g
       ELSE [g EXCEPT !.mem[g.blk] = DataOf(FileAt(g.mem, f).name)]

FileCreate(s, name) ==
    LET l == DirLookup(s, name)
        d == DirAllocFile(l)
    IN IF l.failed \/ l.file # NoFile THEN l
       ELSE IF d.failed THEN d
       ELSE FileFlush([d EXCEPT !.mem = WithName(@, d.file, name)], Root)

Removed(file) == [file EXCEPT !.name = Unnamed, !.size = 0]

RemoveEntry(s, f) == Flush([s EXCEPT !.mem = WithFile(@, f, Removed(FileAt(@, f)))], f[1])

FileRemove(s, name) ==
    LET l == DirLookup(s, name) IN
    IF l.failed \/ l.file = NoFile THEN l
    ELSE RemoveEntry(FileTruncateBlocks(l, l.file, 0), l.file)

FsSync(s) == FlushAll(s, [b \in 1..(NBLOCKS - 1) |-> b], NBLOCKS - 1)

-----------------------------------------------------------------------------
(* What the structures in m say, from the root down.                       *)
DirBlocks(m) == {BlockOf(m, Root, i) : i \in 1..FileAt(m, Root).size} \ {0}
AllFiles(m) == DirBlocks(m) \X (1..BLKFILES)
Named(m, name) == {f \in AllFiles(m) : FileAt(m, f).name = name}

(* What a restart would find of a file: its size and blocks.               *)
Contents(m, name) ==
    {[size |-> FileAt(m, f).size,
      blocks |-> [i \in 1..FileAt(m, f).size |->
                     IF BlockOf(m, f, i) = 0 THEN [kind |-> "hole"] ELSE m[BlockOf(m, f, i)]]]
         : f \in Named(m, name)}

(* Each of the first blocks of each file is its own and in use. Up to      *)
(* NDIRECT they are those that the File structures themselves lead to.     *)
OwnBlocks(m, last) ==
    \A f, g \in AllFiles(m) \cup {Root}, n, k \in 0..last :
        LET b == BlockOf(m, f, n) IN
        b # 0 => b \in DataBlock \ FreeBlocks(m) /\ (b = BlockOf(m, g, k) => f = g /\ n = k)

(* What was never more than given a name.                                  *)
Empty(file) ==
    /\ file.size = 0 /\ file.indirect = 0
    /\ \A i \in 1..NDIRECT : file.direct[i] = 0

Haunted(m) == \E b \in DirBlocks(m) : ~Legible(m[b])

Whole(m) ==
    /\ OwnBlocks(m, MAXFILESIZE)
    /\ \A f \in AllFiles(m) \cup {Root} :
          FileAt(m, f).indirect # 0 => m[FileAt(m, f).indirect].kind \in {"zeroes", "ptrs"}
    /\ \A b \in DataBlock \ DirBlocks(m), j \in 1..BLKFILES : Empty(FileAt(m, <<b, j>>))

-----------------------------------------------------------------------------
(* As fsformat leaves it, without files.                                   *)
FsInit ==
    /\ disk = [b \in 1..(NBLOCKS - 1) |->
                 IF b = Super THEN [kind |-> "files", files |-> <<[Unused EXCEPT !.name = "/"]>>]
                 ELSE IF b = Bitmap THEN [kind |-> "bits", free |-> DataBlock] ELSE Zeroes]
    /\ mem = disk
    /\ saved = [n \in Name |-> {}]
    /\ open = {}
    /\ state = "formatted" /\ restarts = 0

(* The machine stops with d on the disk and starts again: of memory        *)
(* nothing is left.                                                        *)
StopAfter(d, touched) ==
    /\ restarts < MaxRestarts /\ restarts' = restarts + 1
    /\ disk' = d
    /\ mem' = d
    /\ saved' = [n \in Name |-> IF n \in touched THEN {} ELSE saved[n]]
    /\ open' = {}
    /\ state' = IF Haunted(d) THEN "haunted" ELSE IF Whole(d) THEN "restarted" ELSE "broken"

Going == state \in {"formatted", "restarted"}

(* Between two requests, or before the first write of one.                 *)
Stop == Going /\ StopAfter(disk, {})

(* What a stop may leave on the disk; one after the last write of a request*)
(* that ends comes as well after the request.                              *)
Stops(s) == s.stops \ ({disk} \cup IF s.haunted THEN {} ELSE {s.disk})

(* One request: s is the state it ends in, touched the files it changes,   *)
(* flushed those it puts on the disk, opened what it adds to opentab.      *)
(* file_flush leaves the directory out: only of a file that the directory  *)
(* on the disk leads to is it a promise.                                   *)
Request(s, touched, flushed, opened) ==
    /\ Going
    /\ \/ /\ ~s.haunted
          /\ mem' = s.mem /\ disk' = s.disk
          /\ saved' = [n \in Name |-> IF n \in touched THEN {}
                                      ELSE IF n \in flushed /\ Named(s.disk, n) = Named(mem, n)
                                           THEN Contents(mem, n) ELSE saved[n]]
          /\ open' = open \cup opened
          /\ UNCHANGED <<state, restarts>>
       \/ s.haunted /\ state' = "haunted" /\ UNCHANGED <<mem, disk, saved, open, restarts>>
       \/ \E d \in Stops(s) : StopAfter(d, touched)

(* serve_open keeps the File pointer, and so the file goes on being used   *)
(* after it was removed, and when its place has a new owner. The root is   *)
(* opened by nobody.                                                       *)
Found(s) == IF s.failed \/ s.file = NoFile THEN {} ELSE {s.file}

FileOpen(name) ==
    LET s == DirLookup(S, name) IN Request(s, {}, {}, Found(s))
Create(name) ==
    LET s == FileCreate(S, name) IN Request(s, {name}, {}, Found(s))
RemoveFile(name) == Request(FileRemove(S, name), {name}, {}, {})

NameOf(f) == FileAt(mem, f).name

SetSize(f, size) ==
    /\ size <= FileAt(mem, f).size + MaxGap
    /\ Request(FileSetSize(S, f, size), {NameOf(f)}, {}, {})
Write(f, n) ==
    /\ n <= FileAt(mem, f).size + 1 + MaxGap
    /\ Request(FileWrite(S, f, n), {NameOf(f)}, {}, {})
Read(f, n) ==
    /\ n <= FileAt(mem, f).size
    /\ Request(FileGetBlock(S, f, n), IF BlockOf(mem, f, n) = 0 THEN {NameOf(f)} ELSE {}, {}, {})
FlushFile(f) == Request(FileFlush(S, f), {}, {NameOf(f)}, {})
Sync == Request(FsSync(S), {}, Name, {})

FsNext ==
    \/ \E name \in Name : FileOpen(name) \/ Create(name) \/ RemoveFile(name)
    \/ \E f \in open :
          \/ FlushFile(f)
          \/ \E size \in 0..MaxSize[NameOf(f)] : SetSize(f, size)
          \/ \E n \in 1..MaxSize[NameOf(f)] : Write(f, n) \/ Read(f, n)
    \/ Sync \/ Stop

FsSpec == FsInit /\ [][FsNext]_fsVars

-----------------------------------------------------------------------------
(* In memory every block in use belongs to one place of one file, and the  *)
(* bitmap says so, through calls that fail on a full disk too; so reading  *)
(* a block never hits bc_pgfault's panic "reading free block". A restart   *)
(* may lose blocks, and only that. Nothing is claimed from the moment the  *)
(* directory takes in a block with old user data or block numbers in it    *)
(* ("haunted"): the code clears no such block (fs/fs.c:198), and they may  *)
(* spell files that have anybody's blocks.                                 *)
BlocksAccounted ==
    Going =>
        /\ OwnBlocks(mem, MAXFILESIZE)
        /\ state = "formatted" =>
               DataBlock \ FreeBlocks(mem)
                   = {BlockOf(mem, f, n) : f \in AllFiles(mem) \cup {Root}, n \in 0..MAXFILESIZE} \ {0}

(* Whatever write the machine stops before, no two File structures on the  *)
(* disk have a block in common, and none has a block that is free there;   *)
(* unless the directory there leads to such an old block. (Indirect blocks *)
(* are written after the File structure: DiskWhole does not hold.)         *)
DiskSound == state # "haunted" => OwnBlocks(disk, NDIRECT)

(* What was flushed stays on the disk until the file is changed, whatever  *)
(* becomes of other files, and a restart finds it; the same exception.     *)
FlushedSurvives ==
    state # "haunted" => \A n \in Name : saved[n] # {} => Contents(disk, n) = saved[n]

(* As DiskSound, of indirect blocks too.                                   *)
DiskWhole == Whole(disk)
===========================================================================
