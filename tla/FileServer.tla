--------------------------- MODULE FileServer ---------------------------
(***************************************************************************)
(* Open files: the file server's table (fs/serv.c) and the clients' file   *)
(* descriptors (lib/fd.c, lib/file.c). An open file is a page with a       *)
(* struct Fd that the server shares with whoever has it open; the server   *)
(* learns that it was closed from the page's reference count, which        *)
(* changes with every dup, close, fork and death of a client.              *)
(*                                                                         *)
(* A request is sent, served and answered in three steps, between which    *)
(* the other clients go on (module Ipc has the calls themselves). Files    *)
(* are module Fs; here they are names. Fork is one step (module CowFork):  *)
(* it knows nothing of shared pages and makes Fd pages copy-on-write too.  *)
(***************************************************************************)
EXTENDS Naturals, FiniteSets

CONSTANTS
    Client,
    First,          (* the one that runs at the start                      *)
    File,
    MAXOPEN, MAXFD,
    MaxGen,         (* bound: how often a slot of the table is used        *)
    Frame,          (* pages of memory                                     *)
    NextFrame(_),   (* those of the free ones that may be allocated next   *)
    None

Slot == 0..(MAXOPEN - 1)
Fdnum == 0..(MAXFD - 1)

ASSUME FileServerAssumption ==
    /\ First \in Client /\ MAXOPEN \in Nat \ {0} /\ MAXFD \in Nat \ {0} /\ MaxGen \in Nat
    /\ IsFiniteSet(Client) /\ None \notin Frame
    /\ \A S \in SUBSET Frame : NextFrame(S) \subseteq S

VARIABLES
    opentab,    (* o_fileid, o_file and the page at o_fd of every slot     *)
    id,         (* the fd_file.id in each frame                            *)
    fd,         (* the clients' descriptors: the frame mapped, whether it  *)
                (* is copy-on-write, and the file it was opened as         *)
    call,       (* what each client asks of the server, or None            *)
    serving,    (* the request being answered, or None                     *)
    live        (* the clients that run                                    *)

vars == <<opentab, id, fd, call, serving, live>>

Closed == [i \in Fdnum |-> None]

(* serve_init.                                                             *)
Init ==
    /\ opentab = [s \in Slot |-> [fileid |-> s, file |-> None, frame |-> None]]
    /\ id = [f \in Frame |-> 0]
    /\ fd = [c \in Client |-> Closed]
    /\ call = [c \in Client |-> None]
    /\ serving = None
    /\ live = {First}

Mappings(f) == {m \in Client \X Fdnum : fd[m[1]][m[2]] # None /\ fd[m[1]][m[2]].frame = f}

(* pp_ref of the page the server has at o_fd: its own mapping counts.      *)
pageref(s) ==
    IF opentab[s].frame = None THEN 0 ELSE 1 + Cardinality(Mappings(opentab[s].frame))

(* What was in a page is gone with its last mapping.                       *)
Kept(i) ==
    [f \in Frame |-> IF Mappings(f)' # {} \/ \E s \in Slot : opentab[s].frame = f THEN i[f] ELSE 0]

Free == {f \in Frame : Mappings(f) = {} /\ \A s \in Slot : opentab[s].frame # f}

-----------------------------------------------------------------------------
(* The clients. Descriptors are used by whoever runs and is not waiting    *)
(* for the server.                                                         *)
Runs(c) == c \in live /\ call[c] = None
Has(c, i) == fd[c][i] # None

Open(c, file) ==
    /\ Runs(c)
    /\ \E i \in Fdnum :
          /\ ~Has(c, i) /\ \A j \in Fdnum : j < i => Has(c, j)
          /\ call' = [call EXCEPT ![c] = [req |-> "open", fd |-> i, file |-> file]]
    /\ UNCHANGED <<opentab, id, fd, serving, live>>

(* close has the file flushed first. read, write, fstat and ftruncate send *)
(* such requests too, which change nothing here.                           *)
Close(c, i) ==
    /\ Runs(c) /\ Has(c, i)
    /\ call' = [call EXCEPT ![c] = [req |-> "flush", fd |-> i, file |-> None]]
    /\ UNCHANGED <<opentab, id, fd, serving, live>>

(* dup onto a descriptor that is closed, or was by its call of close.      *)
Dup(c, i, j) ==
    /\ Runs(c) /\ Has(c, i) /\ ~Has(c, j)
    /\ fd' = [fd EXCEPT ![c][j] = fd[c][i]]
    /\ UNCHANGED <<opentab, id, call, serving, live>>

(* The only call that writes to the Fd page; pgfault copies it if it must. *)
Seek(c, i) ==
    /\ Runs(c) /\ Has(c, i) /\ fd[c][i].cow
    /\ \E f \in NextFrame(Free) :
          /\ fd' = [fd EXCEPT ![c][i].frame = f, ![c][i].cow = FALSE]
          /\ id' = Kept([id EXCEPT ![f] = id[fd[c][i].frame]])
    /\ UNCHANGED <<opentab, call, serving, live>>

Fork(c, d) ==
    /\ Runs(c) /\ d \notin live
    /\ LET copy == [i \in Fdnum |-> IF Has(c, i) THEN [fd[c][i] EXCEPT !.cow = TRUE] ELSE None]
       IN fd' = [fd EXCEPT ![c] = copy, ![d] = copy]
    /\ live' = live \cup {d}
    /\ UNCHANGED <<opentab, id, call, serving>>

(* A client is destroyed while it does not wait for the server: the server *)
(* panics when it cannot answer.                                           *)
Killed(c) ==
    /\ Runs(c)
    /\ fd' = [fd EXCEPT ![c] = Closed]
    /\ id' = Kept(id)
    /\ live' = live \ {c}
    /\ UNCHANGED <<opentab, call, serving>>

-----------------------------------------------------------------------------
(* The server.                                                             *)
SlotOf(fileid) == opentab[fileid % MAXOPEN]

(* Mutant: an id is as good as its slot.                                   *)
LookupSlot(fileid) == pageref(fileid % MAXOPEN) # 1

Lookup(fileid) == pageref(fileid % MAXOPEN) # 1 /\ SlotOf(fileid).fileid = fileid

(* Mutant: counts its own mapping out.                                     *)
AvailableTooSoon(s) == pageref(s) <= 2

Available(s) == pageref(s) <= 1

(* openfile_alloc, and serve_open's use of it: path is whether the path    *)
(* can be opened.                                                          *)
OpenFile(c, path) ==
    \E s \in Slot :
        /\ Available(s) /\ \A t \in Slot : t < s => ~Available(t)
        /\ opentab[s].fileid < MaxGen * MAXOPEN
        /\ \E f \in IF pageref(s) = 0 THEN NextFrame(Free) ELSE {opentab[s].frame} :
              LET newid == opentab[s].fileid + MAXOPEN IN
              /\ opentab' = [opentab EXCEPT ![s] = [fileid |-> newid, frame |-> f,
                                                    file |-> IF path THEN call[c].file ELSE @.file]]
              /\ id' = [id EXCEPT ![f] = IF path THEN newid ELSE 0]
              /\ serving' = [client |-> c, page |-> IF path THEN f ELSE None]

ServeOpen(c) ==
    /\ serving = None /\ call[c] # None /\ call[c].req = "open"
    /\ \/ \E path \in BOOLEAN : OpenFile(c, path)
       \/ /\ \A s \in Slot : ~Available(s)
          /\ serving' = [client |-> c, page |-> None]
          /\ UNCHANGED <<opentab, id>>
    /\ UNCHANGED <<fd, call, live>>

(* A request for an open file, accepted or not.                            *)
ServeFlush(c) ==
    /\ serving = None /\ call[c] # None /\ call[c].req = "flush"
    /\ serving' = [client |-> c, page |-> None]
    /\ UNCHANGED <<opentab, id, fd, call, live>>

(* ipc_send's answer, which maps the Fd page; close goes on to unmap its.  *)
Answer ==
    /\ serving # None
    /\ LET c == serving.client
           i == call[c].fd
       IN /\ fd' = [fd EXCEPT ![c][i] =
                       IF call[c].req = "flush" THEN None
                       ELSE IF serving.page = None THEN @
                       ELSE [frame |-> serving.page, cow |-> FALSE, file |-> call[c].file]]
          /\ call' = [call EXCEPT ![c] = None]
    /\ id' = Kept(id)
    /\ serving' = None
    /\ UNCHANGED <<opentab, live>>

Next ==
    \/ \E c \in Client :
          \/ \E file \in File : Open(c, file)
          \/ \E i \in Fdnum : \/ Close(c, i) \/ Seek(c, i)
                              \/ \E j \in Fdnum : Dup(c, i, j)
          \/ \E d \in Client : Fork(c, d)
          \/ Killed(c) \/ ServeOpen(c) \/ ServeFlush(c)
    \/ Answer

Spec == Init /\ [][Next]_vars

-----------------------------------------------------------------------------
(* Whatever happened to the pages since, a request that the server accepts *)
(* reaches the file the descriptor was opened as.                          *)
RightFile ==
    \A c \in Client, i \in Fdnum :
        Has(c, i) /\ Lookup(id[fd[c][i].frame]) => SlotOf(id[fd[c][i].frame]).file = fd[c][i].file

(* While a descriptor shares its page with the server the file stays open: *)
(* the slot is not given to another open, and requests are accepted.       *)
OpenStaysOpen ==
    \A c \in Client, i \in Fdnum, s \in Slot :
        Has(c, i) /\ fd[c][i].frame = opentab[s].frame
            => id[fd[c][i].frame] = opentab[s].fileid /\ Lookup(opentab[s].fileid)

(* fs/serv.c:20-23: the Fd page "is shared with any environments that have *)
(* the file open".                                                         *)
FdShared ==
    \A c \in Client, i \in Fdnum :
        Has(c, i) => \E s \in Slot : fd[c][i].frame = opentab[s].frame
=======================================================================
