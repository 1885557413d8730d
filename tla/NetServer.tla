----------------------------- MODULE NetServer -----------------------------
(* The network server (net/serv.c) and the threads, semaphores and mailboxes  *)
(* lwIP runs on (net/lwip/jos/arch/thread.c, sys_arch.c).  Everything runs in *)
(* one environment: threads hand over the processor in thread_yield only, and *)
(* ipc_recv stops all of them.  An action is what the running thread does from*)
(* one call of the library to the next; only requests come from outside.      *)
(*                                                                             *)
(* The server's thread for a request is named by the buffer that holds the    *)
(* request's page, as no two live requests share one (RequestPagesNotShared).  One *)
(* connection is open all the time, so that no semaphore is ever freed and the*)
(* generation test of sys_arch_sem_wait has nothing to find.  A request is    *)
(*    recv   lwip_recv: fetch a packet from the connection's mailbox, and tell *)
(*           the tcpip thread of it when the connection is TCP (do_recv)       *)
(*    input  a packet from the driver: post what is in it to the mailbox       *)
(*    api    bind, send, ...: post to the tcpip thread, wait for op_completed. *)
(* The tcpip thread answers most calls when it runs them.  A TCP connect, send *)
(* or close may be left to the network: op_completed is signalled later, from  *)
(* a callback in the thread of an input or of net_timer.  A connection has one *)
(* such call at a time (conn->state and write_msg have room for no other).     *)
EXTENDS Integers, Sequences, FiniteSets

CONSTANTS QUEUE_SIZE,   \* request buffers
          MBOXSLOTS,    \* places in a mailbox
          MaxYields,    \* turns serve() gives away before it blocks (32)
          NClients,     \* environments that call, one call at a time each
          Packets       \* what the driver delivers

ASSUME NetAssumption ==
    /\ QUEUE_SIZE \in Nat \ {0} /\ MBOXSLOTS \in Nat \ {0}
    /\ MaxYields \in Nat /\ NClients \in Nat

VARIABLES buse,         \* which request buffers are in use
          va,           \* the buffer main receives into
          yields,       \* main's counter of turns given away
          queue, cur,   \* thread_queue and the running thread
          thread,       \* what a thread does and waits for
          sem, mbox,    \* sems[] and mboxes[]
          conn,         \* the call that the network may have to finish
          timer,        \* the timer environment
          panicked      \* the server panicked

vars == <<buse, va, yields, queue, cur, thread, sem, mbox, conn, timer, panicked>>

Buffers == 0 .. QUEUE_SIZE - 1
Tcpip   == -1
Main    == -2
NetTimer == -3                       \* one thread for the three of net_timer
Threads == Buffers \cup {Tcpip, Main, NetTimer}

Queued(m) == <<m, "queued_msg">>
Free(m)   == <<m, "free_msg">>
Completed == <<"conn", "op_completed">>
Sems      == {Queued(m) : m \in {"recv", "tcpip"}} \cup {Free(m) : m \in {"recv", "tcpip"}}
                \cup {Completed}
NoSem     == <<>>

(* What a call asks of the tcpip thread: something it answers at once, or some-*)
(* thing that may have to wait for the network.                                *)
Now   == 0
Later == -1

Sem(n)     == [counter |-> n, waiters |-> 0]
Asleep     == [counter |-> 0, waiters |-> 1]   \* cur_v of every waiter
Mbox       == [head |-> -1, nextq |-> 0, msg |-> [i \in 0 .. MBOXSLOTS - 1 |-> Now]]
Thread(pc) == [pc |-> pc, box |-> "recv", msg |-> Now, on |-> NoSem, wakeup |-> FALSE]
Dead       == Thread("dead")

Init == /\ buse = [b \in Buffers |-> FALSE] /\ va = 0 /\ yields = 0
        /\ queue = <<Tcpip, NetTimer>> /\ cur = Main
        /\ thread = [t \in Threads |->
              IF t = Main THEN Thread("flush")
              ELSE IF t = Tcpip
                   THEN [Thread("fetch") EXCEPT !.box = "tcpip", !.on = Queued("tcpip")]
              ELSE IF t = NetTimer THEN Thread("wait") ELSE Dead]
        /\ sem = [s \in Sems |-> CASE s = Queued("tcpip") -> Asleep
                                   [] s[2] = "free_msg"    -> Sem(MBOXSLOTS)
                                   [] OTHER                -> Sem(0)]
        /\ mbox = [m \in {"recv", "tcpip"} |-> Mbox]
        /\ conn = "none" /\ timer = "idle" /\ panicked = FALSE

-----------------------------------------------------------------------------
(* Threads. *)

(* thread_yield: the running thread goes to the end of the queue. *)
Yield == /\ queue' = Append(Tail(queue), cur)
         /\ cur' = Head(queue)

(* The thread's next step, when it keeps the processor. *)
Goto(pc) == thread' = [thread EXCEPT ![cur].pc = pc]

(* thread_wakeup *)
Woken(f, s) == [t \in Threads |-> IF f[t].on = s THEN [f[t] EXCEPT !.wakeup = TRUE] ELSE f[t]]

\* Mutant: the semaphore is handed to the sleeper, which tests it again.
SignalHandsOff(f, s) ==
    /\ sem' = [sem EXCEPT ![s] = IF @.waiters = 0 THEN Sem(@.counter + 1) ELSE Sem(@.counter)]
    /\ thread' = IF sem[s].waiters = 0 THEN f ELSE Woken(f, s)

(* sys_sem_signal, by a thread that leaves the threads as f. *)
Signal(f, s) == /\ sem' = [sem EXCEPT ![s] = Sem(@.counter + 1)]
                /\ thread' = IF sem[s].waiters = 0 THEN f ELSE Woken(f, s)

(* The semaphore that the running thread's call waits for, and what follows. *)
Wanted == LET c == thread[cur] IN
          CASE c.pc = "fetch" -> Queued(c.box)
            [] c.pc = "post"  -> Free(c.box)
            [] c.pc = "await" -> Completed
            [] OTHER          -> NoSem

AfterWait == CASE thread[cur].pc = "fetch" -> "take"
               [] thread[cur].pc = "post"  -> "store"
               [] thread[cur].pc = "await" -> "reply"

(* sys_arch_sem_wait: take the semaphore, *)
SemTake == /\ Wanted # NoSem /\ thread[cur].on = NoSem
           /\ sem[Wanted].counter > 0
           /\ sem' = [sem EXCEPT ![Wanted].counter = @ - 1]
           /\ Goto(AfterWait)
           /\ UNCHANGED <<buse, va, yields, queue, cur, mbox, conn, timer, panicked>>

(* or announce oneself and go to sleep in thread_wait. *)
SemSleep == /\ Wanted # NoSem /\ thread[cur].on = NoSem
            /\ sem[Wanted].counter = 0
            /\ sem' = [sem EXCEPT ![Wanted].waiters = 1]
            /\ thread' = [thread EXCEPT ![cur].on = Wanted, ![cur].wakeup = FALSE]
            /\ Yield
            /\ UNCHANGED <<buse, va, yields, mbox, conn, timer, panicked>>

\* Mutant: sys_arch_sem_wait does not look at the counter again once woken.
PollTrusting ==
    /\ thread[cur].on # NoSem
    /\ IF sem[thread[cur].on] # Asleep \/ thread[cur].wakeup
       THEN /\ thread' = [thread EXCEPT ![cur].on = NoSem, ![cur].wakeup = FALSE,
                                         ![cur].pc = AfterWait]
            /\ sem' = [sem EXCEPT ![thread[cur].on].counter = @ - 1]
            /\ UNCHANGED <<queue, cur>>
       ELSE Yield /\ UNCHANGED <<thread, sem>>
    /\ UNCHANGED <<buse, va, yields, mbox, conn, timer, panicked>>

(* thread_wait, each time the sleeper is given its turn: leave the loop when  *)
(* the semaphore changed or somebody woke it, pass the turn on otherwise.     *)
Poll == /\ thread[cur].on # NoSem
        /\ IF sem[thread[cur].on] # Asleep \/ thread[cur].wakeup
           THEN /\ thread' = [thread EXCEPT ![cur].on = NoSem, ![cur].wakeup = FALSE]
                /\ UNCHANGED <<queue, cur>>
           ELSE Yield /\ UNCHANGED thread
        /\ UNCHANGED <<buse, va, yields, sem, mbox, conn, timer, panicked>>

(* The rest of sys_mbox_trypost, once a place was granted; an input is done,  *)
(* a caller of the tcpip thread (sys_mbox_post) asserts that it worked.       *)
Post == LET c == thread[cur]  b == mbox[c.box]
            next == [thread EXCEPT ![cur].pc = IF c.box = "recv" THEN "done" ELSE "await"] IN
        /\ c.pc = "store"
        /\ IF b.nextq = b.head
           THEN /\ thread' = next /\ panicked' = (c.box = "tcpip")
                /\ UNCHANGED <<sem, mbox>>
           ELSE /\ mbox' = [mbox EXCEPT ![c.box] =
                      [head  |-> IF b.head = -1 THEN b.nextq ELSE b.head,
                       nextq |-> (b.nextq + 1) % MBOXSLOTS,
                       msg   |-> [b.msg EXCEPT ![b.nextq] = c.msg]]]
                /\ Signal(next, Queued(c.box))
                /\ UNCHANGED panicked
        /\ UNCHANGED <<buse, va, yields, queue, cur, conn, timer>>

(* What the fetcher does next.  The tcpip thread runs the call; netconn_recv   *)
(* tells the stack that data was taken from a TCP connection that is open.     *)
Told == [thread[cur] EXCEPT !.pc = "post", !.box = "tcpip"]
Fetched(x) == IF cur = Tcpip THEN {[thread[cur] EXCEPT !.pc = "reply", !.msg = x]}
              ELSE {Told, [thread[cur] EXCEPT !.pc = "reply"]}

(* The rest of sys_arch_mbox_fetch, once a message was granted.  (The model   *)
(* clears the place, which nobody reads before it is stored in again.)         *)
Fetch == LET c == thread[cur]  b == mbox[c.box]  up == (b.head + 1) % MBOXSLOTS IN
         /\ c.pc = "take"
         /\ IF b.head = -1
            THEN panicked' = TRUE /\ UNCHANGED <<thread, sem, mbox>>
            ELSE /\ mbox' = [mbox EXCEPT ![c.box].head = IF up = b.nextq THEN -1 ELSE up,
                                          ![c.box].msg[b.head] = Now]
                 /\ \E next \in Fetched(b.msg[b.head]) :
                        Signal([thread EXCEPT ![cur] = next], Free(c.box))
                 /\ UNCHANGED panicked
         /\ UNCHANGED <<buse, va, yields, queue, cur, conn, timer>>

(* tcpip_thread has run the call it fetched: the call signals its completion, *)
Ran == [thread EXCEPT ![cur].pc = "fetch", ![cur].msg = Now]

Complete == /\ cur = Tcpip /\ thread[cur].pc = "reply"
            /\ Signal(Ran, Completed)
            /\ conn' = IF thread[cur].msg = Later THEN "none" ELSE conn
            /\ UNCHANGED <<buse, va, yields, queue, cur, mbox, timer, panicked>>

(* or do_writemore, do_connect or do_close_internal leaves it to the network.  *)
Leave == /\ cur = Tcpip /\ thread[cur].pc = "reply" /\ thread[cur].msg = Later
         /\ thread' = Ran /\ conn' = "left"
         /\ UNCHANGED <<buse, va, yields, queue, cur, sem, mbox, timer, panicked>>

(* ip_input finds something to post in the packet (recv_tcp, recv_udp, err_tcp)*)
(* or nothing; before or after that, or when a timer of TCP's goes off, a call *)
(* that was left is finished (sent_tcp, do_connected, err_tcp, poll_tcp).      *)
Demux == /\ thread[cur].pc = "input"
         /\ Goto("post") \/ Goto("done")
         /\ UNCHANGED <<buse, va, yields, queue, cur, sem, mbox, conn, timer, panicked>>

CallBack == /\ thread[cur].pc \in {"input", "done", "wait"} /\ conn = "left"
            /\ Signal(thread, Completed)
            /\ conn' = "none"
            /\ UNCHANGED <<buse, va, yields, queue, cur, mbox, timer, panicked>>

(* net_timer waits for nothing but the time, and passes its turn on. *)
TimerTurn == /\ cur = NetTimer
             /\ Yield
             /\ UNCHANGED <<buse, va, yields, thread, sem, mbox, conn, timer, panicked>>

-----------------------------------------------------------------------------
(* The server. *)

(* The end of serve_thread: ipc_send to the caller unless it was an input,    *)
(* put_buffer, and thread_halt.                                               *)
Finish == /\ cur \in Buffers /\ thread[cur].pc \in {"reply", "done"}
          /\ buse' = [buse EXCEPT ![cur] = FALSE]
          /\ thread' = [thread EXCEPT ![cur] = Dead]
          /\ cur' = Head(queue) /\ queue' = Tail(queue)
          /\ UNCHANGED <<va, yields, sem, mbox, conn, timer, panicked>>

\* Mutant: serve() blocks without looking for woken threads.
PendingIgnored == FALSE

(* serve() gives its turn away while threads were woken, then takes a buffer  *)
(* (get_buffer panics when there is none) and blocks in ipc_recv.             *)
Pending == \E t \in Threads : thread[t].wakeup

GiveTurn == /\ cur = Main /\ thread[Main].pc = "flush"
            /\ Pending /\ yields < MaxYields
            /\ yields' = yields + 1
            /\ Yield
            /\ UNCHANGED <<buse, va, thread, sem, mbox, conn, timer, panicked>>

GetBuffer == /\ cur = Main /\ thread[Main].pc = "flush"
             /\ ~(Pending /\ yields < MaxYields)
             /\ yields' = 0
             /\ IF \A b \in Buffers : buse[b]
                THEN panicked' = TRUE /\ UNCHANGED <<va, buse, thread>>
                ELSE /\ va' = CHOOSE b \in Buffers : ~buse[b] /\ \A c \in 0 .. b - 1 : buse[c]
                     /\ buse' = [buse EXCEPT ![va'] = TRUE]
                     /\ Goto("recv")
                     /\ UNCHANGED panicked
             /\ UNCHANGED <<queue, cur, sem, mbox, conn, timer>>

Receiving == cur = Main /\ thread[Main].pc = "recv"

(* process_timer gives the other threads a turn, then answers. *)
ReceiveTimer == /\ Receiving /\ timer = "sent"
                /\ timer' = "waiting"
                /\ Goto("timer")
                /\ Yield
                /\ UNCHANGED <<buse, va, yields, sem, mbox, conn, panicked>>

AnswerTimer == /\ cur = Main /\ thread[Main].pc = "timer"
               /\ timer' = "idle"
               /\ buse' = [buse EXCEPT ![va] = FALSE]
               /\ Goto("flush")
               /\ UNCHANGED <<va, yields, queue, cur, sem, mbox, conn, panicked>>

(* A request without a page: the buffer stays in use. *)
ReceiveNoPage == /\ Receiving
                 /\ Goto("flush")
                 /\ UNCHANGED <<buse, va, yields, queue, cur, sem, mbox, conn, timer, panicked>>

\* Mutant: the buffer is put back when the request is handed to its thread.
ServePutEarly(t) ==
    /\ Receiving
    /\ buse' = [buse EXCEPT ![va] = FALSE]
    /\ thread' = [thread EXCEPT ![va] = t, ![Main].pc = "flush"]
    /\ queue' = Append(Tail(Append(queue, va)), Main)
    /\ cur' = Head(queue)
    /\ UNCHANGED <<va, yields, sem, mbox, timer, panicked>>

(* Any other request gets a thread of its own, and a turn. *)
Serve(t) == /\ Receiving
            /\ thread' = [thread EXCEPT ![va] = t, ![Main].pc = "flush"]
            /\ queue' = Append(Tail(Append(queue, va)), Main)
            /\ cur' = Head(queue)
            /\ UNCHANGED <<buse, va, yields, sem, mbox, timer, panicked>>

Input(t)      == t.box = "recv" /\ t.pc \in {"input", "post", "store", "done"}
ClientIsFree  == Cardinality({b \in Buffers : thread[b] # Dead /\ ~Input(thread[b])}) < NClients
ReceiveRecv   == ClientIsFree /\ Serve(Thread("fetch")) /\ UNCHANGED conn
ReceiveApi    == /\ ClientIsFree
                 /\ \/ /\ Serve([Thread("post") EXCEPT !.box = "tcpip"]) /\ UNCHANGED conn
                    \/ /\ conn = "none" /\ conn' = "made"
                       /\ Serve([Thread("post") EXCEPT !.box = "tcpip", !.msg = Later])
ReceiveInput  == /\ \E p \in Packets : Serve([Thread("input") EXCEPT !.msg = p])
                 /\ UNCHANGED conn

(* timer(): the interval passed, the next NSREQ_TIMER is sent. *)
Tick == /\ timer = "idle"
        /\ timer' = "sent"
        /\ UNCHANGED <<buse, va, yields, queue, cur, thread, sem, mbox, conn, panicked>>

-----------------------------------------------------------------------------
Receive == ReceiveTimer \/ ReceiveNoPage \/ ReceiveRecv \/ ReceiveApi \/ ReceiveInput
Run     == SemTake \/ SemSleep \/ Poll \/ Post \/ Fetch \/ Complete \/ Leave
             \/ Demux \/ CallBack \/ TimerTurn \/ Finish
             \/ GiveTurn \/ GetBuffer \/ AnswerTimer
Stopped == panicked /\ UNCHANGED vars

Next == (~panicked /\ (Run \/ Receive \/ Tick)) \/ Stopped

(* The server environment is scheduled, a message that is there is received,  *)
(* and the timer environment sends the next one when its time has come.       *)
Fairness == WF_vars(~panicked /\ Run) /\ WF_vars(~panicked /\ Receive) /\ WF_vars(~panicked /\ Tick)
Spec == Init /\ [][Next]_vars /\ Fairness

-----------------------------------------------------------------------------
(* The messages of a mailbox, oldest first; head = nextq is a full ring. *)
Content(m) ==
    LET b == mbox[m]
        n == IF b.head = b.nextq THEN MBOXSLOTS ELSE (b.nextq + MBOXSLOTS - b.head) % MBOXSLOTS
    IN  IF b.head = -1 THEN <<>>
        ELSE [i \in 1 .. n |-> b.msg[(b.head + i - 1) % MBOXSLOTS]]

At(pc, m) == Cardinality({t \in Threads : thread[t].pc = pc /\ thread[t].box = m})

(* The two semaphores and the ring of a connection's mailbox are the bounded   *)
(* queue lwIP asks its port for: a fetcher let in finds a message (the panic   *)
(* of sys_arch.c 215 never happens), a poster its place, in the order posted.  *)
Queue == INSTANCE BoundedQueue WITH N <- MBOXSLOTS, Messages <- Packets,
            q <- Content("recv"), puts <- At("store", "recv"), gets <- At("take", "recv")
ImplementsQueue == Queue!Spec

(* "ipc_recv will block the entire process, so we flush all pending work from  *)
(* other threads" (serv.c 264-266): when main blocks, every other thread sleeps*)
(* and none sleeps on a semaphore it could take.                               *)
NothingPendingWhenBlocked ==
    Receiving => \A t \in Threads \ {Main, NetTimer} :
        thread[t] # Dead => /\ thread[t].on # NoSem
                            /\ sem[thread[t].on].counter = 0

(* The page a client's request is mapped at belongs to one request from        *)
(* get_buffer to put_buffer: main never receives over a request that a sleeping*)
(* thread will still read and answer in.                                       *)
RequestPagesNotShared ==
    /\ \A b \in Buffers : thread[b] # Dead => buse[b]
    /\ thread[Main].pc \in {"recv", "timer"} => buse[va] /\ thread[va] = Dead

(* A call that goes through the tcpip thread is answered or left to the        *)
(* network, unless the server panics: the post, its wakeup, the completion and *)
(* its wakeup all get turns, whoever signals.                                  *)
LeftToNetwork(b) == thread[b].pc = "await" /\ conn = "left"
CallAnswered ==
    \A b \in Buffers :
        (thread[b].box = "tcpip") ~> (thread[b] = Dead \/ LeftToNetwork(b) \/ panicked)
=============================================================================
