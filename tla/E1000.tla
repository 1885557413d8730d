----------------------------- MODULE E1000 -----------------------------
(***************************************************************************)
(* The network card's two descriptor rings, kern/e1000.c.  The driver runs *)
(* under the big kernel lock, one call at a time; the device reads and     *)
(* writes descriptors and buffers meanwhile.  Each access of either to     *)
(* what they share is a step; the tail registers are the driver's alone.   *)
(*                                                                         *)
(* The device is external: it is modelled as far as the driver relies on   *)
(* it.  It owns the descriptors from head to tail, marks those it is done  *)
(* with (DD) and then moves its head; a ring with head = tail is empty to  *)
(* it.  Packets are never longer than a buffer (LPE is off), so that EOP   *)
(* comes with DD and E_RX_LONG does not happen.                            *)
(***************************************************************************)
EXTENDS Integers, Sequences, FiniteSets

CONSTANTS
    NTX,        (* E1000_NTX                                               *)
    NRX,        (* E1000_NRX                                               *)
    Packet,
    None

ASSUME E1000Assumption ==
    /\ NTX \in Nat \ {0} /\ NRX \in Nat \ {0, 1}
    /\ None \notin Packet

VARIABLES
    TDH, TDT,   (* the transmit ring's head and tail registers             *)
    txDD,       (* the DD bit of its descriptors                           *)
    tx_bufs,
    RDH, RDT,   (* the receive ring's                                      *)
    rxDD,
    rx_bufs,
    call,       (* where the driver is                                     *)
    data,       (* the packet e1000_transmit is to send                    *)
    got,        (* the packet e1000_receive returned last                 *)
    txdev,      (* where the device is with the descriptor TDH             *)
    sent,       (* the packet it put on the network last                   *)
    rxdev,      (* where the device is with the descriptor RDH             *)
    arriving    (* the packet it is about to store                         *)

txVars == <<TDH, TDT, txDD, tx_bufs, txdev, sent>>
rxVars == <<RDH, RDT, rxDD, rx_bufs, rxdev, arriving, got>>
vars == <<txVars, rxVars, call, data>>

(* e1000_attach.                                                           *)
Init ==
    /\ TDH = 0 /\ TDT = 0
    /\ txDD = [i \in 0..NTX-1 |-> TRUE]
    /\ tx_bufs = [i \in 0..NTX-1 |-> None]
    /\ RDH = 1 /\ RDT = 0
    /\ rxDD = [i \in 0..NRX-1 |-> FALSE]
    /\ rx_bufs = [i \in 0..NRX-1 |-> None]
    /\ call = "none" /\ data = None /\ got = None
    /\ txdev = "idle" /\ sent = None
    /\ rxdev = "idle" /\ arriving = None

-----------------------------------------------------------------------------
(* e1000_transmit. A call that returns E_TX_FULL changes nothing.          *)

(* Mutant: the descriptor is not looked at.                                *)
TransmitUnchecked(p) ==
    /\ call = "none"
    /\ call' = "tx_fill" /\ data' = p
    /\ UNCHANGED <<txVars, rxVars>>

Transmit(p) ==
    /\ call = "none"
    /\ txDD[TDT]
    /\ call' = "tx_fill" /\ data' = p
    /\ UNCHANGED <<txVars, rxVars>>

TxFill ==
    /\ call = "tx_fill"
    /\ tx_bufs' = [tx_bufs EXCEPT ![TDT] = data]
    /\ call' = "tx_clear"
    /\ UNCHANGED <<TDH, TDT, txDD, txdev, sent, rxVars, data>>

TxClear ==
    /\ call = "tx_clear"
    /\ txDD' = [txDD EXCEPT ![TDT] = FALSE]
    /\ call' = "tx_tail"
    /\ UNCHANGED <<TDH, TDT, tx_bufs, txdev, sent, rxVars, data>>

TxTail ==
    /\ call = "tx_tail"
    /\ TDT' = (TDT + 1) % NTX
    /\ call' = "none" /\ data' = None
    /\ UNCHANGED <<TDH, txDD, tx_bufs, txdev, sent, rxVars>>

-----------------------------------------------------------------------------
(* e1000_receive. A call that returns E_RX_EMPTY changes nothing.          *)

(* The descriptor the driver looks at: the one after the tail.             *)
Rdt == (RDT + 1) % NRX

Receive ==
    /\ call = "none"
    /\ rxDD[Rdt]
    /\ call' = "rx_wait"
    /\ UNCHANGED <<txVars, rxVars, data>>

(* The kernel spins, with the big lock, until the device has gone on.      *)
RxWait ==
    /\ call = "rx_wait"
    /\ Rdt # RDH
    /\ call' = "rx_copy"
    /\ UNCHANGED <<txVars, rxVars, data>>

(* Mutant: the buffer at the tail is copied.                               *)
RxCopyTail ==
    /\ call = "rx_copy"
    /\ got' = rx_bufs[RDT]
    /\ call' = "rx_clear"
    /\ UNCHANGED <<txVars, RDH, RDT, rxDD, rx_bufs, rxdev, arriving, data>>

RxCopy ==
    /\ call = "rx_copy"
    /\ got' = rx_bufs[Rdt]
    /\ call' = "rx_clear"
    /\ UNCHANGED <<txVars, RDH, RDT, rxDD, rx_bufs, rxdev, arriving, data>>

(* Mutant: the descriptor keeps its DD bit.                                *)
RxClearNothing ==
    /\ call = "rx_clear"
    /\ call' = "rx_tail"
    /\ UNCHANGED <<txVars, rxVars, data>>

RxClear ==
    /\ call = "rx_clear"
    /\ rxDD' = [rxDD EXCEPT ![Rdt] = FALSE]
    /\ call' = "rx_tail"
    /\ UNCHANGED <<txVars, RDH, RDT, rx_bufs, rxdev, arriving, got, data>>

RxTail ==
    /\ call = "rx_tail"
    /\ RDT' = Rdt
    /\ call' = "none"
    /\ UNCHANGED <<txVars, RDH, rxDD, rx_bufs, rxdev, arriving, got, data>>

-----------------------------------------------------------------------------
(* The device sends.                                                       *)

DevFetch ==
    /\ txdev = "idle" /\ TDH # TDT
    /\ txdev' = "read"
    /\ UNCHANGED <<TDH, TDT, txDD, tx_bufs, sent, rxVars, call, data>>

DevSend ==
    /\ txdev = "read"
    /\ sent' = tx_bufs[TDH]
    /\ txdev' = "done"
    /\ UNCHANGED <<TDH, TDT, txDD, tx_bufs, rxVars, call, data>>

DevSent ==
    /\ txdev = "done"
    /\ txDD' = [txDD EXCEPT ![TDH] = TRUE]
    /\ txdev' = "next"
    /\ UNCHANGED <<TDH, TDT, tx_bufs, sent, rxVars, call, data>>

DevTxHead ==
    /\ txdev = "next"
    /\ TDH' = (TDH + 1) % NTX
    /\ txdev' = "idle"
    /\ UNCHANGED <<TDT, txDD, tx_bufs, sent, rxVars, call, data>>

(* The device receives; without a descriptor it drops the packet.          *)

DevArrive(p) ==
    /\ rxdev = "idle" /\ RDH # RDT
    /\ rxdev' = "write" /\ arriving' = p
    /\ UNCHANGED <<txVars, RDH, RDT, rxDD, rx_bufs, got, call, data>>

DevStore ==
    /\ rxdev = "write"
    /\ rx_bufs' = [rx_bufs EXCEPT ![RDH] = arriving]
    /\ rxdev' = "done" /\ arriving' = None
    /\ UNCHANGED <<txVars, RDH, RDT, rxDD, got, call, data>>

DevStored ==
    /\ rxdev = "done"
    /\ rxDD' = [rxDD EXCEPT ![RDH] = TRUE]
    /\ rxdev' = "next"
    /\ UNCHANGED <<txVars, RDH, RDT, rx_bufs, arriving, got, call, data>>

DevRxHead ==
    /\ rxdev = "next"
    /\ RDH' = (RDH + 1) % NRX
    /\ rxdev' = "idle"
    /\ UNCHANGED <<txVars, RDT, rxDD, rx_bufs, arriving, got, call, data>>

-----------------------------------------------------------------------------
DriverStep ==
    TxFill \/ TxClear \/ TxTail \/ RxWait \/ RxCopy \/ RxClear \/ RxTail

DeviceSends == DevFetch \/ DevSend \/ DevSent \/ DevTxHead

DeviceStores == DevStore \/ DevStored \/ DevRxHead

Next ==
    \/ DriverStep \/ Receive \/ \E p \in Packet : Transmit(p)
    \/ DeviceSends \/ DeviceStores \/ \E p \in Packet : DevArrive(p)

(* The kernel and the device go on with what they have begun; the input    *)
(* environment polls for ever (net/input.c:22).                            *)
Fairness ==
    /\ WF_vars(DriverStep) /\ WF_vars(DeviceSends) /\ WF_vars(DeviceStores)
    /\ SF_vars(Receive)

Spec == Init /\ [][Next]_vars /\ Fairness

-----------------------------------------------------------------------------
ETypeOK ==
    /\ TDH \in 0..NTX-1 /\ TDT \in 0..NTX-1
    /\ txDD \in [0..NTX-1 -> BOOLEAN]
    /\ tx_bufs \in [0..NTX-1 -> Packet \cup {None}]
    /\ RDH \in 0..NRX-1 /\ RDT \in 0..NRX-1
    /\ rxDD \in [0..NRX-1 -> BOOLEAN]
    /\ rx_bufs \in [0..NRX-1 -> Packet \cup {None}]
    /\ call \in {"none", "tx_fill", "tx_clear", "tx_tail",
                 "rx_wait", "rx_copy", "rx_clear", "rx_tail"}
    /\ data \in Packet \cup {None} /\ got \in Packet \cup {None}
    /\ txdev \in {"idle", "read", "done", "next"} /\ sent \in Packet \cup {None}
    /\ rxdev \in {"idle", "write", "done", "next"} /\ arriving \in Packet \cup {None}

(* The driver and the device never use the same buffer at the same time:   *)
(* no packet is sent or handed on half written.                            *)
BuffersNotShared ==
    /\ ~(call = "tx_fill" /\ txdev = "read" /\ TDT = TDH)
    /\ ~(call = "rx_copy" /\ rxdev = "write" /\ Rdt = RDH)

(* The device always has its next descriptor: it never stores a packet in  *)
(* one that the driver has not read yet.                                   *)
NothingOverwritten == rxdev \in {"write", "done"} => ~rxDD[RDH]

InTx == Cardinality({i \in 0..NTX-1 : ~txDD[i]})
        - (IF call = "tx_tail" THEN 1 ELSE 0) - (IF txdev = "done" THEN 1 ELSE 0)

InRx == Cardinality({i \in 0..NRX-1 : rxDD[i]}) - (IF call = "rx_clear" THEN 1 ELSE 0)

FirstRx == IF call \in {"rx_clear", "rx_tail"} THEN Rdt + 1 ELSE Rdt

(* What goes out of what environments give to sys_net_try_send, and what of*)
(* the packets that come in they get from sys_net_receive: in order, each  *)
(* packet once and whole.  Nothing here says that an accepted packet goes  *)
(* out: a transmit ring that is filled to its last descriptor has head and *)
(* tail equal, which the device takes for an empty one, and so it stays.   *)
TxPackets == [j \in 1..InTx |-> tx_bufs[(TDT + NTX - InTx + j - 1) % NTX]]

RxPackets == [j \in 1..InRx |-> rx_bufs[(FirstRx + j - 1) % NRX]]

TxWire == INSTANCE Wire WITH Cap <- NTX, queue <- TxPackets, out <- sent

RxWire == INSTANCE Wire WITH Cap <- NRX - 1, queue <- RxPackets, out <- got

SendsInOrder == TxWire!Spec

ReceivesInOrder == RxWire!Spec

(* The kernel does not spin for ever in e1000_receive.                     *)
WaitEnds == call = "rx_wait" ~> call = "rx_copy"

=======================================================================
