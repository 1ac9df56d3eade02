----------------------------- MODULE Ethernetif -----------------------------
(***************************************************************************)
(* The Ethernet driver of lwIP's port (ethernetif.c), the descriptor       *)
(* handling it calls (gd32h7xx_enet.c) and the interrupt handler           *)
(* (gd32h7xx_it.c).  Frames are numbered.                                  *)
(*                                                                         *)
(* Frames are received by ethernetif_input, the task of highest priority,  *)
(* and posted to the mailbox of the tcpip thread.  They are sent by every  *)
(* task that calls lwIP: the tcpip thread, and the two application tasks,  *)
(* which call the raw interface directly.                                  *)
(***************************************************************************)
EXTENDS Integers, Sequences, FiniteSets

CONSTANTS
    RxNum, TxNum,           \* ENET_RXBUF_NUM, ENET_TXBUF_NUM
    Pool, MboxSize,         \* PBUF_POOL_SIZE, TCPIP_MBOX_SIZE
    Senders, Priority,      \* the tasks that send, and their priorities
    MaxRx, MaxTx            \* bounds: frames received and sent

ASSUME EthAssumption ==
    /\ {RxNum, TxNum, Pool, MboxSize, MaxRx, MaxTx} \subseteq Nat \ {0}
    /\ IsFiniteSet(Senders)
    /\ Priority \in [Senders -> Nat]
    /\ \A s, t \in Senders : Priority[s] = Priority[t] => s = t

VARIABLES
    arrived, rxdesc, rx_dma, dma_current_rxdesc,    \* frames so far; descriptors, 0 is DAV
    rs, isr, g_rx_semaphore,                        \* flag RS, handler between test and clear
    rx, p, pool, mbox, held, handed,                \* ethernetif_input, pbufs, lwIP; history
    failed,                 \* history: a frame was dropped and nothing has arrived since
    txdesc, tx_dma, dma_current_txdesc, wire, queued,   \* descriptors, 0 is not DAV; history
    s_tx_semaphore, count, pc, handle               \* handle, 0 is NULL; the senders

rxVars == << arrived, rxdesc, rx_dma, dma_current_rxdesc, rs, isr, g_rx_semaphore, rx, p, pool, mbox,
             held, handed, failed >>
txVars == << txdesc, tx_dma, dma_current_txdesc, wire, queued, s_tx_semaphore, count, pc, handle >>
vars == << rxVars, txVars >>

Handles == 1 .. Cardinality(Senders)

Init ==
    /\ arrived = 0 /\ rxdesc = [i \in 0 .. RxNum - 1 |-> 0] /\ rx_dma = 0 /\ dma_current_rxdesc = 0
    /\ rs = FALSE /\ isr = FALSE /\ g_rx_semaphore = 0
    /\ rx = "wait" /\ p = 0 /\ pool = Pool /\ mbox = << >> /\ held = 0 /\ handed = << >> /\ failed = FALSE
    /\ txdesc = [i \in 0 .. TxNum - 1 |-> 0] /\ tx_dma = 0 /\ dma_current_txdesc = 0
    /\ wire = 0 /\ queued = 0
    /\ s_tx_semaphore = 0 /\ count = [h \in Handles |-> 0]
    /\ pc = [s \in Senders |-> "idle"] /\ handle = [s \in Senders |-> 0]

(***************************************************************************)
(* Scheduling.  Inside SYS_ARCH_PROTECT nothing runs but the DMA.          *)
(***************************************************************************)
RxReady == rx # "wait" \/ g_rx_semaphore = 1

Ready(s) == pc[s] \notin {"idle", "blocked"} \/ (pc[s] = "blocked" /\ count[handle[s]] = 1)

Protected == rx = "release" \/ \E s \in Senders : pc[s] = "fill"

\* the tcpip thread, which also waits for its mailbox
Tcpip == CHOOSE s \in Senders : \A t \in Senders : Priority[t] <= Priority[s]

TcpipIdle == ~isr /\ ~Protected /\ ~RxReady /\ pc[Tcpip] = "idle"

Runs(s) ==
    /\ ~isr
    /\ pc[s] = "fill" \/ (~Protected /\ ~RxReady)
    /\ \A t \in Senders : Priority[t] > Priority[s] => (~Ready(t) \/ pc[s] = "fill")
    /\ s = Tcpip \/ mbox = << >> \/ pc[Tcpip] # "idle"

(***************************************************************************)
(* Receiving                                                               *)
(***************************************************************************)
\* the DMA: a frame goes into the next descriptor, or is missed
FrameArrives ==
    /\ arrived < MaxRx
    /\ arrived' = arrived + 1
    /\ IF rxdesc[rx_dma] = 0
         THEN /\ rxdesc' = [rxdesc EXCEPT ![rx_dma] = arrived + 1]
              /\ rx_dma' = (rx_dma + 1) % RxNum
              /\ rs' = TRUE
              /\ failed' = FALSE
         ELSE UNCHANGED << rxdesc, rx_dma, rs, failed >>
    /\ UNCHANGED << dma_current_rxdesc, isr, g_rx_semaphore, rx, p, pool, mbox, held, handed, txVars >>

\* ENET0_IRQHandler: the semaphore is given for a received frame ...
Irq ==
    /\ rs /\ ~isr /\ ~Protected
    /\ isr' = TRUE
    /\ g_rx_semaphore' = 1
    /\ UNCHANGED << arrived, rxdesc, rx_dma, dma_current_rxdesc, rs, rx, p, pool, mbox, held, handed,
                    failed, txVars >>

\* ... and the flag is cleared.
IrqClear ==
    /\ isr
    /\ isr' = FALSE
    /\ rs' = FALSE
    /\ UNCHANGED << arrived, rxdesc, rx_dma, dma_current_rxdesc, g_rx_semaphore, rx, p, pool, mbox, held,
                    handed, failed, txVars >>

\* ethernetif_input takes the semaphore.
RxTake ==
    /\ ~isr /\ ~Protected
    /\ rx = "wait" /\ g_rx_semaphore = 1
    /\ g_rx_semaphore' = 0
    /\ rx' = "length"
    /\ UNCHANGED << arrived, rxdesc, rx_dma, dma_current_rxdesc, rs, isr, p, pool, mbox, held, handed,
                    failed, txVars >>

\* low_level_input: the length of the frame, 0 for a descriptor of the DMA; a pbuf, and the copy ...
RxLength ==
    LET frame == rxdesc[dma_current_rxdesc]
        got == frame # 0 /\ pool > 0
    IN  /\ ~isr /\ ~Protected
        /\ rx = "length"
        /\ p' = IF got THEN frame ELSE 0
        /\ pool' = IF got THEN pool - 1 ELSE pool
        /\ rx' = "release"
        /\ UNCHANGED << arrived, rxdesc, rx_dma, dma_current_rxdesc, rs, isr, g_rx_semaphore, mbox, held,
                        handed, failed, txVars >>

\* mutant: the descriptor is passed on whoever owns it
IsReceivedAlways(i) == TRUE

\* the test of DAV in enet_frame_receive
IsReceived(i) == rxdesc[i] # 0

\* ... and the descriptor goes back to the DMA, also when no pbuf was found, or when the frame came
\* after its length had been read.
RxRelease ==
    LET i == dma_current_rxdesc
    IN  /\ rx = "release"
        /\ IF IsReceived(i)
             THEN /\ rxdesc' = [rxdesc EXCEPT ![i] = 0]
                  /\ dma_current_rxdesc' = (i + 1) % RxNum
             ELSE UNCHANGED << rxdesc, dma_current_rxdesc >>
        /\ failed' = (failed \/ (p = 0 /\ rxdesc[i] # 0))
        /\ rx' = IF p = 0 THEN "wait" ELSE "input"
        /\ UNCHANGED << arrived, rx_dma, rs, isr, g_rx_semaphore, p, pool, mbox, held, handed, txVars >>

\* mutant: one frame for each take of the semaphore
AfterInputWait == "wait"

\* goto TRY_GET_NEXT_FRAME
AfterInput == "length"

\* mutant: the pbuf of a refused frame is forgotten
FreedNot == pool

\* pbuf_free
Freed == pool + 1

\* tcpip_input: posted to the mailbox, or freed
RxInput ==
    /\ ~isr /\ ~Protected
    /\ rx = "input"
    /\ p' = 0
    /\ IF Len(mbox) < MboxSize
         THEN /\ mbox' = Append(mbox, p)
              /\ rx' = AfterInput
              /\ UNCHANGED << pool, failed >>
         ELSE /\ pool' = Freed
              /\ rx' = "wait"
              /\ failed' = TRUE
              /\ UNCHANGED mbox
    /\ UNCHANGED << arrived, rxdesc, rx_dma, dma_current_rxdesc, rs, isr, g_rx_semaphore, held, handed, txVars >>

\* the tcpip thread takes a frame, and lwIP frees its pbuf some time later
Handle ==
    /\ TcpipIdle
    /\ mbox # << >>
    /\ mbox' = Tail(mbox)
    /\ handed' = Append(handed, Head(mbox))
    /\ held' = held + 1
    /\ UNCHANGED << arrived, rxdesc, rx_dma, dma_current_rxdesc, rs, isr, g_rx_semaphore, rx, p, pool,
                    failed, txVars >>

PbufFree ==
    /\ TcpipIdle
    /\ held > 0
    /\ held' = held - 1
    /\ pool' = pool + 1
    /\ UNCHANGED << arrived, rxdesc, rx_dma, dma_current_rxdesc, rs, isr, g_rx_semaphore, rx, p, mbox,
                    handed, failed, txVars >>

Receive == RxTake \/ RxLength \/ RxRelease \/ RxInput

(***************************************************************************)
(* Sending: low_level_output                                               *)
(***************************************************************************)
Goto(s, place) == pc' = [pc EXCEPT ![s] = place]

Output(s) ==
    /\ Runs(s)
    /\ pc[s] = "idle"
    /\ queued + Cardinality({t \in Senders : pc[t] # "idle"}) < MaxTx
    /\ Goto(s, IF s_tx_semaphore = 0 THEN "create" ELSE "take")
    /\ UNCHANGED << rxVars, txdesc, tx_dma, dma_current_txdesc, wire, queued, s_tx_semaphore, count, handle >>

\* vSemaphoreCreateBinary: a new semaphore ...
Create(s) ==
    /\ Runs(s)
    /\ pc[s] = "create"
    /\ s_tx_semaphore' = s_tx_semaphore + 1
    /\ Goto(s, "first")
    /\ UNCHANGED << rxVars, txdesc, tx_dma, dma_current_txdesc, wire, queued, count, handle >>

\* ... is given once.
FirstGive(s) ==
    /\ Runs(s)
    /\ pc[s] = "first"
    /\ count' = [count EXCEPT ![s_tx_semaphore] = 1]
    /\ Goto(s, "take")
    /\ UNCHANGED << rxVars, txdesc, tx_dma, dma_current_txdesc, wire, queued, s_tx_semaphore, handle >>

\* The semaphore is taken, and SYS_ARCH_PROTECT; or the task waits.
Take(s) ==
    LET h == IF pc[s] = "take" THEN s_tx_semaphore ELSE handle[s]
    IN  /\ Runs(s)
        /\ pc[s] = "take" \/ (pc[s] = "blocked" /\ count[h] = 1)
        /\ handle' = [handle EXCEPT ![s] = h]
        /\ count' = [count EXCEPT ![h] = 0]
        /\ Goto(s, IF count[h] = 1 THEN "fill" ELSE "blocked")
        /\ UNCHANGED << rxVars, txdesc, tx_dma, dma_current_txdesc, wire, queued, s_tx_semaphore >>

\* 250 ticks without the semaphore: nothing was sent, and low_level_output does not return.
Expire(s) ==
    /\ pc[s] = "blocked"
    /\ count[handle[s]] = 0
    /\ Goto(s, "hung")
    /\ UNCHANGED << rxVars, txdesc, tx_dma, dma_current_txdesc, wire, queued, s_tx_semaphore, count, handle >>

\* mutant: the next descriptor is filled whoever owns it
BufferFreeAlways == TRUE

\* the loop on DAV
BufferFree == txdesc[dma_current_txdesc] = 0

\* the frame is copied, its descriptor given to the DMA (enet_frame_transmit), SYS_ARCH_UNPROTECT
Transmit(s) ==
    /\ Runs(s)
    /\ pc[s] = "fill"
    /\ BufferFree
    /\ txdesc' = [txdesc EXCEPT ![dma_current_txdesc] = queued + 1]
    /\ dma_current_txdesc' = (dma_current_txdesc + 1) % TxNum
    /\ queued' = queued + 1
    /\ Goto(s, "give")
    /\ UNCHANGED << rxVars, tx_dma, wire, s_tx_semaphore, count, handle >>

\* mutant: the semaphore is not given back
GivenNot == count

Given == [count EXCEPT ![s_tx_semaphore] = 1]

Give(s) ==
    /\ Runs(s)
    /\ pc[s] = "give"
    /\ count' = Given
    /\ Goto(s, "idle")
    /\ UNCHANGED << rxVars, txdesc, tx_dma, dma_current_txdesc, wire, queued, s_tx_semaphore, handle >>

\* the DMA sends a frame
DmaSend ==
    /\ txdesc[tx_dma] # 0
    /\ wire' = txdesc[tx_dma]
    /\ txdesc' = [txdesc EXCEPT ![tx_dma] = 0]
    /\ tx_dma' = (tx_dma + 1) % TxNum
    /\ UNCHANGED << rxVars, dma_current_txdesc, queued, s_tx_semaphore, count, pc, handle >>

Send(s) == Create(s) \/ FirstGive(s) \/ Take(s) \/ Transmit(s) \/ Give(s)

Next ==
    \/ FrameArrives \/ Irq \/ IrqClear \/ Receive \/ Handle \/ PbufFree \/ DmaSend
    \/ \E s \in Senders : Output(s) \/ Send(s) \/ Expire(s)

Spec == Init /\ [][Next]_vars

\* Interrupts are taken, the hardware sends, tasks that are ready and not preempted run, lwIP frees
\* what it has processed.  Nothing makes frames arrive, tasks send, or a wait take 250 ticks.
Fairness ==
    /\ WF_vars(Irq) /\ WF_vars(IrqClear) /\ WF_vars(Receive) /\ WF_vars(DmaSend)
    /\ WF_vars(Handle) /\ WF_vars(PbufFree)
    /\ \A s \in Senders : WF_vars(Send(s))

FairSpec == Spec /\ Fairness

(***************************************************************************)
(* Properties                                                              *)
(***************************************************************************)
\* Counters of the driver stay within the pool, the mailbox and the tables of descriptors; there is
\* at most one semaphore for each task that found none.
TypeOK ==
    /\ arrived \in Nat /\ rxdesc \in [0 .. RxNum - 1 -> 0 .. arrived]
    /\ rx_dma \in 0 .. RxNum - 1 /\ dma_current_rxdesc \in 0 .. RxNum - 1
    /\ rs \in BOOLEAN /\ isr \in BOOLEAN /\ g_rx_semaphore \in {0, 1} /\ failed \in BOOLEAN
    /\ rx \in {"wait", "length", "release", "input"} /\ p \in 0 .. arrived
    /\ pool \in 0 .. Pool /\ held \in 0 .. Pool
    /\ mbox \in Seq(1 .. arrived) /\ Len(mbox) <= MboxSize /\ handed \in Seq(1 .. arrived)
    /\ queued \in Nat /\ wire \in 0 .. queued /\ txdesc \in [0 .. TxNum - 1 -> 0 .. queued]
    /\ tx_dma \in 0 .. TxNum - 1 /\ dma_current_txdesc \in 0 .. TxNum - 1
    /\ s_tx_semaphore \in {0} \cup Handles /\ count \in [Handles -> {0, 1}]
    /\ pc \in [Senders -> {"idle", "create", "first", "take", "blocked", "fill", "give", "hung"}]
    /\ handle \in [Senders -> {0} \cup Handles]

\* Every pbuf is free, on its way to lwIP, or lwIP's: ethernetif_input neither loses nor frees twice
\* the pbuf of a frame the mailbox refuses.
PbufsConserved == pool + held + Len(mbox) + (IF p # 0 THEN 1 ELSE 0) = Pool

Woken == rs \/ isr \/ g_rx_semaphore = 1 \/ rx # "wait"

\* A frame in the table of descriptors has somebody on the way to fetch it, although one binary
\* semaphore stands for all frames and the handler clears the flag of frames it has not seen.
\* Only after a frame was dropped for want of a pbuf or of room in the mailbox do others wait for
\* the next to arrive; then there is a descriptor for that one.
FramesAreFetched ==
    (\E i \in DOMAIN rxdesc : rxdesc[i] # 0) =>
        \/ Woken
        \/ failed /\ rxdesc[rx_dma] = 0

\* what has been received and not yet handed to lwIP, oldest first
Ring == [i \in 1 .. RxNum |-> rxdesc[(dma_current_rxdesc + i - 1) % RxNum]]

InTable ==
    SubSeq(Ring, IF rx = "release" /\ p # 0 THEN 2 ELSE 1, Cardinality({i \in 1 .. RxNum : Ring[i] # 0}))

Number(n) == n

Channel == INSTANCE LossyChannel WITH
    Frame <- Number, sent <- arrived, delivered <- handed,
    channel <- mbox \o (IF p # 0 THEN << p >> ELSE << >>) \o InTable

\* lwIP gets the frames of the line in order and at most once, none of them overwritten in its
\* descriptor while it was copied.
ImplementsChannel == Channel!ChannelSpec

\* Frames leave in the order in which low_level_output queued them, each once, and none is replaced
\* while it waits in its descriptor, whichever tasks send.
SentInOrder ==
    \A i \in 0 .. TxNum - 1 :
        txdesc[(tx_dma + i) % TxNum] = IF wire + 1 + i <= queued THEN wire + 1 + i ELSE 0

\* A task waits for a semaphore only while a task that will give this one holds it, although two
\* tasks may both have found none and created one: nobody is left waiting for a semaphore that is
\* no longer in s_tx_semaphore.
WaitsForHolder ==
    \A s \in Senders :
        pc[s] = "blocked" /\ count[handle[s]] = 0 =>
            /\ handle[s] = s_tx_semaphore
            /\ \E t \in Senders : pc[t] \in {"first", "fill", "give"}

\* Again and again no frame waits in the table or in the mailbox and no task is in low_level_output,
\* unless a frame was dropped or a wait for the semaphore ran out.
EverythingServed ==
    []<>(\/ failed \/ \E s \in Senders : pc[s] = "hung"
         \/ InTable = << >> /\ mbox = << >> /\ wire = queued /\ \A s \in Senders : pc[s] = "idle")
=============================================================================
