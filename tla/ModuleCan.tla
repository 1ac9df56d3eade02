----------------------------- MODULE ModuleCan -----------------------------
(***************************************************************************)
(* The CAN module (Driver/can/module_can.c): the interrupt handler, the    *)
(* queue, module_rx_task and module_tx_task (priority 5) with their rings, *)
(* and a task of lower priority that writes and reads records as           *)
(* module_can_test_task does.                                              *)
(*                                                                         *)
(* A frame is a record of K units in the rings; unit i of frame n is       *)
(* << n, i >>.  The rings are the FIFOs RingBuffer proves them to be: a    *)
(* write() puts all of its units or none, one at a time, a read() takes    *)
(* what there is up to its length.  The tasks of the module preempt the    *)
(* application between two units, never the other way round.               *)
(***************************************************************************)
EXTENDS Integers, Sequences, SequencesExt

CONSTANTS
    K,              \* units of a record (12 bytes)
    RingSize,       \* units of a ring (160 bytes)
    QueueLength,    \* frames of the queue between interrupt and task
    FifoDepth,      \* frames of the controller's FIFO
    MaxFrames       \* bound: frames on the bus, and frames the application sends

ASSUME CanAssumption == {K, RingSize, QueueLength, FifoDepth} \subseteq Nat \ {0} /\ MaxFrames \in Nat

VARIABLES
    bus_in, fifo, irq, rx_queue, rx_ring,   \* reception: frames seen, FIFO, handler busy, queue, ring
    left, got, delivered,                   \* the application's read(): units to go, units taken; its results
    overrun,                                \* history: a received frame was lost
    requested, put, tx_ring,                \* the application's write(): frame, units put (K: none in progress)
    data, tx, mailbox, bus_out,             \* module_tx_task, the mailbox, frames sent
    skewed                                  \* history: the framing of tx_ring may be lost

rxVars == << bus_in, fifo, irq, rx_queue, rx_ring, left, got, delivered, overrun >>
txVars == << requested, put, tx_ring, data, tx, mailbox, bus_out, skewed >>
vars == << rxVars, txVars >>

Frame(n) == [i \in 1 .. K |-> << n, i >>]
Zero == << 0, 0 >>

Init ==
    /\ bus_in = 0 /\ fifo = << >> /\ irq = FALSE /\ rx_queue = << >> /\ rx_ring = << >>
    /\ left = 0 /\ got = << >> /\ delivered = << >> /\ overrun = FALSE
    /\ requested = 0 /\ put = K /\ tx_ring = << >>
    /\ data = [i \in 1 .. K |-> Zero] /\ tx = "poll" /\ mailbox = "idle" /\ bus_out = << >> /\ skewed = FALSE

\* write() refuses a record it has no room for.
Fits(ring) == Len(ring) + K <= RingSize

\* mutant: a write() stores what fits
PutPart(ring, frame) ==
    ring \o (IF Fits(ring) THEN frame ELSE SubSeq(frame, 1, RingSize - Len(ring)))

Put(ring, frame) == IF Fits(ring) THEN ring \o frame ELSE ring

\* mutant: one unit less than a record
TakenShort(ring) == IF Len(ring) < K THEN Len(ring) ELSE K - 1

\* read() takes what there is, up to a record.
Taken(ring) == IF Len(ring) < K THEN Len(ring) ELSE K

(***************************************************************************)
(* Reception                                                               *)
(***************************************************************************)
\* The controller stores a frame, or loses it when the FIFO is full.
BusFrame ==
    /\ bus_in < MaxFrames
    /\ bus_in' = bus_in + 1
    /\ fifo' = IF Len(fifo) < FifoDepth THEN Append(fifo, Frame(bus_in + 1)) ELSE fifo
    /\ overrun' = (overrun \/ Len(fifo) = FifoDepth)
    /\ UNCHANGED << irq, rx_queue, rx_ring, left, got, delivered, txVars >>

QueueFull == Len(rx_queue) = QueueLength

\* MODULE_CAN_IRQHandler: can_rx_fifo_read takes the first frame and releases it by clearing the
\* flag; xQueueSendFromISR drops it when the queue is full ...
IrqRead ==
    /\ ~irq
    /\ fifo # << >>
    /\ irq' = TRUE
    /\ fifo' = Tail(fifo)
    /\ rx_queue' = IF QueueFull THEN rx_queue ELSE Append(rx_queue, Head(fifo))
    /\ overrun' = (overrun \/ QueueFull)
    /\ UNCHANGED << bus_in, rx_ring, left, got, delivered, txVars >>

\* ... and the flag is cleared once more, which may release a frame nobody has read.
IrqClear ==
    /\ irq
    /\ irq' = FALSE
    /\ fifo' \in {fifo} \cup (IF fifo = << >> THEN {} ELSE {Tail(fifo)})
    /\ overrun' = (overrun \/ fifo' # fifo)
    /\ UNCHANGED << bus_in, rx_queue, rx_ring, left, got, delivered, txVars >>

\* module_rx_task: a frame from the queue to the ring; the result of write() is ignored.
RxTask ==
    /\ ~irq
    /\ rx_queue # << >>
    /\ rx_queue' = Tail(rx_queue)
    /\ rx_ring' = Put(rx_ring, Head(rx_queue))
    /\ overrun' = (overrun \/ ~Fits(rx_ring))
    /\ UNCHANGED << bus_in, fifo, irq, left, got, delivered, txVars >>

AppIdle == ~irq /\ left = 0 /\ put = K

\* read() of the application: the length first ...
AppRead ==
    /\ AppIdle
    /\ rx_ring # << >>
    /\ left' = Taken(rx_ring)
    /\ UNCHANGED << bus_in, fifo, irq, rx_queue, rx_ring, got, delivered, overrun, txVars >>

\* ... then unit by unit.
AppReadUnit ==
    /\ ~irq
    /\ left > 0
    /\ left' = left - 1
    /\ rx_ring' = Tail(rx_ring)
    /\ got' = IF left = 1 THEN << >> ELSE Append(got, Head(rx_ring))
    /\ delivered' = IF left = 1 THEN Append(delivered, Append(got, Head(rx_ring))) ELSE delivered
    /\ UNCHANGED << bus_in, fifo, irq, rx_queue, overrun, txVars >>

(***************************************************************************)
(* Transmission                                                            *)
(***************************************************************************)
\* write() of the application: all of the record has room, or -1 is returned ...
AppWrite ==
    /\ AppIdle
    /\ requested < MaxFrames
    /\ Fits(tx_ring)
    /\ requested' = requested + 1
    /\ put' = 0
    /\ UNCHANGED << rxVars, tx_ring, data, tx, mailbox, bus_out, skewed >>

\* ... and each unit is visible to module_tx_task at once.
AppWriteUnit ==
    /\ ~irq
    /\ put < K
    /\ put' = put + 1
    /\ tx_ring' = Append(tx_ring, << requested, put + 1 >>)
    /\ UNCHANGED << rxVars, requested, data, tx, mailbox, bus_out, skewed >>

\* mutant: the comparison the wrong way round
MailboxReadySwapped == mailbox = "idle"

MailboxReady == mailbox = "done"

\* module_tx_task: read() overwrites as many units of data[] as it gets, and whatever data[] then
\* holds is put into the mailbox.
TxSend ==
    LET n == Taken(tx_ring)
        new == [i \in 1 .. K |-> IF i <= n THEN tx_ring[i] ELSE data[i]]
    IN  /\ ~irq
        /\ tx = "poll"
        /\ tx_ring # << >>
        /\ data' = new
        /\ tx_ring' = SubSeq(tx_ring, n + 1, Len(tx_ring))
        /\ tx' = "wait"
        /\ mailbox' = "pending"
        /\ skewed' = (put < K \/ (skewed /\ tx_ring' # << >>))
        /\ bus_out' = IF skewed \/ put < K THEN bus_out ELSE Append(bus_out, new)
        /\ UNCHANGED << rxVars, requested, put >>

\* the frame is on the bus
MailboxDone ==
    /\ mailbox = "pending"
    /\ mailbox' = "done"
    /\ UNCHANGED << rxVars, requested, put, tx_ring, data, tx, bus_out, skewed >>

\* The flag is seen (there is no limit to the wait) and cleared.
TxWait ==
    /\ ~irq
    /\ tx = "wait"
    /\ MailboxReady
    /\ tx' = "poll"
    /\ mailbox' = IF mailbox = "done" THEN "idle" ELSE mailbox
    /\ UNCHANGED << rxVars, requested, put, tx_ring, data, bus_out, skewed >>

App == AppRead \/ AppReadUnit \/ AppWrite \/ AppWriteUnit
Next == BusFrame \/ IrqRead \/ IrqClear \/ RxTask \/ App \/ TxSend \/ MailboxDone \/ TxWait

Spec == Init /\ [][Next]_vars

\* The handler and the tasks run, and some node acknowledges what the mailbox sends.
FairSpec ==
    /\ Spec
    /\ WF_vars(IrqRead \/ IrqClear) /\ WF_vars(RxTask) /\ WF_vars(TxSend \/ TxWait) /\ WF_vars(MailboxDone)
    /\ WF_vars(AppReadUnit \/ AppWriteUnit) /\ SF_vars(AppRead)

(***************************************************************************)
(* Properties                                                              *)
(***************************************************************************)
Units == (0 .. MaxFrames) \X (0 .. K)

TypeOK ==
    /\ bus_in \in 0 .. MaxFrames /\ requested \in 0 .. MaxFrames
    /\ Len(fifo) <= FifoDepth /\ Len(rx_queue) <= QueueLength
    /\ rx_ring \in Seq(Units) /\ Len(rx_ring) <= RingSize
    /\ tx_ring \in Seq(Units) /\ Len(tx_ring) <= RingSize
    /\ left \in 0 .. K /\ put \in 0 .. K /\ Len(got) + left \in {0, K}
    /\ data \in [1 .. K -> Units]
    /\ tx \in {"poll", "wait"} /\ mailbox \in {"idle", "pending", "done"}
    /\ {irq, overrun, skewed} \subseteq BOOLEAN

\* whole frames in a sequence of units
Chunks(units) == [j \in 1 .. Len(units) \div K |-> SubSeq(units, (j - 1) * K + 1, j * K)]

Channel == INSTANCE LossyChannel WITH
    sent <- bus_in,
    channel <- Chunks(got \o rx_ring) \o rx_queue \o fifo

\* What the application reads are whole frames in the order of the bus, although frames are dropped
\* at four places and a read() may return a part of a record: the receive path implements the
\* lossy channel.
ImplementsChannel == Channel!ChannelSpec

\* A frame that is read out of tx_ring while no write() is in progress, and after the ring was empty
\* at the end of the last such overlap, is one whole frame of the application, later than the
\* ones before: a torn frame does not spoil the framing for good.
FramingRecovers ==
    \A i \in 1 .. Len(bus_out) :
        \E n \in 1 .. requested :
            /\ bus_out[i] = Frame(n)
            /\ \A j \in 1 .. i - 1 : bus_out[j][1][1] < n

\* The mailbox is never given a frame while it still sends the one before.
MailboxNotOverwritten == [][TxSend => mailbox = "idle"]_vars

\* If nothing was lost, the application gets every frame; and what it sends leaves the ring.
Served == <>[](tx_ring = << >> /\ mailbox = "idle" /\ (overrun \/ Len(delivered) = bus_in))
=============================================================================
