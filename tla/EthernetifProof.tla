-------------------------- MODULE EthernetifProof ---------------------------
(***************************************************************************)
(* Proofs for Ethernetif, for every number of descriptors, pbufs, mailbox  *)
(* slots and sending tasks: no pbuf is lost, received frames are fetched,  *)
(* frames leave in order, no task is left waiting for a semaphore that is  *)
(* gone, and receiving implements LossyChannel.                            *)
(***************************************************************************)
EXTENDS Ethernetif, TLAPS

-----------------------------------------------------------------------------
(* The invariants                                                           *)

\* the descriptor k places after i in a table of n
Pos(i, k, n) == IF i + k < n THEN i + k ELSE i + k - n

\* The received frames are n descriptors from dma_current_rxdesc on; the next for the DMA follows.
RxTable(n) ==
    /\ rx_dma = Pos(dma_current_rxdesc, n, RxNum)
    /\ \A k \in 0 .. RxNum - 1 : rxdesc[Pos(dma_current_rxdesc, k, RxNum)] # 0 <=> k < n

Pending == rs \/ isr \/ g_rx_semaphore = 1

\* What ethernetif_input holds in p at each place, and what wakes it.  While it passes a frame on
\* there is a free descriptor, unless the interrupt is on its way.
RxInv ==
    /\ \E n \in 0 .. RxNum : RxTable(n)
    /\ rx \in {"wait", "length"} => p = 0
    /\ rx = "release" /\ p # 0 => rxdesc[dma_current_rxdesc] = p
    /\ rx = "input" => p # 0 /\ (Pending \/ rxdesc[rx_dma] = 0)
    /\ isr => g_rx_semaphore = 1
    /\ PbufsConserved
    /\ FramesAreFetched

\* The frames from wire + 1 to queued wait in consecutive descriptors.
TxInv ==
    /\ queued - wire <= TxNum
    /\ dma_current_txdesc = Pos(tx_dma, queued - wire, TxNum)
    /\ \A k \in 0 .. TxNum - 1 :
          txdesc[Pos(tx_dma, k, TxNum)] = IF k < queued - wire THEN wire + 1 + k ELSE 0

Holds(s) == pc[s] \in {"first", "fill", "give"}

Creating == {s \in Senders : pc[s] = "create"}

\* At most one task holds the semaphore, and it is taken exactly while one does.  A task that is
\* about to create one keeps the tasks below it from sending.
SemInv ==
    /\ s_tx_semaphore + Cardinality(Creating) <= Cardinality(Senders)
    /\ s_tx_semaphore = 0 => \A s \in Senders : pc[s] \in {"idle", "create"}
    /\ s_tx_semaphore # 0 => (count[s_tx_semaphore] = 0 <=> \E s \in Senders : Holds(s))
    /\ \A s, t \in Senders : Holds(s) /\ Holds(t) => s = t
    /\ \A h \in Handles : h > s_tx_semaphore => count[h] = 0
    /\ \A s \in Senders : pc[s] = "blocked" => handle[s] = s_tx_semaphore
    /\ \A s, t \in Senders :
          pc[s] = "create" /\ Priority[t] < Priority[s] => pc[t] \in {"idle", "create"}

EthInv == TypeOK /\ RxInv /\ TxInv /\ SemInv

RxTypes ==
    /\ arrived \in Nat /\ rxdesc \in [0 .. RxNum - 1 -> 0 .. arrived]
    /\ rx_dma \in 0 .. RxNum - 1 /\ dma_current_rxdesc \in 0 .. RxNum - 1
    /\ rs \in BOOLEAN /\ isr \in BOOLEAN /\ g_rx_semaphore \in {0, 1} /\ failed \in BOOLEAN
    /\ rx \in {"wait", "length", "release", "input"} /\ p \in 0 .. arrived
    /\ pool \in 0 .. Pool /\ held \in 0 .. Pool
    /\ mbox \in Seq(1 .. arrived) /\ Len(mbox) <= MboxSize /\ handed \in Seq(1 .. arrived)

TxTypes ==
    /\ queued \in Nat /\ wire \in 0 .. queued /\ txdesc \in [0 .. TxNum - 1 -> 0 .. queued]
    /\ tx_dma \in 0 .. TxNum - 1 /\ dma_current_txdesc \in 0 .. TxNum - 1

Places == {"idle", "create", "first", "take", "blocked", "fill", "give", "hung"}

SemTypes ==
    /\ s_tx_semaphore \in {0} \cup Handles /\ count \in [Handles -> {0, 1}]
    /\ pc \in [Senders -> Places]
    /\ handle \in [Senders -> {0} \cup Handles]

\* The type invariant has a part for receiving, one for the descriptors and one for the semaphore.
LEMMA TypeParts == TypeOK <=> RxTypes /\ TxTypes /\ SemTypes
  BY DEF TypeOK, RxTypes, TxTypes, SemTypes, Places

-----------------------------------------------------------------------------
(* Tables of descriptors                                                    *)

\* The sizes are positive numbers.
LEMMA Sizes ==
  /\ RxNum \in Nat /\ RxNum > 0 /\ TxNum \in Nat /\ TxNum > 0
  /\ Pool \in Nat /\ Pool > 0 /\ MboxSize \in Nat /\ MboxSize > 0
  BY EthAssumption

\* The remainder with which the driver steps through a table of descriptors.
LEMMA ModPos ==
  ASSUME NEW n \in Nat, n > 0, NEW i \in 0 .. n - 1, NEW k \in 0 .. n
  PROVE  (i + k) % n = Pos(i, k, n) /\ Pos(i, k, n) \in 0 .. n - 1
  <1>1. CASE i + k < n
    BY <1>1 DEF Pos
  <1>2. CASE i + k >= n
    <2>1. i + k - n \in 0 .. n - 1
      BY <1>2
    <2>2. (i + k - n) % n = i + k - n
      BY <2>1
    <2>3. (i + k) % n = (i + k - n) % n
      <3> DEFINE q == (i + k) \div n
                 r == (i + k) % n
      <3>1. q \in Int /\ r \in 0 .. n - 1 /\ i + k = n * q + r
        BY <1>2
      <3> HIDE DEF q, r
      <3>2. q = 1
        <4>1. CASE q <= 0
          <5>1. n * q <= 0
            BY <3>1, <4>1
          <5>2. QED
            BY <1>2, <3>1, <5>1
        <4>2. CASE q >= 2
          <5>1. n * q >= 2 * n
            BY <3>1, <4>2
          <5>2. QED
            BY <3>1, <5>1
        <4>3. QED
          BY <3>1, <4>1, <4>2
      <3>3. r = i + k - n
        BY <3>1, <3>2
      <3>4. QED
        BY <2>2, <3>3 DEF r
    <2>4. QED
      BY <1>2, <2>1, <2>2, <2>3 DEF Pos
  <1>3. QED
    BY <1>1, <1>2

\* Places of a table are different from each other ...
LEMMA PosApart ==
  ASSUME NEW n \in Nat, NEW i \in 0 .. n - 1, NEW j \in 0 .. n - 1, NEW k \in 0 .. n - 1,
         Pos(i, j, n) = Pos(i, k, n)
  PROVE  j = k
  BY DEF Pos

\* ... and every descriptor is one of them.
LEMMA PosCovers ==
  ASSUME NEW n \in Nat, NEW i \in 0 .. n - 1, NEW j \in 0 .. n - 1
  PROVE  \E k \in 0 .. n - 1 : j = Pos(i, k, n)
  <1>1. CASE i <= j
    <2>1. j - i \in 0 .. n - 1 /\ j = Pos(i, j - i, n)
      BY <1>1 DEF Pos
    <2>2. QED
      BY <2>1
  <1>2. CASE j < i
    <2>1. j - i + n \in 0 .. n - 1 /\ j = Pos(i, j - i + n, n)
      BY <1>2 DEF Pos
    <2>2. QED
      BY <2>1
  <1>3. QED
    BY <1>1, <1>2

\* Stepping the base by one steps every place.
LEMMA PosStep ==
  ASSUME NEW n \in Nat, n > 0, NEW i \in 0 .. n - 1, NEW k \in 0 .. n - 1
  PROVE  /\ Pos(i, 1, n) \in 0 .. n - 1
         /\ k < n - 1 => Pos(Pos(i, 1, n), k, n) = Pos(i, k + 1, n)
         /\ Pos(Pos(i, 1, n), n - 1, n) = i
         /\ Pos(Pos(i, k, n), 1, n) = Pos(i, k + 1, n)
  BY DEF Pos

\* A frame goes into the descriptor after the received ones.
LEMMA FillTable ==
  ASSUME RxTypes, NEW n \in 0 .. RxNum, RxTable(n), rxdesc[rx_dma] = 0,
         rxdesc' = [rxdesc EXCEPT ![rx_dma] = arrived + 1],
         rx_dma' = (rx_dma + 1) % RxNum, dma_current_rxdesc' = dma_current_rxdesc
  PROVE  n < RxNum /\ RxTable(n + 1)'
  <1> DEFINE i == dma_current_rxdesc
  <1>1. i \in 0 .. RxNum - 1 /\ rx_dma \in 0 .. RxNum - 1 /\ rx_dma = Pos(i, n, RxNum) /\ arrived \in Nat
    BY DEF RxTypes, RxTable
  <1>2. n < RxNum
    <2>1. SUFFICES ASSUME n = RxNum PROVE FALSE
      BY Sizes
    <2>2. Pos(i, 0, RxNum) = rx_dma /\ 0 \in 0 .. RxNum - 1 /\ 0 < n
      BY <1>1, <2>1, Sizes DEF Pos
    <2>3. rxdesc[Pos(i, 0, RxNum)] # 0
      BY <2>2 DEF RxTable
    <2>4. QED
      BY <2>2, <2>3
  <1>3. rx_dma' = Pos(i, n + 1, RxNum)
    <2>1. rx_dma' = Pos(rx_dma, 1, RxNum)
      BY <1>1, ModPos, Sizes
    <2>2. QED
      BY <1>1, <1>2, <2>1, PosStep, Sizes
  <1>4. ASSUME NEW k \in 0 .. RxNum - 1
        PROVE  rxdesc'[Pos(i, k, RxNum)] # 0 <=> k < n + 1
    <2>1. Pos(i, k, RxNum) \in 0 .. RxNum - 1
      BY <1>1, Sizes DEF Pos
    <2>2. CASE k = n
      <3>1. rxdesc'[rx_dma] = arrived + 1
        BY <1>1 DEF RxTypes
      <3>2. QED
        BY <1>1, <2>2, <3>1
    <2>3. CASE k # n
      <3>1. Pos(i, k, RxNum) # rx_dma
        BY <1>1, <1>2, <2>3, PosApart, Sizes
      <3>2. rxdesc'[Pos(i, k, RxNum)] = rxdesc[Pos(i, k, RxNum)]
        BY <2>1, <3>1 DEF RxTypes
      <3>3. QED
        BY <2>3, <3>2 DEF RxTable
    <2>4. QED
      BY <2>2, <2>3
  <1>5. QED
    BY <1>2, <1>3, <1>4 DEF RxTable

\* The first of the received ones goes back to the DMA: then there is one for the next frame.
LEMMA FreeTable ==
  ASSUME RxTypes, NEW n \in 0 .. RxNum, RxTable(n), rxdesc[dma_current_rxdesc] # 0,
         rxdesc' = [rxdesc EXCEPT ![dma_current_rxdesc] = 0],
         dma_current_rxdesc' = (dma_current_rxdesc + 1) % RxNum, rx_dma' = rx_dma
  PROVE  n > 0 /\ RxTable(n - 1)' /\ rxdesc'[rx_dma] = 0 /\ dma_current_rxdesc' \in 0 .. RxNum - 1
  <1> DEFINE i == dma_current_rxdesc
             j == Pos(i, 1, RxNum)
  <1>1. i \in 0 .. RxNum - 1 /\ rx_dma \in 0 .. RxNum - 1 /\ rx_dma = Pos(i, n, RxNum)
    BY DEF RxTypes, RxTable
  <1>2. n > 0
    <2>1. Pos(i, 0, RxNum) = i /\ 0 \in 0 .. RxNum - 1
      BY <1>1, Sizes DEF Pos
    <2>2. QED
      BY <2>1 DEF RxTable
  <1>3. dma_current_rxdesc' = j /\ j \in 0 .. RxNum - 1
    <2>1. RxNum \in Nat /\ RxNum > 0 /\ 1 \in 0 .. RxNum
      BY Sizes
    <2>2. QED
      BY <1>1, <2>1, ModPos, Zenon
  <1>4. rx_dma' = Pos(j, n - 1, RxNum)
    BY <1>1, <1>2, Sizes DEF Pos
  <1>5. ASSUME NEW k \in 0 .. RxNum - 1
        PROVE  rxdesc'[Pos(j, k, RxNum)] # 0 <=> k < n - 1
    <2>1. CASE k = RxNum - 1
      <3>1. Pos(j, k, RxNum) = i
        BY <1>1, <2>1, PosStep, Sizes
      <3>2. rxdesc'[i] = 0
        BY <1>1 DEF RxTypes
      <3>3. QED
        BY <2>1, <3>1, <3>2, Sizes
    <2>2. CASE k < RxNum - 1
      <3>1. Pos(j, k, RxNum) = Pos(i, k + 1, RxNum) /\ k + 1 \in 0 .. RxNum - 1
        BY <1>1, <2>2, PosStep, Sizes
      <3>2. Pos(i, k + 1, RxNum) \in 0 .. RxNum - 1 /\ Pos(i, k + 1, RxNum) # i
        BY <1>1, <3>1, Sizes DEF Pos
      <3>3. rxdesc'[Pos(j, k, RxNum)] = rxdesc[Pos(i, k + 1, RxNum)]
        BY <3>1, <3>2 DEF RxTypes
      <3>4. rxdesc[Pos(i, k + 1, RxNum)] # 0 <=> k + 1 < n
        BY <3>1 DEF RxTable
      <3>5. QED
        BY <3>3, <3>4
    <2>3. QED
      BY <2>1, <2>2, Sizes
  <1>6. rxdesc'[rx_dma] = 0
    <2>1. n - 1 \in 0 .. RxNum - 1
      BY <1>2, Sizes
    <2>2. QED
      BY <1>4, <1>5, <2>1
  <1>7. QED
    BY <1>2, <1>3, <1>4, <1>5, <1>6 DEF RxTable

\* With a free descriptor at dma_current_rxdesc no frame is in the table.
LEMMA EmptyTable ==
  ASSUME RxTypes, NEW n \in 0 .. RxNum, RxTable(n), rxdesc[dma_current_rxdesc] = 0
  PROVE  n = 0 /\ \A j \in 0 .. RxNum - 1 : rxdesc[j] = 0
  <1> DEFINE i == dma_current_rxdesc
  <1>1. i \in 0 .. RxNum - 1 /\ Pos(i, 0, RxNum) = i /\ 0 \in 0 .. RxNum - 1
    BY Sizes DEF RxTypes, Pos
  <1>2. n = 0
    BY <1>1, Sizes DEF RxTable
  <1>3. ASSUME NEW j \in 0 .. RxNum - 1 PROVE rxdesc[j] = 0
    <2>1. PICK k \in 0 .. RxNum - 1 : j = Pos(i, k, RxNum)
      BY <1>1, PosCovers, Sizes
    <2>2. QED
      BY <1>2, <2>1 DEF RxTable
  <1>4. QED
    BY <1>2, <1>3

-----------------------------------------------------------------------------
(* Receiving                                                                *)

\* Nothing has been received at the start.
LEMMA RxInit == Init => RxTypes /\ RxInv
  <1> SUFFICES ASSUME Init PROVE RxTypes /\ RxInv
    OBVIOUS
  <1>1. /\ arrived = 0 /\ rxdesc = [i \in 0 .. RxNum - 1 |-> 0] /\ rx_dma = 0 /\ dma_current_rxdesc = 0
        /\ rs = FALSE /\ isr = FALSE /\ g_rx_semaphore = 0
        /\ rx = "wait" /\ p = 0 /\ pool = Pool /\ mbox = << >> /\ held = 0 /\ handed = << >>
        /\ failed = FALSE
    BY DEF Init
  <1>2. RxTypes
    <2>1. 0 \in 0 .. RxNum - 1 /\ 0 \in 0 .. Pool /\ Pool \in 0 .. Pool
      BY Sizes
    <2>2. mbox \in Seq(1 .. arrived) /\ Len(mbox) <= MboxSize
      BY <1>1, Sizes
    <2>3. rxdesc \in [0 .. RxNum - 1 -> 0 .. arrived]
      BY <1>1
    <2>4. QED
      BY <1>1, <2>1, <2>2, <2>3, Zenon DEF RxTypes
  <1>3. RxTable(0)
    BY <1>1, ModPos, Sizes DEF RxTable, Pos
  <1>4. PbufsConserved
    BY <1>1, Sizes DEF PbufsConserved
  <1>5. FramesAreFetched
    BY <1>1 DEF FramesAreFetched
  <1>6. QED
    BY <1>1, <1>2, <1>3, <1>4, <1>5, Sizes DEF RxInv

\* The sequences of frames are still such when one more frame has arrived.
LEMMA SeqWider ==
  ASSUME NEW n \in Nat, NEW s \in Seq(1 .. n)
  PROVE  s \in Seq(1 .. n + 1)
  OBVIOUS

\* What is left of a mailbox when its first frame is fetched.
LEMMA SeqRest ==
  ASSUME NEW S, NEW s \in Seq(S), s # << >>
  PROVE  Tail(s) \in Seq(S) /\ Len(Tail(s)) = Len(s) - 1 /\ Head(s) \in S
  OBVIOUS

\* A handle above another one is another one.
LEMMA AboveOther ==
  ASSUME NEW n \in Nat, NEW h \in 1 .. n
  PROVE  \A k \in 1 .. n : k > h => k # h
  OBVIOUS

\* Frames and one more are frames.
LEMMA OneMore ==
  ASSUME NEW n \in Nat
  PROVE  n + 1 \in 0 .. n + 1 /\ \A k \in 0 .. n : k \in 0 .. n + 1
  OBVIOUS

\* The place of the ith element of the second of two sequences in their concatenation.
LEMMA SecondPart ==
  ASSUME NEW m \in Nat, NEW n \in Nat, NEW i \in 1 .. n
  PROVE  /\ m + i \in 1 .. m + n /\ ~(m + i <= m) /\ (m + i) - m = i /\ m + 1 + i - 1 = m + i
         /\ i \in 1 .. m + n - (m + 1) + 1
  OBVIOUS

\* A frame is received, or missed when every descriptor is taken.
LEMMA FrameArrivesStep ==
  ASSUME RxTypes, RxInv, FrameArrives
  PROVE  RxTypes' /\ RxInv'
  <1>1. PICK n \in 0 .. RxNum : RxTable(n)
    BY DEF RxInv
  <1>2. /\ arrived' = arrived + 1
        /\ UNCHANGED << dma_current_rxdesc, isr, g_rx_semaphore, rx, p, pool, mbox, held, handed >>
    BY DEF FrameArrives
  <1>3. /\ arrived' \in Nat /\ p' \in 0 .. arrived'
        /\ mbox' \in Seq(1 .. arrived') /\ handed' \in Seq(1 .. arrived')
    BY <1>2, SeqWider DEF RxTypes
  <1>4. PbufsConserved'
    BY <1>2 DEF RxInv, PbufsConserved
  <1>5. CASE rxdesc[rx_dma] = 0
    <2>1. /\ rxdesc' = [rxdesc EXCEPT ![rx_dma] = arrived + 1]
          /\ rx_dma' = (rx_dma + 1) % RxNum /\ rs' = TRUE /\ failed' = FALSE
      BY <1>5 DEF FrameArrives
    <2>2. n < RxNum /\ RxTable(n + 1)'
      BY <1>1, <1>2, <1>5, <2>1, FillTable
    <2>3. rx_dma' \in 0 .. RxNum - 1
      <3>1. rx_dma \in 0 .. RxNum - 1
        BY DEF RxTypes
      <3>2. QED
        BY <2>1, <3>1, ModPos, Sizes
    <2>4. rxdesc' \in [0 .. RxNum - 1 -> 0 .. arrived']
      <3>1. rxdesc \in [0 .. RxNum - 1 -> 0 .. arrived] /\ arrived \in Nat
        BY Zenon DEF RxTypes
      <3>2. arrived + 1 \in 0 .. arrived' /\ \A k \in 0 .. arrived : k \in 0 .. arrived'
        BY <1>2, <3>1, OneMore, Zenon
      <3>3. QED
        BY <2>1, <3>1, <3>2, Zenon
    <2>5. RxTypes'
      BY <1>2, <1>3, <2>1, <2>3, <2>4, Zenon DEF RxTypes
    <2>6. rx' = "release" /\ p' # 0 => rxdesc'[dma_current_rxdesc'] = p'
      BY <1>2, <1>5, <2>1 DEF RxInv, RxTypes
    <2>7. \E m \in 0 .. RxNum : RxTable(m)'
      <3>1. n + 1 \in 0 .. RxNum
        BY <2>2, Sizes
      <3>2. QED
        BY <2>2, <3>1
    <2>8. FramesAreFetched'
      BY <2>1 DEF FramesAreFetched, Woken
    <2>9. QED
      BY <1>2, <1>4, <2>1, <2>5, <2>6, <2>7, <2>8 DEF RxInv, Pending
  <1>6. CASE rxdesc[rx_dma] # 0
    <2>1. UNCHANGED << rxdesc, rx_dma, rs, failed >>
      BY <1>6 DEF FrameArrives
    <2>2. rxdesc' \in [0 .. RxNum - 1 -> 0 .. arrived']
      <3>1. 0 .. arrived \subseteq 0 .. arrived'
        BY <1>2 DEF RxTypes
      <3>2. QED
        BY <2>1, <3>1 DEF RxTypes
    <2>3. RxTypes'
      BY <1>2, <1>3, <2>1, <2>2 DEF RxTypes
    <2>4. RxTable(n)'
      BY <1>1, <1>2, <2>1 DEF RxTable
    <2>5. FramesAreFetched'
      BY <1>2, <2>1 DEF RxInv, FramesAreFetched, Woken
    <2>6. QED
      BY <1>2, <1>4, <2>1, <2>3, <2>4, <2>5 DEF RxInv, Pending
  <1>7. QED
    BY <1>5, <1>6

\* The interrupt handler gives the semaphore and clears the flag; ethernetif_input takes it.
LEMMA WakeStep ==
  ASSUME RxTypes, RxInv, Irq \/ IrqClear \/ RxTake
  PROVE  RxTypes' /\ RxInv'
  <1>1. UNCHANGED << arrived, rxdesc, rx_dma, dma_current_rxdesc, p, pool, mbox, held, handed, failed >>
    BY DEF Irq, IrqClear, RxTake
  <1>2. RxTypes'
    BY <1>1, Zenon DEF RxTypes, Irq, IrqClear, RxTake
  <1>3. \E n \in 0 .. RxNum : RxTable(n)'
    BY <1>1 DEF RxInv, RxTable
  <1>4. PbufsConserved'
    BY <1>1 DEF RxInv, PbufsConserved
  <1>5. /\ rx' \in {"wait", "length"} => p' = 0
        /\ rx' = "release" /\ p' # 0 => rxdesc'[dma_current_rxdesc'] = p'
        /\ isr' => g_rx_semaphore' = 1
    BY <1>1 DEF RxInv, Irq, IrqClear, RxTake
  <1>6. Pending => Pending' \/ rx' = "length"
    BY DEF RxInv, Pending, Irq, IrqClear, RxTake
  <1>7. rx' = "input" => p' # 0 /\ (Pending' \/ rxdesc'[rx_dma'] = 0)
    BY <1>1, <1>6 DEF RxInv, Irq, IrqClear, RxTake
  <1>8. FramesAreFetched'
    <2>1. Woken => Woken'
      BY <1>6 DEF Woken, Pending, Irq, IrqClear, RxTake
    <2>2. QED
      BY <1>1, <2>1 DEF RxInv, FramesAreFetched
  <1>9. QED
    BY <1>2, <1>3, <1>4, <1>5, <1>7, <1>8 DEF RxInv

\* A pbuf is taken for the first frame of the table.
LEMMA RxLengthStep ==
  ASSUME RxTypes, RxInv, RxLength
  PROVE  RxTypes' /\ RxInv'
  <1> DEFINE frame == rxdesc[dma_current_rxdesc]
             got == frame # 0 /\ pool > 0
  <1>1. /\ UNCHANGED << arrived, rxdesc, rx_dma, dma_current_rxdesc, rs, isr, g_rx_semaphore, mbox, held,
                        handed, failed >>
        /\ rx = "length" /\ rx' = "release"
        /\ p' = (IF got THEN frame ELSE 0) /\ pool' = (IF got THEN pool - 1 ELSE pool)
    BY DEF RxLength
  <1>2. frame \in 0 .. arrived /\ p = 0 /\ pool \in 0 .. Pool /\ Len(mbox) \in Nat /\ held \in Nat
    BY <1>1, Sizes DEF RxTypes, RxInv
  <1>3. p' \in 0 .. arrived /\ pool' \in 0 .. Pool
    BY <1>1, <1>2, Sizes DEF RxTypes
  <1>4. RxTypes'
    BY <1>1, <1>3 DEF RxTypes
  <1>5. PbufsConserved'
    <2>1. pool + held + Len(mbox) = Pool
      BY <1>2, Sizes DEF RxInv, PbufsConserved
    <2>2. pool' + held' + Len(mbox') + (IF p' # 0 THEN 1 ELSE 0) = pool + held + Len(mbox)
      <3>1. CASE got
        BY <1>1, <1>2, <3>1, Sizes
      <3>2. CASE ~got
        <4>1. p' = 0 /\ pool' = pool /\ held' = held /\ mbox' = mbox
          BY <1>1, <3>2
        <4>2. pool + held + Len(mbox) + 0 = pool + held + Len(mbox)
          BY <1>2
        <4>3. QED
          BY <4>1, <4>2
      <3>3. QED
        BY <3>1, <3>2
    <2>3. QED
      BY <2>1, <2>2 DEF PbufsConserved
  <1>6. \E n \in 0 .. RxNum : RxTable(n)'
    BY <1>1 DEF RxInv, RxTable
  <1>7. FramesAreFetched'
    BY <1>1 DEF FramesAreFetched, Woken
  <1>8. QED
    BY <1>1, <1>4, <1>5, <1>6, <1>7 DEF RxInv

\* The descriptor goes back to the DMA.
LEMMA RxReleaseStep ==
  ASSUME RxTypes, RxInv, RxRelease
  PROVE  RxTypes' /\ RxInv'
  <1> DEFINE i == dma_current_rxdesc
  <1>1. /\ UNCHANGED << arrived, rx_dma, rs, isr, g_rx_semaphore, p, pool, mbox, held, handed >>
        /\ rx = "release" /\ rx' = (IF p = 0 THEN "wait" ELSE "input")
        /\ failed' = (failed \/ (p = 0 /\ rxdesc[i] # 0))
    BY DEF RxRelease
  <1>2. PICK n \in 0 .. RxNum : RxTable(n)
    BY DEF RxInv
  <1>3. PbufsConserved'
    BY <1>1 DEF RxInv, PbufsConserved
  <1>4. CASE rxdesc[i] # 0
    <2>1. rxdesc' = [rxdesc EXCEPT ![i] = 0] /\ dma_current_rxdesc' = (i + 1) % RxNum
      BY <1>4 DEF RxRelease, IsReceived
    <2>2. n > 0 /\ RxTable(n - 1)' /\ rxdesc'[rx_dma] = 0 /\ dma_current_rxdesc' \in 0 .. RxNum - 1
      BY <1>1, <1>2, <1>4, <2>1, FreeTable
    <2>3. rxdesc' \in [0 .. RxNum - 1 -> 0 .. arrived]
      BY <2>1 DEF RxTypes
    <2>4. RxTypes'
      BY <1>1, <2>2, <2>3 DEF RxTypes
    <2>5. \E m \in 0 .. RxNum : RxTable(m)'
      <3>1. n - 1 \in 0 .. RxNum
        BY <2>2, Sizes
      <3>2. QED
        BY <2>2, <3>1
    <2>6. FramesAreFetched'
      BY <1>1, <1>4, <2>2, Zenon DEF FramesAreFetched, Woken
    <2>7. QED
      BY <1>1, <1>3, <2>2, <2>4, <2>5, <2>6 DEF RxInv, Pending
  <1>5. CASE rxdesc[i] = 0
    <2>1. UNCHANGED << rxdesc, dma_current_rxdesc >> /\ p = 0
      BY <1>1, <1>5, Zenon DEF RxRelease, IsReceived, RxInv
    <2>2. RxTypes'
      BY <1>1, <2>1 DEF RxTypes
    <2>3. RxTable(n)'
      BY <1>1, <1>2, <2>1 DEF RxTable
    <2>4. FramesAreFetched'
      <3>1. \A j \in DOMAIN rxdesc' : rxdesc'[j] = 0
        BY <1>2, <1>5, <2>1, EmptyTable, Zenon DEF RxTypes
      <3>2. QED
        BY <3>1 DEF FramesAreFetched
    <2>5. QED
      BY <1>1, <1>3, <2>1, <2>2, <2>3, <2>4 DEF RxInv
  <1>6. QED
    BY <1>4, <1>5

\* A sequence of frames loses its first, or gains one.
LEMMA SeqEnds ==
  ASSUME NEW S, NEW s \in Seq(S), NEW e \in S
  PROVE  /\ Append(s, e) \in Seq(S) /\ Len(Append(s, e)) = Len(s) + 1 /\ Len(s) \in Nat
         /\ s # << >> => Tail(s) \in Seq(S) /\ Len(Tail(s)) = Len(s) - 1 /\ Head(s) \in S
  OBVIOUS

\* The frame goes into the mailbox, or its pbuf back into the pool.
LEMMA RxInputStep ==
  ASSUME RxTypes, RxInv, RxInput
  PROVE  RxTypes' /\ RxInv'
  <1>1. /\ UNCHANGED << arrived, rxdesc, rx_dma, dma_current_rxdesc, rs, isr, g_rx_semaphore, held, handed >>
        /\ rx = "input" /\ p' = 0 /\ p # 0
    BY DEF RxInput, RxInv
  <1>2. p \in 1 .. arrived /\ p' \in 0 .. arrived /\ pool \in Nat /\ held \in Nat
    BY <1>1, Sizes DEF RxTypes
  <1>3. /\ Append(mbox, p) \in Seq(1 .. arrived) /\ Len(Append(mbox, p)) = Len(mbox) + 1
        /\ Len(mbox) \in Nat
    BY <1>2, SeqEnds DEF RxTypes
  <1>4. pool + held + Len(mbox) + 1 = Pool
    BY <1>1 DEF RxInv, PbufsConserved
  <1>5. \E n \in 0 .. RxNum : RxTable(n)'
    BY <1>1 DEF RxInv, RxTable
  <1>6. CASE Len(mbox) < MboxSize
    <2>1. mbox' = Append(mbox, p) /\ rx' = "length" /\ UNCHANGED << pool, failed >>
      BY <1>6 DEF RxInput, AfterInput
    <2>2. Len(mbox') <= MboxSize
      BY <1>3, <1>6, <2>1, Sizes
    <2>3. RxTypes'
      BY <1>1, <1>2, <1>3, <2>1, <2>2 DEF RxTypes
    <2>4. PbufsConserved'
      <3>1. pool' + held' + Len(mbox') + 0 = Pool
        BY <1>1, <1>2, <1>3, <1>4, <2>1
      <3>2. QED
        BY <1>1, <3>1 DEF PbufsConserved
    <2>5. FramesAreFetched'
      BY <2>1 DEF FramesAreFetched, Woken
    <2>6. QED
      BY <1>1, <1>5, <2>1, <2>3, <2>4, <2>5 DEF RxInv
  <1>7. CASE ~(Len(mbox) < MboxSize)
    <2>1. pool' = pool + 1 /\ rx' = "wait" /\ failed' = TRUE /\ UNCHANGED mbox
      BY <1>7, Zenon DEF RxInput, Freed
    <2>2. pool' \in 0 .. Pool
      BY <1>2, <1>3, <1>4, <2>1, Sizes
    <2>3. RxTypes'
      BY <1>1, <1>2, <2>1, <2>2, Zenon DEF RxTypes
    <2>4. PbufsConserved'
      <3>1. pool' + held' + Len(mbox') + 0 = Pool
        BY <1>1, <1>2, <1>3, <1>4, <2>1
      <3>2. QED
        BY <1>1, <3>1 DEF PbufsConserved
    <2>5. FramesAreFetched'
      BY <1>1, <2>1 DEF RxInv, FramesAreFetched, Woken, Pending
    <2>6. QED
      BY <1>1, <1>5, <2>1, <2>3, <2>4, <2>5 DEF RxInv
  <1>8. QED
    BY <1>6, <1>7

\* lwIP takes a frame from the mailbox, or frees one.
LEMMA LwipStep ==
  ASSUME RxTypes, RxInv, Handle \/ PbufFree
  PROVE  RxTypes' /\ RxInv'
  <1>1. UNCHANGED << arrived, rxdesc, rx_dma, dma_current_rxdesc, rs, isr, g_rx_semaphore, rx, p, failed >>
    BY DEF Handle, PbufFree
  <1> DEFINE x == IF p # 0 THEN 1 ELSE 0
  <1>2. /\ pool \in Nat /\ held \in Nat /\ Len(mbox) \in Nat /\ x \in Nat
        /\ pool + held + Len(mbox) + x = Pool
    BY Sizes DEF RxTypes, RxInv, PbufsConserved
  <1>3. /\ pool' \in Nat /\ held' \in Nat /\ Len(mbox') \in Nat
        /\ pool' + held' + Len(mbox') + x = Pool
        /\ mbox' \in Seq(1 .. arrived) /\ Len(mbox') <= Len(mbox) /\ handed' \in Seq(1 .. arrived)
    <2>1. CASE Handle
      <3>1. /\ mbox # << >> /\ mbox' = Tail(mbox) /\ handed' = Append(handed, Head(mbox))
            /\ held' = held + 1 /\ pool' = pool
        BY <2>1 DEF Handle
      <3>2. Tail(mbox) \in Seq(1 .. arrived) /\ Len(Tail(mbox)) = Len(mbox) - 1 /\ Head(mbox) \in 1 .. arrived
        BY <3>1, SeqRest, Zenon DEF RxTypes
      <3>3. handed' \in Seq(1 .. arrived)
        BY <3>1, <3>2 DEF RxTypes
      <3>4. Len(mbox) > 0
        BY <3>1 DEF RxTypes
      <3> HIDE DEF x
      <3>5. QED
        BY <1>2, <3>1, <3>2, <3>3, <3>4
    <2>2. CASE PbufFree
      <3>1. held > 0 /\ held' = held - 1 /\ pool' = pool + 1 /\ UNCHANGED << mbox, handed >>
        BY <2>2 DEF PbufFree
      <3> HIDE DEF x
      <3>2. QED
        BY <1>2, <3>1 DEF RxTypes
    <2>3. QED
      BY <2>1, <2>2
  <1>4. pool' \in 0 .. Pool /\ held' \in 0 .. Pool /\ Len(mbox') <= MboxSize
    <2> DEFINE q == pool'
               h == held'
               l == Len(mbox')
    <2>0. q \in Nat /\ h \in Nat /\ l \in Nat /\ x \in Nat /\ q + h + l + x = Pool
      BY <1>2, <1>3, Zenon
    <2> HIDE DEF x, q, h, l
    <2>1a. q \in 0 .. Pool /\ h \in 0 .. Pool
      BY <2>0, Sizes
    <2>1. pool' \in 0 .. Pool /\ held' \in 0 .. Pool
      BY <2>1a, Zenon DEF q, h
    <2>2. Len(mbox) <= MboxSize
      BY DEF RxTypes
    <2>3. QED
      BY <1>2, <1>3, <2>1, <2>2, Sizes
  <1>5. RxTypes'
    BY <1>1, <1>3, <1>4 DEF RxTypes
  <1>6. PbufsConserved'
    BY <1>1, <1>3 DEF PbufsConserved
  <1>7. \E n \in 0 .. RxNum : RxTable(n)'
    BY <1>1 DEF RxInv, RxTable
  <1>8. FramesAreFetched'
    BY <1>1 DEF RxInv, FramesAreFetched, Woken
  <1>9. QED
    BY <1>1, <1>5, <1>6, <1>7, <1>8 DEF RxInv, Pending

-----------------------------------------------------------------------------
(* The descriptors of sending                                               *)

\* Nothing waits to be sent at the start.
LEMMA TxInit == Init => TxTypes /\ TxInv
  <1> SUFFICES ASSUME Init PROVE TxTypes /\ TxInv
    OBVIOUS
  <1>1. /\ txdesc = [i \in 0 .. TxNum - 1 |-> 0] /\ tx_dma = 0 /\ dma_current_txdesc = 0
        /\ wire = 0 /\ queued = 0
    BY DEF Init
  <1>2. 0 \in 0 .. TxNum - 1
    BY Sizes
  <1>3. TxTypes
    BY <1>1, <1>2 DEF TxTypes
  <1>4. \A k \in 0 .. TxNum - 1 : Pos(0, k, TxNum) = k
    BY Sizes DEF Pos
  <1>5. TxInv
    <2>1. queued - wire = 0 /\ Pos(0, 0, TxNum) = 0
      BY <1>1, Sizes DEF Pos
    <2>2. \A k \in 0 .. TxNum - 1 : ~(k < 0)
      OBVIOUS
    <2>3. QED
      BY <1>1, <1>4, <2>1, <2>2, Sizes DEF TxInv
  <1>6. QED
    BY <1>3, <1>5

\* A frame is queued in the descriptor after those that wait.
LEMMA TransmitStep ==
  ASSUME TxTypes, TxInv, NEW s \in Senders, Transmit(s)
  PROVE  TxTypes' /\ TxInv'
  <1> DEFINE i == tx_dma
             n == queued - wire
  <1>1. /\ txdesc' = [txdesc EXCEPT ![dma_current_txdesc] = queued + 1]
        /\ dma_current_txdesc' = (dma_current_txdesc + 1) % TxNum /\ queued' = queued + 1
        /\ UNCHANGED << tx_dma, wire >> /\ txdesc[dma_current_txdesc] = 0
    BY DEF Transmit, BufferFree
  <1>2. /\ i \in 0 .. TxNum - 1 /\ dma_current_txdesc \in 0 .. TxNum - 1 /\ n \in 0 .. TxNum
        /\ queued \in Nat /\ wire \in Nat /\ wire <= queued
        /\ dma_current_txdesc = Pos(i, n, TxNum)
    BY Sizes DEF TxTypes, TxInv
  <1>3. \A k \in 0 .. TxNum - 1 : txdesc[Pos(i, k, TxNum)] = IF k < n THEN wire + 1 + k ELSE 0
    BY DEF TxInv
  <1> HIDE DEF n
  <1>4. n < TxNum
    <2>1. SUFFICES ASSUME n = TxNum PROVE FALSE
      BY <1>2, Sizes
    <2>2. Pos(i, 0, TxNum) = dma_current_txdesc /\ 0 \in 0 .. TxNum - 1 /\ 0 < n
      BY <1>2, <2>1, Sizes DEF Pos
    <2>3. txdesc[Pos(i, 0, TxNum)] = wire + 1 + 0
      BY <1>3, <2>2
    <2>4. QED
      BY <1>1, <1>2, <2>2, <2>3
  <1>5. dma_current_txdesc' = Pos(i, n + 1, TxNum) /\ dma_current_txdesc' \in 0 .. TxNum - 1
    <2>1. dma_current_txdesc' = Pos(dma_current_txdesc, 1, TxNum)
      BY <1>1, <1>2, ModPos, Sizes
    <2>2. QED
      BY <1>2, <1>4, <2>1, PosStep, Sizes
  <1>6. ASSUME NEW k \in 0 .. TxNum - 1
        PROVE  txdesc'[Pos(i, k, TxNum)] = IF k < n + 1 THEN wire + 1 + k ELSE 0
    <2>1. Pos(i, k, TxNum) \in 0 .. TxNum - 1
      BY <1>2, Sizes DEF Pos
    <2>2. CASE k = n
      <3>1. txdesc'[dma_current_txdesc] = queued + 1
        BY <1>1, <1>2, Zenon DEF TxTypes
      <3>2. queued + 1 = wire + 1 + n
        BY <1>2 DEF n
      <3>3. QED
        BY <1>2, <2>2, <3>1, <3>2
    <2>3. CASE k # n
      <3>1. Pos(i, k, TxNum) # dma_current_txdesc
        BY <1>2, <1>4, <2>3, PosApart, Sizes
      <3>2. txdesc'[Pos(i, k, TxNum)] = txdesc[Pos(i, k, TxNum)]
        BY <1>1, <2>1, <3>1, Zenon DEF TxTypes
      <3>3. k < n + 1 <=> k < n
        BY <1>2, <2>3
      <3>4. QED
        BY <1>3, <3>2, <3>3
    <2>4. QED
      BY <2>2, <2>3
  <1>7. txdesc' \in [0 .. TxNum - 1 -> 0 .. queued']
    <2>1. 0 .. queued \subseteq 0 .. queued' /\ queued + 1 \in 0 .. queued'
      BY <1>1, <1>2
    <2>2. QED
      BY <1>1, <2>1 DEF TxTypes
  <1>8. TxTypes'
    BY <1>1, <1>2, <1>5, <1>7 DEF TxTypes
  <1>9. queued' - wire' = n + 1
    BY <1>1, <1>2 DEF n
  <1>10. TxInv'
    BY <1>1, <1>2, <1>4, <1>5, <1>6, <1>9, Sizes DEF TxInv
  <1>11. QED
    BY <1>8, <1>10

\* The DMA sends the first of those that wait.
LEMMA DmaSendStep ==
  ASSUME TxTypes, TxInv, DmaSend
  PROVE  TxTypes' /\ TxInv' /\ wire' = wire + 1
  <1> DEFINE i == tx_dma
             j == Pos(i, 1, TxNum)
             n == queued - wire
  <1>1. /\ txdesc[i] # 0 /\ wire' = txdesc[i] /\ txdesc' = [txdesc EXCEPT ![i] = 0]
        /\ tx_dma' = (i + 1) % TxNum /\ UNCHANGED << dma_current_txdesc, queued >>
    BY DEF DmaSend
  <1>2. /\ i \in 0 .. TxNum - 1 /\ dma_current_txdesc \in 0 .. TxNum - 1 /\ n \in 0 .. TxNum
        /\ queued \in Nat /\ wire \in Nat /\ wire <= queued /\ n = queued - wire
        /\ dma_current_txdesc = Pos(i, n, TxNum)
    BY Sizes DEF TxTypes, TxInv
  <1>3. \A k \in 0 .. TxNum - 1 : txdesc[Pos(i, k, TxNum)] = IF k < n THEN wire + 1 + k ELSE 0
    BY DEF TxInv
  <1> HIDE DEF n
  <1>4. n > 0 /\ wire' = wire + 1
    <2>1. Pos(i, 0, TxNum) = i /\ 0 \in 0 .. TxNum - 1
      BY <1>2, Sizes DEF Pos
    <2>2. txdesc[i] = IF 0 < n THEN wire + 1 + 0 ELSE 0
      BY <1>3, <2>1
    <2>3. QED
      BY <1>1, <1>2, <2>2
  <1>5. tx_dma' = j /\ j \in 0 .. TxNum - 1
    BY <1>1, <1>2, ModPos, Sizes, SMTT(20)
  <1>6. dma_current_txdesc' = Pos(j, n - 1, TxNum)
    BY <1>1, <1>2, <1>4, Sizes DEF Pos
  <1>7. ASSUME NEW k \in 0 .. TxNum - 1
        PROVE  txdesc'[Pos(j, k, TxNum)] = IF k < n - 1 THEN wire + 2 + k ELSE 0
    <2>1. CASE k = TxNum - 1
      <3>1. Pos(j, k, TxNum) = i
        BY <1>2, <2>1, PosStep, Sizes
      <3>2. txdesc'[i] = 0
        BY <1>1, <1>2 DEF TxTypes
      <3>3. ~(k < n - 1)
        BY <1>2, <2>1, Sizes
      <3>4. QED
        BY <3>1, <3>2, <3>3
    <2>2. CASE k < TxNum - 1
      <3>1. Pos(j, k, TxNum) = Pos(i, k + 1, TxNum) /\ k + 1 \in 0 .. TxNum - 1
        BY <1>2, <2>2, PosStep, Sizes
      <3>2. Pos(i, k + 1, TxNum) \in 0 .. TxNum - 1 /\ Pos(i, k + 1, TxNum) # i
        BY <1>2, <3>1, Sizes DEF Pos
      <3>3. txdesc'[Pos(j, k, TxNum)] = txdesc[Pos(i, k + 1, TxNum)]
        BY <1>1, <3>1, <3>2 DEF TxTypes
      <3>4. txdesc[Pos(i, k + 1, TxNum)] = IF k + 1 < n THEN wire + 1 + (k + 1) ELSE 0
        BY <1>3, <3>1
      <3>5. (k + 1 < n <=> k < n - 1) /\ wire + 1 + (k + 1) = wire + 2 + k
        BY <1>2
      <3>6. QED
        BY <3>3, <3>4, <3>5
    <2>3. QED
      BY <2>1, <2>2, Sizes
  <1>8. TxTypes'
    <2>1. wire' \in 0 .. queued
      BY <1>2, <1>4
    <2>2. txdesc' \in [0 .. TxNum - 1 -> 0 .. queued]
      BY <1>1, <1>2 DEF TxTypes
    <2>3. QED
      BY <1>1, <1>2, <1>5, <2>1, <2>2 DEF TxTypes
  <1>9. queued' - wire' = n - 1
    BY <1>1, <1>2, <1>4
  <1>10. TxInv'
    <2>1. \A k \in 0 .. TxNum - 1 : wire' + 1 + k = wire + 2 + k
      BY <1>2, <1>4
    <2>2. QED
      <3>1. queued' - wire' <= TxNum
        BY <1>2, <1>9, Sizes
      <3>2. dma_current_txdesc' = Pos(tx_dma', queued' - wire', TxNum)
        BY <1>1, <1>5, <1>6, <1>9, Zenon
      <3>3. ASSUME NEW k \in 0 .. TxNum - 1
            PROVE  txdesc'[Pos(tx_dma', k, TxNum)] = IF k < queued' - wire' THEN wire' + 1 + k ELSE 0
        BY <1>5, <1>7, <1>9, <2>1, Zenon
      <3>4. QED
        BY <3>1, <3>2, <3>3, Zenon DEF TxInv
  <1>11. QED
    BY <1>4, <1>8, <1>10

\* Consecutive descriptors hold what has been queued and not yet sent.
LEMMA TxInOrder == ASSUME TxTypes, TxInv PROVE SentInOrder
  <1>1. tx_dma \in 0 .. TxNum - 1 /\ queued \in Nat /\ wire \in Nat
    BY DEF TxTypes
  <1>2. ASSUME NEW i \in 0 .. TxNum - 1
        PROVE  txdesc[(tx_dma + i) % TxNum] = IF wire + 1 + i <= queued THEN wire + 1 + i ELSE 0
    <2>1. (tx_dma + i) % TxNum = Pos(tx_dma, i, TxNum)
      BY <1>1, ModPos, Sizes
    <2>2. i < queued - wire <=> wire + 1 + i <= queued
      BY <1>1
    <2>3. QED
      BY <2>1, <2>2 DEF TxInv
  <1>3. QED
    BY <1>2 DEF SentInOrder

-----------------------------------------------------------------------------
(* Facts about sets                                                         *)

\* What the proofs below use of finite sets, proved in the last section.
SizeFact == \A S : IsFiniteSet(S) => Cardinality(S) \in Nat
EmptyFact == IsFiniteSet({}) /\ Cardinality({}) = 0
PartFact == \A S, T : IsFiniteSet(T) /\ S \subseteq T => IsFiniteSet(S) /\ Cardinality(S) <= Cardinality(T)
LessFact == \A S, x : IsFiniteSet(S) /\ x \in S => Cardinality(S \ {x}) = Cardinality(S) - 1
IntervalFact == \A n \in Nat : Cardinality(1 .. n) = n

SetFacts == SizeFact /\ EmptyFact /\ PartFact /\ LessFact /\ IntervalFact

-----------------------------------------------------------------------------
(* The semaphore of low_level_output                                        *)

\* No task is in low_level_output at the start.
LEMMA SemInit ==
  ASSUME SetFacts, Init
  PROVE  SemTypes /\ SemInv
  <1>1. /\ s_tx_semaphore = 0 /\ count = [h \in Handles |-> 0]
        /\ pc = [s \in Senders |-> "idle"] /\ handle = [s \in Senders |-> 0]
    BY Zenon DEF Init
  <1>2. SemTypes
    BY <1>1 DEF SemTypes, Places
  <1>3. Creating = {}
    BY <1>1 DEF Creating
  <1>4. Cardinality(Creating) = 0 /\ Cardinality(Senders) \in Nat
    BY <1>3, EthAssumption, Zenon DEF SetFacts, EmptyFact, SizeFact
  <1>5. QED
    BY <1>1, <1>2, <1>4 DEF SemInv, Holds

\* The tasks that have found no semaphore are finitely many, no more than there are.
LEMMA CreatingFinite ==
  ASSUME SetFacts
  PROVE  /\ IsFiniteSet(Creating) /\ Cardinality(Creating) \in Nat
         /\ Cardinality(Creating) <= Cardinality(Senders) /\ Cardinality(Senders) \in Nat
  <1>1. Creating \subseteq Senders
    BY DEF Creating
  <1>2. QED
    BY <1>1, EthAssumption, Zenon DEF SetFacts, PartFact, SizeFact

\* A task enters low_level_output.
LEMMA OutputStep ==
  ASSUME SetFacts, SemTypes, SemInv, NEW s \in Senders, Output(s)
  PROVE  SemTypes' /\ SemInv'
  <1> DEFINE to == IF s_tx_semaphore = 0 THEN "create" ELSE "take"
  <1>1. /\ pc[s] = "idle" /\ pc' = [pc EXCEPT ![s] = to] /\ UNCHANGED << s_tx_semaphore, count, handle >>
        /\ Runs(s)
    BY Zenon DEF Output, Goto
  <1>2. SemTypes'
    BY <1>1 DEF SemTypes, Places
  <1>3. \A t \in Senders : pc'[t] = IF t = s THEN to ELSE pc[t]
    BY <1>1 DEF SemTypes
  <1>4. \A t \in Senders : Holds(t)' <=> Holds(t)
    BY <1>1, <1>3 DEF Holds
  <1>5. (s_tx_semaphore + Cardinality(Creating) <= Cardinality(Senders))'
    <2>1. CASE s_tx_semaphore = 0
      <3>1. Creating' \subseteq Senders
        BY DEF Creating
      <3>2. Cardinality(Creating') <= Cardinality(Senders) /\ Cardinality(Creating') \in Nat
        BY <3>1, EthAssumption, Zenon DEF SetFacts, PartFact, SizeFact
      <3>3. QED
        BY <1>1, <2>1, <3>2
    <2>2. CASE s_tx_semaphore # 0
      <3>1. Creating' = Creating
        BY <1>1, <1>3, <2>2 DEF Creating
      <3>2. QED
        BY <1>1, <3>1, Zenon DEF SemInv
    <2>3. QED
      BY <2>1, <2>2
  <1>6. ASSUME NEW u \in Senders, NEW t \in Senders, pc'[u] = "create", Priority[t] < Priority[u]
        PROVE  pc'[t] \in {"idle", "create"}
    <2>1. CASE s_tx_semaphore = 0
      BY <1>3, <2>1, Zenon DEF SemInv
    <2>2. CASE s_tx_semaphore # 0
      <3>1. u # s /\ pc[u] = "create"
        BY <1>3, <1>6, <2>2
      <3>2. pc[t] \in {"idle", "create"}
        BY <1>6, <3>1, Zenon DEF SemInv
      <3>3. t # s
        BY <1>1, <1>6, <3>1, Zenon DEF Runs, Ready
      <3>4. QED
        BY <1>3, <3>2, <3>3
    <2>3. QED
      BY <2>1, <2>2
  <1>7. s_tx_semaphore' = 0 => \A t \in Senders : pc'[t] \in {"idle", "create"}
    BY <1>1, <1>3, Zenon DEF SemInv
  <1>8. /\ s_tx_semaphore' # 0 => (count'[s_tx_semaphore'] = 0 <=> \E t \in Senders : Holds(t)')
        /\ \A t, u \in Senders : Holds(t)' /\ Holds(u)' => t = u
        /\ \A h \in Handles : h > s_tx_semaphore' => count'[h] = 0
    BY <1>1, <1>4, Zenon DEF SemInv
  <1>9. \A t \in Senders : pc'[t] = "blocked" => handle'[t] = s_tx_semaphore'
    <2>1. to # "blocked"
      OBVIOUS
    <2> HIDE DEF to
    <2>2. QED
      BY <1>1, <1>3, <2>1, Zenon DEF SemInv
  <1>10. QED
    BY <1>2, <1>5, <1>6, <1>7, <1>8, <1>9, Zenon DEF SemInv

\* A task that creates a semaphore is alone: the tasks above it are idle, since one that waited would
\* wait for a task that holds a semaphore, and the tasks below it have none.
LEMMA CreatesAlone ==
  ASSUME SemTypes, SemInv, NEW s \in Senders, Runs(s), pc[s] = "create", NEW t \in Senders, t # s
  PROVE  pc[t] \in {"idle", "create"}
  <1>1. \A u \in Senders : Priority[u] > Priority[s] => ~Ready(u)
    BY Zenon DEF Runs
  <1>2. \A u \in Senders : Priority[u] \in Nat
    BY EthAssumption, Zenon
  <1>3. ASSUME NEW u \in Senders, Holds(u) PROVE FALSE
    <2>1. Ready(u) /\ u # s
      BY <1>3, Zenon DEF Holds, Ready
    <2>2. Priority[u] # Priority[s]
      BY <2>1, EthAssumption, Zenon
    <2>3. Priority[u] < Priority[s]
      BY <1>1, <1>2, <2>1, <2>2
    <2>4. pc[u] \in {"idle", "create"}
      BY <2>3, Zenon DEF SemInv
    <2>5. QED
      BY <1>3, <2>4 DEF Holds
  <1>4. CASE Priority[t] < Priority[s]
    BY <1>4, Zenon DEF SemInv
  <1>5. CASE Priority[t] > Priority[s]
    <2>1. ~Ready(t)
      BY <1>1, <1>5, Zenon
    <2>2. CASE pc[t] = "blocked"
      <3>1. handle[t] = s_tx_semaphore /\ s_tx_semaphore # 0
        BY <2>2, Zenon DEF SemInv
      <3>2. count[s_tx_semaphore] \in {0, 1} /\ count[s_tx_semaphore] # 1
        BY <2>1, <2>2, <3>1 DEF Ready, SemTypes
      <3>3. \E u \in Senders : Holds(u)
        BY <3>1, <3>2, Zenon DEF SemInv
      <3>4. QED
        BY <1>3, <3>3
    <2>3. QED
      BY <2>1, <2>2, Zenon DEF Ready
  <1>6. QED
    BY <1>2, <1>4, <1>5, EthAssumption

\* A semaphore is created; the task that did is the only one that holds it.
LEMMA CreateStep ==
  ASSUME SetFacts, SemTypes, SemInv, NEW s \in Senders, Create(s)
  PROVE  SemTypes' /\ SemInv'
  <1>1. /\ pc[s] = "create" /\ pc' = [pc EXCEPT ![s] = "first"] /\ UNCHANGED << count, handle >>
        /\ s_tx_semaphore' = s_tx_semaphore + 1 /\ Runs(s)
    BY Zenon DEF Create, Goto
  <1>2. \A t \in Senders : t # s => pc[t] \in {"idle", "create"}
    BY <1>1, CreatesAlone
  <1>3. \A t \in Senders : pc'[t] = IF t = s THEN "first" ELSE pc[t]
    BY <1>1 DEF SemTypes
  <1>4. Creating' = Creating \ {s} /\ s \in Creating
    BY <1>1, <1>3 DEF Creating
  <1>5. /\ Cardinality(Creating') = Cardinality(Creating) - 1 /\ Cardinality(Creating') \in Nat
        /\ Cardinality(Creating) \in Nat /\ Cardinality(Senders) \in Nat
    <2>1. IsFiniteSet(Creating) /\ Cardinality(Creating) \in Nat /\ Cardinality(Senders) \in Nat
      BY CreatingFinite
    <2>2. Cardinality(Creating \ {s}) = Cardinality(Creating) - 1
      BY <1>4, <2>1, Zenon DEF SetFacts, LessFact
    <2>3. Creating \ {s} \subseteq Creating
      OBVIOUS
    <2>4. Cardinality(Creating \ {s}) \in Nat
      BY <2>1, <2>3, Zenon DEF SetFacts, PartFact, SizeFact
    <2>5. QED
      BY <1>4, <2>1, <2>2, <2>4, Zenon
  <1>6. s_tx_semaphore \in Nat
    BY CreatingFinite DEF SemTypes, Handles
  <1>7. s_tx_semaphore' + Cardinality(Creating') <= Cardinality(Senders)
    BY <1>1, <1>5, <1>6 DEF SemInv
  <1>8. s_tx_semaphore' \in Handles
    BY <1>1, <1>5, <1>6, <1>7 DEF Handles
  <1>9. SemTypes'
    BY <1>1, <1>8, Zenon DEF SemTypes, Places
  <1>10. count'[s_tx_semaphore'] = 0
    <2>1. s_tx_semaphore' > s_tx_semaphore
      BY <1>1, <1>6
    <2>2. QED
      BY <1>1, <1>8, <2>1, Zenon DEF SemInv
  <1>11. \A h \in Handles : h > s_tx_semaphore' => count'[h] = 0
    <2>1. \A h \in Handles : h > s_tx_semaphore' => h > s_tx_semaphore
      BY <1>1, <1>6 DEF Handles
    <2>2. QED
      BY <1>1, <2>1, Zenon DEF SemInv
  <1>12. \A t \in Senders : Holds(t)' <=> t = s
    BY <1>2, <1>3, Zenon DEF Holds
  <1>13. s_tx_semaphore' # 0
    BY <1>1, <1>6
  <1>14. \A t \in Senders : pc'[t] # "blocked"
    BY <1>2, <1>3, Zenon
  <1>15. \A u, t \in Senders : pc'[u] = "create" /\ Priority[t] < Priority[u] => pc'[t] \in {"idle", "create"}
    <2>1. SUFFICES ASSUME NEW u \in Senders, NEW t \in Senders, pc'[u] = "create", Priority[t] < Priority[u]
                   PROVE  pc'[t] \in {"idle", "create"}
      BY Zenon
    <2>2. u # s /\ pc[u] = "create"
      BY <1>3, <2>1, Zenon
    <2>3. t # s
      BY <1>1, <2>1, <2>2, Zenon DEF Runs, Ready
    <2>4. QED
      BY <1>2, <1>3, <2>3, Zenon
  <1>16. QED
    BY <1>7, <1>9, <1>10, <1>11, <1>12, <1>13, <1>14, <1>15, Zenon DEF SemInv

\* A step after creating leaves the tasks below a creating one where they are.
LEMMA LaterStep ==
  ASSUME SemTypes, SemInv, NEW s \in Senders, pc[s] \notin {"idle", "create"},
         NEW to \in Places \ {"create"}, pc' = [pc EXCEPT ![s] = to],
         s_tx_semaphore' = s_tx_semaphore
  PROVE  /\ Creating' = Creating /\ pc' \in [Senders -> Places]
         /\ s_tx_semaphore' + Cardinality(Creating') <= Cardinality(Senders)
         /\ s_tx_semaphore' # 0 /\ s_tx_semaphore \in Handles
         /\ \A u, t \in Senders : pc'[u] = "create" /\ Priority[t] < Priority[u] => pc'[t] \in {"idle", "create"}
         /\ \A t \in Senders : pc'[t] = IF t = s THEN to ELSE pc[t]
  <1>1. \A t \in Senders : pc'[t] = IF t = s THEN to ELSE pc[t]
    BY Zenon DEF SemTypes
  <1>2. to # "create" /\ to \in Places
    BY DEF Places
  <1>3. Creating' = Creating
    BY <1>1, <1>2 DEF Creating
  <1>4. s_tx_semaphore # 0
    BY Zenon DEF SemInv
  <1>5. ASSUME NEW u \in Senders, NEW t \in Senders, pc'[u] = "create", Priority[t] < Priority[u]
        PROVE  pc'[t] \in {"idle", "create"}
    <2>1. pc[u] = "create"
      BY <1>1, <1>2, <1>5
    <2>2. pc[t] \in {"idle", "create"}
      BY <1>5, <2>1, Zenon DEF SemInv
    <2>3. QED
      BY <1>1, <2>2
  <1>6. pc' \in [Senders -> Places]
    BY <1>2 DEF SemTypes
  <1>7. QED
    BY <1>1, <1>3, <1>4, <1>5, <1>6, Zenon DEF SemInv, SemTypes

\* The task that holds the semaphore gives it: FirstGive after creating it, Give after sending.
LEMMA GiveStep ==
  ASSUME SetFacts, SemTypes, SemInv, NEW s \in Senders, FirstGive(s) \/ Give(s)
  PROVE  SemTypes' /\ SemInv'
  <1> DEFINE h == s_tx_semaphore
             to == IF pc[s] = "first" THEN "take" ELSE "idle"
  <1>1. /\ Holds(s) /\ pc' = [pc EXCEPT ![s] = to] /\ count' = [count EXCEPT ![h] = 1]
        /\ UNCHANGED << s_tx_semaphore, handle >>
    BY Zenon DEF FirstGive, Give, Given, Goto, Holds
  <1>2. pc[s] \notin {"idle", "create"} /\ to \in Places \ {"create"}
    BY <1>1 DEF Holds, Places
  <1> HIDE DEF to
  <1>3. /\ pc' \in [Senders -> Places] /\ h # 0 /\ h \in Handles
        /\ h' + Cardinality(Creating') <= Cardinality(Senders)
        /\ \A u, t \in Senders : pc'[u] = "create" /\ Priority[t] < Priority[u] => pc'[t] \in {"idle", "create"}
        /\ \A t \in Senders : pc'[t] = IF t = s THEN to ELSE pc[t]
    BY <1>1, <1>2, LaterStep, Zenon
  <1>4. SemTypes'
    BY <1>1, <1>3, Zenon DEF SemTypes
  <1>5. count'[h] = 1 /\ \A k \in Handles : k # h => count'[k] = count[k]
    BY <1>1, <1>3, Zenon DEF SemTypes
  <1>6. \A t \in Senders : ~Holds(t)'
    <2>1. to \in {"take", "idle"}
      BY DEF to
    <2>2. QED
      BY <1>1, <1>3, <2>1, Zenon DEF SemInv, Holds
  <1>7. \A k \in Handles : k > h' => count'[k] = 0
    <2>1. \A k \in Handles : k > h => k # h
      BY <1>3, CreatingFinite, AboveOther, Zenon DEF Handles
    <2>2. QED
      BY <1>1, <1>5, <2>1, Zenon DEF SemInv
  <1>8. \A t \in Senders : pc'[t] = "blocked" => handle'[t] = h'
    <2>1. to # "blocked"
      BY DEF to
    <2>2. QED
      BY <1>1, <1>3, <2>1, Zenon DEF SemInv
  <1>9. h' = h /\ count'[h'] # 0
    BY <1>1, <1>5
  <1>10. QED
    BY <1>3, <1>4, <1>6, <1>7, <1>8, <1>9, Zenon DEF SemInv

\* A task takes the semaphore, or waits for the one that has it.
LEMMA TakeStep ==
  ASSUME SetFacts, SemTypes, SemInv, NEW s \in Senders, Take(s)
  PROVE  SemTypes' /\ SemInv'
  <1> DEFINE h == s_tx_semaphore
             to == IF count[h] = 1 THEN "fill" ELSE "blocked"
  <1>1. pc[s] \in {"take", "blocked"} /\ (IF pc[s] = "take" THEN s_tx_semaphore ELSE handle[s]) = h
    BY Zenon DEF Take, SemInv
  <1>2. /\ pc' = [pc EXCEPT ![s] = to] /\ count' = [count EXCEPT ![h] = 0]
        /\ handle' = [handle EXCEPT ![s] = h] /\ s_tx_semaphore' = h
    BY <1>1, Zenon DEF Take, Goto
  <1>3. to \in {"fill", "blocked"} /\ to \in Places \ {"create"}
    BY DEF Places
  <1>4. (to = "fill") = (count[h] = 1)
    OBVIOUS
  <1> HIDE DEF to
  <1>5. /\ pc' \in [Senders -> Places] /\ h # 0 /\ h \in Handles
        /\ h' + Cardinality(Creating') <= Cardinality(Senders)
        /\ \A u, t \in Senders : pc'[u] = "create" /\ Priority[t] < Priority[u] => pc'[t] \in {"idle", "create"}
        /\ \A t \in Senders : pc'[t] = IF t = s THEN to ELSE pc[t]
    BY <1>1, <1>2, <1>3, LaterStep, Zenon
  <1>6. SemTypes'
    BY <1>2, <1>5, Zenon DEF SemTypes
  <1>7. count'[h] = 0 /\ \A k \in Handles : k # h => count'[k] = count[k]
    BY <1>2, <1>5, Zenon DEF SemTypes
  <1>8. count[h] \in {0, 1} /\ (count[h] = 0 <=> \E t \in Senders : Holds(t))
    BY <1>5, Zenon DEF SemTypes, SemInv
  <1>9. (\E t \in Senders : Holds(t)') /\ \A t, u \in Senders : Holds(t)' /\ Holds(u)' => t = u
    <2>1. ~Holds(s)
      BY <1>1, Zenon DEF Holds
    <2>2. \A t \in Senders : Holds(t)' <=> (Holds(t) \/ (t = s /\ to = "fill"))
      BY <1>3, <1>5, <2>1, Zenon DEF Holds
    <2>3. CASE to = "fill"
      BY <1>4, <1>8, <2>2, <2>3
    <2>4. CASE to # "fill"
      BY <1>4, <1>8, <2>2, <2>4, Zenon DEF SemInv
    <2>5. QED
      BY <2>3, <2>4
  <1>10. \A k \in Handles : k > h' => count'[k] = 0
    <2>1. \A k \in Handles : k > h => k # h
      BY <1>5, CreatingFinite, AboveOther, Zenon DEF Handles
    <2>2. QED
      BY <1>2, <1>7, <2>1, Zenon DEF SemInv
  <1>11. \A t \in Senders : pc'[t] = "blocked" => handle'[t] = h'
    <2>1. \A t \in Senders : handle'[t] = IF t = s THEN h ELSE handle[t]
      BY <1>2 DEF SemTypes
    <2>2. QED
      BY <1>2, <1>5, <2>1, Zenon DEF SemInv
  <1>12. QED
    BY <1>2, <1>5, <1>6, <1>7, <1>9, <1>10, <1>11, Zenon DEF SemInv

\* The wait runs out, or the frame is queued: the semaphore stays as it is.
LEMMA StayStep ==
  ASSUME SemTypes, SemInv, NEW s \in Senders, Expire(s) \/ Transmit(s)
  PROVE  SemTypes' /\ SemInv'
  <1> DEFINE h == s_tx_semaphore
             to == IF pc[s] = "blocked" THEN "hung" ELSE "give"
  <1>1. /\ pc[s] \in {"blocked", "fill"} /\ pc' = [pc EXCEPT ![s] = to]
        /\ UNCHANGED << s_tx_semaphore, count, handle >>
    BY Zenon DEF Expire, Transmit, Goto
  <1>2. pc[s] \notin {"idle", "create"} /\ to \in Places \ {"create"}
    BY <1>1 DEF Places
  <1>3. to \in {"hung", "give"} /\ (to = "give" <=> Holds(s))
    BY <1>1 DEF Holds
  <1> HIDE DEF to
  <1>4. /\ pc' \in [Senders -> Places] /\ h # 0 /\ h \in Handles
        /\ h' + Cardinality(Creating') <= Cardinality(Senders)
        /\ \A u, t \in Senders : pc'[u] = "create" /\ Priority[t] < Priority[u] => pc'[t] \in {"idle", "create"}
        /\ \A t \in Senders : pc'[t] = IF t = s THEN to ELSE pc[t]
    BY <1>1, <1>2, LaterStep, Zenon
  <1>5. SemTypes'
    BY <1>1, <1>4, Zenon DEF SemTypes
  <1>6. \A t \in Senders : Holds(t)' <=> Holds(t)
    BY <1>3, <1>4, Zenon DEF Holds
  <1>7. \A t \in Senders : pc'[t] = "blocked" => handle'[t] = h'
    BY <1>1, <1>3, <1>4, Zenon DEF SemInv
  <1>8. QED
    BY <1>1, <1>4, <1>5, <1>6, <1>7, Zenon DEF SemInv

\* A waiting task waits for the semaphore of s_tx_semaphore, and some task holds it.
LEMMA SemWaits == ASSUME SemTypes, SemInv PROVE WaitsForHolder
  BY Zenon DEF SemInv, WaitsForHolder, Holds

-----------------------------------------------------------------------------
(* Steps                                                                    *)

RxStep == FrameArrives \/ Irq \/ IrqClear \/ Receive \/ Handle \/ PbufFree

\* The steps of receiving keep the invariant.
LEMMA ReceivingStep ==
  ASSUME EthInv, RxStep
  PROVE  EthInv' /\ UNCHANGED txVars
  <1>1. RxTypes /\ TxTypes /\ SemTypes /\ RxInv /\ TxInv /\ SemInv
    BY TypeParts DEF EthInv
  <1>2. UNCHANGED txVars
    BY Zenon DEF RxStep, FrameArrives, Irq, IrqClear, Receive, RxTake, RxLength, RxRelease, RxInput, Handle, PbufFree
  <1>3. RxTypes' /\ RxInv'
    BY <1>1, FrameArrivesStep, WakeStep, RxLengthStep, RxReleaseStep, RxInputStep, LwipStep DEF RxStep, Receive
  <1>4. TxTypes' /\ TxInv'
    BY <1>1, <1>2, Zenon DEF TxTypes, TxInv, txVars
  <1>5. SemTypes' /\ SemInv'
    BY <1>1, <1>2, Zenon DEF SemTypes, SemInv, Creating, Holds, txVars
  <1>6. TypeOK'
    <2>1. (RxTypes /\ TxTypes /\ SemTypes => TypeOK)'
      BY Zenon DEF TypeOK, RxTypes, TxTypes, SemTypes, Places
    <2>2. QED
      BY <1>3, <1>4, <1>5, <2>1
  <1>7. QED
    BY <1>2, <1>3, <1>4, <1>5, <1>6 DEF EthInv

\* What receiving has to itself stays as it is while tasks and the DMA send.
LEMMA RxFrame == ASSUME RxTypes, RxInv, UNCHANGED rxVars PROVE RxTypes' /\ RxInv'
  <1>1. RxTypes'
    BY Zenon DEF RxTypes, rxVars
  <1>2. \E n \in 0 .. RxNum : RxTable(n)'
    BY Zenon DEF RxInv, RxTable, rxVars
  <1>3. PbufsConserved' /\ FramesAreFetched'
    BY Zenon DEF RxInv, PbufsConserved, FramesAreFetched, Woken, rxVars
  <1>4. QED
    BY <1>1, <1>2, <1>3, Zenon DEF RxInv, Pending, rxVars

\* So do the steps of sending.
LEMMA SendingStep ==
  ASSUME SetFacts, EthInv, DmaSend \/ \E s \in Senders : Output(s) \/ Send(s) \/ Expire(s)
  PROVE  EthInv' /\ UNCHANGED rxVars
  <1>1. RxTypes /\ TxTypes /\ SemTypes /\ RxInv /\ TxInv /\ SemInv
    BY TypeParts DEF EthInv
  <1>2. UNCHANGED rxVars
    BY Zenon DEF DmaSend, Output, Send, Create, FirstGive, Take, Transmit, Give, Expire
  <1>3. RxTypes' /\ RxInv'
    BY <1>1, <1>2, RxFrame
  <1>4. TxTypes' /\ TxInv' /\ SemTypes' /\ SemInv'
    <2>1. CASE DmaSend
      <3>1. SemTypes' /\ SemInv'
        BY <1>1, <2>1, Zenon DEF DmaSend, SemTypes, SemInv, Creating, Holds
      <3>2. QED
        BY <1>1, <2>1, <3>1, DmaSendStep
    <2>2. ASSUME NEW s \in Senders, Transmit(s)
          PROVE  TxTypes' /\ TxInv' /\ SemTypes' /\ SemInv'
      BY <1>1, <2>2, TransmitStep, StayStep
    <2>3. ASSUME NEW s \in Senders,
                 Output(s) \/ Create(s) \/ FirstGive(s) \/ Take(s) \/ Give(s) \/ Expire(s)
          PROVE  TxTypes' /\ TxInv' /\ SemTypes' /\ SemInv'
      <3>1. SemTypes' /\ SemInv'
        BY <1>1, <2>3, OutputStep, CreateStep, GiveStep, TakeStep, StayStep, Zenon
      <3>2. UNCHANGED << txdesc, tx_dma, dma_current_txdesc, wire, queued >>
        BY <2>3, Zenon DEF Output, Create, FirstGive, Take, Give, Expire
      <3>3. TxTypes' /\ TxInv'
        BY <1>1, <3>2, Zenon DEF TxTypes, TxInv
      <3>4. QED
        BY <3>1, <3>3
    <2>4. QED
      BY <2>1, <2>2, <2>3, Zenon DEF Send
  <1>5. TypeOK'
    <2>1. (RxTypes /\ TxTypes /\ SemTypes => TypeOK)'
      BY Zenon DEF TypeOK, RxTypes, TxTypes, SemTypes, Places
    <2>2. QED
      BY <1>3, <1>4, <2>1, Zenon
  <1>6. QED
    BY <1>2, <1>3, <1>4, <1>5 DEF EthInv

-----------------------------------------------------------------------------
(* Receiving implements LossyChannel                                        *)

\* the frames on their way, for a mailbox m, a frame x in ethernetif_input and frames t in the table
Chan(m, x, t) == m \o (IF x # 0 THEN << x >> ELSE << >>) \o t

\* What the steps below use of sequences.
LEMMA SeqShape ==
  ASSUME NEW S, NEW s \in Seq(S)
  PROVE  Len(s) \in Nat /\ \A i \in 1 .. Len(s) : s[i] \in S
  OBVIOUS

LEMMA SeqConcat ==
  ASSUME NEW S, NEW s \in Seq(S), NEW t \in Seq(S)
  PROVE  /\ s \o t \in Seq(S) /\ Len(s \o t) = Len(s) + Len(t)
         /\ \A i \in 1 .. Len(s) + Len(t) : (s \o t)[i] = IF i <= Len(s) THEN s[i] ELSE t[i - Len(s)]
  OBVIOUS

LEMMA SeqRegroup ==
  ASSUME NEW s \in Seq(Nat), NEW t \in Seq(Nat), NEW u \in Seq(Nat)
  PROVE  (s \o t) \o u = s \o (t \o u)
  BY SMTT(20)

LEMMA SeqAlone ==
  ASSUME NEW S, NEW s \in Seq(S)
  PROVE  s \o << >> = s
  OBVIOUS

LEMMA SeqAppend ==
  ASSUME NEW S, NEW s \in Seq(S), NEW e \in S
  PROVE  Append(s, e) = s \o << e >> /\ Append(s, e) \in Seq(S)
  OBVIOUS

LEMMA SeqPart ==
  ASSUME NEW S, NEW s, NEW m \in Int, NEW n \in Int, \A i \in m .. n : s[i] \in S
  PROVE  /\ SubSeq(s, m, n) \in Seq(S) /\ Len(SubSeq(s, m, n)) = IF m <= n THEN n - m + 1 ELSE 0
         /\ \A i \in 1 .. n - m + 1 : SubSeq(s, m, n)[i] = s[m + i - 1]
  OBVIOUS

LEMMA SeqPartEnds ==
  ASSUME NEW S, NEW s \in Seq(S), NEW m \in 1 .. Len(s), NEW n \in m .. Len(s)
  PROVE  /\ SubSeq(s, m, n) = << s[m] >> \o SubSeq(s, m + 1, n)
         /\ SubSeq(s, m, n) = SubSeq(s, m, n - 1) \o << s[n] >>
  <1>1. SubSeq(s, m, n) = << s[m] >> \o SubSeq(s, m + 1, n)
    OBVIOUS
  <1>2. SubSeq(s, m, n) = SubSeq(s, m, n - 1) \o << s[n] >>
    OBVIOUS
  <1>3. QED
    BY <1>1, <1>2, Zenon

LEMMA SeqSame ==
  ASSUME NEW S, NEW s \in Seq(S), NEW t \in Seq(S), Len(s) = Len(t), \A i \in 1 .. Len(s) : s[i] = t[i]
  PROVE  s = t
  OBVIOUS

\* The two parts of a concatenation.
LEMMA ConcatParts ==
  ASSUME NEW s \in Seq(Nat), NEW t \in Seq(Nat)
  PROVE  /\ SubSeq(s \o t, 1, Len(s)) = s
         /\ SubSeq(s \o t, Len(s) + 1, Len(s \o t)) = t
  <1> DEFINE c == s \o t
             m == Len(s)
             n == Len(t)
             a == SubSeq(c, 1, m)
             b == SubSeq(c, m + 1, m + n)
  <1>1. /\ c \in Seq(Nat) /\ Len(c) = m + n /\ m \in Nat /\ n \in Nat
        /\ \A i \in 1 .. m + n : c[i] = IF i <= m THEN s[i] ELSE t[i - m]
    BY SeqConcat
  <1>2. \A i \in 1 .. m + n : c[i] \in Nat
    BY <1>1, SeqShape, Zenon
  <1> HIDE DEF c
  <1>3. a = s
    <2>1. a \in Seq(Nat) /\ Len(a) = (IF 1 <= m THEN m - 1 + 1 ELSE 0) /\ \A i \in 1 .. m - 1 + 1 : a[i] = c[1 + i - 1]
      BY <1>1, <1>2, SeqPart
    <2>2. Len(a) = m
      BY <1>1, <2>1
    <2>3. ASSUME NEW i \in 1 .. m PROVE a[i] = s[i]
      <3>1. i \in 1 .. m + n /\ i <= m /\ i \in 1 .. m - 1 + 1 /\ 1 + i - 1 = i
        BY <1>1
      <3>2. a[i] = c[i]
        BY <2>1, <3>1, Zenon
      <3>3. c[i] = IF i <= m THEN s[i] ELSE t[i - m]
        BY <1>1, <3>1, Zenon
      <3>4. QED
        BY <3>1, <3>2, <3>3, Zenon
    <2> HIDE DEF a
    <2>4. QED
      BY <2>1, <2>2, <2>3, SeqSame, Zenon
  <1>4. b = t
    <2>1. /\ b \in Seq(Nat) /\ Len(b) = (IF m + 1 <= m + n THEN m + n - (m + 1) + 1 ELSE 0)
          /\ \A i \in 1 .. m + n - (m + 1) + 1 : b[i] = c[m + 1 + i - 1]
      <3>1. m + 1 \in Int /\ m + n \in Int /\ \A i \in m + 1 .. m + n : c[i] \in Nat
        BY <1>1, <1>2
      <3>2. QED
        BY <3>1, SeqPart
    <2>2. Len(b) = n
      BY <1>1, <2>1
    <2> HIDE DEF b
    <2>3. ASSUME NEW i \in 1 .. n PROVE b[i] = t[i]
      <3> DEFINE j == m + i
      <3>1. j \in 1 .. m + n /\ ~(j <= m) /\ j - m = i /\ m + 1 + i - 1 = j /\ i \in 1 .. m + n - (m + 1) + 1
        <4>1. m \in Nat /\ n \in Nat
          BY <1>1, Zenon
        <4> HIDE DEF m, n
        <4>2. /\ m + i \in 1 .. m + n /\ ~(m + i <= m) /\ (m + i) - m = i /\ m + 1 + i - 1 = m + i
              /\ i \in 1 .. m + n - (m + 1) + 1
          BY <4>1, SecondPart, Zenon
        <4>3. QED
          BY <4>2, Zenon DEF j
      <3> HIDE DEF j
      <3>2. b[i] = c[j]
        BY <2>1, <3>1, Zenon
      <3>3. c[j] = IF j <= m THEN s[j] ELSE t[j - m]
        BY <1>1, <3>1, Zenon
      <3>4. QED
        BY <3>1, <3>2, <3>3, Zenon
    <2>4. QED
      BY <2>1, <2>2, <2>3, SeqSame, Zenon
  <1>5. QED
    BY <1>1, <1>3, <1>4, Zenon DEF c

\* A frame that is on its way is a frame.
LEMMA ChanType ==
  ASSUME NEW m \in Seq(Nat), NEW x \in Nat, NEW t \in Seq(Nat)
  PROVE  /\ Chan(m, x, t) \in Seq(Nat) /\ Chan(m, 0, t) = m \o t
         /\ x # 0 => Chan(m, x, t) = (m \o << x >>) \o t /\ Chan(m, x, t) = m \o (<< x >> \o t)
  <1>1. << x >> \in Seq(Nat) /\ << >> \in Seq(Nat)
    OBVIOUS
  <1>2. m \o << >> = m
    BY SeqAlone
  <1>3. (m \o << x >>) \o t = m \o (<< x >> \o t)
    BY <1>1, SeqRegroup, Zenon
  <1>4. m \o t \in Seq(Nat) /\ m \o << x >> \in Seq(Nat) /\ (m \o << x >>) \o t \in Seq(Nat)
    BY <1>1, SeqConcat, Zenon
  <1>5. QED
    BY <1>2, <1>3, <1>4, Zenon DEF Chan

\* A frame that arrives comes last.
LEMMA ChanSend ==
  ASSUME NEW m \in Seq(Nat), NEW x \in Nat, NEW t \in Seq(Nat), NEW e \in Nat
  PROVE  Chan(m, x, Append(t, e)) = Append(Chan(m, x, t), e)
  <1> DEFINE a == m \o (IF x # 0 THEN << x >> ELSE << >>)
  <1>1. a \in Seq(Nat) /\ << e >> \in Seq(Nat)
    <2>1. (IF x # 0 THEN << x >> ELSE << >>) \in Seq(Nat)
      OBVIOUS
    <2>2. QED
      BY <2>1, SeqConcat
  <1> HIDE DEF a
  <1>2. Append(t, e) = t \o << e >> /\ a \o t \in Seq(Nat)
    BY <1>1, SeqAppend, SeqConcat, Zenon
  <1>3. a \o (t \o << e >>) = (a \o t) \o << e >>
    BY <1>1, SeqRegroup, SMTT(20)
  <1>4. Append(a \o t, e) = (a \o t) \o << e >>
    BY <1>2, SeqAppend
  <1>5. Chan(m, x, Append(t, e)) = a \o Append(t, e) /\ Chan(m, x, t) = a \o t
    BY DEF Chan, a
  <1>6. QED
    BY <1>2, <1>3, <1>4, <1>5, Zenon

\* A frame stays where it is in the channel when ethernetif_input fetches it, and when it posts it.
LEMMA ChanMove ==
  ASSUME NEW m \in Seq(Nat), NEW x \in Nat, x # 0, NEW t \in Seq(Nat)
  PROVE  /\ Chan(m, 0, << x >> \o t) = Chan(m, x, t)
         /\ Chan(Append(m, x), 0, t) = Chan(m, x, t)
  <1>1. << x >> \in Seq(Nat)
    OBVIOUS
  <1>2. << x >> \o t \in Seq(Nat) /\ Append(m, x) \in Seq(Nat) /\ Append(m, x) = m \o << x >>
    BY <1>1, SeqConcat, SeqAppend
  <1>3. Chan(m, 0, << x >> \o t) = m \o (<< x >> \o t)
    BY <1>2, ChanType, Zenon
  <1>4. Chan(Append(m, x), 0, t) = (m \o << x >>) \o t
    <2> DEFINE a == Append(m, x)
    <2>1. a \in Seq(Nat)
      BY <1>2
    <2> HIDE DEF a
    <2>2. Chan(a, 0, t) = a \o t
      BY <2>1, ChanType, Zenon
    <2>3. QED
      BY <1>2, <2>2, Zenon DEF a
  <1>5. QED
    BY <1>3, <1>4, ChanType, Zenon

\* The frame in ethernetif_input is lost.
LEMMA ChanLose ==
  ASSUME NEW m \in Seq(Nat), NEW x \in Nat, x # 0, NEW t \in Seq(Nat)
  PROVE  /\ Len(m) + 1 \in 1 .. Len(Chan(m, x, t))
         /\ Chan(m, 0, t) = Channel!Without(Chan(m, x, t), Len(m) + 1)
  <1> DEFINE c == Chan(m, x, t)
             a == m \o << x >>
             b == << x >> \o t
  <1>1. << x >> \in Seq(Nat) /\ Len(<< x >>) = 1
    OBVIOUS
  <1>2. c = a \o t /\ c = m \o b /\ Chan(m, 0, t) = m \o t
    BY ChanType, Zenon
  <1>3. /\ a \in Seq(Nat) /\ b \in Seq(Nat) /\ Len(a) = Len(m) + 1 /\ Len(a \o t) = Len(a) + Len(t)
        /\ Len(m) \in Nat /\ Len(t) \in Nat
    BY <1>1, SeqConcat, SeqShape
  <1> HIDE DEF a, b, c
  <1>4. SubSeq(c, 1, Len(m)) = m /\ SubSeq(c, Len(a) + 1, Len(c)) = t
    <2>1. SubSeq(m \o b, 1, Len(m)) = m
      BY <1>3, ConcatParts, Zenon
    <2>2. SubSeq(a \o t, Len(a) + 1, Len(a \o t)) = t
      BY <1>3, ConcatParts, Zenon
    <2>3. QED
      BY <1>2, <2>1, <2>2, Zenon
  <1>5. Len(m) + 1 - 1 = Len(m) /\ Len(m) + 1 + 1 = Len(a) + 1
    BY <1>3
  <1>6. Channel!Without(c, Len(m) + 1) = SubSeq(c, 1, Len(m)) \o SubSeq(c, Len(a) + 1, Len(c))
    <2> DEFINE k == Len(m) + 1
    <2>1. k - 1 = Len(m) /\ k + 1 = Len(a) + 1
      BY <1>5
    <2> HIDE DEF k
    <2>2. Channel!Without(c, k) = SubSeq(c, 1, k - 1) \o SubSeq(c, k + 1, Len(c))
      BY DEF Channel!Without
    <2>3. QED
      BY <2>1, <2>2, Zenon DEF k
  <1>7. Len(m) + 1 \in 1 .. Len(c)
    BY <1>2, <1>3, SMTT(20)
  <1>8. QED
    BY <1>2, <1>4, <1>6, <1>7, Zenon DEF c

\* lwIP gets the first frame.
LEMMA ChanDeliver ==
  ASSUME NEW m \in Seq(Nat), m # << >>, NEW x \in Nat, NEW t \in Seq(Nat)
  PROVE  /\ Chan(m, x, t) # << >> /\ Head(Chan(m, x, t)) = Head(m)
         /\ Tail(Chan(m, x, t)) = Chan(Tail(m), x, t)
  <1> DEFINE a == IF x # 0 THEN << x >> ELSE << >>
  <1>1. a \in Seq(Nat)
    OBVIOUS
  <1> HIDE DEF a
  <1>2. /\ \A s \in Seq(Nat) : Chan(s, x, t) = s \o (a \o t)
        /\ a \o t \in Seq(Nat)
    <2>1. \A s \in Seq(Nat) : Chan(s, x, t) = (s \o a) \o t
      BY DEF Chan, a
    <2>2. ASSUME NEW u \in Seq(Nat) PROVE (u \o a) \o t = u \o (a \o t)
      BY <1>1, SeqRegroup, Zenon
    <2>3. QED
      BY <1>1, <2>1, <2>2, SeqConcat, Zenon
  <1>3. m \o (a \o t) # << >> /\ Head(m \o (a \o t)) = Head(m) /\ Tail(m \o (a \o t)) = Tail(m) \o (a \o t)
    <2> DEFINE b == a \o t
    <2>1. b \in Seq(Nat)
      BY <1>2
    <2> HIDE DEF b
    <2>2. m \o b # << >> /\ Head(m \o b) = Head(m) /\ Tail(m \o b) = Tail(m) \o b
      BY <2>1, SMTT(20)
    <2>3. QED
      BY <2>2, Zenon DEF b
  <1>4. Tail(m) \in Seq(Nat)
    OBVIOUS
  <1>5. QED
    BY <1>2, <1>3, <1>4, Zenon

\* the descriptors of table d from c on
RingOf(d, c) == [i \in 1 .. RxNum |-> d[(c + i - 1) % RxNum]]

\* A part of a queue of frames, element by element.
LEMMA NatPart ==
  ASSUME NEW s, NEW m \in Int, NEW n \in Int, \A i \in m .. n : s[i] \in Nat
  PROVE  /\ SubSeq(s, m, n) \in Seq(Nat) /\ Len(SubSeq(s, m, n)) = IF m <= n THEN n - m + 1 ELSE 0
         /\ \A i \in 1 .. n - m + 1 : SubSeq(s, m, n)[i] = s[m + i - 1]
  BY SeqPart

\* Parts of two sequences are equal when they have the same elements, h places apart.
LEMMA PartsEqual ==
  ASSUME NEW s \in Seq(Nat), NEW t \in Seq(Nat), NEW a \in Nat, NEW b \in Nat, NEW h \in Nat,
         a > 0, b <= Len(s), b + h <= Len(t), \A i \in a .. b : s[i] = t[i + h]
  PROVE  SubSeq(s, a, b) = SubSeq(t, a + h, b + h) /\ SubSeq(s, a, b) \in Seq(Nat)
  <1> DEFINE u == SubSeq(s, a, b)
             v == SubSeq(t, a + h, b + h)
             l == IF a <= b THEN b - a + 1 ELSE 0
  <1>1. Len(s) \in Nat /\ Len(t) \in Nat /\ a + h \in Nat /\ b + h \in Nat /\ l \in Nat
    BY SeqShape
  <1>2. (\A i \in a .. b : s[i] \in Nat) /\ (\A i \in a + h .. b + h : t[i] \in Nat)
    <2>1. ASSUME NEW i \in a .. b PROVE s[i] \in Nat
      <3>1. i \in 1 .. Len(s)
        BY <1>1
      <3>2. QED
        BY <3>1, SeqShape, Zenon
    <2>2. ASSUME NEW i \in a + h .. b + h PROVE t[i] \in Nat
      <3>1. i \in 1 .. Len(t)
        BY <1>1
      <3>2. QED
        BY <3>1, SeqShape
    <2>3. QED
      BY <2>1, <2>2
  <1>3. u \in Seq(Nat) /\ Len(u) = l /\ \A i \in 1 .. b - a + 1 : u[i] = s[a + i - 1]
    <2>1. a \in Int /\ b \in Int
      OBVIOUS
    <2>2. QED
      BY <1>2, <2>1, NatPart
  <1>4. /\ v \in Seq(Nat) /\ Len(v) = l
        /\ \A i \in 1 .. b + h - (a + h) + 1 : v[i] = t[a + h + i - 1]
    <2>1. /\ v \in Seq(Nat) /\ Len(v) = (IF a + h <= b + h THEN b + h - (a + h) + 1 ELSE 0)
          /\ \A i \in 1 .. b + h - (a + h) + 1 : v[i] = t[a + h + i - 1]
      <3> DEFINE x == a + h
                 y == b + h
      <3>1. x \in Int /\ y \in Int /\ \A i \in x .. y : t[i] \in Nat
        BY <1>1, <1>2
      <3> HIDE DEF x, y
      <3>2. /\ SubSeq(t, x, y) \in Seq(Nat) /\ Len(SubSeq(t, x, y)) = (IF x <= y THEN y - x + 1 ELSE 0)
            /\ \A i \in 1 .. y - x + 1 : SubSeq(t, x, y)[i] = t[x + i - 1]
        BY <3>1, NatPart
      <3>3. QED
        BY <3>2 DEF x, y
    <2>2. (IF a + h <= b + h THEN b + h - (a + h) + 1 ELSE 0) = l
      OBVIOUS
    <2> HIDE DEF v, l
    <2>3. QED
      BY <2>1, <2>2, Zenon
  <1> HIDE DEF u, v
  <1>5. ASSUME NEW i \in 1 .. l PROVE u[i] = v[i]
    <2>1. a <= b /\ i \in 1 .. b - a + 1 /\ i \in 1 .. b + h - (a + h) + 1
      BY <1>1
    <2>2. a + i - 1 \in a .. b /\ a + i - 1 + h = a + h + i - 1
      BY <2>1
    <2>3. u[i] = s[a + i - 1] /\ v[i] = t[a + h + i - 1]
      BY <1>3, <1>4, <2>1, Zenon
    <2>4. s[a + i - 1] = t[a + i - 1 + h]
      BY <2>2, Zenon
    <2>5. QED
      BY <2>2, <2>3, <2>4, Zenon
  <1> HIDE DEF l
  <1>6. u = v
    BY <1>3, <1>4, <1>5, SeqSame, Zenon
  <1>7. QED
    BY <1>3, <1>6 DEF u, v

\* The table as a sequence: its n frames come first.
LEMMA RingFacts ==
  ASSUME SetFacts, NEW d \in [0 .. RxNum - 1 -> Nat], NEW c \in 0 .. RxNum - 1, NEW n \in 0 .. RxNum,
         \A k \in 0 .. RxNum - 1 : d[Pos(c, k, RxNum)] # 0 <=> k < n
  PROVE  /\ RingOf(d, c) \in Seq(Nat) /\ Len(RingOf(d, c)) = RxNum
         /\ \A k \in 0 .. RxNum - 1 : RingOf(d, c)[k + 1] = d[Pos(c, k, RxNum)]
         /\ Cardinality({i \in 1 .. RxNum : RingOf(d, c)[i] # 0}) = n
  <1> DEFINE R == RingOf(d, c)
  <1>1. ASSUME NEW i \in 1 .. RxNum
        PROVE  R[i] = d[Pos(c, i - 1, RxNum)] /\ Pos(c, i - 1, RxNum) \in 0 .. RxNum - 1
    <2>1. i - 1 \in 0 .. RxNum /\ c + i - 1 = c + (i - 1)
      BY Sizes
    <2>2. (c + (i - 1)) % RxNum = Pos(c, i - 1, RxNum) /\ Pos(c, i - 1, RxNum) \in 0 .. RxNum - 1
      BY <2>1, ModPos, Sizes, Zenon
    <2>3. R[i] = d[(c + i - 1) % RxNum]
      BY Zenon DEF RingOf
    <2>4. QED
      BY <2>1, <2>2, <2>3, Zenon
  <1>2. R \in [1 .. RxNum -> Nat]
    <2>1. ASSUME NEW i \in 1 .. RxNum PROVE R[i] \in Nat
      BY <1>1, Zenon
    <2>2. R = [i \in 1 .. RxNum |-> R[i]]
      BY Zenon DEF RingOf
    <2>3. QED
      BY <2>1, <2>2
  <1> HIDE DEF R
  <1>3. R \in Seq(Nat) /\ Len(R) = RxNum
    BY <1>2, Sizes
  <1>4. ASSUME NEW k \in 0 .. RxNum - 1 PROVE R[k + 1] = d[Pos(c, k, RxNum)]
    <2>1. k + 1 \in 1 .. RxNum /\ k + 1 - 1 = k
      BY Sizes
    <2>2. QED
      BY <1>1, <2>1
  <1>5. {i \in 1 .. RxNum : R[i] # 0} = 1 .. n
    <2>1. ASSUME NEW i \in 1 .. RxNum PROVE R[i] # 0 <=> i \in 1 .. n
      <3>1. i - 1 \in 0 .. RxNum - 1
        BY Sizes
      <3>2. d[Pos(c, i - 1, RxNum)] # 0 <=> i - 1 < n
        BY <3>1
      <3>3. QED
        BY <1>1, <3>2
    <2>2. 1 .. n \subseteq 1 .. RxNum
      BY Sizes
    <2>3. QED
      BY <2>1, <2>2
  <1>6. Cardinality(1 .. n) = n
    <2>1. n \in Nat
      BY Sizes
    <2>2. QED
      BY <2>1, Zenon DEF SetFacts, IntervalFact
  <1>7. QED
    BY <1>3, <1>4, <1>5, <1>6, Zenon DEF R

\* where the frames start that ethernetif_input has not fetched
First(place, x) == IF place = "release" /\ x # 0 THEN 2 ELSE 1

\* What the frames in the table are, before a step ...
LEMMA TableIs ==
  ASSUME SetFacts, RxTypes, NEW n \in 0 .. RxNum, RxTable(n)
  PROVE  /\ InTable = SubSeq(RingOf(rxdesc, dma_current_rxdesc), First(rx, p), n)
         /\ InTable \in Seq(Nat)
  <1> DEFINE R == RingOf(rxdesc, dma_current_rxdesc)
  <1>1. rxdesc \in [0 .. RxNum - 1 -> Nat] /\ dma_current_rxdesc \in 0 .. RxNum - 1
    BY DEF RxTypes
  <1>2. R \in Seq(Nat) /\ Len(R) = RxNum /\ Cardinality({i \in 1 .. RxNum : R[i] # 0}) = n
    BY <1>1, RingFacts, Zenon DEF RxTable
  <1>3. R = Ring
    BY DEF RingOf, Ring
  <1>4. InTable = SubSeq(R, First(rx, p), n)
    BY <1>2, <1>3, Zenon DEF InTable, First
  <1>5. First(rx, p) \in Nat /\ First(rx, p) > 0
    BY DEF First
  <1> HIDE DEF R
  <1>6. SubSeq(R, First(rx, p), n) \in Seq(Nat)
    <2>1. n <= Len(R) /\ n + 0 <= Len(R) /\ \A i \in First(rx, p) .. n : R[i] = R[i + 0]
      BY <1>2, <1>5
    <2>2. QED
      BY <1>2, <1>5, <2>1, PartsEqual
  <1>7. QED
    BY <1>4, <1>6 DEF R

\* ... and after it.
LEMMA TableIsNext ==
  ASSUME SetFacts, RxTypes', NEW n \in 0 .. RxNum, RxTable(n)'
  PROVE  InTable' = SubSeq(RingOf(rxdesc', dma_current_rxdesc'), First(rx', p'), n)
  <1> DEFINE d == rxdesc'
             c == dma_current_rxdesc'
             R == RingOf(d, c)
  <1>1. /\ d \in [0 .. RxNum - 1 -> Nat] /\ c \in 0 .. RxNum - 1
        /\ \A k \in 0 .. RxNum - 1 : d[Pos(c, k, RxNum)] # 0 <=> k < n
    BY DEF RxTypes, RxTable
  <1> HIDE DEF c, d
  <1>2. Cardinality({i \in 1 .. RxNum : R[i] # 0}) = n
    BY <1>1, RingFacts, Zenon
  <1>3. R = Ring'
    BY DEF RingOf, Ring, c, d
  <1>4. QED
    BY <1>2, <1>3 DEF InTable, First, c, d

\* What is on its way, as the mapping has it.
LEMMA OnItsWay ==
  ASSUME SetFacts, RxTypes, RxInv
  PROVE  mbox \in Seq(Nat) /\ p \in Nat /\ InTable \in Seq(Nat) /\ (mbox = << >> \/ Head(mbox) \in Nat)
  <1>1. PICK n \in 0 .. RxNum : RxTable(n)
    BY Zenon DEF RxInv
  <1>2. arrived \in Nat /\ mbox \in Seq(1 .. arrived) /\ p \in Nat
    BY DEF RxTypes
  <1>3. mbox \in Seq(Nat)
    <2>1. 1 .. arrived \subseteq Nat
      BY <1>2
    <2>2. QED
      BY <1>2, <2>1
  <1>4. QED
    BY <1>1, <1>2, <1>3, TableIs

\* A frame that arrives is sent into the channel, or missed.
LEMMA ArrivesSends ==
  ASSUME SetFacts, RxTypes, RxInv, RxTypes', FrameArrives
  PROVE  Channel!Send
  <1>1. PICK n \in 0 .. RxNum : RxTable(n)
    BY Zenon DEF RxInv
  <1>2. arrived' = arrived + 1 /\ UNCHANGED << dma_current_rxdesc, rx, p, mbox, handed >> /\ arrived \in Nat
    BY Zenon DEF FrameArrives, RxTypes
  <1>3. InTable' \in {InTable, Append(InTable, arrived + 1)}
    <2>1. CASE rxdesc[rx_dma] # 0
      <3>1. rxdesc' = rxdesc
        BY <2>1, Zenon DEF FrameArrives
      <3>2. InTable' = InTable
        BY <1>2, <3>1 DEF InTable, Ring
      <3>3. QED
        BY <3>2
    <2>2. CASE rxdesc[rx_dma] = 0
      <3> DEFINE c == dma_current_rxdesc
                 f == First(rx, p)
                 R == RingOf(rxdesc, c)
                 S == RingOf(rxdesc', c)
      <3>1. /\ rxdesc' = [rxdesc EXCEPT ![rx_dma] = arrived + 1]
            /\ rx_dma' = (rx_dma + 1) % RxNum
        BY <2>2, Zenon DEF FrameArrives
      <3>2. n < RxNum /\ RxTable(n + 1)' /\ n + 1 \in 0 .. RxNum
        BY <1>1, <1>2, <2>2, <3>1, FillTable, Sizes
      <3>3. c \in 0 .. RxNum - 1 /\ rx_dma \in 0 .. RxNum - 1 /\ rx_dma = Pos(c, n, RxNum)
        BY <1>1, Zenon DEF RxTypes, RxTable
      <3>4. InTable = SubSeq(R, f, n) /\ InTable' = SubSeq(S, f, n + 1)
        BY <1>1, <1>2, <3>2, TableIs, TableIsNext, Zenon
      <3>5. /\ R \in Seq(Nat) /\ Len(R) = RxNum
            /\ \A k \in 0 .. RxNum - 1 : R[k + 1] = rxdesc[Pos(c, k, RxNum)]
        <4>1. /\ rxdesc \in [0 .. RxNum - 1 -> Nat]
              /\ \A k \in 0 .. RxNum - 1 : rxdesc[Pos(c, k, RxNum)] # 0 <=> k < n
          BY <1>1 DEF RxTypes, RxTable
        <4>2. QED
          BY <3>3, <4>1, RingFacts, Zenon
      <3>6. /\ S \in Seq(Nat) /\ Len(S) = RxNum
            /\ \A k \in 0 .. RxNum - 1 : S[k + 1] = rxdesc'[Pos(c, k, RxNum)]
        <4>1. /\ rxdesc' \in [0 .. RxNum - 1 -> Nat]
              /\ \A k \in 0 .. RxNum - 1 : rxdesc'[Pos(c, k, RxNum)] # 0 <=> k < n + 1
          BY <1>2, <3>2 DEF RxTypes, RxTable
        <4>2. QED
          BY <3>2, <3>3, <4>1, RingFacts, Zenon
      <3>7. f \in 1 .. n + 1
        <4>1. CASE rx = "release" /\ p # 0
          <5>1. rxdesc[Pos(c, 0, RxNum)] # 0
            <6>1. Pos(c, 0, RxNum) = c
              BY <3>3, Sizes DEF Pos
            <6>2. rxdesc[c] # 0
              BY <4>1 DEF RxInv
            <6>3. QED
              BY <6>1, <6>2
          <5>2. 0 < n
            BY <1>1, <5>1, Sizes DEF RxTable
          <5>3. QED
            BY <4>1, <5>2 DEF First
        <4>2. CASE ~(rx = "release" /\ p # 0)
          BY <4>2 DEF First
        <4>3. QED
          BY <4>1, <4>2
      <3>8. ASSUME NEW i \in f .. n PROVE S[i] = R[i]
        <4>1. i - 1 \in 0 .. RxNum - 1 /\ i - 1 + 1 = i /\ i - 1 < n
          BY <3>2, <3>7, Sizes
        <4>2. Pos(c, i - 1, RxNum) # rx_dma /\ Pos(c, i - 1, RxNum) \in 0 .. RxNum - 1
          <5>1. Pos(c, i - 1, RxNum) = Pos(c, n, RxNum) => i - 1 = n
            BY <3>2, <3>3, <4>1, PosApart, Sizes
          <5>2. QED
            BY <3>3, <4>1, <5>1, Sizes DEF Pos
        <4>6. \A k \in 0 .. RxNum - 1 : k # rx_dma => rxdesc'[k] = rxdesc[k]
          BY <3>1, Zenon DEF RxTypes
        <4>3. rxdesc'[Pos(c, i - 1, RxNum)] = rxdesc[Pos(c, i - 1, RxNum)]
          BY <4>2, <4>6, Zenon
        <4>4. S[i - 1 + 1] = R[i - 1 + 1]
          BY <3>5, <3>6, <4>1, <4>3, Zenon
        <4>5. QED
          BY <4>1, <4>4
      <3>9. S[n + 1] = arrived + 1
        <4>1. S[n + 1] = rxdesc'[rx_dma]
          <5>1. n \in 0 .. RxNum - 1
            BY <3>2, Sizes
          <5>2. QED
            BY <3>3, <3>6, <5>1, Zenon
        <4>2. rxdesc'[rx_dma] = arrived + 1
          BY <3>1, <3>3, Zenon DEF RxTypes
        <4>3. QED
          BY <4>1, <4>2, Zenon
      <3> HIDE DEF c, f, R, S
      <3>10. SubSeq(S, f, n) = SubSeq(R, f, n) /\ SubSeq(S, f, n) \in Seq(Nat)
        <4>1. SubSeq(S, f, n) = SubSeq(R, f + 0, n + 0) /\ SubSeq(S, f, n) \in Seq(Nat)
          <5>1. S \in Seq(Nat) /\ R \in Seq(Nat) /\ f \in Nat /\ n \in Nat /\ 0 \in Nat /\ f > 0
                /\ n <= Len(S) /\ n + 0 <= Len(R)
            BY <3>2, <3>5, <3>6, <3>7, Sizes
          <5>2. ASSUME NEW i \in f .. n PROVE S[i] = R[i + 0]
            <6>1. i + 0 = i
              BY <5>1
            <6>2. QED
              BY <3>8, <6>1, Zenon
          <5>3. QED
            BY <5>1, <5>2, PartsEqual, Zenon
        <4>2. QED
          BY <3>7, <4>1
      <3>11. SubSeq(S, f, n + 1) = SubSeq(S, f, n) \o << S[n + 1] >>
        <4> DEFINE l == n + 1
        <4>1. f \in 1 .. Len(S) /\ l \in f .. Len(S) /\ l - 1 = n
          BY <3>2, <3>6, <3>7, Sizes
        <4> HIDE DEF l
        <4>2. SubSeq(S, f, l) = SubSeq(S, f, l - 1) \o << S[l] >>
          BY <3>6, <4>1, SeqPartEnds, Zenon
        <4>3. QED
          BY <4>1, <4>2, Zenon DEF l
      <3>12. Append(InTable, arrived + 1) = InTable \o << arrived + 1 >>
        <4>1. InTable \in Seq(Nat) /\ arrived + 1 \in Nat
          BY <1>2, <3>4, <3>10
        <4>2. QED
          BY <4>1, SeqAppend
      <3>13. QED
        BY <3>4, <3>9, <3>10, <3>11, <3>12, Zenon
    <2>3. QED
      BY <2>1, <2>2
  <1>4. Chan(mbox, p, InTable') \in {Chan(mbox, p, InTable), Append(Chan(mbox, p, InTable), arrived + 1)}
    <2>1. Chan(mbox, p, Append(InTable, arrived + 1)) = Append(Chan(mbox, p, InTable), arrived + 1)
      <3>1. arrived + 1 \in Nat
        BY <1>2
      <3>2. QED
        BY <3>1, OnItsWay, ChanSend, Zenon
    <2>2. QED
      BY <1>3, <2>1, Zenon
  <1>5. QED
    BY <1>2, <1>4, Zenon DEF Channel!Send, Chan, Number

\* The first frame in the table is the one at dma_current_rxdesc.
LEMMA FirstFrame ==
  ASSUME SetFacts, RxTypes, NEW n \in 0 .. RxNum, RxTable(n), rxdesc[dma_current_rxdesc] # 0
  PROVE  LET R == RingOf(rxdesc, dma_current_rxdesc)
         IN  /\ n > 0 /\ R \in Seq(Nat) /\ Len(R) = RxNum
             /\ \A k \in 0 .. RxNum - 1 : R[k + 1] = rxdesc[Pos(dma_current_rxdesc, k, RxNum)]
             /\ SubSeq(R, 1, n) = << rxdesc[dma_current_rxdesc] >> \o SubSeq(R, 2, n)
             /\ SubSeq(R, 2, n) \in Seq(Nat)
  <1> DEFINE c == dma_current_rxdesc
             R == RingOf(rxdesc, c)
  <1>1. /\ rxdesc \in [0 .. RxNum - 1 -> Nat] /\ c \in 0 .. RxNum - 1
        /\ \A k \in 0 .. RxNum - 1 : rxdesc[Pos(c, k, RxNum)] # 0 <=> k < n
    BY DEF RxTypes, RxTable
  <1>2. /\ R \in Seq(Nat) /\ Len(R) = RxNum
        /\ \A k \in 0 .. RxNum - 1 : R[k + 1] = rxdesc[Pos(c, k, RxNum)]
    BY <1>1, RingFacts, Zenon
  <1>3. Pos(c, 0, RxNum) = c /\ 0 \in 0 .. RxNum - 1
    BY <1>1, Sizes DEF Pos
  <1>4. n > 0 /\ R[1] = rxdesc[c]
    <2>1. R[0 + 1] = rxdesc[c]
      BY <1>2, <1>3, Zenon
    <2>2. QED
      BY <1>1, <1>3, <2>1
  <1> HIDE DEF R
  <1>5. SubSeq(R, 1, n) = << R[1] >> \o SubSeq(R, 2, n)
    <2>1. 1 \in 1 .. Len(R) /\ n \in 1 .. Len(R) /\ 1 + 1 = 2
      BY <1>2, <1>4, Sizes
    <2>2. SubSeq(R, 1, n) = << R[1] >> \o SubSeq(R, 1 + 1, n)
      BY <1>2, <2>1, SeqPartEnds, Zenon
    <2>3. QED
      BY <2>1, <2>2
  <1>6. SubSeq(R, 2, n) \in Seq(Nat)
    <2>1. n <= Len(R) /\ n + 0 <= Len(R) /\ \A i \in 2 .. n : R[i] = R[i + 0]
      BY <1>2
    <2>2. QED
      BY <1>2, <2>1, PartsEqual
  <1>7. QED
    BY <1>2, <1>4, <1>5, <1>6, Zenon DEF R

\* To fetch the first frame moves it within the channel.
LEMMA LengthStays ==
  ASSUME SetFacts, RxTypes, RxInv, RxTypes', RxInv', RxLength
  PROVE  UNCHANGED Channel!channelVars
  <1>1. PICK n \in 0 .. RxNum : RxTable(n)
    BY Zenon DEF RxInv
  <1>2. /\ rx = "length" /\ p = 0 /\ rx' = "release"
        /\ UNCHANGED << arrived, rxdesc, rx_dma, dma_current_rxdesc, mbox, handed >>
    BY Zenon DEF RxLength, RxInv
  <1>3. RxTable(n)'
    BY <1>1, <1>2, Zenon DEF RxTable
  <1> DEFINE R == RingOf(rxdesc, dma_current_rxdesc)
  <1>4. InTable = SubSeq(R, 1, n) /\ InTable' = SubSeq(R, First(rx', p'), n)
    BY <1>1, <1>2, <1>3, TableIs, TableIsNext, Zenon DEF First
  <1>5. CASE p' = 0
    <2>1. InTable' = InTable
      BY <1>4, <1>5 DEF First
    <2>2. QED
      BY <1>2, <1>5, <2>1, Zenon DEF Channel!channelVars
  <1>6. CASE p' # 0
    <2>1. p' = rxdesc[dma_current_rxdesc] /\ p' \in Nat
      BY <1>6 DEF RxLength, RxTypes
    <2>2. SubSeq(R, 1, n) = << rxdesc[dma_current_rxdesc] >> \o SubSeq(R, 2, n) /\ SubSeq(R, 2, n) \in Seq(Nat)
      BY <1>1, <1>6, <2>1, FirstFrame, Zenon
    <2>3. InTable' = SubSeq(R, 2, n)
      BY <1>2, <1>4, <1>6, Zenon DEF First
    <2> HIDE DEF R
    <2>4. InTable = << p' >> \o InTable' /\ InTable' \in Seq(Nat)
      BY <1>4, <2>1, <2>2, <2>3, Zenon
    <2>5. Chan(mbox, 0, << p' >> \o InTable') = Chan(mbox, p', InTable')
      BY <1>6, <2>1, <2>4, OnItsWay, ChanMove
    <2>6. Chan(mbox, p, InTable) = Chan(mbox', p', InTable')
      BY <1>2, <2>4, <2>5, Zenon
    <2>7. QED
      BY <1>2, <2>6, Zenon DEF Channel!channelVars, Chan
  <1>7. QED
    BY <1>5, <1>6

\* A descriptor that goes back to the DMA has been fetched, or its frame is lost.
LEMMA ReleaseLoses ==
  ASSUME SetFacts, RxTypes, RxInv, RxTypes', RxRelease
  PROVE  UNCHANGED Channel!channelVars \/ Channel!Lose
  <1> DEFINE c == dma_current_rxdesc
             R == RingOf(rxdesc, c)
  <1>1. PICK n \in 0 .. RxNum : RxTable(n)
    BY DEF RxInv
  <1>2. /\ rx = "release" /\ rx' \in {"wait", "input"} /\ UNCHANGED << arrived, rx_dma, p, mbox, handed >>
    BY Zenon DEF RxRelease
  <1>3. First(rx', p') = 1 /\ InTable = SubSeq(R, IF p # 0 THEN 2 ELSE 1, n)
    BY <1>1, <1>2, TableIs, Zenon DEF First
  <1>4. CASE rxdesc[c] = 0
    <2>1. UNCHANGED << rxdesc, dma_current_rxdesc >>
      BY <1>4, Zenon DEF RxRelease, IsReceived
    <2>2. p = 0
      BY <1>2, <1>4, Zenon DEF RxInv
    <2>3. InTable' = InTable
      BY <1>2, <2>1, <2>2, Zenon DEF InTable, Ring
    <2>4. QED
      BY <1>2, <2>3, Zenon DEF Channel!channelVars
  <1>5. CASE rxdesc[c] # 0
    <2> DEFINE S == RingOf(rxdesc', dma_current_rxdesc')
    <2>1. /\ rxdesc' = [rxdesc EXCEPT ![c] = 0] /\ dma_current_rxdesc' = (c + 1) % RxNum
      BY <1>5, Zenon DEF RxRelease, IsReceived
    <2>2. n > 0 /\ RxTable(n - 1)' /\ n - 1 \in 0 .. RxNum
      BY <1>1, <1>2, <1>5, <2>1, FreeTable, Sizes
    <2>3. InTable' = SubSeq(S, 1, n - 1)
      BY <1>3, <2>2, TableIsNext, Zenon
    <2>4. /\ SubSeq(R, 1, n) = << rxdesc[c] >> \o SubSeq(R, 2, n) /\ SubSeq(R, 2, n) \in Seq(Nat)
          /\ R \in Seq(Nat) /\ Len(R) = RxNum
          /\ \A k \in 0 .. RxNum - 1 : R[k + 1] = rxdesc[Pos(c, k, RxNum)]
      BY <1>1, <1>5, FirstFrame, Zenon
    <2>5. SubSeq(S, 1, n - 1) = SubSeq(R, 2, n)
      <3>1. /\ rxdesc' \in [0 .. RxNum - 1 -> Nat] /\ dma_current_rxdesc' \in 0 .. RxNum - 1
            /\ \A k \in 0 .. RxNum - 1 : rxdesc'[Pos(dma_current_rxdesc', k, RxNum)] # 0 <=> k < n - 1
        BY <2>2 DEF RxTypes, RxTable
      <3>2. /\ S \in Seq(Nat) /\ Len(S) = RxNum
            /\ \A k \in 0 .. RxNum - 1 : S[k + 1] = rxdesc'[Pos(dma_current_rxdesc', k, RxNum)]
        BY <2>2, <3>1, RingFacts, Zenon
      <3>3. c \in 0 .. RxNum - 1 /\ dma_current_rxdesc' = Pos(c, 1, RxNum)
        <4>1. c \in 0 .. RxNum - 1 /\ 1 \in 0 .. RxNum
          BY Sizes DEF RxTypes
        <4>2. QED
          BY <2>1, <4>1, ModPos, Sizes, Zenon
      <3>4. ASSUME NEW i \in 1 .. n - 1 PROVE S[i] = R[i + 1]
        <4>1. /\ i - 1 \in 0 .. RxNum - 1 /\ i \in 0 .. RxNum - 1 /\ i - 1 + 1 = i /\ i - 1 < RxNum - 1
          BY Sizes
        <4>2. S[i] = rxdesc'[Pos(Pos(c, 1, RxNum), i - 1, RxNum)]
          <5>1. S[i - 1 + 1] = rxdesc'[Pos(dma_current_rxdesc', i - 1, RxNum)]
            BY <3>2, <4>1, Zenon
          <5>2. QED
            BY <3>3, <4>1, <5>1, Zenon
        <4>3. Pos(Pos(c, 1, RxNum), i - 1, RxNum) = Pos(c, i, RxNum)
          BY <3>3, <4>1, PosStep, Sizes
        <4>4. Pos(c, i, RxNum) \in 0 .. RxNum - 1 /\ Pos(c, i, RxNum) # c
          BY <3>3, <4>1, Sizes DEF Pos
        <4>5. rxdesc'[Pos(c, i, RxNum)] = rxdesc[Pos(c, i, RxNum)]
          BY <2>1, <4>4, Zenon DEF RxTypes
        <4>6. QED
          BY <2>4, <4>1, <4>2, <4>3, <4>5, Zenon
      <3> HIDE DEF R, S
      <3>5. n - 1 \in Nat /\ n - 1 <= Len(S) /\ n - 1 + 1 <= Len(R) /\ n - 1 + 1 = n /\ 1 + 1 = 2
        BY <2>2, <2>4, <3>2, Sizes
      <3> DEFINE l == n - 1
      <3>6. l \in Nat /\ l <= Len(S) /\ l + 1 <= Len(R) /\ \A i \in 1 .. l : S[i] = R[i + 1]
        BY <3>4, <3>5, Zenon
      <3> HIDE DEF l
      <3>7. SubSeq(S, 1, l) = SubSeq(R, 1 + 1, l + 1)
        BY <2>4, <3>2, <3>6, PartsEqual
      <3>8. QED
        BY <3>5, <3>7, Zenon DEF l
    <2> HIDE DEF R, S
    <2>6. CASE p # 0
      <3>1. InTable' = InTable
        BY <1>3, <2>3, <2>5, <2>6, Zenon
      <3>2. QED
        BY <1>2, <3>1 DEF Channel!channelVars
    <2>7. CASE p = 0
      <3> DEFINE x == rxdesc[c]
      <3>1. x \in Nat /\ x # 0 /\ mbox \in Seq(Nat) /\ InTable' \in Seq(Nat)
        <4>1. x \in Nat /\ x # 0
          <5>1. rxdesc \in [0 .. RxNum - 1 -> Nat] /\ c \in 0 .. RxNum - 1
            BY DEF RxTypes
          <5>2. QED
            BY <1>5, <5>1, Zenon
        <4>2. mbox \in Seq(Nat)
          BY OnItsWay
        <4>3. InTable' \in Seq(Nat)
          BY <2>3, <2>4, <2>5, Zenon
        <4>4. QED
          BY <4>1, <4>2, <4>3
      <3>2. InTable = << x >> \o InTable'
        BY <1>3, <2>3, <2>4, <2>5, <2>7, Zenon
      <3> HIDE DEF x
      <3>3. Chan(mbox, 0, << x >> \o InTable') = Chan(mbox, x, InTable')
        BY <3>1, ChanMove, Zenon
      <3>4. /\ Len(mbox) + 1 \in 1 .. Len(Chan(mbox, x, InTable'))
            /\ Chan(mbox, 0, InTable') = Channel!Without(Chan(mbox, x, InTable'), Len(mbox) + 1)
        BY <3>1, ChanLose, Zenon
      <3> DEFINE k == Len(mbox) + 1
      <3> HIDE DEF k
      <3>5. /\ k \in 1 .. Len(Chan(mbox, p, InTable))
            /\ Chan(mbox', p', InTable') = Channel!Without(Chan(mbox, p, InTable), k)
        BY <1>2, <2>7, <3>2, <3>3, <3>4, Zenon DEF k
      <3>6. QED
        BY <1>2, <3>5, Zenon DEF Channel!Lose, Chan
    <2>8. QED
      BY <2>6, <2>7, Zenon
  <1>6. QED
    BY <1>4, <1>5, Zenon

\* The mailbox takes the frame in its place, or the frame is lost.
LEMMA InputMoves ==
  ASSUME SetFacts, RxTypes, RxInv, RxInput
  PROVE  UNCHANGED Channel!channelVars \/ Channel!Lose
  <1>1. /\ rx = "input" /\ p # 0 /\ p' = 0 /\ rx' # "release"
        /\ UNCHANGED << arrived, rxdesc, dma_current_rxdesc, handed >>
    BY Zenon DEF RxInput, RxInv, AfterInput
  <1>2. InTable' = InTable
    BY <1>1 DEF InTable, Ring
  <1>3. mbox \in Seq(Nat) /\ p \in Nat /\ InTable \in Seq(Nat)
    BY OnItsWay
  <1>4. CASE mbox' = Append(mbox, p)
    <2>1. Chan(Append(mbox, p), 0, InTable) = Chan(mbox, p, InTable)
      BY <1>1, <1>3, ChanMove, Zenon
    <2>2. Chan(mbox', p', InTable') = Chan(mbox, p, InTable)
      BY <1>1, <1>2, <1>4, <2>1, Zenon
    <2>3. QED
      BY <1>1, <2>2, Zenon DEF Channel!channelVars, Chan
  <1>5. CASE mbox' = mbox
    <2> DEFINE k == Len(mbox) + 1
    <2>1. /\ k \in 1 .. Len(Chan(mbox, p, InTable))
          /\ Chan(mbox, 0, InTable) = Channel!Without(Chan(mbox, p, InTable), k)
      BY <1>1, <1>3, ChanLose, Zenon
    <2> HIDE DEF k
    <2>2. Chan(mbox', p', InTable') = Channel!Without(Chan(mbox, p, InTable), k)
      BY <1>1, <1>2, <1>5, <2>1, Zenon
    <2>3. QED
      BY <1>1, <2>1, <2>2, Zenon DEF Channel!Lose, Chan
  <1>6. QED
    BY <1>4, <1>5, Zenon DEF RxInput

\* lwIP is given the frame that has been on its way for longest.
LEMMA HandleDelivers ==
  ASSUME SetFacts, RxTypes, RxInv, Handle
  PROVE  Channel!Deliver
  <1>1. /\ mbox # << >> /\ mbox' = Tail(mbox) /\ handed' = Append(handed, Head(mbox))
        /\ UNCHANGED << arrived, rxdesc, dma_current_rxdesc, rx, p >>
    BY Zenon DEF Handle
  <1>2. InTable' = InTable
    BY <1>1 DEF InTable, Ring
  <1>3. /\ Chan(mbox, p, InTable) # << >> /\ Head(Chan(mbox, p, InTable)) = Head(mbox)
        /\ Tail(Chan(mbox, p, InTable)) = Chan(Tail(mbox), p, InTable)
    BY <1>1, OnItsWay, ChanDeliver, Zenon
  <1>4. Chan(mbox', p', InTable') = Tail(Chan(mbox, p, InTable))
    BY <1>1, <1>2, <1>3, Zenon
  <1>5. QED
    BY <1>1, <1>3, <1>4, Zenon DEF Channel!Deliver, Chan

\* At the start nothing is on its way.
LEMMA ChannelStarts ==
  ASSUME SetFacts, Init
  PROVE  Channel!ChannelInit
  <1>1. arrived = 0 /\ mbox = << >> /\ p = 0 /\ handed = << >> /\ rx = "wait"
    BY Zenon DEF Init
  <1>2. RxTypes /\ rxdesc = [i \in 0 .. RxNum - 1 |-> 0] /\ dma_current_rxdesc = 0 /\ rx_dma = 0
    BY RxInit, Zenon DEF Init
  <1>3. RxTable(0) /\ 0 \in 0 .. RxNum
    BY <1>2, Sizes DEF RxTable, Pos
  <1>4. InTable = SubSeq(RingOf(rxdesc, dma_current_rxdesc), 1, 0)
    BY <1>1, <1>2, <1>3, TableIs, Zenon DEF First
  <1>5. InTable = << >>
    BY <1>4
  <1>6. << >> \o << >> \o << >> = << >>
    OBVIOUS
  <1>7. QED
    BY <1>1, <1>5, <1>6 DEF Channel!ChannelInit

-----------------------------------------------------------------------------
(* The theorems                                                             *)

INSTANCE FiniteSetTheorems

\* The facts about sets that the lemmas assume.
LEMMA SetFactsHold == SetFacts
  <1>1. SizeFact
    BY FS_CardinalityType, Zenon DEF SizeFact
  <1>2. EmptyFact
    BY FS_EmptySet, Zenon DEF EmptyFact
  <1>3. PartFact
    BY FS_Subset, Zenon DEF PartFact
  <1>4. LessFact
    BY FS_RemoveElement, Zenon DEF LessFact
  <1>5. IntervalFact
    <2>1. ASSUME NEW n \in Nat PROVE Cardinality(1 .. n) = n
      <3>1. Cardinality(1 .. n) = IF 1 > n THEN 0 ELSE n - 1 + 1
        BY FS_Interval
      <3>2. QED
        BY <3>1
    <2>2. QED
      BY <2>1, Zenon DEF IntervalFact
  <1>6. QED
    BY <1>1, <1>2, <1>3, <1>4, <1>5, Zenon DEF SetFacts

\* Every step of the driver, the hardware and the tasks keeps the invariant.
THEOREM EthInvariance == Spec => []EthInv
  <1>1. Init => EthInv
    BY RxInit, TxInit, SemInit, TypeParts, SetFactsHold, Zenon DEF EthInv
  <1>2. EthInv /\ [Next]_vars => EthInv'
    <2> SUFFICES ASSUME EthInv, [Next]_vars PROVE EthInv'
      BY Zenon
    <2>1. CASE UNCHANGED vars
      <3>1. UNCHANGED rxVars /\ UNCHANGED txVars
        BY <2>1, Zenon DEF vars
      <3>2. RxTypes' /\ RxInv'
        BY <3>1, RxFrame, TypeParts, Zenon DEF EthInv
      <3>3. TypeOK' /\ TxInv' /\ SemInv'
        <4>1. UNCHANGED << txdesc, tx_dma, dma_current_txdesc, wire, queued >>
              /\ UNCHANGED << s_tx_semaphore, count, pc, handle >>
          BY <3>1, Zenon DEF txVars
        <4>2. TxTypes' /\ TxInv'
          BY <4>1, TypeParts, Zenon DEF EthInv, TxTypes, TxInv
        <4>3. SemTypes' /\ Creating' = Creating /\ \A s \in Senders : Holds(s)' <=> Holds(s)
          BY <4>1, TypeParts, Zenon DEF EthInv, SemTypes, Creating, Holds
        <4>4. SemInv'
          BY <4>1, <4>3, Zenon DEF EthInv, SemInv
        <4>5. TypeOK'
          BY <3>2, <4>2, <4>3, Zenon DEF TypeOK, RxTypes, TxTypes, SemTypes, Places
        <4>6. QED
          BY <4>2, <4>4, <4>5, Zenon
      <3>4. QED
        BY <3>2, <3>3, Zenon DEF EthInv
    <2>2. QED
      BY <2>1, ReceivingStep, SendingStep, SetFactsHold, Zenon DEF Next, RxStep
  <1>3. QED
    BY <1>1, <1>2, PTL DEF Spec

\* Every pbuf is free, on its way, or lwIP's: none is lost or freed twice, for every size of the pool
\* and of the mailbox.
THEOREM PbufsAreConserved == Spec => []PbufsConserved
  <1>1. EthInv => PbufsConserved
    BY Zenon DEF EthInv, RxInv
  <1>2. QED
    BY <1>1, EthInvariance, PTL

\* A received frame has somebody on the way to fetch it, however the interrupt, its flag and the one
\* semaphore interleave with the DMA.
THEOREM ReceivedIsFetched == Spec => []FramesAreFetched
  <1>1. EthInv => FramesAreFetched
    BY Zenon DEF EthInv, RxInv
  <1>2. QED
    BY <1>1, EthInvariance, PTL

\* Frames leave in the order in which they were queued, whichever tasks send.
THEOREM SendsInOrder == Spec => []SentInOrder
  <1>1. EthInv => SentInOrder
    BY TxInOrder, TypeParts, Zenon DEF EthInv
  <1>2. QED
    BY <1>1, EthInvariance, PTL

\* A task in low_level_output waits only while a task holds the semaphore it waits for, however many
\* tasks found no semaphore and created one.
THEOREM WaitHasHolder == Spec => []WaitsForHolder
  <1>1. EthInv => WaitsForHolder
    BY SemWaits, TypeParts, Zenon DEF EthInv
  <1>2. QED
    BY <1>1, EthInvariance, PTL

\* lwIP gets the frames of the line in order and at most once, and none is overwritten in its
\* descriptor while it is copied, for every number of descriptors, pbufs and mailbox slots.
THEOREM ReceivingIsAChannel == Spec => ImplementsChannel
  <1>1. EthInv /\ EthInv' /\ [Next]_vars
          => [Channel!Send \/ Channel!Lose \/ Channel!Deliver]_(Channel!channelVars)
    <2> SUFFICES ASSUME EthInv, EthInv', [Next]_vars
                 PROVE  Channel!Send \/ Channel!Lose \/ Channel!Deliver \/ UNCHANGED Channel!channelVars
      BY Zenon
    <2>1. RxTypes /\ RxInv /\ RxInv'
      BY TypeParts DEF EthInv
    <2>2. RxTypes'
      BY Zenon DEF EthInv, TypeOK, RxTypes
    <2>3. ASSUME UNCHANGED << arrived, handed, mbox, p, rxdesc, dma_current_rxdesc >>,
                 rx' = rx \/ (rx = "wait" /\ rx' = "length")
          PROVE  UNCHANGED Channel!channelVars
      <3>1. InTable' = InTable
        BY <2>3, Zenon DEF InTable, Ring
      <3>2. QED
        BY <2>3, <3>1, Zenon DEF Channel!channelVars
    <2>4. CASE FrameArrives
      BY <2>1, <2>2, <2>4, ArrivesSends, SetFactsHold, Zenon
    <2>5. CASE Irq \/ IrqClear \/ RxTake \/ PbufFree
      BY <2>3, <2>5, Zenon DEF Irq, IrqClear, RxTake, PbufFree
    <2>6. CASE RxLength \/ RxRelease \/ RxInput
      BY <2>1, <2>2, <2>6, LengthStays, ReleaseLoses, InputMoves, SetFactsHold, Zenon
    <2>7. CASE Handle
      BY <2>1, <2>7, HandleDelivers, SetFactsHold, Zenon
    <2>8. CASE DmaSend \/ \E s \in Senders : Output(s) \/ Send(s) \/ Expire(s)
      <3>1. UNCHANGED rxVars
        BY <2>8, SendingStep, SetFactsHold, Zenon
      <3>2. QED
        BY <2>3, <3>1, Zenon DEF rxVars
    <2>9. CASE UNCHANGED vars
      BY <2>3, <2>9, Zenon DEF vars, rxVars
    <2>10. QED
      BY <2>4, <2>5, <2>6, <2>7, <2>8, <2>9, Zenon DEF Next, Receive
  <1>2. Init => Channel!ChannelInit
    BY ChannelStarts, SetFactsHold, Zenon
  <1>3. QED
    BY <1>1, <1>2, EthInvariance, PTL DEF Spec, ImplementsChannel, Channel!ChannelSpec
=============================================================================
