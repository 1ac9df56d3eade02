-------------------------- MODULE CommandLineProof --------------------------
(***************************************************************************)
(* Proofs about the console driver under the command line, for every size  *)
(* of the buffers and the rings, every text and every list of commands.    *)
(***************************************************************************)
EXTENDS CommandLine, TLAPS

-----------------------------------------------------------------------------
(* The inductive invariants                                                 *)

Kinds == {"refused", "help", "shown", "reset", "ring_full"}
Unit == Kinds \X Int

\* The values of what the receive path uses.
RxTypes ==
    /\ Input \in Seq(Chars) /\ arrived \in 0 .. Len(Input)
    /\ pos \in 0 .. DmaRx /\ rx_size \in 0 .. DmaRx
    /\ rx_buffer \in [1 .. DmaRx -> Chars] /\ (line = NoLine \/ line \in [1 .. DmaRx -> Chars])
    /\ rx \in {"idle", "copied", "zeroed", "refused"}
    /\ rx_ring \in Seq(Chars) /\ consumed \in Seq(Chars)

\* Until the reception is disturbed: the handler reports a size only while console_rx_task is idle
\* and that size is what the DMA has stored; a cache line found by the task was fetched ahead; and
\* what was typed is in the ring or in the DMA buffer.
RxInv ==
    /\ RxTypes
    /\ ~spoiled =>
         /\ rx # "refused" /\ (isr => rx = "idle")
         /\ rx = "idle" => rx_size \in {0, pos} /\ (line = NoLine \/ ahead)
         /\ rx = "zeroed" => rx_size = 0
    /\ HeardAsTyped

\* what the DMA has still to send of its buffer
Unsent == SubSeq(tx_buffer, Len(tx_buffer) - number + 1, Len(tx_buffer))

\* The transmit buffer is free only after the DMA has sent all of it and the handler has said so.
TxInv ==
    /\ tx_ring \in Seq(Unit) /\ tx_buffer \in Seq(Unit) /\ owed \in Seq(Unit)
    /\ number \in 0 .. Len(tx_buffer) /\ tx_size \in Nat /\ ftf \in BOOLEAN /\ garbled \in BOOLEAN
    /\ tx_size = 0 => number = 0 /\ ~ftf
    /\ ftf => number = 0
    /\ SentAsPrinted
    /\ pxHelp \in Int
-----------------------------------------------------------------------------
(* Sequences of characters and of printed units                             *)

\* A character stored behind the ones the DMA has stored, or that follows the ones that arrived.
LEMMA OneMore ==
  ASSUME NEW s \in Seq(Chars), NEW n \in 0 .. Len(s) - 1
  PROVE  SubSeq(s, 1, n + 1) = Append(SubSeq(s, 1, n), s[n + 1]) /\ SubSeq(s, 1, n) \in Seq(Chars)
  OBVIOUS

\* What the DMA stores at the next place leaves the places before it alone.
LEMMA StoredBehind ==
  ASSUME NEW s \in Seq(Chars), NEW n \in 0 .. Len(s) - 1, NEW c \in Chars
  PROVE  SubSeq([s EXCEPT ![n + 1] = c], 1, n + 1) = Append(SubSeq(s, 1, n), c)
  OBVIOUS

LEMMA AppendLast ==
  ASSUME NEW r \in Seq(Chars), NEW s \in Seq(Chars), NEW c \in Chars
  PROVE  r \o Append(s, c) = Append(r \o s, c) /\ r \o s \in Seq(Chars)
  OBVIOUS

\* The oldest character of the ring becomes the last one that was read.
LEMMA HeadMoves ==
  ASSUME NEW r \in Seq(Chars), NEW s \in Seq(Chars), s # << >>
  PROVE  Append(r, Head(s)) \o Tail(s) = r \o s /\ Tail(s) \in Seq(Chars) /\ Append(r, Head(s)) \in Seq(Chars)
  BY SMTT(20)

\* The characters of the DMA buffer move to the end of the ring.
LEMMA RingGrows ==
  ASSUME NEW r \in Seq(Chars), NEW s \in Seq(Chars), NEW u \in Seq(Chars)
  PROVE  r \o s \o u = r \o (s \o u) \o << >> /\ s \o u \in Seq(Chars)
  OBVIOUS

\* What one printf wrote is owed after everything else.
LEMMA UnitOwed ==
  ASSUME NEW r \in Seq(Unit), NEW s \in Seq(Unit), NEW c \in Unit
  PROVE  Append(r \o s, c) = r \o Append(s, c) /\ Append(s, c) \in Seq(Unit)
  OBVIOUS

\* Sequences with the same elements are the same.
LEMMA SameUnits ==
  ASSUME NEW r \in Seq(Unit), NEW s \in Seq(Unit), Len(r) = Len(s), \A i \in 1 .. Len(r) : r[i] = s[i]
  PROVE  r = s
  OBVIOUS

\* A part of a sequence, and two sequences one behind the other.
LEMMA PartOf ==
  ASSUME NEW s \in Seq(Unit), NEW m \in 1 .. Len(s) + 1
  PROVE  /\ SubSeq(s, m, Len(s)) \in Seq(Unit) /\ Len(SubSeq(s, m, Len(s))) = Len(s) - m + 1
         /\ \A i \in 1 .. Len(s) - m + 1 : SubSeq(s, m, Len(s))[i] = s[m + i - 1]
  OBVIOUS

LEMMA Joined ==
  ASSUME NEW r \in Seq(Unit), NEW s \in Seq(Unit)
  PROVE  /\ r \o s \in Seq(Unit) /\ Len(r \o s) = Len(r) + Len(s)
         /\ \A i \in 1 .. Len(r) + Len(s) : (r \o s)[i] = IF i <= Len(r) THEN r[i] ELSE s[i - Len(r)]
  OBVIOUS

\* The first units of the ring become the buffer.
LEMMA RingSplit ==
  ASSUME NEW s \in Seq(Unit), NEW n \in 0 .. Len(s)
  PROVE  /\ SubSeq(s, 1, n) \in Seq(Unit) /\ Len(SubSeq(s, 1, n)) = n
         /\ SubSeq(s, n + 1, Len(s)) \in Seq(Unit)
         /\ s = SubSeq(s, 1, n) \o SubSeq(s, n + 1, Len(s))
  <1> DEFINE a == SubSeq(s, 1, n)
             b == SubSeq(s, n + 1, Len(s))
  <1>1. Len(s) \in Nat /\ n \in Nat /\ n <= Len(s) /\ n + 1 \in 1 .. Len(s) + 1
    OBVIOUS
  <1>2. a \in Seq(Unit) /\ Len(a) = n /\ \A i \in 1 .. n : a[i] = s[i]
    OBVIOUS
  <1>3. b \in Seq(Unit) /\ Len(b) = Len(s) - (n + 1) + 1 /\ \A i \in 1 .. Len(s) - (n + 1) + 1 : b[i] = s[(n + 1) + i - 1]
    BY <1>1, PartOf, Zenon
  <1> HIDE DEF a, b
  <1>4. /\ a \o b \in Seq(Unit) /\ Len(a \o b) = Len(a) + Len(b)
        /\ \A i \in 1 .. Len(a) + Len(b) : (a \o b)[i] = IF i <= Len(a) THEN a[i] ELSE b[i - Len(a)]
    BY <1>2, <1>3, Joined, Zenon
  <1>5. ASSUME NEW i \in 1 .. Len(s) PROVE s[i] = (a \o b)[i]
    <2>1. i \in 1 .. Len(a) + Len(b)
      BY <1>1, <1>2, <1>3
    <2>2. CASE i <= n
      BY <1>1, <1>2, <1>4, <2>1, <2>2
    <2>3. CASE ~ (i <= n)
      <3>1. i - n \in 1 .. Len(s) - (n + 1) + 1 /\ (n + 1) + (i - n) - 1 = i
        BY <1>1, <2>3
      <3>2. QED
        BY <1>2, <1>3, <1>4, <2>1, <2>3, <3>1, Zenon
    <2>4. QED
      BY <2>2, <2>3, Zenon
  <1>6. Len(s) = Len(a \o b)
    BY <1>1, <1>2, <1>3, <1>4
  <1>7. s = a \o b
    BY <1>4, <1>5, <1>6, SameUnits, Zenon
  <1>8. QED
    BY <1>2, <1>3, <1>7, Zenon DEF a, b

\* The parts of a buffer that are all of it, and none of it.
LEMMA BufferEnds ==
  ASSUME NEW s \in Seq(Unit)
  PROVE  SubSeq(s, Len(s) - Len(s) + 1, Len(s)) = s /\ SubSeq(s, Len(s) - 0 + 1, Len(s)) = << >>
  OBVIOUS

\* The unit at place k of the buffer, and what is behind it.
LEMMA BufferFrom ==
  ASSUME NEW s \in Seq(Unit), NEW k \in 1 .. Len(s)
  PROVE  /\ s[k] \in Unit /\ SubSeq(s, k + 1, Len(s)) \in Seq(Unit)
         /\ SubSeq(s, k, Len(s)) = << s[k] >> \o SubSeq(s, k + 1, Len(s))
  OBVIOUS

LEMMA Regrouped ==
  ASSUME NEW c \in Unit, NEW r \in Seq(Unit), NEW s \in Seq(Unit)
  PROVE  << c >> \o r \o s = << c >> \o (r \o s) /\ r \o s \in Seq(Unit)
  BY SMTT(20)

LEMMA FirstGone ==
  ASSUME NEW c \in Unit, NEW s \in Seq(Unit)
  PROVE  /\ << c >> \o s # << >> /\ Head(<< c >> \o s) = c
         /\ SubSeq(<< c >> \o s, 2, Len(<< c >> \o s)) = s
  OBVIOUS

\* The first unit that is owed is the one the DMA sends next.
LEMMA UnitSent ==
  ASSUME NEW b \in Seq(Unit), NEW n \in 1 .. Len(b), NEW r \in Seq(Unit)
  PROVE  LET o == SubSeq(b, Len(b) - n + 1, Len(b)) \o r
         IN  /\ o # << >> /\ Head(o) = b[Len(b) - n + 1]
             /\ SubSeq(o, 2, Len(o)) \in Seq(Unit)
             /\ SubSeq(o, 2, Len(o)) = SubSeq(b, Len(b) - (n - 1) + 1, Len(b)) \o r
  <1> DEFINE k == Len(b) - n + 1
             v == SubSeq(b, k + 1, Len(b))
             o == SubSeq(b, k, Len(b)) \o r
  <1>1. k \in 1 .. Len(b) /\ Len(b) - (n - 1) + 1 = k + 1
    OBVIOUS
  <1>2. b[k] \in Unit /\ v \in Seq(Unit) /\ o = << b[k] >> \o v \o r
    BY <1>1, BufferFrom, Zenon
  <1>3. o = << b[k] >> \o (v \o r) /\ v \o r \in Seq(Unit)
    BY <1>2, Regrouped, Zenon
  <1>4. o # << >> /\ Head(o) = b[k] /\ SubSeq(o, 2, Len(o)) = v \o r
    BY <1>2, <1>3, FirstGone, ZenonT(30)
  <1>5. QED
    BY <1>1, <1>3, <1>4, Zenon

-----------------------------------------------------------------------------
(* Reception                                                                *)

LEMMA Sizes == {DmaRx, DmaTx, RxRing, TxRing} \subseteq Nat \ {0} /\ Nul \in Chars /\ \A t \in Texts : t \in Seq(Chars)
  BY UartAssumption, Zenon

\* The buffers are sequences.
LEMMA BufferSeq ==
  ASSUME NEW b \in [1 .. DmaRx -> Chars]
  PROVE  b \in Seq(Chars) /\ Len(b) = DmaRx
  BY Sizes

\* A step that does not touch the receive path.
LEMMA RxSame ==
  ASSUME RxInv, UNCHANGED << Input, arrived, pos, rx_buffer, line, isr, rx_size, rx, rx_ring, consumed, ahead, spoiled >>
  PROVE  RxInv'
  BY Zenon DEF RxInv, RxTypes, HeardAsTyped, Pending

\* A character reaches the DMA.
LEMMA CharacterStep ==
  ASSUME RxInv, Character
  PROVE  RxInv'
  <1> DEFINE c == Input[arrived + 1]
  <1>1. RxTypes /\ ~spoiled /\ arrived + 1 \in 0 .. Len(Input) /\ c \in Chars /\ arrived \in 0 .. Len(Input) - 1
    BY DEF RxInv, RxTypes, Character
  <1>2. /\ UNCHANGED << Input, line, isr, rx_size, rx, rx_ring, consumed, ahead >> /\ arrived' = arrived + 1
        /\ pos' = (IF pos < DmaRx THEN pos + 1 ELSE pos)
        /\ rx_buffer' = (IF pos < DmaRx THEN [rx_buffer EXCEPT ![pos + 1] = c] ELSE rx_buffer)
        /\ ~spoiled' => pos # DmaRx /\ rx_size = 0 /\ rx = "idle" /\ ~isr
    BY Zenon DEF Character
  <1> HIDE DEF c
  <1>3. DmaRx \in Nat /\ pos \in Nat
    BY <1>1, Sizes DEF RxTypes
  <1>4. RxTypes'
    <2>1. pos' \in 0 .. DmaRx
      BY <1>1, <1>2, <1>3 DEF RxTypes
    <2>2. rx_buffer' \in [1 .. DmaRx -> Chars]
      BY <1>1, <1>2, <1>3 DEF RxTypes
    <2>3. QED
      BY <1>1, <1>2, <2>1, <2>2, Zenon DEF RxTypes
  <1>5. ASSUME ~spoiled'
        PROVE  consumed' \o rx_ring' \o Pending' = SubSeq(Input', 1, arrived')
    <2>1. pos \in 0 .. DmaRx - 1 /\ pos < DmaRx /\ rx = "idle"
      BY <1>1, <1>2, <1>3, <1>5 DEF RxTypes
    <2>2. rx_buffer \in Seq(Chars) /\ Len(rx_buffer) = DmaRx
      BY <1>1, BufferSeq, Zenon DEF RxTypes
    <2>3. Pending = SubSeq(rx_buffer, 1, pos) /\ Pending' = SubSeq([rx_buffer EXCEPT ![pos + 1] = c], 1, pos + 1)
      BY <1>2, <2>1, Zenon DEF Pending
    <2>4. Pending' = Append(Pending, c) /\ Pending \in Seq(Chars)
      BY <1>1, <2>1, <2>2, <2>3, OneMore, StoredBehind, Zenon
    <2>5. SubSeq(Input, 1, arrived + 1) = Append(SubSeq(Input, 1, arrived), c)
      BY <1>1, OneMore, Zenon DEF RxTypes, c
    <2>6. consumed \o rx_ring \o Pending = SubSeq(Input, 1, arrived)
      BY <1>1, Zenon DEF RxInv, HeardAsTyped
    <2>7. consumed \o rx_ring \in Seq(Chars)
      BY <1>1 DEF RxTypes
    <2>8. (consumed \o rx_ring) \o Append(Pending, c) = Append((consumed \o rx_ring) \o Pending, c)
      BY <1>1, <2>4, <2>7, AppendLast, Zenon
    <2>9. QED
      BY <1>2, <2>4, <2>5, <2>6, <2>8, Zenon
  <1>6. ~spoiled' => rx' = "idle" /\ rx_size' = 0 /\ (line' = NoLine \/ ahead')
    BY <1>1, <1>2, Zenon DEF RxInv
  <1>7. QED
    BY <1>4, <1>5, <1>6, Zenon DEF RxInv, HeardAsTyped

\* The core fetches the buffer ahead.
LEMMA PrefetchStep ==
  ASSUME RxInv, Prefetch
  PROVE  RxInv'
  <1>1. /\ UNCHANGED << Input, arrived, pos, rx_buffer, isr, rx_size, rx, rx_ring, consumed, spoiled >>
        /\ line' = rx_buffer /\ ahead' = TRUE
    BY Zenon DEF Prefetch
  <1>2. RxTypes'
    BY <1>1, Zenon DEF RxInv, RxTypes
  <1>3. HeardAsTyped'
    BY <1>1, Zenon DEF RxInv, HeardAsTyped, Pending
  <1>4. QED
    BY <1>1, <1>2, <1>3, Zenon DEF RxInv

\* The handler reports what the DMA has stored, in its first and in its second half.
LEMMA IrqStep ==
  ASSUME RxInv, UsartIrq \/ UsartIrqEnd
  PROVE  RxInv'
  <1>1. /\ UNCHANGED << Input, arrived, pos, rx_buffer, line, rx, rx_ring, consumed, ahead >>
        /\ rx_size' \in {rx_size, pos}
        /\ ~spoiled' => ~spoiled
    <2>1. CASE UsartIrq
      BY <2>1, Zenon DEF UsartIrq, Size
    <2>2. CASE UsartIrqEnd
      BY <2>2, Zenon DEF UsartIrqEnd, Size
    <2>3. QED
      BY <2>1, <2>2, Zenon
  <1>2. RxTypes'
    BY <1>1, Zenon DEF RxInv, RxTypes
  <1>3. HeardAsTyped'
    BY <1>1, Zenon DEF RxInv, HeardAsTyped, Pending
  <1>4. ASSUME ~spoiled'
        PROVE  (isr' => rx = "idle") /\ (rx # "idle" => rx_size' = rx_size)
    <2>1. CASE UsartIrq
      BY <1>4, <2>1, Zenon DEF UsartIrq
    <2>2. CASE UsartIrqEnd
      BY <1>1, <1>4, <2>2, Zenon DEF UsartIrqEnd, RxInv
    <2>3. QED
      BY <2>1, <2>2, Zenon
  <1>5. QED
    BY <1>1, <1>2, <1>3, <1>4, Zenon DEF RxInv

\* console_rx_task moves the reported characters to the ring.
LEMMA CopyStep ==
  ASSUME RxInv, RxCopy
  PROVE  RxInv'
  <1> DEFINE b == IF line = NoLine THEN rx_buffer ELSE line
             bytes == SubSeq(b, 1, rx_size)
  <1>1. /\ UNCHANGED << Input, arrived, pos, rx_buffer, isr, rx_size, consumed, ahead >>
        /\ rx = "idle" /\ rx_size # 0 /\ ~isr /\ line' = b
    BY Zenon DEF RxCopy
  <1>2. \/ rx_ring' = rx_ring \o bytes /\ rx' = "copied" /\ (~spoiled' => ~spoiled /\ (ahead => line = rx_buffer))
        \/ rx_ring' = rx_ring /\ rx' = "refused" /\ spoiled'
    BY Zenon DEF RxCopy
  <1>3. b \in [1 .. DmaRx -> Chars]
    BY Zenon DEF RxInv, RxTypes
  <1>4. b \in Seq(Chars) /\ Len(b) = DmaRx /\ rx_size \in 0 .. Len(b)
    BY <1>3, BufferSeq, Zenon DEF RxInv, RxTypes
  <1>5. (~spoiled' => b = rx_buffer)
    BY <1>1, <1>2, Zenon DEF RxInv
  <1> HIDE DEF b
  <1>6. bytes \in Seq(Chars)
    BY <1>4
  <1> HIDE DEF bytes
  <1>0. rx_ring \in Seq(Chars) /\ consumed \in Seq(Chars)
    BY Zenon DEF RxInv, RxTypes
  <1>7. rx_ring' \in Seq(Chars)
    <2>1. rx_ring \o bytes \in Seq(Chars)
      BY <1>0, <1>6, RingGrows, Zenon
    <2>2. QED
      BY <1>0, <1>2, <2>1, Zenon
  <1>8. RxTypes'
    BY <1>1, <1>2, <1>3, <1>7, Zenon DEF RxInv, RxTypes
  <1>9. ASSUME ~spoiled'
        PROVE  consumed' \o rx_ring' \o Pending' = SubSeq(Input', 1, arrived') /\ rx' = "copied"
    <2>1. ~spoiled /\ rx' = "copied" /\ rx_ring' = rx_ring \o bytes
      BY <1>2, <1>9, Zenon
    <2>2. rx_size = pos
      BY <1>1, <2>1, Zenon DEF RxInv
    <2>3. Pending = bytes /\ Pending' = << >>
      BY <1>1, <1>5, <1>9, <2>1, <2>2, Zenon DEF Pending, bytes
    <2>4. consumed \o rx_ring \o bytes = SubSeq(Input, 1, arrived)
      BY <2>1, <2>3, Zenon DEF RxInv, HeardAsTyped
    <2>5. consumed \o rx_ring \o bytes = consumed \o (rx_ring \o bytes) \o << >>
      BY <1>0, <1>6, RingGrows, Zenon
    <2>6. QED
      BY <1>1, <2>1, <2>3, <2>4, <2>5, Zenon
  <1>10. QED
    <2>1. ~spoiled' => rx' = "copied" /\ ~isr'
      BY <1>1, <1>9, Zenon
    <2>2. HeardAsTyped'
      BY <1>9, Zenon DEF HeardAsTyped
    <2>3. QED
      BY <1>8, <2>1, <2>2 DEF RxInv

\* The size is forgotten, and the DMA is started again.
LEMMA ZeroStep ==
  ASSUME RxInv, RxZero
  PROVE  RxInv'
  <1>1. /\ UNCHANGED << Input, arrived, pos, rx_buffer, line, isr, rx_ring, consumed, ahead, spoiled >>
        /\ rx = "copied" /\ rx' = "zeroed" /\ rx_size' = 0 /\ ~isr
    BY Zenon DEF RxZero, uartVars
  <1>2. RxTypes'
    BY <1>1, Sizes DEF RxInv, RxTypes
  <1>3. HeardAsTyped'
    BY <1>1, Zenon DEF RxInv, HeardAsTyped, Pending
  <1>4. QED
    BY <1>1, <1>2, <1>3, Zenon DEF RxInv

LEMMA RestartStep ==
  ASSUME RxInv, RxRestart
  PROVE  RxInv'
  <1>1. /\ UNCHANGED << Input, arrived, rx_buffer, isr, rx_size, rx_ring, consumed, spoiled >>
        /\ rx \in {"zeroed", "refused"} /\ rx' = "idle" /\ pos' = 0 /\ ~isr
        /\ line' = (IF rx = "refused" THEN line ELSE NoLine)
    BY Zenon DEF RxRestart, Restart, Invalidate
  <1>2. RxTypes'
    BY <1>1, Sizes DEF RxInv, RxTypes
  <1>3. ASSUME ~spoiled
        PROVE  rx = "zeroed" /\ rx_size = 0 /\ Pending' = Pending
    <2>1. rx = "zeroed" /\ rx_size = 0 /\ Pending = << >>
      BY <1>1, <1>3, Zenon DEF RxInv, Pending
    <2>2. Pending' = SubSeq(rx_buffer, 1, 0) /\ rx_buffer \in Seq(Chars)
      BY <1>1, BufferSeq, Zenon DEF Pending, RxInv, RxTypes
    <2>3. QED
      BY <2>1, <2>2
  <1>4. HeardAsTyped'
    BY <1>1, <1>3, Zenon DEF RxInv, HeardAsTyped
  <1>5. QED
    BY <1>1, <1>2, <1>3, <1>4, Zenon DEF RxInv

\* CLI_Task takes the oldest character of the ring.
LEMMA ReadStep ==
  ASSUME RxInv, ReadCharacter
  PROVE  RxInv'
  <1>1. /\ UNCHANGED << Input, arrived, pos, rx_buffer, line, isr, rx_size, rx, ahead, spoiled >>
        /\ rx_ring # << >> /\ rx_ring' = Tail(rx_ring) /\ consumed' = Append(consumed, Head(rx_ring))
    BY Zenon DEF ReadCharacter, CliOnly, uartVars
  <1>2. /\ consumed' \o rx_ring' = consumed \o rx_ring
        /\ rx_ring' \in Seq(Chars) /\ consumed' \in Seq(Chars)
    BY <1>1, HeadMoves, Zenon DEF RxInv, RxTypes
  <1>3. RxTypes'
    BY <1>1, <1>2, Zenon DEF RxInv, RxTypes
  <1>4. HeardAsTyped'
    BY <1>1, <1>2, Zenon DEF RxInv, HeardAsTyped, Pending
  <1>5. QED
    BY <1>1, <1>3, <1>4, Zenon DEF RxInv

\* Every step keeps the invariant of the receive path.
LEMMA RxStep ==
  ASSUME RxInv, [Next]_vars
  PROVE  RxInv'
  <1> DEFINE same == UNCHANGED << Input, arrived, pos, rx_buffer, line, isr, rx_size, rx, rx_ring, consumed, ahead, spoiled >>
  <1>1. ASSUME same PROVE RxInv'
    BY <1>1, RxSame, Zenon
  <1>2. CASE UNCHANGED vars
    BY <1>1, <1>2, Zenon DEF vars, uartVars, rxVars
  <1>3. CASE Console
    <2>1. Quiet \/ DmaSend \/ TxStart \/ DmaIrq => same
      BY Zenon DEF Quiet, DmaSend, TxStart, DmaIrq, uartVars, rxVars
    <2> HIDE DEF same
    <2>2. QED
      BY <1>1, <1>3, <2>1, CharacterStep, PrefetchStep, IrqStep, CopyStep, ZeroStep, RestartStep, Zenon
         DEF Console, Hardware, Driver
  <1>4. CASE CLI_Task
    <2>1. ASSUME Refused \/ Help \/ Show \/ Reset PROVE same
      <3>1. ASSUME NEW text, Finish(text) PROVE same
        BY <3>1, Zenon DEF Finish, CliOnly, uartVars
      <3>2. ASSUME NEW text, NEW command, Continue(text, command) PROVE same
        BY <3>2, Zenon DEF Continue, CliOnly, uartVars
      <3>3. CASE Reset
        BY <3>3, Zenon DEF Reset, CliOnly, uartVars
      <3> HIDE DEF same
      <3>4. QED
        BY <2>1, <3>1, <3>2, <3>3, Zenon DEF Refused, Help, Show
    <2> HIDE DEF same
    <2>2. QED
      BY <1>1, <1>4, <2>1, ReadStep, Zenon DEF CLI_Task
  <1>5. QED
    BY <1>2, <1>3, <1>4, Zenon DEF Next

-----------------------------------------------------------------------------
(* Transmission                                                             *)

\* A step that does not touch the transmit path.
LEMMA TxSame ==
  ASSUME TxInv, UNCHANGED txVars, pxHelp' \in Int
  PROVE  TxInv'
  BY Zenon DEF TxInv, txVars, SentAsPrinted

\* fputc puts a text into the ring, or loses it.
LEMMA PrintfStep ==
  ASSUME TxInv, NEW text \in Unit, Printf(text), pxHelp' \in Int
  PROVE  TxInv'
  <1>1. /\ UNCHANGED << tx_buffer, tx_size, number, ftf, garbled >>
        /\ \/ tx_ring' = tx_ring /\ owed' = owed
           \/ tx_ring' = Append(tx_ring, text) /\ owed' = Append(owed, text)
    BY Zenon DEF Printf
  <1>2. tx_ring' \in Seq(Unit) /\ owed' \in Seq(Unit)
    <2>1. tx_ring \in Seq(Unit) /\ owed \in Seq(Unit)
      BY Zenon DEF TxInv
    <2>2. QED
      BY <1>1, <2>1, UnitOwed, Zenon
  <1>3. Unsent \in Seq(Unit) /\ Unsent' = Unsent
    <2>1. Unsent \in Seq(Unit)
      BY DEF TxInv, Unsent
    <2>2. QED
      BY <1>1, <2>1, Zenon DEF Unsent
  <1>4. owed' = Unsent' \o tx_ring'
    <2>1. owed = Unsent \o tx_ring /\ tx_ring \in Seq(Unit)
      BY Zenon DEF TxInv, SentAsPrinted, Unsent
    <2>2. Append(Unsent \o tx_ring, text) = Unsent \o Append(tx_ring, text)
      BY <1>3, <2>1, UnitOwed, Zenon
    <2>3. QED
      BY <1>1, <1>3, <2>1, <2>2, Zenon
  <1>5. QED
    BY <1>1, <1>2, <1>4, Zenon DEF TxInv, SentAsPrinted, Unsent

\* console_tx_task fills the buffer from the ring and starts the DMA.
LEMMA StartStep ==
  ASSUME TxInv, TxStart, pxHelp' \in Int
  PROVE  TxInv'
  <1> DEFINE n == IF Len(tx_ring) < DmaTx THEN Len(tx_ring) ELSE DmaTx
  <1>1. /\ tx_ring # << >> /\ tx_size = 0 /\ UNCHANGED << ftf, owed, garbled >>
        /\ tx_buffer' = SubSeq(tx_ring, 1, n) /\ tx_ring' = SubSeq(tx_ring, n + 1, Len(tx_ring))
        /\ tx_size' = n /\ number' = n
    BY Zenon DEF TxStart, BufferFree
  <1>2. n \in 1 .. Len(tx_ring) /\ n \in 0 .. Len(tx_ring) /\ n \in Nat /\ n # 0
    BY <1>1, Sizes, SMTT(20) DEF TxInv
  <1> HIDE DEF n
  <1>3. tx_ring \in Seq(Unit) /\ tx_buffer \in Seq(Unit) /\ number = 0 /\ ~ftf /\ ~garbled
    BY <1>1, Zenon DEF TxInv, SentAsPrinted
  <1>4. owed = tx_ring
    <2>1. owed = SubSeq(tx_buffer, Len(tx_buffer) - 0 + 1, Len(tx_buffer)) \o tx_ring
      BY <1>3, Zenon DEF TxInv, SentAsPrinted
    <2>2. owed = << >> \o tx_ring
      BY <1>3, <2>1, BufferEnds, Zenon
    <2>3. QED
      BY <1>3, <2>2
  <1>5. /\ tx_buffer' \in Seq(Unit) /\ Len(tx_buffer') = n /\ tx_ring' \in Seq(Unit)
        /\ tx_ring = tx_buffer' \o tx_ring'
    BY <1>1, <1>2, <1>3, RingSplit, Zenon
  <1>6. owed' = SubSeq(tx_buffer', Len(tx_buffer') - number' + 1, Len(tx_buffer')) \o tx_ring'
    BY <1>1, <1>4, <1>5, BufferEnds, Zenon
  <1>7. number' \in 0 .. Len(tx_buffer')
    BY <1>1, <1>2, <1>5
  <1>8. QED
    BY <1>1, <1>2, <1>3, <1>5, <1>6, <1>7, Zenon DEF TxInv, SentAsPrinted

\* The DMA sends the unit that is owed first.
LEMMA SendStep ==
  ASSUME TxInv, DmaSend, pxHelp' \in Int
  PROVE  TxInv'
  <1> DEFINE unit == tx_buffer[Len(tx_buffer) - number + 1]
  <1>1. /\ number > 0 /\ number' = number - 1 /\ ftf' = (number = 1) /\ UNCHANGED << tx_ring, tx_buffer, tx_size >>
        /\ owed' = SubSeq(owed, 2, Len(owed)) /\ garbled' = (garbled \/ owed = << >> \/ unit # Head(owed))
    BY Zenon DEF DmaSend
  <1>2. /\ tx_buffer \in Seq(Unit) /\ tx_ring \in Seq(Unit) /\ number \in 0 .. Len(tx_buffer) /\ ~garbled
        /\ owed = SubSeq(tx_buffer, Len(tx_buffer) - number + 1, Len(tx_buffer)) \o tx_ring
    BY Zenon DEF TxInv, SentAsPrinted
  <1>3. number \in 1 .. Len(tx_buffer) /\ number' \in 0 .. Len(tx_buffer) /\ number # 0 /\ (number = 1 => number' = 0)
    BY <1>1, <1>2
  <1>4. /\ owed # << >> /\ Head(owed) = unit /\ owed' \in Seq(Unit)
        /\ owed' = SubSeq(tx_buffer, Len(tx_buffer) - (number - 1) + 1, Len(tx_buffer)) \o tx_ring
    BY <1>1, <1>2, <1>3, UnitSent, ZenonT(30)
  <1>5. garbled' = FALSE /\ ftf' \in BOOLEAN
    BY <1>1, <1>2, <1>4, Zenon
  <1>6. tx_size # 0 /\ tx_size \in Nat
    BY <1>3, Zenon DEF TxInv
  <1>7. QED
    BY <1>1, <1>2, <1>3, <1>4, <1>5, <1>6, Zenon DEF TxInv, SentAsPrinted

\* The handler gives the buffer back.
LEMMA ReleaseStep ==
  ASSUME TxInv, DmaIrq, pxHelp' \in Int
  PROVE  TxInv'
  <1>1. ftf /\ ftf' = FALSE /\ tx_size' = 0 /\ UNCHANGED << tx_ring, tx_buffer, number, owed, garbled >>
    BY Zenon DEF DmaIrq, Released
  <1>2. 0 \in Nat
    BY Zenon
  <1>3. QED
    BY <1>1, <1>2, Zenon DEF TxInv, SentAsPrinted

\* The answers of CLI_Task are printed one at a time.
LEMMA CliTxStep ==
  ASSUME TxInv, CLI_Task
  PROVE  TxInv'
  <1>1. pxHelp \in Int /\ Len(Commands) \in Nat
    BY CommandAssumption DEF TxInv
  <1>2. ASSUME NEW kind \in Kinds, NEW n \in Int, pxHelp' \in Int,
               Finish(<< kind, n >>) \/ \E command : Continue(<< kind, n >>, command)
        PROVE  TxInv'
    <2>1. << kind, n >> \in Unit
      BY Zenon DEF Unit
    <2>2. Printf(<< kind, n >>)
      BY <1>2, Zenon DEF Finish, Continue
    <2>3. QED
      BY <1>2, <2>1, <2>2, PrintfStep, Zenon
  <1>3. CASE ReadCharacter
    BY <1>1, <1>3, TxSame, Zenon DEF ReadCharacter
  <1>4. CASE Refused
    <2>1. pxHelp' \in Int /\ (Finish(<< "refused", 0 >>) \/ Finish(<< "refused", 1 >>))
      BY <1>1, <1>4, Zenon DEF Refused
    <2>2. "refused" \in Kinds /\ 0 \in Int /\ 1 \in Int
      BY DEF Kinds
    <2>3. QED
      BY <1>2, <2>1, <2>2, Zenon
  <1>5. CASE Help
    <2> DEFINE this == IF pxHelp = 0 THEN 1 ELSE pxHelp
    <2>1. /\ pxHelp' = HelpNext(this + 1)
          /\ Finish(<< "help", this >>) \/ \E command : Continue(<< "help", this >>, command)
      BY <1>5, Zenon DEF Help
    <2>2. this \in Int /\ HelpNext(this + 1) \in Int /\ "help" \in Kinds
      BY <1>1 DEF HelpNext, Kinds
    <2> HIDE DEF this
    <2>3. QED
      BY <1>2, <2>1, <2>2, Zenon
  <1>6. CASE Show
    <2>1. PICK i \in 2 .. Len(Commands) - 1 : Finish(<< "shown", i >>)
      BY <1>6, Zenon DEF Show
    <2>2. i \in Int /\ "shown" \in Kinds
      BY <1>1 DEF Kinds
    <2>3. pxHelp' \in Int
      BY <1>1, <1>6, Zenon DEF Show
    <2>4. QED
      BY <1>2, <2>1, <2>2, <2>3, Zenon
  <1>7. CASE Reset
    <2>1. Printf(<< "reset", 0 >>) /\ pxHelp' \in Int
      BY <1>1, <1>7, Zenon DEF Reset
    <2>2. << "reset", 0 >> \in Unit
      BY DEF Unit, Kinds
    <2>3. QED
      BY <2>1, <2>2, PrintfStep, Zenon
  <1>8. QED
    BY <1>3, <1>4, <1>5, <1>6, <1>7, Zenon DEF CLI_Task

\* Every step keeps the invariant of the transmit path.
LEMMA TxStep ==
  ASSUME TxInv, [Next]_vars
  PROVE  TxInv'
  <1>1. pxHelp \in Int
    BY Zenon DEF TxInv
  <1>2. CASE UNCHANGED vars
    BY <1>1, <1>2, TxSame, Zenon DEF vars, cliVars
  <1>3. CASE Console
    <2>1. pxHelp' \in Int
      BY <1>1, <1>3, Zenon DEF Console, cliVars
    <2>2. CASE RxCopy
      <3>1. UNCHANGED txVars \/ Printf(<< "ring_full", 0 >>)
        BY <2>2, Zenon DEF RxCopy
      <3>2. << "ring_full", 0 >> \in Unit
        BY DEF Unit, Kinds
      <3>3. QED
        BY <2>1, <3>1, <3>2, TxSame, PrintfStep, Zenon
    <2>3. CASE Character \/ Quiet \/ Prefetch \/ UsartIrq \/ UsartIrqEnd \/ RxZero \/ RxRestart
      <3>1. UNCHANGED txVars
        BY <2>3, Zenon DEF Character, Quiet, Prefetch, UsartIrq, UsartIrqEnd, RxZero, RxRestart
      <3>2. QED
        BY <2>1, <3>1, TxSame, Zenon
    <2>4. QED
      BY <1>3, <2>1, <2>2, <2>3, StartStep, SendStep, ReleaseStep, Zenon DEF Console, Hardware, Driver
  <1>4. QED
    BY <1>2, <1>3, CliTxStep, Zenon DEF Next

-----------------------------------------------------------------------------
(* The theorems                                                             *)

\* The invariants hold after the initialization of the driver and of the command line.
LEMMA ConsoleInit == Init => RxInv /\ TxInv
  <1> SUFFICES ASSUME Init PROVE RxInv /\ TxInv
    OBVIOUS
  <1>1. /\ Input \in Texts /\ arrived = 0 /\ pos = 0 /\ rx_buffer = [i \in 1 .. DmaRx |-> Nul] /\ line = NoLine
        /\ isr = FALSE /\ rx_size = 0 /\ rx = "idle" /\ rx_ring = << >> /\ consumed = << >>
    BY Zenon DEF Init, InitUart
  <1>2. RxTypes
    BY <1>1, Sizes DEF RxTypes
  <1>3. HeardAsTyped
    <2>1. SubSeq(rx_buffer, 1, 0) = << >> /\ SubSeq(Input, 1, 0) = << >>
      BY <1>2, BufferSeq DEF RxTypes
    <2>2. << >> \o << >> \o << >> = << >>
      OBVIOUS
    <2>3. Pending = << >>
      BY <1>1, <2>1 DEF Pending
    <2>4. QED
      BY <1>1, <2>1, <2>2, <2>3, Zenon DEF HeardAsTyped
  <1>4. RxInv
    BY <1>1, <1>2, <1>3 DEF RxInv
  <1>5. /\ tx_ring = << >> /\ tx_buffer = << >> /\ tx_size = 0 /\ number = 0 /\ ftf = FALSE
        /\ owed = << >> /\ garbled = FALSE /\ pxHelp = 0
    BY Zenon DEF Init, InitUart
  <1>6. << >> \in Seq(Unit) /\ Len(<< >>) = 0 /\ SubSeq(<< >>, 0 - 0 + 1, 0) \o << >> = << >>
    OBVIOUS
  <1>7. SentAsPrinted
    BY <1>5, <1>6 DEF SentAsPrinted
  <1>8. QED
    <2>1. number \in 0 .. Len(tx_buffer) /\ tx_size \in Nat /\ pxHelp \in Int
      BY <1>5, <1>6
    <2>2. QED
      BY <1>4, <1>5, <1>6, <1>7, <2>1, Zenon DEF TxInv

\* The inductive invariants of both directions hold in every state of every behaviour.
THEOREM ConsoleInvariance == Spec => [](RxInv /\ TxInv)
  <1>1. RxInv /\ TxInv /\ [Next]_vars => RxInv' /\ TxInv'
    BY RxStep, TxStep, Zenon
  <1>2. QED
    BY <1>1, ConsoleInit, PTL DEF Spec

\* For every size of the DMA buffer and of the ring and whatever is typed, CLI_Task reads what
\* was typed, once and in order, through the DMA buffer, the cache line, the time-out handler,
\* console_rx_task and its restarts of the DMA, as long as the reception is not disturbed.
THEOREM TypedIsHeard == Spec => []HeardAsTyped
  <1>1. RxInv => HeardAsTyped
    BY Zenon DEF RxInv
  <1>2. QED
    BY <1>1, ConsoleInvariance, PTL

\* For every size of the DMA buffer and of the ring and every list of commands, what fputc accepted
\* leaves on the line once and in order: console_tx_task refills its buffer only when the DMA has
\* sent the one before and the handler has released it.
THEOREM PrintedIsSent == Spec => []SentAsPrinted
  <1>1. TxInv => SentAsPrinted
    BY Zenon DEF TxInv
  <1>2. QED
    BY <1>1, ConsoleInvariance, PTL
=============================================================================
