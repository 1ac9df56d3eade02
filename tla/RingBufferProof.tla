--------------------------- MODULE RingBufferProof ---------------------------
(***************************************************************************)
(* Proofs about the ring of RingBuffer for every size, every set of byte   *)
(* values and every set of tasks.                                          *)
(***************************************************************************)
EXTENDS RingBuffer, TLAPS

-----------------------------------------------------------------------------
(* Arithmetic of the ring and sequences                                     *)

\* The index increment of the two loops, (x + 1) % size, is the next slot.
LEMMA NextSlot ==
  ASSUME NEW x \in Slots
  PROVE  (x + 1) % Size = Slot(x, 1) /\ (x + 1) % Size \in Slots
  <1>1. Size \in Nat /\ Size >= 1 /\ x \in Nat /\ x + 1 <= Size
    BY RingAssumption DEF Slots
  <1>2. CASE x + 1 < Size
    BY <1>1, <1>2 DEF Slot, Slots
  <1>3. CASE x + 1 = Size
    BY <1>1, <1>3 DEF Slot, Slots
  <1>4. QED
    BY <1>1, <1>2, <1>3

\* The capacity and the first slot.
LEMMA SizeFacts == Size \in Nat /\ Size >= 1 /\ Size < Uint16 /\ Uint16 \in Nat /\ 0 \in Slots
  BY RingAssumption DEF Slots

\* A count of bytes of the ring survives the conversion to uint16_t.
LEMMA U16Id == ASSUME NEW n \in 0 .. Uint16 - 1 PROVE U16(n) = n
  BY RingAssumption DEF U16

\* U16 yields a natural number.
LEMMA U16Type == ASSUME NEW n \in Int PROVE U16(n) \in 0 .. Uint16 - 1
  BY RingAssumption DEF U16

\* What a byte stored at the head does to the sequence of stored bytes.
LEMMA SeqAppend ==
  ASSUME NEW S, NEW s \in Seq(S), NEW e \in S
  PROVE  /\ Append(s, e) \in Seq(S)
         /\ Len(Append(s, e)) = Len(s) + 1
         /\ \A i \in 1 .. Len(s) : Append(s, e)[i] = s[i]
         /\ Append(s, e)[Len(s) + 1] = e
  OBVIOUS

\* What a byte taken from the tail does to the sequence of stored bytes.
LEMMA SeqTail ==
  ASSUME NEW S, NEW s \in Seq(S), s # << >>
  PROVE  /\ Len(s) \in Nat /\ Len(s) >= 1
         /\ Head(s) = s[1] /\ Head(s) \in S
         /\ Tail(s) \in Seq(S)
         /\ Len(Tail(s)) = Len(s) - 1
         /\ \A i \in 1 .. Len(s) - 1 : Tail(s)[i] = s[i + 1]
  OBVIOUS

-----------------------------------------------------------------------------
(* Type correctness and what a call knows of its own arguments              *)

\* The arguments of write() are non-empty sequences of bytes.
LEMMA BuffersType == ASSUME NEW d \in Buffers PROVE d \in Seq(Byte) /\ d # << >>
  <1>1. PICK n \in 1 .. MaxLen : d \in [1 .. n -> Byte]
    BY DEF Buffers
  <1>2. n \in Nat /\ n >= 1
    BY RingAssumption
  <1>3. QED
    BY <1>1, <1>2

\* Both space computations return a natural number.
LEMMA SpaceType ==
  ASSUME NEW h1 \in Slots, NEW t1 \in Slots, NEW h2 \in Slots, NEW t2 \in Slots
  PROVE  UsedOf(h1, t1, h2, t2) \in Nat /\ AvailableOf(h1, t1, h2, t2) \in Nat
  <1>1. Size \in Int /\ Uint16 \in Nat /\ h2 \in Int /\ t2 \in Int
    BY RingAssumption DEF Slots
  <1>2. \A n \in Int : U16(n) \in Nat
    BY U16Type, <1>1
  <1>3. QED
    BY <1>1, <1>2 DEF UsedOf, AvailableOf

\* The steps of write() keep the types.
LEMMA WriteTypes ==
  ASSUME TypeOK, LocalInv, NEW t \in Tasks, WriteStep(t), Monitor
  PROVE  TypeOK'
  <1> USE DEF TypeOK, ring, locals, Goto
  <1>1. 0 \in Slots
    BY SizeFacts
  <1>2. exposed' \in BOOLEAN
    BY DEF Monitor
  <1>3. CASE WriteTake(t)
    BY <1>2, <1>3 DEF WriteTake, Points, WriteSection
  <1>4. CASE WriteTimeout(t)
    <2>1. pc' \in [Tasks -> Points]
      BY <1>4 DEF WriteTimeout, Points
    <2>2. QED
      BY <1>2, <1>4, <2>1, SMTT(20) DEF WriteTimeout
  <1>5. CASE WriteFlag(t)
    <2>1. CASE WriteRefuse(t, "w_flag")
      BY <1>1, <1>2, <2>1 DEF WriteRefuse, Points
    <2>2. CASE ~WriteRefuse(t, "w_flag")
      BY <1>2, <1>5, <2>2, Zenon DEF WriteFlag, Points, WriteSection
    <2>3. QED
      BY <2>1, <2>2, Zenon
  <1>6. CASE WriteCmp(t)
    BY <1>2, <1>6, Zenon DEF WriteCmp, Points, WriteSection
  <1>7. CASE WriteAvail(t)
    <2>1. CASE WriteRefuse(t, "w_avail")
      BY <1>1, <1>2, <2>1 DEF WriteRefuse, Points
    <2>2. CASE ~WriteRefuse(t, "w_avail")
      BY <1>1, <1>2, <1>7, <2>2, ZenonT(30) DEF WriteAvail, Points, WriteSection
    <2>3. QED
      BY <2>1, <2>2, Zenon
  <1>8. CASE WriteStore(t)
    <2>1. Head(data[t]) \in Byte
      BY <1>8, SeqTail DEF WriteStore, LocalInv
    <2>2. QED
      BY <1>2, <1>8, <2>1 DEF WriteStore, Points, WriteSection
  <1>9. CASE WriteHead(t)
    <2>1. Head(data[t]) \in Byte /\ Tail(data[t]) \in Seq(Byte)
      BY <1>9, SeqTail, Zenon DEF WriteHead, LocalInv
    <2>2. head' \in Slots
      BY <1>9, NextSlot, Zenon DEF WriteHead
    <2>3. fifo' \in Seq(Byte) /\ Len(fifo') <= Size
      <3> DEFINE kept == IF Len(fifo) < Size THEN fifo ELSE Tail(fifo)
      <3>1. kept \in Seq(Byte) /\ Len(kept) < Size
        BY SizeFacts, SeqTail
      <3>2. fifo' = Append(kept, Head(data[t]))
        BY <1>9 DEF WriteHead
      <3> HIDE DEF kept
      <3>3. QED
        BY <2>1, <3>1, <3>2, SeqAppend, SizeFacts
    <2>4. QED
      BY <1>2, <1>9, <2>1, <2>2, <2>3 DEF WriteHead, Points, WriteSection
  <1>10. CASE WriteTest(t)
    BY <1>2, <1>10, Zenon DEF WriteTest, WriteNext, Points, WriteSection
  <1>11. CASE WriteFull(t)
    BY <1>2, <1>11, Zenon DEF WriteFull, WriteNext, Points, WriteSection
  <1>12. QED
    BY <1>3, <1>4, <1>5, <1>6, <1>7, <1>8, <1>9, <1>10, <1>11, Zenon DEF WriteStep

\* The steps of read() keep the types.
LEMMA ReadTypes ==
  ASSUME TypeOK, LocalInv, NEW t \in Tasks, ReadStep(t), Monitor
  PROVE  TypeOK'
  <1> USE DEF TypeOK, ring, locals, Goto
  <1>1. 0 \in Slots
    BY SizeFacts
  <1>2. exposed' \in BOOLEAN
    BY DEF Monitor
  <1>3. ASSUME NEW from, NEW used \in Nat, ReadStart(t, from, used)
        PROVE  TypeOK'
    BY <1>1, <1>2, <1>3, Zenon DEF ReadStart, Points, ReadSection
  <1>4. CASE ReadTake(t)
    BY <1>2, <1>4 DEF ReadTake, Points, ReadSection
  <1>5. CASE ReadTimeout(t)
    BY <1>2, <1>5, Zenon DEF ReadTimeout, Points
  <1>6. CASE ReadFlag(t)
    <2>1. CASE ReadStart(t, "r_flag", Size)
      BY <1>3, <2>1, SizeFacts, Zenon
    <2>2. CASE ~ReadStart(t, "r_flag", Size)
      BY <1>2, <1>6, <2>2, Zenon DEF ReadFlag, Points, ReadSection
    <2>3. QED
      BY <2>1, <2>2, Zenon
  <1>7. CASE ReadCmp(t)
    BY <1>2, <1>7 DEF ReadCmp, Points, ReadSection
  <1>8. CASE ReadUsed(t)
    <2>1. UsedOf(snap[t], tail, Second(t, head), tail) \in Nat
      BY SpaceType, Zenon DEF Second
    <2>2. QED
      BY <1>3, <1>8, <2>1, Zenon DEF ReadUsed
  <1>9. CASE ReadLoad(t)
    BY <1>2, <1>9 DEF ReadLoad, Points, ReadSection
  <1>10. CASE ReadTail(t)
    <2>1. tail' \in Slots
      BY <1>10, NextSlot DEF ReadTail
    <2>2. fifo' \in Seq(Byte) /\ Len(fifo') <= Size
      BY <1>10, SeqTail, SizeFacts DEF ReadTail
    <2>3. QED
      BY <1>2, <1>10, <2>1, <2>2 DEF ReadTail, Points, ReadSection
  <1>11. CASE ReadClear(t)
    <2>1. want[t] - 1 \in Nat
      BY <1>11 DEF ReadClear, LocalInv, ReadSection
    <2>2. QED
      BY <1>2, <1>11, <2>1, Zenon DEF ReadClear, Points, ReadSection
  <1>12. QED
    BY <1>4, <1>5, <1>6, <1>7, <1>8, <1>9, <1>10, <1>11, Zenon DEF ReadStep

\* The steps of the space queries keep the types.
LEMMA QueryTypes ==
  ASSUME TypeOK, LocalInv, NEW t \in Tasks, QueryStep(t), Monitor
  PROVE  TypeOK'
  <1> USE DEF TypeOK, ring, locals, Goto
  <1>1. 0 \in Slots
    BY SizeFacts
  <1>2. exposed' \in BOOLEAN
    BY DEF Monitor
  <1>3. ASSUME NEW from, NEW value \in Nat, QueryReturn(t, from, value)
        PROVE  TypeOK'
    BY <1>1, <1>2, <1>3, Zenon DEF QueryReturn, Points
  <1>4. CASE QueryTake(t)
    BY <1>2, <1>4 DEF QueryTake, Points, QuerySection
  <1>5. CASE QueryFlag(t)
    <2>1. CASE is_full_flag \/ res[t][1] = "is_full"
      <3> DEFINE value == CASE res[t][1] = "used"      -> Size
                            [] res[t][1] = "available" -> 0
                            [] res[t][1] = "is_empty"  -> 0
                            [] res[t][1] = "is_full"   -> IF is_full_flag THEN 1 ELSE 0
      <3>1. value \in Nat
        BY <1>5, SizeFacts DEF QueryFlag, QueryReturn, LocalInv, QueryNames, QuerySection
      <3>2. QueryReturn(t, "o_flag", value)
        BY <1>5, <2>1, Zenon DEF QueryFlag
      <3> HIDE DEF value
      <3>3. QED
        BY <1>3, <3>1, <3>2, Zenon
    <2>2. CASE ~(is_full_flag \/ res[t][1] = "is_full")
      BY <1>2, <1>5, <2>2, Zenon DEF QueryFlag, Points, QuerySection
    <2>3. QED
      BY <2>1, <2>2, Zenon
  <1>6. CASE QueryCmp(t)
    <2>1. CASE res[t][1] = "is_empty"
      BY <1>3, <1>6, <2>1, Zenon DEF QueryCmp
    <2>2. CASE res[t][1] # "is_empty"
      BY <1>2, <1>6, <2>2, ZenonT(30) DEF QueryCmp, Points, QuerySection
    <2>3. QED
      BY <2>1, <2>2, Zenon
  <1>7. CASE QueryCalc(t)
    <2>1. /\ UsedOf(snap[t], tail, Second(t, head), tail) \in Nat
          /\ AvailableOf(snap[t], tail, Second(t, head), tail) \in Nat
      BY SpaceType, Zenon DEF Second
    <2>2. QED
      BY <1>3, <1>7, <2>1, Zenon DEF QueryCalc
  <1>8. QED
    BY <1>4, <1>5, <1>6, <1>7, Zenon DEF QueryStep

\* The steps that start, time out or finish a call, and clear(), keep the types.
LEMMA CallTypes ==
  ASSUME TypeOK, NEW t \in Tasks, Call(t) \/ ClearStep(t), Monitor
  PROVE  TypeOK'
  <1> USE DEF TypeOK, ring, locals, Goto
  <1>1. exposed' \in BOOLEAN
    BY Zenon DEF Monitor
  <1>2. ASSUME NEW d \in Buffers, WriteCall(t, d) PROVE TypeOK'
    BY <1>1, <1>2, BuffersType, Zenon DEF WriteCall, Points, WaitPoints
  <1>3. ASSUME NEW n \in 1 .. MaxLen, ReadCall(t, n) PROVE TypeOK'
    <2>1. n \in Nat
      BY RingAssumption
    <2>2. QED
      BY <1>1, <1>3, <2>1, Zenon DEF ReadCall, Points, WaitPoints
  <1>4. ASSUME NEW q \in QueryNames, QueryCall(t, q) PROVE TypeOK'
    BY <1>1, <1>4, Zenon DEF QueryCall, Points, WaitPoints
  <1>5. CASE ClearCall(t)
    BY <1>1, <1>5, Zenon DEF ClearCall, Points, WaitPoints
  <1>6. CASE ClearTakeRead(t)
    BY <1>1, <1>6, Zenon DEF ClearTakeRead, Points, WaitPoints
  <1>7. CASE ClearTakeWrite(t)
    BY <1>1, <1>7 DEF ClearTakeWrite, Points
  <1>8. CASE ClearReset(t)
    <2>1. << >> \in Seq(Byte) /\ Len(<< >>) <= Size
      BY SizeFacts
    <2>2. QED
      BY <1>1, <1>8, <2>1, SizeFacts, Zenon DEF ClearReset, Points
  <1>9. QED
    BY <1>2, <1>3, <1>4, <1>5, <1>6, <1>7, <1>8, Zenon DEF Call, ClearStep

\* A step of a task t leaves the arguments of the other tasks alone, so only
\* t's own entries have to be looked at.
LEMMA LocalStep ==
  ASSUME TypeOK, LocalInv, NEW t \in Tasks, Call(t) \/ Progress(t), Monitor
  PROVE  LocalInv'
  <1> USE DEF TypeOK, LocalInv, ring, locals, Goto, ReadSection, QuerySection
  <1>1. CASE WriteStep(t)
    <2>1. CASE WriteTake(t) \/ WriteTimeout(t)
      BY <2>1, SMTT(20) DEF WriteTake, WriteTimeout
    <2>5. CASE WriteFlag(t) \/ WriteCmp(t)
      BY <2>5, SMTT(20) DEF WriteFlag, WriteCmp, WriteRefuse
    <2>6. CASE WriteAvail(t)
      BY <2>6, SMTT(20) DEF WriteAvail, WriteRefuse
    <2>2. CASE WriteStore(t)
      BY <2>2, Zenon DEF WriteStore
    <2>7. CASE WriteHead(t)
      BY <2>7, Zenon DEF WriteHead
    <2>3. CASE WriteTest(t)
      BY <2>3, SMTT(20) DEF WriteTest, WriteNext
    <2>8. CASE WriteFull(t)
      BY <2>8, Zenon DEF WriteFull, WriteNext
    <2>4. QED
      BY <1>1, <2>1, <2>2, <2>3, <2>5, <2>6, <2>7, <2>8, Zenon DEF WriteStep
  <1>2. CASE ReadStep(t)
    <2>1. CASE ReadTake(t) \/ ReadCmp(t)
      <3>1. CASE ReadTake(t)
        BY <3>1, SMTT(20) DEF ReadTake
      <3>2. CASE ReadCmp(t)
        BY <3>2, SMTT(20) DEF ReadCmp
      <3>3. QED
        BY <2>1, <3>1, <3>2, Zenon
    <2>7. CASE ReadTimeout(t)
      BY <2>7, Zenon DEF ReadTimeout
    <2>8. CASE ReadLoad(t)
      BY <2>8, Zenon DEF ReadLoad
    <2>9. CASE ReadTail(t)
      BY <2>9 DEF ReadTail
    <2>2. ASSUME NEW from, NEW used \in Nat, ReadStart(t, from, used)
          PROVE  LocalInv'
      BY <2>2 DEF ReadStart
    <2>3. CASE ReadFlag(t)
      BY <2>2, <2>3, SizeFacts, Zenon DEF ReadFlag
    <2>4. CASE ReadUsed(t)
      BY <2>2, <2>4, SpaceType, Zenon DEF ReadUsed, Second
    <2>5. CASE ReadClear(t)
      BY <2>5 DEF ReadClear
    <2>6. QED
      BY <1>2, <2>1, <2>3, <2>4, <2>5, <2>7, <2>8, <2>9, Zenon DEF ReadStep
  <1>3. CASE QueryStep(t)
    <2>1. CASE QueryTake(t)
      BY <2>1, Zenon DEF QueryTake
    <2>2. ASSUME NEW from, NEW value, QueryReturn(t, from, value)
          PROVE  LocalInv'
      <3>1. UNCHANGED << data, want >> /\ pc'[t] = "idle"
        BY <2>2, Zenon DEF QueryReturn
      <3>2. \A u \in Tasks : u # t => pc'[u] = pc[u] /\ res'[u] = res[u]
        BY <2>2 DEF QueryReturn
      <3> HIDE DEF TypeOK, LocalInv, QuerySection, ReadSection
      <3>3. ASSUME NEW u \in Tasks, u = t PROVE pc'[u] \notin ReadSection \cup QuerySection
        BY <3>1, <3>3 DEF ReadSection, QuerySection
      <3>4. QED
        BY <3>1, <3>2, <3>3, Zenon DEF LocalInv
    <2>3. CASE QueryFlag(t)
      BY <2>2, <2>3, ZenonT(30) DEF QueryFlag, LocalInv, ring, locals
    <2>4. CASE QueryCmp(t)
      <3>1. CASE res[t][1] = "is_empty"
        BY <2>2, <2>4, <3>1, Zenon DEF QueryCmp
      <3>2. CASE res[t][1] # "is_empty"
        <4>1. res[t][1] # "is_full"
          BY <2>4, Zenon DEF QueryCmp
        <4>2. QED
          BY <2>4, <3>2, <4>1, SMTT(20) DEF QueryCmp, QueryNames
      <3>3. QED
        BY <3>1, <3>2, Zenon
    <2>5. CASE QueryCalc(t)
      BY <2>2, <2>5, Zenon DEF QueryCalc
    <2>6. QED
      BY <1>3, <2>1, <2>3, <2>4, <2>5, Zenon DEF QueryStep
  <1>4. CASE ClearStep(t)
    <2>1. CASE ClearTakeRead(t)
      BY <2>1, SMTT(20) DEF ClearTakeRead
    <2>2. CASE ClearTakeWrite(t)
      BY <2>2, SMTT(20) DEF ClearTakeWrite
    <2>3. CASE ClearReset(t)
      BY <2>3, SMTT(20) DEF ClearReset
    <2>4. QED
      BY <1>4, <2>1, <2>2, <2>3, Zenon DEF ClearStep
  <1>5. CASE Call(t)
    <2>1. ASSUME NEW d \in Buffers, WriteCall(t, d) PROVE LocalInv'
      BY <2>1, BuffersType, Zenon DEF WriteCall
    <2>2. ASSUME NEW n \in 1 .. MaxLen, ReadCall(t, n) PROVE LocalInv'
      BY <2>2, RingAssumption DEF ReadCall
    <2>3. ASSUME NEW q \in QueryNames, QueryCall(t, q) PROVE LocalInv'
      BY <2>3, Zenon DEF QueryCall
    <2>4. CASE ClearCall(t)
      BY <2>4, Zenon DEF ClearCall
    <2>5. QED
      BY <1>5, <2>1, <2>2, <2>3, <2>4, Zenon DEF Call
  <1>6. QED
    BY <1>1, <1>2, <1>3, <1>4, <1>5, Zenon DEF Progress

\* Each mutex changes hands exactly where a call enters or leaves the part that
\* needs it.
LEMMA LockStep ==
  ASSUME TypeOK, LockInv, NEW t \in Tasks, Call(t) \/ Progress(t)
  PROVE  LockInv'
  <1> USE DEF LockInv, Goto, WriteSection, ReadSection, QuerySection
  <1>1. NoTask \notin Tasks
    BY RingAssumption
  <1>2. pc \in [Tasks -> Points]
    BY DEF TypeOK
  <1>3. CASE WriteStep(t)
    <2>1. CASE WriteTake(t) \/ WriteTimeout(t) \/ WriteCmp(t) \/ WriteStore(t) \/ WriteHead(t)
      <3>1. CASE WriteTake(t)
        BY <1>1, <1>2, <3>1 DEF WriteTake
      <3>2. CASE WriteTimeout(t)
        BY <1>1, <1>2, <3>2 DEF WriteTimeout
      <3>3. CASE WriteCmp(t)
        BY <1>1, <1>2, <3>3 DEF WriteCmp
      <3>4. CASE WriteStore(t)
        BY <1>1, <1>2, <3>4 DEF WriteStore
      <3>5. CASE WriteHead(t)
        BY <1>1, <1>2, <3>5 DEF WriteHead
      <3>6. QED
        BY <2>1, <3>1, <3>2, <3>3, <3>4, <3>5, Zenon
    <2>2. CASE WriteFlag(t) \/ WriteAvail(t)
      <3>1. CASE WriteFlag(t)
        BY <1>1, <1>2, <3>1 DEF WriteFlag, WriteRefuse
      <3>2. CASE WriteAvail(t)
        BY <1>1, <1>2, <3>2 DEF WriteAvail, WriteRefuse
      <3>3. QED
        BY <2>2, <3>1, <3>2, Zenon
    <2>3. CASE WriteTest(t) \/ WriteFull(t)
      BY <1>1, <1>2, <2>3 DEF WriteTest, WriteFull, WriteNext
    <2>4. QED
      BY <1>3, <2>1, <2>2, <2>3, Zenon DEF WriteStep
  <1>4. CASE ReadStep(t)
    <2>1. CASE ReadTake(t) \/ ReadTimeout(t) \/ ReadCmp(t) \/ ReadLoad(t) \/ ReadTail(t)
      <3>1. CASE ReadTake(t)
        BY <1>1, <1>2, <3>1 DEF ReadTake
      <3>2. CASE ReadTimeout(t)
        BY <1>1, <1>2, <3>2 DEF ReadTimeout
      <3>3. CASE ReadCmp(t)
        BY <1>1, <1>2, <3>3 DEF ReadCmp
      <3>4. CASE ReadLoad(t)
        BY <1>1, <1>2, <3>4 DEF ReadLoad
      <3>5. CASE ReadTail(t)
        BY <1>1, <1>2, <3>5 DEF ReadTail
      <3>6. QED
        BY <2>1, <3>1, <3>2, <3>3, <3>4, <3>5, Zenon
    <2>2. CASE ReadFlag(t) \/ ReadUsed(t)
      BY <1>1, <1>2, <2>2 DEF ReadFlag, ReadUsed, ReadStart
    <2>3. CASE ReadClear(t)
      BY <1>1, <1>2, <2>3 DEF ReadClear
    <2>4. QED
      BY <1>4, <2>1, <2>2, <2>3, Zenon DEF ReadStep
  <1>5. CASE QueryStep(t)
    <2>1. CASE QueryTake(t)
      BY <1>1, <1>2, <2>1 DEF QueryTake
    <2>2. ASSUME NEW from \in QuerySection, NEW value, QueryReturn(t, from, value)
          PROVE  LockInv'
      BY <1>1, <1>2, <2>2 DEF QueryReturn
    <2>3. CASE QueryFlag(t)
      BY <1>1, <1>2, <2>2, <2>3 DEF QueryFlag
    <2>4. CASE QueryCmp(t) \/ QueryCalc(t)
      BY <1>1, <1>2, <2>2, <2>4 DEF QueryCmp, QueryCalc
    <2>5. QED
      BY <1>5, <2>1, <2>3, <2>4, Zenon DEF QueryStep
  <1>6. CASE ClearStep(t)
    BY <1>1, <1>2, <1>6 DEF ClearStep, ClearTakeRead, ClearTakeWrite, ClearReset
  <1>7. CASE Call(t)
    BY <1>1, <1>2, <1>7 DEF Call, WriteCall, ReadCall, QueryCall, ClearCall
  <1>8. QED
    BY <1>3, <1>4, <1>5, <1>6, <1>7 DEF Progress

-----------------------------------------------------------------------------
(* Slots and distances                                                      *)

\* The slots at different distances from x are different, and the distance
\* from x to the slot k further is k.
LEMMA SlotFacts ==
  ASSUME NEW x \in Slots, NEW k \in 0 .. Size
  PROVE  /\ Slot(x, k) \in Slots
         /\ k < Size => Dist(x, Slot(x, k)) = k
         /\ (Slot(x, k) = x) <=> (k = 0 \/ k = Size)
         /\ \A i \in 0 .. Size : (i < k /\ k < Size) => Slot(x, i) # Slot(x, k)
  BY SizeFacts DEF Slots, Slot, Dist

\* Stepping the start or the end of a stretch of slots by one.
LEMMA SlotShift ==
  ASSUME NEW x \in Slots, NEW k \in 0 .. Size - 1
  PROVE  /\ Slot(Slot(x, k), 1) = Slot(x, k + 1)
         /\ Slot(Slot(x, 1), k) = Slot(x, k + 1)
  BY SizeFacts DEF Slots, Slot

\* With one snapshot of each index, used and available are what Dist says.
LEMMA SpaceOf ==
  ASSUME NEW h \in Slots, NEW u \in Slots
  PROVE  /\ UsedOf(h, u, h, u) = Dist(u, h)
         /\ AvailableOf(h, u, h, u) = Size - Dist(u, h)
         /\ Dist(u, h) \in 0 .. Size - 1
  <1>1. Dist(u, h) \in 0 .. Size - 1
    BY SizeFacts DEF Slots, Dist
  <1>2. U16(Dist(u, h)) = Dist(u, h) /\ U16(Size - Dist(u, h)) = Size - Dist(u, h)
    <2>1. Dist(u, h) \in 0 .. Uint16 - 1 /\ Size - Dist(u, h) \in 0 .. Uint16 - 1
      BY <1>1, SizeFacts
    <2>2. QED
      BY <2>1, U16Id
  <1>3. CASE h >= u
    BY <1>1, <1>2, <1>3 DEF UsedOf, AvailableOf, Dist
  <1>4. CASE ~(h >= u)
    <2>1. Size - (Size - (u - h)) = u - h
      BY SizeFacts DEF Slots
    <2>2. QED
      BY <1>1, <1>2, <1>4, <2>1 DEF UsedOf, AvailableOf, Dist
  <1>5. QED
    BY <1>1, <1>3, <1>4

\* When the index that is loaded again is on the same side of the other one,
\* the space computation is the one of the second load.
LEMMA SpaceReload ==
  ASSUME NEW h1 \in Slots, NEW h2 \in Slots, NEW t1 \in Slots, NEW t2 \in Slots,
         (h1 >= t1) <=> (h2 >= t2)
  PROVE  /\ UsedOf(h1, t1, h2, t2) = UsedOf(h2, t2, h2, t2)
         /\ AvailableOf(h1, t1, h2, t2) = AvailableOf(h2, t2, h2, t2)
  BY DEF UsedOf, AvailableOf

-----------------------------------------------------------------------------
(* Mutual exclusion                                                         *)

\* At most one task is past the take of each mutex.
LEMMA Exclusive ==
  ASSUME LockInv, NEW t \in Tasks, NEW u \in Tasks, t # u
  PROVE  /\ pc[t] \in WriteSection \cup {"c_reset"} =>
               pc[u] \notin WriteSection \cup {"c_reset"}
         /\ pc[t] \in ReadSection \cup QuerySection \cup {"c_take_write", "c_reset"} =>
               pc[u] \notin ReadSection \cup QuerySection \cup {"c_take_write", "c_reset"}
  BY DEF LockInv

\* The ring never stores more than Size bytes.
LEMMA SizeOfFifo == ASSUME TypeOK PROVE Len(fifo) \in 0 .. Size
  BY SizeFacts DEF TypeOK

-----------------------------------------------------------------------------
(* The ring is the queue fifo                                               *)

Marks == {"w_test", "w_full", "r_clear"}
Watched == (WriteSection \ {"w_flag"}) \cup (ReadSection \ {"r_flag"})

\* A step that leaves the ring alone and moves its task to a place of which the
\* invariant says nothing preserves the invariant.
LEMMA Undisturbed ==
  ASSUME TypeOK, RingInv, NEW t \in Tasks, NEW to \in Points \ Watched,
         pc' = [pc EXCEPT ![t] = to], pc[t] \notin Marks,
         UNCHANGED << ring, fifo, broken >>,
         \A u \in Tasks : u # t => data'[u] = data[u] /\ want'[u] = want[u] /\ snap'[u] = snap[u]
  PROVE  RingInv'
  <1> USE DEF ring
  <1>1. \A u \in Tasks : pc'[u] = IF u = t THEN to ELSE pc[u]
    BY Zenon DEF TypeOK
  <1>2. ~broken' /\ ContentInv'
    BY DEF RingInv, ContentInv
  <1>3. FlagInv'
    BY <1>1 DEF RingInv, FlagInv, Marks
  <1>4. WriterInv'
    BY <1>1 DEF RingInv, WriterInv, Watched, WriteSection
  <1>5. ReaderInv'
    BY <1>1 DEF RingInv, ReaderInv, Watched, ReadSection
  <1>6. QED
    BY <1>2, <1>3, <1>4, <1>5 DEF RingInv

\* The steps of calls, takes, timeouts, queries and of clear() before its reset.
LEMMA IdleSteps ==
  ASSUME TypeOK, RingInv, NEW t \in Tasks,
         \/ Call(t) \/ WriteTake(t) \/ WriteTimeout(t) \/ ReadTake(t) \/ ReadTimeout(t)
         \/ QueryStep(t) \/ ClearTakeRead(t) \/ ClearTakeWrite(t)
  PROVE  RingInv'
  <1> USE DEF Goto, locals, Points, Watched, Marks, WriteSection, ReadSection, QuerySection, WaitPoints
  <1> HIDE DEF TypeOK
  <1>1. /\ data \in [Tasks -> Seq(Byte)] /\ want \in [Tasks -> Nat] /\ snap \in [Tasks -> Slots]
    BY Zenon DEF TypeOK
  <1>2. CASE Call(t)
    BY <1>1, <1>2, Undisturbed, Zenon DEF Call, WriteCall, ReadCall, QueryCall, ClearCall
  <1>3. CASE WriteTake(t) \/ WriteTimeout(t)
    BY <1>1, <1>3, Undisturbed, Zenon DEF WriteTake, WriteTimeout
  <1>4. CASE ReadTake(t) \/ ReadTimeout(t)
    BY <1>1, <1>4, Undisturbed, Zenon DEF ReadTake, ReadTimeout
  <1>5. CASE ClearTakeRead(t) \/ ClearTakeWrite(t)
    BY <1>1, <1>5, Undisturbed, Zenon DEF ClearTakeRead, ClearTakeWrite
  <1>6. ASSUME NEW from \in QuerySection, NEW value, QueryReturn(t, from, value)
        PROVE  RingInv'
    BY <1>1, <1>6, Undisturbed, Zenon DEF QueryReturn
  <1>7. CASE QueryTake(t)
    BY <1>1, <1>7, Undisturbed, Zenon DEF QueryTake
  <1>8. CASE QueryFlag(t)
    BY <1>1, <1>6, <1>8, Undisturbed, Zenon DEF QueryFlag
  <1>9. CASE QueryCmp(t)
    BY <1>1, <1>6, <1>9, Undisturbed, Zenon DEF QueryCmp
  <1>10. CASE QueryCalc(t)
    BY <1>6, <1>10, Zenon DEF QueryCalc
  <1>11. QED
    BY <1>2, <1>3, <1>4, <1>5, <1>7, <1>8, <1>9, <1>10 DEF QueryStep

\* clear() holds both mutexes when it resets the ring.
LEMMA ClearSteps ==
  ASSUME TypeOK, LockInv, RingInv, NEW t \in Tasks, ClearReset(t)
  PROVE  RingInv'
  <1>1. \A u \in Tasks : pc'[u] \notin WriteSection \cup ReadSection
    <2>1. \A u \in Tasks : u # t => pc[u] \notin WriteSection \cup ReadSection
      BY Exclusive DEF ClearReset, Goto
    <2>2. QED
      BY <2>1, Zenon DEF ClearReset, Goto, TypeOK, WriteSection, ReadSection
  <1>2. fifo' = << >> /\ Len(fifo') = 0 /\ head' = 0 /\ tail' = 0 /\ is_full_flag' = FALSE
    BY DEF ClearReset
  <1>3. ~broken' /\ ContentInv'
    BY <1>2, SizeFacts DEF ContentInv, Slot, RingInv, ClearReset
  <1>4. FlagInv'
    BY <1>2, SizeFacts DEF FlagInv
  <1>5. WriterInv' /\ ReaderInv'
    BY <1>1, Zenon DEF WriterInv, ReaderInv, WriteSection, ReadSection
  <1>6. QED
    BY <1>3, <1>4, <1>5 DEF RingInv

\* The steps of write() before its loop.
LEMMA WriteChecks ==
  ASSUME TypeOK, LockInv, ExposureInv, RingInv, ~exposed, NEW t \in Tasks,
         WriteFlag(t) \/ WriteCmp(t) \/ WriteAvail(t)
  PROVE  RingInv'
  <1> DEFINE k == Len(fifo)
  <1> USE DEF ring, locals, Goto
  <1>1. /\ pc \in [Tasks -> Points] /\ data \in [Tasks -> Seq(Byte)]
        /\ want \in [Tasks -> Nat] /\ snap \in [Tasks -> Slots]
        /\ head \in Slots /\ tail \in Slots /\ k \in 0 .. Size
    BY SizeOfFifo, Zenon DEF TypeOK
  <1>2. ASSUME NEW from \in {"w_flag", "w_avail"}, WriteRefuse(t, from)
        PROVE  RingInv'
    BY <1>1, <1>2, Undisturbed, Zenon DEF WriteRefuse, Points, Watched, Marks, WriteSection, ReadSection
  <1>3. ASSUME pc[t] \in {"w_flag", "w_cmp", "w_avail"},
               NEW to \in {"w_cmp", "w_avail", "w_store"}, pc' = [pc EXCEPT ![t] = to],
               UNCHANGED << ring, fifo, broken, data, want >>,
               \A u \in Tasks : u # t => snap'[u] = snap[u],
               ~is_full_flag, k < Size,
               to = "w_avail" => Dist(snap'[t], head) >= k,
               to = "w_store" => Len(data[t]) <= Size - k
        PROVE  RingInv'
    <2>1. \A u \in Tasks : pc'[u] = IF u = t THEN to ELSE pc[u]
      BY <1>1, <1>3
    <2>2. ~broken' /\ ContentInv'
      BY <1>3, Zenon DEF RingInv, ContentInv
    <2>3. FlagInv'
      BY <1>3, <2>1, Zenon DEF RingInv, FlagInv
    <2>4. WriterInv'
      <3>1. \A u \in Tasks : u # t => pc'[u] \notin WriteSection
        BY <1>3, <2>1, Exclusive, Zenon DEF WriteSection
      <3>2. QED
        BY <1>3, <2>1, <3>1, Zenon DEF WriterInv, WriteSection
    <2>5. ReaderInv'
      BY <1>3, <2>1, Zenon DEF RingInv, ReaderInv, ReadSection
    <2>6. QED
      BY <2>2, <2>3, <2>4, <2>5 DEF RingInv
  <1>4. CASE WriteFlag(t)
    <2>1. CASE is_full_flag
      BY <1>2, <1>4, <2>1 DEF WriteFlag
    <2>2. CASE ~is_full_flag
      <3>1. \A u \in Tasks : pc[u] \notin {"w_test", "w_full"}
        BY <1>4, Exclusive, Zenon DEF WriteFlag, WriteRefuse, WriteSection
      <3>2. k # Size
        BY <2>2, <3>1 DEF RingInv, FlagInv
      <3>3. k < Size
        BY <1>1, <3>2, SizeFacts
      <3>4. QED
        BY <1>3, <1>4, <2>2, <3>3, Zenon DEF WriteFlag
    <2>3. QED
      BY <2>1, <2>2
  <1>5. CASE WriteCmp(t)
    <2>1. ~is_full_flag /\ k < Size
      BY <1>5, Zenon DEF WriteCmp, RingInv, WriterInv, WriteSection
    <2>2. Dist(tail, head) >= k
      <3>1. head = Slot(tail, k)
        BY Zenon DEF RingInv, ContentInv
      <3>2. QED
        BY <1>1, <2>1, <3>1, SlotFacts, SizeFacts
    <2>3. snap'[t] = tail /\ \A u \in Tasks : u # t => snap'[u] = snap[u]
      BY <1>1, <1>5, Zenon DEF WriteCmp
    <2>4. QED
      BY <1>3, <1>5, <2>1, <2>2, <2>3, Zenon DEF WriteCmp
  <1>6. CASE WriteAvail(t)
    <2> DEFINE available == AvailableOf(head, snap[t], head, Second(t, tail))
    <2>1. ~is_full_flag /\ k < Size /\ Dist(snap[t], head) >= k
      BY <1>6, Zenon DEF WriteAvail, WriteRefuse, RingInv, WriterInv, WriteSection
    <2>2. available <= Size - k
      <3>1. CASE ~Reload
        <4>1. available = Size - Dist(snap[t], head)
          BY <1>1, <3>1, SpaceOf DEF Second
        <4>2. Dist(snap[t], head) \in 0 .. Size - 1
          BY <1>1, SpaceOf
        <4> HIDE DEF available
        <4>3. QED
          BY <1>1, <2>1, <4>1, <4>2, SizeFacts
      <3>2. CASE Reload
        <4>1. (head >= snap[t]) <=> (head >= tail)
          BY <1>6, <3>2, Zenon DEF WriteAvail, WriteRefuse, ExposureInv, WrapBetweenLoads
        <4>2. available = AvailableOf(head, tail, head, tail)
          BY <1>1, <3>2, <4>1, SpaceReload DEF Second
        <4>3. available = Size - Dist(tail, head)
          BY <1>1, <4>2, SpaceOf, Zenon
        <4>4. Dist(tail, head) = k
          BY <1>1, <2>1, SlotFacts, Zenon DEF RingInv, ContentInv
        <4>5. QED
          BY <1>1, <4>3, <4>4, SizeFacts
      <3>3. QED
        BY <3>1, <3>2
    <2>3. available \in Nat
      BY <1>1, SpaceType, Zenon DEF Second
    <2>4. CASE available < Len(data[t]) /\ WriteRefuse(t, "w_avail")
      BY <1>2, <2>4
    <2>5. CASE ~(available < Len(data[t]) /\ WriteRefuse(t, "w_avail"))
      <3>1. /\ available >= Len(data[t])
            /\ Goto(t, "w_avail", "w_store")
            /\ snap' = [snap EXCEPT ![t] = 0]
            /\ UNCHANGED << ring, read_mutex, write_mutex, data, want, res, fifo, broken >>
        BY <1>6, <2>5, Zenon DEF WriteAvail
      <3> HIDE DEF available
      <3>2. Len(data[t]) <= Size - k
        BY <1>1, <2>2, <2>3, <3>1, SizeFacts
      <3>3. QED
        BY <1>1, <1>3, <2>1, <3>1, <3>2, Zenon
    <2>6. QED
      BY <2>4, <2>5
  <1>7. QED
    BY <1>4, <1>5, <1>6

\* The loop of write(): the slot it fills is free, and it sets the flag when and
\* only when it filled the last one.
LEMMA WriteLoop ==
  ASSUME TypeOK, LockInv, LocalInv, RingInv, ~exposed', Monitor, NEW t \in Tasks,
         WriteStore(t) \/ WriteHead(t) \/ WriteTest(t) \/ WriteFull(t)
  PROVE  RingInv'
  <1> DEFINE k == Len(fifo)
  <1> USE DEF ring, locals, Goto
  <1>1. /\ pc \in [Tasks -> Points] /\ data \in [Tasks -> Seq(Byte)]
        /\ p_buff \in [Slots -> Byte] /\ fifo \in Seq(Byte)
        /\ head \in Slots /\ tail \in Slots /\ k \in 0 .. Size
    BY SizeOfFifo, Zenon DEF TypeOK
  <1>2. \A u \in Tasks : u # t => pc'[u] = pc[u] /\ pc[u] \notin WriteSection
    BY <1>1, Exclusive, Zenon DEF WriteStore, WriteHead, WriteTest, WriteFull, WriteNext, WriteSection
  <1>3. pc[t] \in WriteSection /\ ~is_full_flag
    BY Zenon DEF WriteStore, WriteHead, WriteTest, WriteFull, WriteNext, RingInv, WriterInv, WriteSection
  <1>4. pc[t] \notin ReadSection /\ pc'[t] \notin ReadSection
    BY <1>1, Zenon DEF WriteStore, WriteHead, WriteTest, WriteFull, WriteNext, ReadSection
  <1>5. CASE WriteStore(t)
    <2>1. k < Size /\ pc'[t] = "w_head" /\ Len(data[t]) <= Size - k
      BY <1>1, <1>5, Zenon DEF WriteStore, RingInv, WriterInv
    <2>2. Head(data[t]) \in Byte
      BY <1>1, <1>5, SeqTail, Zenon DEF WriteStore, LocalInv
    <2>3. ~broken'
      <3>1. ~(Len(fifo) >= Size)
        BY <1>1, <2>1, SizeFacts
      <3>2. QED
        BY <1>5, <3>1, Zenon DEF WriteStore, RingInv
    <2>4. ContentInv'
      <3>1. \A i \in 1 .. k : Slot(tail, i - 1) \in Slots /\ Slot(tail, i - 1) # head
        <4>1. ASSUME NEW i \in 1 .. k PROVE i - 1 \in 0 .. Size /\ i - 1 < k
          BY <1>1, SizeFacts
        <4>2. QED
          BY <1>1, <2>1, <4>1, SlotFacts, Zenon DEF RingInv, ContentInv
      <3>2. QED
        BY <1>1, <1>5, <3>1, Zenon DEF WriteStore, RingInv, ContentInv
    <2>5. FlagInv'
      BY <1>1, <1>3, <1>5, <2>1 DEF WriteStore, FlagInv
    <2>6. WriterInv'
      BY <1>1, <1>2, <1>3, <1>5, <2>1, <2>2, Zenon DEF WriteStore, WriterInv, WriteSection
    <2>7. ReaderInv'
      BY <1>2, <1>4, <1>5, Zenon DEF WriteStore, RingInv, ReaderInv, ReadSection
    <2>8. QED
      BY <2>3, <2>4, <2>5, <2>6, <2>7 DEF RingInv
  <1>6. CASE WriteHead(t)
    <2>1. k < Size /\ pc'[t] = "w_test" /\ Len(data[t]) <= Size - k /\ p_buff[head] = Head(data[t])
      BY <1>1, <1>6, Zenon DEF WriteHead, RingInv, WriterInv
    <2>2. /\ Head(data[t]) \in Byte /\ Len(data[t]) \in Nat
          /\ Tail(data[t]) \in Seq(Byte) /\ Len(Tail(data[t])) = Len(data[t]) - 1
      BY <1>1, <1>6, SeqTail, Zenon DEF WriteHead, LocalInv
    <2>3. /\ fifo' = Append(fifo, Head(data[t])) /\ Len(fifo') = k + 1
          /\ \A i \in 1 .. k : fifo'[i] = fifo[i]
          /\ fifo'[k + 1] = Head(data[t])
      <3>1. fifo' = Append(fifo, Head(data[t]))
        BY <1>6, <2>1, Zenon DEF WriteHead
      <3>2. fifo \in Seq(Byte) /\ Head(data[t]) \in Byte
        BY <1>1, <2>2, Zenon
      <3> HIDE DEF k
      <3>3. Len(fifo') = Len(fifo) + 1 /\ (\A i \in 1 .. Len(fifo) : fifo'[i] = fifo[i])
            /\ fifo'[Len(fifo) + 1] = Head(data[t])
        BY <3>1, <3>2, SeqAppend
      <3>4. QED
        BY <3>1, <3>3, Zenon DEF k
    <2>4. ~broken'
      BY <1>6, Zenon DEF WriteHead, RingInv
    <2>5. ContentInv'
      <3>1. head' = Slot(tail, k + 1)
        <4>1. head' = (head + 1) % Size /\ head = Slot(tail, k)
          BY <1>6, Zenon DEF WriteHead, RingInv, ContentInv
        <4>2. head' = Slot(head, 1)
          BY <1>1, <4>1, NextSlot, Zenon
        <4>3. k \in 0 .. Size - 1
          BY <1>1, <2>1, SizeFacts
        <4>4. QED
          BY <1>1, <4>1, <4>2, <4>3, SlotShift, Zenon
      <3>2. ASSUME NEW i \in 1 .. k + 1 PROVE p_buff[Slot(tail, i - 1)] = fifo'[i]
        <4>1. CASE i \in 1 .. k
          BY <2>3, <4>1, Zenon DEF RingInv, ContentInv
        <4>2. CASE i = k + 1
          <5>1. i - 1 = k
            BY <1>1, <4>2, SizeFacts
          <5>2. QED
            BY <2>1, <2>3, <4>2, <5>1, Zenon DEF RingInv, ContentInv
        <4>3. QED
          BY <1>1, <4>1, <4>2
      <3>3. QED
        BY <1>6, <2>3, <3>1, <3>2, Zenon DEF WriteHead, ContentInv
    <2>6. FlagInv'
      BY <1>3, <1>6, <2>1, Zenon DEF WriteHead, FlagInv
    <2>7. WriterInv'
      <3>1. Len(data'[t]) = Len(data[t]) - 1
        BY <1>1, <1>6, <2>2, Zenon DEF WriteHead
      <3>2. Len(data[t]) - 1 <= Size - (k + 1) /\ k + 1 >= 1
        BY <1>1, <2>1, <2>2, SizeFacts
      <3>3. QED
        BY <1>2, <1>3, <1>6, <2>1, <2>3, <3>1, <3>2, Zenon DEF WriteHead, WriterInv, WriteSection
    <2>8. ReaderInv'
      <3>1. ASSUME NEW u \in Tasks, pc'[u] \in ReadSection PROVE k + 1 < Size
        <4>1. Len(fifo') # Size
          BY <2>1, <3>1, Zenon DEF Monitor, BrimOverlap, Inside, WriteSection
        <4>2. QED
          BY <1>1, <2>1, <2>3, <4>1, SizeFacts
      <3>2. UNCHANGED << tail, snap, want >> /\ want \in [Tasks -> Nat] /\ snap \in [Tasks -> Slots]
        BY <1>6, Zenon DEF WriteHead, TypeOK
      <3>3. ASSUME NEW u \in Tasks, pc'[u] \in ReadSection
            PROVE  /\ Len(fifo') < Size
                   /\ pc'[u] = "r_used" => Dist(tail, snap[u]) <= Len(fifo')
                   /\ pc'[u] \in {"r_load", "r_tail"} => want[u] <= Len(fifo')
                   /\ pc'[u] = "r_clear" => want[u] - 1 <= Len(fifo')
        <4>1. pc[u] = pc'[u]
          BY <1>2, <1>4, <3>3, Zenon
        <4>2. Dist(tail, snap[u]) \in Nat /\ want[u] \in Nat
          BY <1>1, <3>2, SpaceOf, SizeFacts
        <4>3. QED
          BY <1>1, <2>3, <3>1, <3>3, <4>1, <4>2, SizeFacts DEF RingInv, ReaderInv
      <3>4. QED
        BY <3>2, <3>3, Zenon DEF ReaderInv, ReadSection
    <2>9. QED
      BY <2>4, <2>5, <2>6, <2>7, <2>8 DEF RingInv
  <1>7. ASSUME WriteTest(t) \/ WriteFull(t), is_full_flag' => k = Size,
               k = Size => is_full_flag' \/ pc'[t] = "w_full",
               pc'[t] \in {"w_full", "w_store", "idle"},
               pc'[t] = "w_full" => ~is_full_flag' /\ k = Size /\ Len(data[t]) <= Size - k,
               pc'[t] = "w_store" => ~is_full_flag' /\ k < Size /\ Len(data[t]) <= Size - k
        PROVE  RingInv'
    <2>1. UNCHANGED << p_buff, head, tail, data, want, snap, fifo, broken >>
      BY <1>7, Zenon DEF WriteTest, WriteFull, WriteNext
    <2>2. ~broken' /\ ContentInv'
      BY <2>1, Zenon DEF RingInv, ContentInv
    <2>3. FlagInv'
      BY <1>7, <2>1, Zenon DEF FlagInv
    <2>4. WriterInv'
      BY <1>2, <1>7, <2>1, Zenon DEF WriterInv, WriteSection
    <2>5. ReaderInv'
      BY <1>2, <1>4, <2>1, Zenon DEF RingInv, ReaderInv, ReadSection
    <2>6. QED
      BY <2>2, <2>3, <2>4, <2>5, Zenon DEF RingInv
  <1>8. CASE WriteTest(t)
    <2>1. k >= 1 /\ Len(data[t]) <= Size - k
      BY <1>8, Zenon DEF WriteTest, WriteNext, RingInv, WriterInv
    <2>2. (head = tail) <=> (k = Size)
      BY <1>1, <2>1, SlotFacts DEF RingInv, ContentInv
    <2>3. is_full_flag' = FALSE
      BY <1>3, <1>8 DEF WriteTest
    <2>4. CASE head = tail
      <3>1. pc'[t] = "w_full"
        BY <1>1, <1>8, <2>4, Zenon DEF WriteTest
      <3>2. QED
        BY <1>7, <1>8, <2>1, <2>2, <2>3, <2>4, <3>1, Zenon
    <2>5. CASE head # tail
      <3>1. k < Size
        BY <1>1, <2>2, <2>5, SizeFacts
      <3>2. pc'[t] \in {"w_store", "idle"}
        BY <1>1, <1>8, <2>5, Zenon DEF WriteTest, WriteNext
      <3>3. QED
        BY <1>1, <1>7, <1>8, <2>1, <2>3, <3>1, <3>2, SizeFacts
    <2>6. QED
      BY <2>4, <2>5, Zenon
  <1>9. CASE WriteFull(t)
    <2>1. k = Size /\ Len(data[t]) <= Size - k
      BY <1>9, Zenon DEF WriteFull, WriteNext, RingInv, WriterInv
    <2>2. Len(data[t]) \in Nat /\ Size \in Nat
      BY <1>1, SizeFacts
    <2>3. data[t] = << >>
      BY <1>1, <2>1, <2>2
    <2>4. pc'[t] = "idle" /\ is_full_flag' = TRUE
      BY <1>1, <1>9, <2>3, Zenon DEF WriteFull, WriteNext
    <2>5. QED
      BY <1>7, <1>9, <2>1, <2>4, Zenon
  <1>10. QED
    BY <1>5, <1>6, <1>8, <1>9

\* The steps of read() before its loop.
LEMMA ReadChecks ==
  ASSUME TypeOK, LockInv, ExposureInv, LocalInv, RingInv, ~exposed, NEW t \in Tasks,
         ReadFlag(t) \/ ReadCmp(t) \/ ReadUsed(t)
  PROVE  RingInv'
  <1> DEFINE k == Len(fifo)
  <1> USE DEF ring, locals, Goto
  <1>1. /\ pc \in [Tasks -> Points] /\ data \in [Tasks -> Seq(Byte)]
        /\ want \in [Tasks -> Nat] /\ snap \in [Tasks -> Slots]
        /\ head \in Slots /\ tail \in Slots /\ k \in 0 .. Size
    BY SizeOfFifo, Zenon DEF TypeOK
  <1>2. pc[t] \in {"r_flag", "r_cmp", "r_used"}
    BY Zenon DEF ReadFlag, ReadCmp, ReadUsed, ReadStart
  <1>3. \A u \in Tasks : u # t => pc[u] \notin ReadSection
    BY <1>2, Exclusive DEF ReadSection
  <1>4. ASSUME NEW to \in {"r_cmp", "r_used", "r_load", "idle"}, pc' = [pc EXCEPT ![t] = to],
               UNCHANGED << ring, fifo, broken, data >>,
               \A u \in Tasks : u # t => snap'[u] = snap[u] /\ want'[u] = want[u],
               to \in {"r_cmp", "r_used"} => k < Size,
               to = "r_used" => Dist(tail, snap'[t]) <= k,
               to = "r_load" => want'[t] <= k
        PROVE  RingInv'
    <2>1. \A u \in Tasks : pc'[u] = IF u = t THEN to ELSE pc[u]
      BY <1>1, <1>4, Zenon
    <2>7. UNCHANGED << p_buff, head, tail, is_full_flag, fifo, broken >>
      BY <1>4, Zenon DEF ring
    <2>2. ~broken' /\ ContentInv'
      BY <2>7, Zenon DEF RingInv, ContentInv
    <2>3. FlagInv'
      <3>1. \A u \in Tasks : pc[u] \in {"r_clear", "w_test", "w_full"} => pc'[u] = pc[u]
        BY <1>2, <2>1, Zenon
      <3>2. QED
        BY <2>7, <3>1, Zenon DEF RingInv, FlagInv
    <2>4. WriterInv'
      <3>1. ASSUME NEW u \in Tasks, pc'[u] \in WriteSection PROVE u # t /\ pc'[u] = pc[u]
        BY <2>1, <3>1, Zenon DEF WriteSection
      <3>2. \A u \in Tasks : pc'[u] \in WriteSection => snap'[u] = snap[u] /\ data'[u] = data[u] /\ pc'[u] = pc[u]
        BY <1>4, <3>1, Zenon
      <3>3. QED
        <4>1. WriterInv
          BY Zenon DEF RingInv
        <4>2. ASSUME NEW u \in Tasks, pc'[u] \notin WriteSection
              PROVE  pc'[u] \notin {"w_cmp", "w_avail", "w_store", "w_head", "w_test", "w_full"}
          BY <4>2, Zenon DEF WriteSection
        <4>3. QED
          BY <2>7, <3>2, <4>1, <4>2, ZenonT(30) DEF WriterInv
    <2>5. ReaderInv'
      <3>1. ASSUME NEW u \in Tasks, u # t PROVE pc'[u] \notin ReadSection
        BY <1>3, <2>1, <3>1, Zenon
      <3>2. pc'[t] = to
        BY <2>1, Zenon
      <3>3. /\ to \in {"r_cmp", "r_used"} => Len(fifo) < Size
            /\ to = "r_used" => Dist(tail, snap'[t]) <= Len(fifo)
            /\ to = "r_load" => want'[t] <= Len(fifo)
            /\ to \notin {"r_tail", "r_clear"}
        BY <1>4, Zenon
      <3>4. QED
        BY <2>7, <3>1, <3>2, <3>3, Zenon DEF ReaderInv, ReadSection
    <2>6. QED
      BY <2>2, <2>3, <2>4, <2>5, Zenon DEF RingInv
  <1>5. ASSUME NEW from, NEW used \in Nat, used <= k, ReadStart(t, from, used)
        PROVE  RingInv'
    <2> DEFINE read_len == IF used < want[t] THEN used ELSE want[t]
    <2>1. read_len \in Nat /\ read_len <= k
      BY <1>1, <1>5, SizeFacts
    <2>2. want'[t] = read_len /\ \A u \in Tasks : u # t => want'[u] = want[u] /\ snap'[u] = snap[u]
      BY <1>1, <1>5, Zenon DEF ReadStart
    <2>3. QED
      BY <1>1, <1>4, <1>5, <2>1, <2>2, Zenon DEF ReadStart
  <1>6. CASE ReadFlag(t)
    <2>0. pc[t] = "r_flag"
      BY <1>6, Zenon DEF ReadFlag, ReadStart
    <2>1. CASE is_full_flag
      <3>1. \A u \in Tasks : pc[u] # "r_clear"
        BY <1>3, <2>0 DEF ReadSection
      <3>2. k = Size
        BY <2>1, <3>1 DEF RingInv, FlagInv
      <3>3. QED
        BY <1>1, <1>5, <1>6, <2>1, <3>2, SizeFacts DEF ReadFlag
    <2>2. CASE ~is_full_flag
      <3>1. ASSUME k = Size PROVE FALSE
        <4>1. PICK u \in Tasks : pc[u] \in {"w_test", "w_full"}
          BY <2>2, <3>1 DEF RingInv, FlagInv
        <4>2. QED
          BY <2>0, <3>1, <4>1 DEF ExposureInv, BrimOverlap, Inside, WriteSection, ReadSection
      <3>2. k < Size
        BY <1>1, <3>1, SizeFacts
      <3>3. QED
        BY <1>4, <1>6, <2>2, <3>2, Zenon DEF ReadFlag
    <2>3. QED
      BY <2>1, <2>2
  <1>7. CASE ReadCmp(t)
    <2>1. k < Size
      BY <1>7, Zenon DEF ReadCmp, RingInv, ReaderInv
    <2>2. Dist(tail, head) <= k
      <3>1. Dist(tail, head) = k
        BY <1>1, <2>1, SlotFacts, Zenon DEF RingInv, ContentInv
      <3>2. QED
        BY <1>1, <3>1, SizeFacts
    <2>3. snap'[t] = head /\ \A u \in Tasks : u # t => snap'[u] = snap[u]
      BY <1>1, <1>7, Zenon DEF ReadCmp
    <2>4. QED
      BY <1>4, <1>7, <2>1, <2>2, <2>3, Zenon DEF ReadCmp
  <1>8. CASE ReadUsed(t)
    <2> DEFINE used == UsedOf(snap[t], tail, Second(t, head), tail)
    <2>1. pc[t] = "r_used" /\ k < Size /\ Dist(tail, snap[t]) <= k
      BY <1>8, Zenon DEF ReadUsed, ReadStart, RingInv, ReaderInv
    <2>2. used <= k
      <3>1. CASE ~Reload
        <4>1. used = Dist(tail, snap[t])
          BY <1>1, <3>1, SpaceOf, Zenon DEF Second
        <4>2. QED
          BY <2>1, <4>1, Zenon
      <3>2. CASE Reload
        <4>1. (snap[t] >= tail) <=> (head >= tail)
          BY <2>1, <3>2, Zenon DEF ExposureInv, WrapBetweenLoads
        <4>2. used = UsedOf(head, tail, head, tail)
          BY <1>1, <3>2, <4>1, SpaceReload DEF Second
        <4>3. used = Dist(tail, head)
          BY <1>1, <4>2, SpaceOf, Zenon
        <4>4. Dist(tail, head) = k
          BY <1>1, <2>1, SlotFacts, Zenon DEF RingInv, ContentInv
        <4> HIDE DEF used
        <4>5. QED
          BY <1>1, <4>3, <4>4, SizeFacts
      <3>3. QED
        BY <3>1, <3>2
    <2>3. used \in Nat
      BY <1>1, SpaceType, Zenon DEF Second
    <2>4. ReadStart(t, "r_used", used)
      BY <1>8 DEF ReadUsed
    <2> HIDE DEF used
    <2>5. QED
      BY <1>5, <2>2, <2>3, <2>4
  <1>9. QED
    BY <1>6, <1>7, <1>8

\* The loop of read(): it delivers the oldest byte and clears the flag of a ring
\* that is no longer full.
LEMMA ReadLoop ==
  ASSUME TypeOK, LockInv, LocalInv, ExposureInv, RingInv, ~exposed, ~exposed', Monitor,
         NEW t \in Tasks, ReadLoad(t) \/ ReadTail(t) \/ ReadClear(t)
  PROVE  RingInv'
  <1> DEFINE k == Len(fifo)
  <1> USE DEF ring, locals, Goto
  <1>1. /\ pc \in [Tasks -> Points] /\ data \in [Tasks -> Seq(Byte)]
        /\ want \in [Tasks -> Nat] /\ snap \in [Tasks -> Slots]
        /\ p_buff \in [Slots -> Byte] /\ fifo \in Seq(Byte)
        /\ head \in Slots /\ tail \in Slots /\ k \in 0 .. Size
    BY SizeOfFifo, Zenon DEF TypeOK
  <1>2. pc[t] \in {"r_load", "r_tail", "r_clear"} /\ want[t] >= 1
    BY Zenon DEF ReadLoad, ReadTail, ReadClear, LocalInv, ReadSection
  <1>3. \A u \in Tasks : u # t => pc'[u] = pc[u] /\ pc[u] \notin ReadSection
    BY <1>1, <1>2, Exclusive, Zenon DEF ReadLoad, ReadTail, ReadClear, ReadSection
  <1>4. pc'[t] \in {"r_load", "r_tail", "r_clear", "idle"}
    BY <1>1, Zenon DEF ReadLoad, ReadTail, ReadClear
  <1>5. CASE ReadLoad(t)
    <2>1. pc[t] = "r_load" /\ pc'[t] = "r_tail" /\ want[t] <= k
      BY <1>1, <1>5, Zenon DEF ReadLoad, RingInv, ReaderInv
    <2>2. k >= 1 /\ fifo # << >> /\ Head(fifo) = fifo[1]
      BY <1>1, <1>2, <2>1, SizeFacts
    <2>3. p_buff[tail] = Head(fifo)
      <3>1. 1 \in 1 .. k /\ Slot(tail, 1 - 1) = tail
        BY <1>1, <2>2, SizeFacts DEF Slot, Slots
      <3>2. p_buff[Slot(tail, 1 - 1)] = fifo[1]
        BY <3>1, Zenon DEF RingInv, ContentInv
      <3>3. QED
        BY <2>2, <3>1, <3>2
    <2>4. ~broken'
      BY <1>5, <2>2, <2>3, Zenon DEF ReadLoad, RingInv
    <2>5. ContentInv' /\ FlagInv'
      BY <1>3, <1>5, <2>1, Zenon DEF ReadLoad, RingInv, ContentInv, FlagInv
    <2>6. WriterInv'
      BY <1>3, <1>5, <2>1, Zenon DEF ReadLoad, RingInv, WriterInv, WriteSection
    <2>7. ReaderInv'
      BY <1>3, <1>5, <2>1, Zenon DEF ReadLoad, RingInv, ReaderInv, ReadSection
    <2>8. QED
      BY <2>4, <2>5, <2>6, <2>7 DEF RingInv
  <1>6. CASE ReadTail(t)
    <2>1. pc[t] = "r_tail" /\ pc'[t] = "r_clear" /\ want[t] <= k
      BY <1>1, <1>6, Zenon DEF ReadTail, RingInv, ReaderInv
    <2>2. k >= 1 /\ fifo # << >>
      BY <1>1, <1>2, <2>1, SizeFacts
    <2>3. /\ fifo' = Tail(fifo) /\ Len(fifo') = k - 1
          /\ \A i \in 1 .. k - 1 : fifo'[i] = fifo[i + 1]
      BY <1>1, <1>6, <2>2, SeqTail, Zenon DEF ReadTail
    <2>4. ~broken'
      BY <1>6, Zenon DEF ReadTail, RingInv
    <2>5. ContentInv'
      <3>1. tail' = Slot(tail, 1)
        BY <1>1, <1>6, NextSlot, Zenon DEF ReadTail
      <3>2. \A j \in 0 .. k - 1 : Slot(tail', j) = Slot(tail, j + 1)
        BY <1>1, <3>1, SlotShift, SizeFacts
      <3>3. Slot(tail', k - 1) = head
        BY <1>1, <2>2, <3>2, SizeFacts DEF RingInv, ContentInv
      <3>4. ASSUME NEW i \in 1 .. k - 1 PROVE p_buff[Slot(tail', i - 1)] = fifo'[i]
        <4>1. i - 1 \in 0 .. k - 1 /\ (i - 1) + 1 = i /\ i + 1 \in 1 .. k /\ (i + 1) - 1 = i
          BY <1>1, SizeFacts
        <4>2. Slot(tail', i - 1) = Slot(tail, i)
          BY <3>2, <4>1
        <4>3. p_buff[Slot(tail, (i + 1) - 1)] = fifo[i + 1]
          BY <4>1, Zenon DEF RingInv, ContentInv
        <4>4. QED
          BY <2>3, <4>1, <4>2, <4>3, Zenon
      <3>5. QED
        BY <1>6, <2>3, <3>3, <3>4, Zenon DEF ReadTail, ContentInv
    <2>6. FlagInv'
      <3>1. is_full_flag => k = Size
        <4>1. \A u \in Tasks : pc[u] # "r_clear"
          BY <1>3, <2>1, Zenon DEF ReadSection
        <4>2. QED
          BY <4>1 DEF RingInv, FlagInv
      <3>2. Len(fifo') # Size
        BY <1>1, <2>3, SizeFacts
      <3>3. is_full_flag' = is_full_flag
        BY <1>6, Zenon DEF ReadTail
      <3>4. QED
        BY <2>1, <2>3, <3>1, <3>2, <3>3, Zenon DEF FlagInv
    <2>7. WriterInv'
      <3>1. UNCHANGED << p_buff, head, is_full_flag, data, snap >>
        BY <1>6, Zenon DEF ReadTail
      <3>2. ASSUME NEW u \in Tasks, pc'[u] \in WriteSection
            PROVE  /\ u # t /\ pc[u] = pc'[u]
                   /\ pc'[u] = "w_test" => Len(fifo') >= 1
                   /\ pc'[u] # "w_full"
        <4>1. u # t /\ pc[u] = pc'[u]
          BY <1>3, <2>1, <3>2, Zenon DEF WriteSection
        <4>2. pc'[u] = "w_test" => Len(fifo') # 0
          <5>1. pc'[u] = "w_test" => fifo' # << >>
            BY Zenon DEF Monitor, EmptiedBeforeTest
          <5>2. fifo' \in Seq(Byte)
            BY <1>1, <2>2, <2>3, SeqTail
          <5>3. QED
            BY <5>1, <5>2
        <4>3. pc[u] # "w_full"
          <5>1. pc[u] = "w_full" => k = Size
            BY Zenon DEF RingInv, WriterInv
          <5>2. k = Size => ~(pc[u] \in WriteSection)
            BY <2>1, Zenon DEF ExposureInv, BrimOverlap, Inside, ReadSection
          <5>3. QED
            BY <5>1, <5>2 DEF WriteSection
        <4>4. QED
          BY <1>1, <2>2, <2>3, <4>1, <4>2, <4>3, SizeFacts
      <3>3. ASSUME NEW u \in Tasks, pc'[u] \in WriteSection
            PROVE  /\ pc'[u] # "w_flag" => ~is_full_flag
                   /\ pc'[u] \in {"w_cmp", "w_avail", "w_store", "w_head"} => k - 1 < Size
                   /\ pc'[u] = "w_avail" => Dist(snap[u], head) >= k - 1
                   /\ pc'[u] \in {"w_store", "w_head", "w_test", "w_full"} =>
                         Len(data[u]) <= Size - (k - 1)
                   /\ pc'[u] = "w_head" => p_buff[head] = Head(data[u])
        <4>1. pc[u] = pc'[u]
          BY <3>2, <3>3, Zenon
        <4>2. Dist(snap[u], head) \in Nat /\ Len(data[u]) \in Nat
          BY <1>1, SpaceOf, SizeFacts
        <4>3. QED
          BY <1>1, <3>3, <4>1, <4>2, SizeFacts, SMTT(20) DEF RingInv, WriterInv
      <3>4. QED
        BY <2>3, <3>1, <3>2, <3>3, Zenon DEF WriterInv, WriteSection
    <2>8. ReaderInv'
      <3>1. k - 1 < Size /\ want[t] - 1 <= k - 1
        BY <1>1, <1>2, <2>1, SizeFacts
      <3>2. QED
        BY <1>3, <1>6, <2>1, <2>3, <3>1, Zenon DEF ReadTail, ReaderInv, ReadSection
    <2>9. QED
      BY <2>4, <2>5, <2>6, <2>7, <2>8, Zenon DEF RingInv
  <1>7. CASE ReadClear(t)
    <2>1. pc[t] = "r_clear" /\ k < Size /\ want[t] - 1 <= k /\ want'[t] = want[t] - 1
      BY <1>1, <1>7, Zenon DEF ReadClear, RingInv, ReaderInv
    <2>2. UNCHANGED << p_buff, head, tail, data, snap, fifo, broken >> /\ is_full_flag' = FALSE
      BY <1>7, Zenon DEF ReadClear
    <2>3. pc'[t] \in {"idle", "r_load"}
      BY <1>1, <1>7, Zenon DEF ReadClear
    <2>4. ~broken' /\ ContentInv'
      BY <2>2, Zenon DEF RingInv, ContentInv
    <2>5. FlagInv'
      <3>1. Len(fifo') # Size
        BY <1>1, <2>1, <2>2, SizeFacts
      <3>2. QED
        BY <2>2, <3>1 DEF FlagInv
    <2>6. WriterInv'
      BY <1>3, <2>2, <2>3, Zenon DEF RingInv, WriterInv, WriteSection
    <2>7. ReaderInv'
      BY <1>3, <2>1, <2>2, <2>3, Zenon DEF ReaderInv, ReadSection
    <2>8. QED
      BY <2>4, <2>5, <2>6, <2>7 DEF RingInv
  <1>8. QED
    BY <1>5, <1>6, <1>7

-----------------------------------------------------------------------------
(* The theorems                                                             *)

\* The invariant holds when the ring was created and nobody called it yet.
LEMMA InitInv == Init => IInv
  <1> SUFFICES ASSUME Init PROVE IInv
    OBVIOUS
  <1>1. \A t \in Tasks : pc[t] = "idle" /\ res[t] = << "none", 0 >>
    BY DEF Init
  <1>2. fifo = << >> /\ fifo \in Seq(Byte) /\ Len(fifo) = 0 /\ Size # 0
    BY SizeFacts DEF Init
  <1>3. TypeOK
    <2>1. << >> \in Seq(Byte) /\ << "none", 0 >> \in (QueryNames \cup {"none"}) \X Nat
      OBVIOUS
    <2>2. Len(fifo) <= Size
      BY <1>2, SizeFacts
    <2>3. /\ data \in [Tasks -> Seq(Byte)] /\ want \in [Tasks -> Nat] /\ snap \in [Tasks -> Slots]
          /\ res \in [Tasks -> (QueryNames \cup {"none"}) \X Nat] /\ pc \in [Tasks -> Points]
      BY <2>1, SizeFacts, Zenon DEF Init, Points
    <2>4. QED
      BY <1>2, <2>2, <2>3, SizeFacts, Zenon DEF Init, TypeOK
  <1>4. LockInv
    BY <1>1, RingAssumption DEF Init, LockInv, WriteSection, ReadSection, QuerySection
  <1>5. LocalInv
    BY <1>1, Zenon DEF LocalInv, ReadSection, QuerySection
  <1>6. ExposureInv
    BY <1>1, <1>2, Zenon DEF ExposureInv, BrimOverlap, EmptiedBeforeTest, WrapBetweenLoads,
                      Inside, WriteSection
  <1>7. RingInv
    <2>1. ~broken /\ ContentInv
      BY <1>2, SizeFacts DEF Init, ContentInv, Slot
    <2>2. FlagInv
      BY <1>2 DEF Init, FlagInv
    <2>3. WriterInv /\ ReaderInv
      BY <1>1, Zenon DEF WriterInv, ReaderInv, WriteSection
    <2>4. QED
      BY <2>1, <2>2, <2>3 DEF RingInv
  <1>8. QED
    BY <1>3, <1>4, <1>5, <1>6, <1>7 DEF IInv

\* Every step of every task keeps the invariant.
LEMMA NextInv == IInv /\ [Next]_vars => IInv'
  <1> SUFFICES ASSUME IInv, [Next]_vars PROVE IInv'
    OBVIOUS
  <1>1. CASE UNCHANGED vars
    BY <1>1, ZenonT(30) DEF vars, ring, locals, IInv, TypeOK, LockInv, LocalInv, ExposureInv, BrimOverlap,
      EmptiedBeforeTest, WrapBetweenLoads, Inside, RingInv, ContentInv, FlagInv, WriterInv,
      ReaderInv
  <1>2. CASE Next
    <2>1. PICK t \in Tasks : (Call(t) \/ Progress(t)) /\ Monitor
      BY <1>2 DEF Next
    <2>2. TypeOK /\ LockInv /\ LocalInv /\ ExposureInv /\ (~exposed => RingInv)
      BY DEF IInv
    <2>3. TypeOK'
      BY <2>1, <2>2, WriteTypes, ReadTypes, QueryTypes, CallTypes, Zenon DEF Progress
    <2>4. LockInv' /\ LocalInv'
      BY <2>1, <2>2, LockStep, LocalStep, Zenon
    <2>5. ExposureInv'
      BY <2>1, Zenon DEF Monitor, ExposureInv
    <2>6. ASSUME ~exposed' PROVE RingInv'
      <3>1. ~exposed /\ RingInv
        BY <2>1, <2>2, <2>6, Zenon DEF Monitor
      <3>2. QED
        BY <2>1, <2>2, <2>6, <3>1, IdleSteps, ClearSteps, WriteChecks, WriteLoop, ReadChecks,
           ReadLoop, Zenon DEF Progress, WriteStep, ReadStep, ClearStep
    <2>7. QED
      BY <2>3, <2>4, <2>5, <2>6, Zenon DEF IInv
  <1>3. QED
    BY <1>1, <1>2

\* The inductive invariant holds in every state of every behaviour.
THEOREM Invariance == Spec => []IInv
  BY InitInv, NextInv, PTL DEF Spec

\* The type invariant: for every capacity and any set of tasks, no interleaving
\* of the calls takes an index out of the buffer that RING_BUFF_NEW_BASE allocated.
THEOREM TypeCorrect == Spec => []TypeOK
  <1>1. IInv => TypeOK
    BY DEF IInv
  <1>2. QED
    BY <1>1, Invariance, PTL

\* For every capacity and any number of writers, readers, observers and clearers,
\* name##_read delivers what name##_write accepted, in order and complete, as long as
\* none of the unprotected coincidences happened.
THEOREM RingIsFifo == Spec => []FifoIntact
  <1>1. IInv => FifoIntact
    BY DEF IInv, RingInv, FifoIntact
  <1>2. QED
    BY <1>1, Invariance, PTL

\* Between calls is_full_flag and the two indices determine the number of stored
\* bytes exactly, as long as none of the unprotected coincidences happened.
THEOREM FlagIsExact == Spec => []FullFlagExact
  <1>1. IInv => FullFlagExact
    <2> SUFFICES ASSUME IInv, Quiet, ~exposed
                 PROVE  /\ is_full_flag = (Len(fifo) = Size)
                        /\ ~is_full_flag => UsedOf(head, tail, head, tail) = Len(fifo)
      BY DEF FullFlagExact
    <2>1. /\ FlagInv /\ ContentInv /\ is_full_flag \in BOOLEAN
          /\ head \in Slots /\ tail \in Slots /\ Len(fifo) \in 0 .. Size
      BY SizeOfFifo, Zenon DEF IInv, RingInv, TypeOK
    <2>2. is_full_flag <=> Len(fifo) = Size
      BY <2>1 DEF FlagInv, Quiet, WriteSection, ReadSection
    <2>3. ASSUME ~is_full_flag PROVE UsedOf(head, tail, head, tail) = Len(fifo)
      <3>1. Len(fifo) < Size
        BY <2>1, <2>2, <2>3, SizeFacts
      <3>2. QED
        BY <2>1, <3>1, SpaceOf, SlotFacts DEF ContentInv
    <2>4. QED
      BY <2>1, <2>2, <2>3
  <1>2. QED
    BY <1>1, Invariance, PTL

\* What used() and available() returned last is a number of bytes of the ring.
SpaceInv == \A t \in Tasks : res[t][1] \in {"used", "available"} => res[t][2] <= Size

\* A query that returns at most the size, or a step that returns nothing, keeps it.
LEMMA SpaceKept ==
  ASSUME TypeOK, SpaceInv, NEW t \in Tasks, NEW q, NEW value,
         res' = [res EXCEPT ![t] = << q, value >>], q \in {"used", "available"} => value <= Size
  PROVE  SpaceInv'
  <1>1. ASSUME NEW u \in Tasks PROVE res'[u] = IF u = t THEN << q, value >> ELSE res[u]
    BY Zenon DEF TypeOK
  <1>2. QED
    BY <1>1 DEF SpaceInv

\* A build that loads each index once computes used and available from one head and one tail.
LEMMA SpaceStep ==
  ASSUME Reload = FALSE, TypeOK, LocalInv, SpaceInv, [Next]_vars
  PROVE  SpaceInv'
  <1>1. ASSUME UNCHANGED res PROVE SpaceInv'
    BY <1>1, Zenon DEF SpaceInv
  <1>2. ASSUME NEW t \in Tasks, NEW q \in QueryNames, QueryCall(t, q) PROVE SpaceInv'
    <2>1. 0 <= Size
      BY SizeFacts
    <2>2. QED
      BY <1>2, <2>1, SpaceKept, Zenon DEF QueryCall
  <1>3. ASSUME NEW t \in Tasks, NEW from, NEW value, QueryReturn(t, from, value),
               res[t][1] \in {"used", "available"} => value <= Size
        PROVE  SpaceInv'
    <2>1. res' = [res EXCEPT ![t] = << res[t][1], value >>]
      BY <1>3, Zenon DEF QueryReturn
    <2>2. QED
      BY <1>3, <2>1, SpaceKept, Zenon
  <1>4. ASSUME NEW t \in Tasks, QueryFlag(t) PROVE SpaceInv'
    <2>1. CASE is_full_flag \/ res[t][1] = "is_full"
      <3> DEFINE value == CASE res[t][1] = "used"      -> Size
                            [] res[t][1] = "available" -> 0
                            [] res[t][1] = "is_empty"  -> 0
                            [] res[t][1] = "is_full"   -> IF is_full_flag THEN 1 ELSE 0
      <3>1. res[t][1] \in {"used", "available"} => value <= Size
        BY SizeFacts
      <3>2. QueryReturn(t, "o_flag", value)
        BY <1>4, <2>1, Zenon DEF QueryFlag
      <3> HIDE DEF value
      <3>3. QED
        BY <1>3, <3>1, <3>2, Zenon
    <2>2. CASE ~(is_full_flag \/ res[t][1] = "is_full")
      BY <1>1, <1>4, <2>2, Zenon DEF QueryFlag, locals
    <2>3. QED
      BY <2>1, <2>2, Zenon
  <1>5. ASSUME NEW t \in Tasks, QueryCmp(t) PROVE SpaceInv'
    BY <1>1, <1>3, <1>5, Zenon DEF QueryCmp
  <1>6. ASSUME NEW t \in Tasks, QueryCalc(t) PROVE SpaceInv'
    <2> DEFINE used == UsedOf(snap[t], tail, Second(t, head), tail)
               available == AvailableOf(snap[t], tail, Second(t, head), tail)
    <2>1. Second(t, head) = snap[t] /\ snap[t] \in Slots /\ tail \in Slots
      BY Zenon DEF Second, TypeOK
    <2>2. used <= Size /\ available <= Size
      <3>1. used = Dist(tail, snap[t]) /\ available = Size - Dist(tail, snap[t]) /\ Dist(tail, snap[t]) \in 0 .. Size - 1
        BY <2>1, SpaceOf, Zenon
      <3> HIDE DEF used, available
      <3>2. QED
        BY <3>1, SizeFacts
    <2>3. QueryReturn(t, "o_calc", IF res[t][1] = "used" THEN used ELSE available)
      BY <1>6, Zenon DEF QueryCalc
    <2> HIDE DEF used, available
    <2>4. QED
      BY <1>3, <2>2, <2>3, Zenon
  <1>7. ASSUME NEW t \in Tasks, Call(t) \/ Progress(t) PROVE SpaceInv'
    <2>1. CASE Call(t)
      BY <1>1, <1>2, <2>1, Zenon DEF Call, WriteCall, ReadCall, ClearCall, locals
    <2>2. CASE WriteStep(t)
      BY <1>1, <2>2, Zenon DEF WriteStep, WriteTake, WriteTimeout, WriteFlag, WriteCmp, WriteAvail,
         WriteRefuse, WriteStore, WriteHead, WriteTest, WriteFull, WriteNext, locals
    <2>3. CASE ReadStep(t)
      BY <1>1, <2>3, Zenon DEF ReadStep, ReadTake, ReadTimeout, ReadFlag, ReadCmp, ReadUsed, ReadStart,
         ReadLoad, ReadTail, ReadClear, locals
    <2>4. CASE QueryStep(t)
      BY <1>1, <1>4, <1>5, <1>6, <2>4, Zenon DEF QueryStep, QueryTake, locals
    <2>5. CASE ClearStep(t)
      BY <1>1, <2>5, Zenon DEF ClearStep, ClearTakeRead, ClearTakeWrite, ClearReset, locals
    <2>6. QED
      BY <1>7, <2>1, <2>2, <2>3, <2>4, <2>5, Zenon DEF Progress
  <1>8. CASE UNCHANGED vars
    BY <1>1, <1>8, Zenon DEF vars, locals
  <1>9. QED
    BY <1>7, <1>8, Zenon DEF Next

\* In a build that loads an index once for the comparison and the subtraction, used() and
\* available() never return more than the capacity, whatever writes and reads do meanwhile:
\* also when the ring runs full or empty while the query is on its way.
THEOREM SpaceIsInRange == Reload = FALSE => (Spec => []SpaceInRange)
  <1>1. Init => SpaceInv
    <2>1. ASSUME Init, NEW t \in Tasks PROVE res[t][1] = "none"
      BY <2>1 DEF Init
    <2>2. QED
      BY <2>1 DEF SpaceInv
  <1>2. Reload = FALSE /\ IInv /\ SpaceInv /\ [Next]_vars => SpaceInv'
    BY SpaceStep, Zenon DEF IInv
  <1>3. SpaceInv => SpaceInRange
    BY Zenon DEF SpaceInv, SpaceInRange
  <1>4. SUFFICES ASSUME Reload = FALSE PROVE Spec => []SpaceInRange
    BY Zenon
  <1>5. IInv /\ SpaceInv /\ [Next]_vars => SpaceInv'
    BY <1>2, <1>4, Zenon
  <1>6. QED
    BY <1>1, <1>3, <1>5, Invariance, PTL DEF Spec
=============================================================================
