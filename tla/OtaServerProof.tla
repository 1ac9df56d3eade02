--------------------------- MODULE OtaServerProof ---------------------------
(***************************************************************************)
(* Proofs for OtaServer: whatever clients send, whenever they connect or   *)
(* leave and whatever the races on the stream buffer do, the update task   *)
(* stays inside its buffers and inside the slot, for every size of sector, *)
(* slot, stream buffer and segment; and with one session and nothing       *)
(* dropped it stores what was sent.                                        *)
(***************************************************************************)
EXTENDS OtaServer, TLAPS

-----------------------------------------------------------------------------
(* Arithmetic and sequences                                                 *)

\* An index taken modulo the length of the stream buffer is an index of it.
LEMMA StreamMod == ASSUME NEW x \in Int PROVE x % StreamLength \in StreamIndex
  BY OtaAssumption DEF StreamIndex

\* The bytes in the stream buffer are counted by a natural number.
LEMMA BytesType == ASSUME xHead \in StreamIndex, xTail \in StreamIndex PROVE BytesInBuffer \in Nat
  <1>1. StreamLength + xHead - xTail \in Int
    BY OtaAssumption DEF StreamIndex
  <1>2. QED
    BY <1>1, StreamMod, OtaAssumption DEF BytesInBuffer, StreamIndex

\* So is the space in it.
LEMMA SpacesType == ASSUME xHead \in StreamIndex, xTail \in StreamIndex PROVE SpacesAvailable \in Nat
  <1>1. StreamLength + xTail - xHead - 1 \in Int
    BY OtaAssumption DEF StreamIndex
  <1>2. QED
    BY <1>1, StreamMod, OtaAssumption DEF SpacesAvailable, StreamIndex

\* The size of the slot, OTA_MAX_FIRMWARE_SIZE, is a natural number.
LEMMA MaxFirmwareType == MaxFirmware \in Nat
  BY OtaAssumption DEF MaxFirmware

\* A position before the end of the image lies in a sector of the slot.
LEMMA SectorBelow ==
  ASSUME NEW i \in Nat, NEW r \in Nat, i * Sector + r < Sectors * Sector
  PROVE  i < Sectors
  <1>1. SUFFICES ASSUME i >= Sectors PROVE FALSE
    BY OtaAssumption
  <1>2. PICK d \in Nat : i = Sectors + d
    <2>1. i - Sectors \in Nat /\ i = Sectors + (i - Sectors)
      BY <1>1, OtaAssumption
    <2>2. QED
      BY <2>1
  <1>3. i * Sector = Sectors * Sector + d * Sector
    BY <1>2, OtaAssumption
  <1>4. d * Sector \in Nat /\ Sectors * Sector \in Nat
    BY OtaAssumption
  <1>5. QED
    BY <1>3, <1>4

\* The header and sector buffers stay buffers of units when a receive adds to them.
LEMMA ConcatType ==
  ASSUME NEW S, NEW s \in Seq(S), NEW t \in Seq(S)
  PROVE  s \o t \in Seq(S) /\ Len(s \o t) = Len(s) + Len(t)
  OBVIOUS

\* Each of their units is one of the old or one of the added ones.
LEMMA ConcatUnits ==
  ASSUME NEW S, NEW s \in Seq(S), NEW t \in Seq(S)
  PROVE  \A i \in 1 .. Len(s) + Len(t) : (s \o t)[i] = IF i <= Len(s) THEN s[i] ELSE t[i - Len(s)]
  OBVIOUS

\* A part of what a client sends, or of the sector buffer, consists of units.
LEMMA SubSeqType ==
  ASSUME NEW S, NEW s \in Seq(S), NEW m \in Nat, NEW n \in Nat, m >= 1, n <= Len(s)
  PROVE  SubSeq(s, m, n) \in Seq(S)
  OBVIOUS

\* An element of a buffer is a unit.
LEMMA SeqElement ==
  ASSUME NEW S, NEW s \in Seq(S), NEW i \in 1 .. Len(s)
  PROVE  s[i] \in S
  OBVIOUS

\* A unit copied out of the stream buffer lengthens what was received by one.
LEMMA AppendType ==
  ASSUME NEW S, NEW s \in Seq(S), NEW e \in S
  PROVE  Append(s, e) \in Seq(S) /\ Len(Append(s, e)) = Len(s) + 1
  OBVIOUS

-----------------------------------------------------------------------------
(* The invariant                                                            *)

\* The invariant holds when ota_server_task starts to wait for a header.
LEMMA TransferInit == Init => TransferInv
  <1>1. 0 \in StreamIndex
    BY OtaAssumption DEF StreamIndex
  <1>2. SUFFICES ASSUME Init PROVE TransferInv
    OBVIOUS
  <1>3. TypeOK
    <2>1. Fill \in Units /\ << >> \in Seq(Units) /\ "ok" \in Statuses
      BY OtaAssumption DEF Statuses
    <2>2. /\ ucBuffer \in [StreamIndex -> Units]
          /\ conn \in [Conns -> {"new", "open", "orphan", "failing", "freed"}]
          /\ delivered \in [Conns -> Nat]
          /\ flash \in [FlashIndex -> Units \cup {Erased}]
      BY <1>2, <2>1 DEF Init
    <2>3. QED
      BY <1>1, <1>2, <2>1, <2>2 DEF Init, TypeOK
  <1>4. QED
    BY <1>2, <1>3 DEF Init, TransferInv, Bookkeeping, Receiving, HeaderSize

\* What the callbacks leave alone: everything the task owns.
Private == << pc, header_buf, header_valid, total_size, expected_crc, sector_buf, current_sector,
              received, xCount, tail, got, status, pcb, flash >>

\* A callback only touches the stream buffer and the connections, so it keeps
\* the invariant if it keeps their types.
LEMMA CallbackFrame ==
  ASSUME TransferInv, UNCHANGED Private,
         ucBuffer' \in [StreamIndex -> Units], xHead' \in StreamIndex, xTail' \in StreamIndex,
         g_ota_data_pcb' \in Conns \cup {NULL},
         conn' \in [Conns -> {"new", "open", "orphan", "failing", "freed"}],
         delivered' \in [Conns -> Nat],
         dropped' \in BOOLEAN, sessions' \in Nat, misreported' \in BOOLEAN
  PROVE  TransferInv'
  <1>1. TypeOK'
    BY Zenon DEF TransferInv, TypeOK, Private
  <1>2. Bookkeeping' /\ Room' = Room
    BY DEF TransferInv, Bookkeeping, Private, Room
  <1>3. QED
    BY <1>1, <1>2 DEF TransferInv, Private

\* xStreamBufferReset leaves a well-formed stream buffer.
LEMMA ResetType ==
  ASSUME TypeOK, StreamReset
  PROVE  ucBuffer' \in [StreamIndex -> Units] /\ xHead' \in StreamIndex /\ xTail' \in StreamIndex
  <1>1. 0 \in StreamIndex /\ Fill \in Units
    BY OtaAssumption DEF StreamIndex
  <1>2. QED
    BY <1>1 DEF TypeOK, StreamReset, streamVars

\* So does xStreamBufferSend.
LEMMA SendType ==
  ASSUME TypeOK, NEW data \in Seq(Units), StreamSend(data)
  PROVE  /\ ucBuffer' \in [StreamIndex -> Units] /\ xHead' \in StreamIndex /\ xTail' \in StreamIndex
         /\ dropped' \in BOOLEAN
  <1> DEFINE n == Min2(Len(data), SpacesAvailable)
             k(i) == (StreamLength + i - xHead) % StreamLength
  <1>1. SpacesAvailable \in Nat /\ Len(data) \in Nat
    BY SpacesType DEF TypeOK
  <1>2. n \in Nat /\ n <= Len(data)
    BY <1>1 DEF Min2
  <1>3. \A i \in StreamIndex : k(i) \in Nat
    <2>1. \A i \in StreamIndex : StreamLength + i - xHead \in Int
      BY OtaAssumption DEF TypeOK, StreamIndex
    <2>2. QED
      BY <2>1, StreamMod DEF StreamIndex
  <1>4. \A i \in StreamIndex : k(i) < n => data[k(i) + 1] \in Units
    BY <1>2, <1>3, SeqElement
  <1>5. ucBuffer' = [i \in StreamIndex |-> IF k(i) < n THEN data[k(i) + 1] ELSE ucBuffer[i]]
    BY DEF StreamSend
  <1>6. ucBuffer' \in [StreamIndex -> Units]
    <2> HIDE DEF n, k
    <2>1. QED
      BY <1>4, <1>5 DEF TypeOK
  <1>7. xHead' \in StreamIndex
    <2>1. xHead + n \in Int
      BY <1>2, OtaAssumption DEF TypeOK, StreamIndex
    <2>2. QED
      BY <2>1, StreamMod DEF StreamSend
  <1>8. QED
    BY <1>6, <1>7 DEF StreamSend, TypeOK

\* The callbacks of lwIP keep the invariant.
LEMMA CallbackStep == ASSUME TransferInv, NEW c \in Conns, Lwip(c) PROVE TransferInv'
  <1> USE DEF streamVars, taskVars, headerVars, sectorVars, recvVars, respVars, history, Private
  <1>0. TypeOK
    BY DEF TransferInv
  <1>1. CASE Accept(c)
    <2>1. ucBuffer' \in [StreamIndex -> Units] /\ xHead' \in StreamIndex /\ xTail' \in StreamIndex
      BY <1>0, <1>1, ResetType DEF Accept
    <2>2. QED
      BY <1>0, <1>1, <2>1, CallbackFrame DEF Accept, TypeOK
  <1>2. CASE AcceptBusy(c)
    BY <1>0, <1>2, CallbackFrame DEF AcceptBusy, TypeOK
  <1>3. CASE \E n \in 1 .. MaxSegment : Deliver(c, n)
    <2>1. PICK n \in 1 .. MaxSegment : Deliver(c, n)
      BY <1>3
    <2>2. n \in Nat /\ n >= 1 /\ delivered[c] \in Nat /\ Script[c] \in Seq(Units)
      BY <1>0, OtaAssumption DEF TypeOK
    <2>3. SubSeq(Script[c], delivered[c] + 1, delivered[c] + n) \in Seq(Units)
      BY <2>1, <2>2, SubSeqType, SMTT(20) DEF Deliver
    <2>4. ucBuffer' \in [StreamIndex -> Units] /\ xHead' \in StreamIndex /\ xTail' \in StreamIndex
          /\ dropped' \in BOOLEAN
      BY <1>0, <2>1, <2>3, SendType, Zenon DEF Deliver
    <2>5. QED
      BY <1>0, <2>1, <2>2, <2>4, CallbackFrame, SMTT(20) DEF Deliver, TypeOK
  <1>4. CASE ClientClose(c)
    BY <1>0, <1>4, CallbackFrame, Zenon DEF ClientClose, TypeOK
  <1>5. CASE Failing(c) \/ ConnError(c)
    BY <1>0, <1>5, CallbackFrame, Zenon DEF Failing, ConnError, TypeOK
  <1>6. QED
    BY <1>1, <1>2, <1>3, <1>4, <1>5 DEF Lwip

\* xStreamBufferReceive: the copy fits the room, whatever happened to the buffer
\* between the count and the copy.
LEMMA ReceiveStep == ASSUME TransferInv, RecvCount \/ RecvTail \/ RecvCopy PROVE TransferInv'
  <1> USE DEF streamVars, lwipVars, headerVars, sectorVars, respVars, history, Goto
  <1>1. TypeOK /\ HeaderSize \in Nat /\ Sector \in Nat
    BY OtaAssumption DEF TransferInv, HeaderSize
  <1>2. CASE RecvCount
    <2>1. BytesInBuffer \in Nat /\ BytesInBuffer > 0
      BY <1>1, <1>2, BytesType DEF TypeOK, RecvCount
    <2>2. Room \in Nat /\ Room >= 1
      BY <1>1, <1>2, SMTT(20) DEF TransferInv, TypeOK, Bookkeeping, RecvCount, Receiving, Room
    <2>3. xCount' \in 1 .. Room
      BY <1>2, <2>1, <2>2 DEF RecvCount, Min2
    <2>4. TypeOK'
      BY <1>1, <1>2, <2>2, <2>3 DEF RecvCount, TypeOK
    <2>5. Bookkeeping' /\ Room' = Room
      BY <1>2 DEF TransferInv, Bookkeeping, RecvCount, Receiving, Room
    <2>6. QED
      BY <1>2, <2>3, <2>4, <2>5 DEF TransferInv, RecvCount, Receiving
  <1>3. CASE RecvTail
    <2>1. TypeOK'
      BY <1>1, <1>3 DEF RecvTail, TypeOK
    <2>2. Bookkeeping' /\ Room' = Room
      BY <1>3 DEF TransferInv, Bookkeeping, RecvTail, Receiving, Room
    <2>3. Len(got') < xCount'
      BY <1>1, <1>3 DEF TransferInv, TypeOK, RecvTail
    <2>4. QED
      BY <1>3, <2>1, <2>2, <2>3 DEF TransferInv, RecvTail, Receiving
  <1>4. CASE RecvCopy
    <2>1. ucBuffer[(tail + Len(got)) % StreamLength] \in Units
      <3>1. tail + Len(got) \in Int
        BY <1>1, OtaAssumption DEF TypeOK, StreamIndex
      <3>2. QED
        BY <1>1, <3>1, StreamMod DEF TypeOK
    <2>2. got' \in Seq(Units) /\ Len(got') = Len(got) + 1
      BY <1>1, <1>4, <2>1, AppendType DEF RecvCopy, TypeOK
    <2>3. pc = "copy" /\ pc' \in {"copy", "commit"}
      BY <1>4 DEF RecvCopy
    <2>4. TypeOK'
      BY <1>1, <1>4, <2>2, <2>3, Zenon DEF RecvCopy, TypeOK
    <2>5. Bookkeeping' /\ Room' = Room
      BY <1>4, <2>3, Zenon DEF TransferInv, Bookkeeping, RecvCopy, Receiving, Room
    <2>6. (pc' = "copy" => Len(got') < xCount') /\ (pc' = "commit" => Len(got') = xCount')
      BY <1>1, <1>4, <2>2 DEF TransferInv, TypeOK, RecvCopy
    <2>7. QED
      BY <1>4, <2>3, <2>4, <2>5, <2>6 DEF TransferInv, RecvCopy, Receiving
  <1>5. QED
    BY <1>2, <1>3, <1>4

\* The store of the new tail.
LEMMA CommitType ==
  ASSUME TypeOK, Commit
  PROVE  /\ ucBuffer' \in [StreamIndex -> Units] /\ xHead' \in StreamIndex /\ xTail' \in StreamIndex
         /\ xCount' \in Nat /\ tail' \in StreamIndex /\ got' = << >> /\ got' \in Seq(Units)
  <1>1. tail + xCount \in Int /\ 0 \in StreamIndex
    BY OtaAssumption DEF TypeOK, StreamIndex
  <1>2. QED
    BY <1>1, StreamMod DEF TypeOK, Commit

\* The header phase: a header that is refused leaves an empty header buffer, one
\* that is taken has a size that fits the slot.
LEMMA HeaderStep ==
  ASSUME TransferInv, HeaderPart \/ HeaderMagic \/ HeaderMismatch \/ HeaderOk
  PROVE  TransferInv'
  <1> DEFINE header == header_buf \o got
  <1> USE DEF streamVars, lwipVars, headerVars, sectorVars, respVars, history, Goto, Respond
  <1>1. TypeOK /\ HeaderSize = 2 /\ Sector \in Nat /\ Sector >= 1
    BY OtaAssumption DEF TransferInv, HeaderSize
  <1>2. pc = "commit" /\ ~header_valid /\ Commit
    BY Zenon DEF HeaderPart, HeaderMagic, HeaderMismatch, HeaderOk
  <1>3. header \in Seq(Units) /\ Len(header) = Len(header_buf) + Len(got) /\ Len(got) \in Nat
        /\ Len(header_buf) \in Nat
    BY <1>1, ConcatType DEF TypeOK
  <1>4. /\ ucBuffer' \in [StreamIndex -> Units] /\ xHead' \in StreamIndex /\ xTail' \in StreamIndex
        /\ xCount' \in Nat /\ tail' \in StreamIndex /\ got' = << >> /\ got' \in Seq(Units)
    BY <1>1, <1>2, CommitType
  <1>5. "error" \in Statuses /\ "size_mismatch" \in Statuses /\ << >> \in Seq(Units)
    BY DEF Statuses
  <1>6. Len(header) = 2 =>
          SizeOf[header[2]] \in Nat /\ CrcOf[header[2]] \in Seq(Units)
    <2>1. SUFFICES ASSUME Len(header) = 2 PROVE header[2] \in Units
      BY OtaAssumption
    <2>2. QED
      BY <1>3, <2>1, SeqElement
  <1> HIDE DEF header
  <1>7. CASE HeaderPart
    <2>1. header_buf' = header /\ Len(header) < HeaderSize /\ pc' = "recv"
      BY <1>3, <1>7 DEF HeaderPart, header
    <2>2. TypeOK'
      BY <1>1, <1>3, <1>4, <1>7, <2>1, Zenon DEF HeaderPart, TypeOK
    <2>3. QED
      BY <1>2, <1>4, <1>7, <2>1, <2>2, Zenon DEF HeaderPart, TransferInv, Bookkeeping, Receiving
  <1>8. CASE HeaderMagic
    <2>1. TypeOK'
      BY <1>1, <1>4, <1>5, <1>8, Zenon DEF HeaderMagic, TypeOK
    <2>2. QED
      BY <1>2, <1>4, <1>8, <2>1, Zenon DEF HeaderMagic, TransferInv, Bookkeeping, Receiving
  <1>9. CASE HeaderMismatch
    <2>1. Len(header) = 2 /\ total_size' = SizeOf[header[2]] /\ expected_crc' = CrcOf[header[2]]
      BY <1>1, <1>9, Zenon DEF HeaderMismatch, header
    <2>2. total_size' \in Nat /\ expected_crc' \in Seq(Units)
      BY <1>6, <2>1
    <2>3. TypeOK'
      BY <1>1, <1>4, <1>5, <1>9, <2>2, Zenon DEF HeaderMismatch, TypeOK
    <2>4. QED
      BY <1>2, <1>4, <1>9, <2>3, Zenon DEF HeaderMismatch, TransferInv, Bookkeeping, Receiving
  <1>10. CASE HeaderOk
    <2>1. /\ Len(header) = 2 /\ header_buf' = header
          /\ total_size' = SizeOf[header[2]] /\ expected_crc' = CrcOf[header[2]]
          /\ ~HeaderRange(SizeOf[header[2]])
          /\ header_valid' = TRUE /\ pc' = "recv"
          /\ received' = 0 /\ sector_buf' = << >> /\ current_sector' = 0
      BY <1>1, <1>10, Zenon DEF HeaderOk, header
    <2>2. TypeOK'
      <3>1. total_size' \in Nat /\ expected_crc' \in Seq(Units) /\ header_buf' \in Seq(Units)
            /\ sector_buf' \in Seq(Units) /\ received' \in Nat /\ current_sector' \in Nat
        BY <1>3, <1>5, <1>6, <2>1, Zenon
      <3>2. pc' = "recv" /\ header_valid' \in BOOLEAN
        BY <2>1
      <3>3. UNCHANGED << lwipVars, respVars, flash, history >>
        BY <1>10 DEF HeaderOk
      <3>4. QED
        BY <1>1, <1>4, <3>1, <3>2, <3>3, Zenon DEF TypeOK
    <2>3. total_size' \in 1 .. MaxFirmware
      BY <1>6, <2>1, MaxFirmwareType DEF HeaderRange
    <2>4. current_sector' * Sector + Len(sector_buf') = 0 /\ Len(sector_buf') < Sector
      BY <1>1, <2>1
    <2>5. Bookkeeping'
      BY <2>1, <2>3, <2>4, MaxFirmwareType DEF Bookkeeping, Receiving
    <2>6. current_sector' < Sectors
      BY <2>1, OtaAssumption
    <2>7. QED
      BY <1>4, <2>1, <2>2, <2>5, <2>6 DEF TransferInv, Receiving
  <1>11. QED
    BY <1>7, <1>8, <1>9, <1>10

\* What the flash holds after a flush, complete or not.
LEMMA ProgrammedType ==
  ASSUME TypeOK, NEW data \in Seq(Units)
  PROVE  Programmed(data) \in [FlashIndex -> Units \cup {Erased}]
  <1> DEFINE k(i) == i - current_sector * Sector
             v(i) == IF k(i) \in 0 .. Sector - 1
                     THEN IF k(i) < Len(data) THEN data[k(i) + 1] ELSE Erased
                     ELSE flash[i]
  <1>1. \A i \in FlashIndex : v(i) \in Units \cup {Erased}
    <2>1. SUFFICES ASSUME NEW i \in FlashIndex PROVE v(i) \in Units \cup {Erased}
      OBVIOUS
    <2>2. k(i) \in 0 .. Sector - 1 /\ k(i) < Len(data) => data[k(i) + 1] \in Units
      <3> HIDE DEF k
      <3>1. Sector \in Nat /\ Len(data) \in Nat
        BY OtaAssumption
      <3>2. QED
        BY <3>1, SeqElement
    <2>3. flash[i] \in Units \cup {Erased}
      BY DEF TypeOK
    <2> HIDE DEF k
    <2>4. QED
      BY <2>2, <2>3
  <1>2. Programmed(data) = [i \in FlashIndex |-> v(i)]
    BY Zenon DEF Programmed
  <1> HIDE DEF v
  <1>3. QED
    BY <1>1, <1>2

\* Data arrive: the sector buffer takes them, the counters follow.
LEMMA DataStep == ASSUME TransferInv, TakeData PROVE TransferInv'
  <1> USE DEF streamVars, lwipVars, headerVars, respVars, history, Goto
  <1>1. TypeOK /\ Sector \in Nat /\ header_valid /\ pc = "commit" /\ Commit
    BY OtaAssumption, Zenon DEF TransferInv, TakeData
  <1>2. /\ ucBuffer' \in [StreamIndex -> Units] /\ xHead' \in StreamIndex /\ xTail' \in StreamIndex
        /\ xCount' \in Nat /\ tail' \in StreamIndex /\ got' = << >> /\ got' \in Seq(Units)
    BY <1>1, CommitType
  <1>3. sector_buf' \in Seq(Units) /\ Len(sector_buf') = Len(sector_buf) + Len(got)
        /\ received' = received + Len(got) /\ Len(got) \in Nat /\ Len(sector_buf) \in Nat
    BY <1>1, ConcatType, SMTT(20) DEF TakeData, TypeOK
  <1>4. Len(got) >= 1 /\ Len(got) <= Sector - Len(sector_buf)
    BY <1>1 DEF TransferInv, Room, TypeOK
  <1>5. pc' \in {"flush", "recv"}
    BY DEF TakeData
  <1>6. TypeOK'
    BY <1>1, <1>2, <1>3, <1>5, SMTT(20) DEF TakeData, TypeOK
  <1>7. /\ total_size' \in 1 .. MaxFirmware
        /\ current_sector' < Sectors
        /\ current_sector' = current_sector
        /\ header_valid' = TRUE
    BY <1>1, Zenon DEF TakeData, TransferInv, Bookkeeping, Receiving, TypeOK
  <1>8. received' = current_sector' * Sector + Len(sector_buf')
    <2>1. received = current_sector * Sector + Len(sector_buf) /\ current_sector * Sector \in Nat
      BY <1>1 DEF TransferInv, Bookkeeping, TypeOK
    <2>2. QED
      BY <1>3, <1>7, <2>1
  <1>9. Len(sector_buf') \in 1 .. Sector
    BY <1>1, <1>3, <1>4
  <1>10. /\ pc' = "recv" => received' < total_size' /\ Len(sector_buf') < Sector
         /\ pc' = "flush" => Len(sector_buf') = Sector \/ received' >= total_size'
    <2>1. received' \in Nat /\ total_size' \in Nat /\ total_size' = total_size
      BY <1>6 DEF TypeOK, TakeData
    <2>2. Len(sector_buf') \in Nat /\ Len(sector_buf') <= Sector
      BY <1>1, <1>9
    <2>3. pc' = IF Len(sector_buf') = Sector \/ received' >= total_size THEN "flush" ELSE "recv"
      BY DEF TakeData
    <2>4. QED
      BY <1>1, <2>1, <2>2, <2>3
  <1>11. Bookkeeping'
    BY <1>5, <1>7, <1>8, <1>10 DEF Bookkeeping, Receiving
  <1>12. QED
    BY <1>2, <1>5, <1>6, <1>7, <1>9, <1>10, <1>11, Zenon DEF TransferInv, Receiving

\* A flush that succeeds: after a full sector the next one, if any is needed,
\* is still a sector of the slot.
LEMMA FlushOkStep == ASSUME TransferInv, FlushOk PROVE TransferInv'
  <1> USE DEF streamVars, lwipVars, headerVars, recvVars, respVars, history, Goto
  <1>1. TypeOK /\ Sector \in Nat /\ Sector >= 1 /\ header_valid /\ pc = "flush" /\ got = << >>
    BY OtaAssumption DEF TransferInv, FlushOk
  <1>2. flash' \in [FlashIndex -> Units \cup {Erased}]
    BY <1>1, ProgrammedType, Zenon DEF FlushOk, TypeOK
  <1>3. pc' \in {"verify", "recv"}
    BY DEF FlushOk
  <1>4. TypeOK'
    BY <1>1, <1>2, <1>3 DEF FlushOk, TypeOK
  <1>5. received = current_sector * Sector + Len(sector_buf) /\ current_sector * Sector \in Nat
        /\ total_size \in 1 .. MaxFirmware /\ Len(sector_buf) \in 1 .. Sector
    BY <1>1 DEF TransferInv, Bookkeeping, TypeOK
  <1>6. received' = current_sector' * Sector + Len(sector_buf')
    <2>1. CASE Len(sector_buf) = Sector
      <3>1. current_sector' = current_sector + 1 /\ sector_buf' = << >> /\ received' = received
        BY <2>1 DEF FlushOk
      <3>2. current_sector' * Sector = current_sector * Sector + Sector
        BY <1>1, <3>1 DEF TypeOK
      <3>3. QED
        BY <1>5, <2>1, <3>1, <3>2, <1>1
    <2>2. CASE Len(sector_buf) # Sector
      BY <1>5, <2>2 DEF FlushOk
    <2>3. QED
      BY <2>1, <2>2
  <1>7. pc' = "recv" => received' < total_size' /\ Len(sector_buf') < Sector /\ current_sector' < Sectors
    <2>1. SUFFICES ASSUME pc' = "recv"
                   PROVE  received' < total_size' /\ Len(sector_buf') < Sector /\ current_sector' < Sectors
      OBVIOUS
    <2>2. received' < total_size' /\ total_size' <= MaxFirmware /\ received' \in Nat /\ total_size' \in Nat
      BY <1>1, <1>5, <2>1, MaxFirmwareType DEF FlushOk, TypeOK
    <2>3. Len(sector_buf) = Sector /\ sector_buf' = << >>
      BY <1>1, <2>1, Zenon DEF FlushOk, TransferInv, TypeOK
    <2>4. Len(sector_buf') = 0 /\ Len(sector_buf') < Sector
      BY <1>1, <2>3
    <2>5. current_sector' * Sector + 0 < Sectors * Sector /\ current_sector' \in Nat
      BY <1>4, <1>6, <2>2, <2>4, MaxFirmwareType, SMTT(20) DEF MaxFirmware, TypeOK
    <2>6. current_sector' < Sectors
      BY <2>5, SectorBelow
    <2>7. QED
      BY <2>2, <2>4, <2>6
  <1>8. Bookkeeping'
    BY <1>3, <1>5, <1>6, <1>7, Zenon DEF FlushOk, Bookkeeping, Receiving
  <1>9. QED
    BY <1>1, <1>3, <1>4, <1>7, <1>8, Zenon DEF TransferInv, FlushOk, Receiving

\* A flush that fails, and a checksum that differs: back to the header phase.
LEMMA RestartStep == ASSUME TransferInv, FlushFail \/ VerifyFail PROVE TransferInv'
  <1> USE DEF streamVars, lwipVars, headerVars, sectorVars, recvVars, respVars, history, Goto,
              Respond, Restart
  <1>1. TypeOK /\ got = << >> /\ << >> \in Seq(Units)
    BY DEF TransferInv, FlushFail, VerifyFail
  <1>2. flash' \in [FlashIndex -> Units \cup {Erased}]
    <2>1. CASE VerifyFail
      BY <1>1, <2>1, Zenon DEF VerifyFail, TypeOK
    <2>2. CASE FlushFail
      <3>1. \A n \in 0 .. Len(sector_buf) - 1 : SubSeq(sector_buf, 1, n) \in Seq(Units)
        <4>1. SUFFICES ASSUME NEW n \in 0 .. Len(sector_buf) - 1
                       PROVE  SubSeq(sector_buf, 1, n) \in Seq(Units)
          OBVIOUS
        <4>2. sector_buf \in Seq(Units) /\ Len(sector_buf) \in Nat
          BY <1>1 DEF TypeOK
        <4>3. n \in Nat /\ n <= Len(sector_buf)
          BY <4>2
        <4>4. QED
          BY <4>2, <4>3, SubSeqType
      <3>2. \A n \in 0 .. Len(sector_buf) - 1 :
               Programmed(SubSeq(sector_buf, 1, n)) \in [FlashIndex -> Units \cup {Erased}]
        BY <1>1, <3>1, ProgrammedType, Zenon
      <3>3. flash' = flash \/ \E n \in 0 .. Len(sector_buf) - 1 : flash' = Programmed(SubSeq(sector_buf, 1, n))
        BY <2>2, Zenon DEF FlushFail
      <3>4. QED
        BY <1>1, <3>2, <3>3, Zenon DEF TypeOK
    <2>3. QED
      BY <2>1, <2>2
  <1>3. status' \in {"flash_error", "crc_fail"} /\ pc' = "load" /\ header_valid' = FALSE
        /\ header_buf' = << >> /\ sector_buf' = << >> /\ got' = << >> /\ pcb' = NULL
    BY <1>1, Zenon DEF FlushFail, VerifyFail
  <1>4. UNCHANGED << streamVars, lwipVars, xCount, tail, total_size, expected_crc, current_sector,
                     received, history >>
    BY Zenon DEF FlushFail, VerifyFail
  <1>5. TypeOK'
    BY <1>1, <1>2, <1>3, <1>4, Zenon DEF TypeOK, Statuses
  <1>6. QED
    BY <1>3, <1>5, Zenon DEF TransferInv, Bookkeeping, Receiving

\* The checksum is right; the response is sent; the board resets.
LEMMA ResponseStep ==
  ASSUME TransferInv, VerifyOk \/ LoadPcb \/ WritePcb \/ Reset
  PROVE  TransferInv'
  <1> USE DEF streamVars, lwipVars, headerVars, sectorVars, recvVars, respVars, taskVars, history,
              Goto, Respond
  <1>1. UNCHANGED << streamVars, lwipVars, headerVars, sectorVars, recvVars, flash, dropped,
                     sessions, misreported >>
    BY Zenon DEF VerifyOk, LoadPcb, WritePcb, Reset
  <1>2. status' \in Statuses /\ pcb' \in Conns \cup {NULL} /\ got = << >> /\ TypeOK
    <2>1. TypeOK /\ (pc \in {"verify", "load", "write", "delay"} => got = << >>)
      BY DEF TransferInv
    <2>2. status \in Statuses /\ pcb \in Conns \cup {NULL} /\ g_ota_data_pcb \in Conns \cup {NULL}
      BY <2>1 DEF TypeOK
    <2>3. pc \in {"verify", "load", "write", "delay"} /\ status' \in {status, "ok"} /\ pcb' \in {NULL, pcb, g_ota_data_pcb}
      BY Zenon DEF VerifyOk, LoadPcb, WritePcb, Reset
    <2>4. QED
      BY <2>1, <2>2, <2>3 DEF Statuses
  <1>3. pc' \in {"load", "write", "delay", "recv", "reset"}
    BY Zenon DEF VerifyOk, LoadPcb, WritePcb, Reset
  <1>4. TypeOK'
    BY <1>1, <1>2, <1>3, Zenon DEF TypeOK
  <1>5. pc' = "recv" => ~header_valid /\ header_buf = << >>
    BY Zenon DEF VerifyOk, LoadPcb, WritePcb, Reset, TransferInv
  <1>6. pc' \in {"load", "write"} /\ status' # "ok" => pc = "load" /\ status = status'
    BY Zenon DEF VerifyOk, LoadPcb, WritePcb, Reset
  <1>7. Len(<< >>) < HeaderSize
    BY DEF HeaderSize
  <1>8. Bookkeeping'
    BY <1>1, <1>3, <1>5, Zenon DEF Bookkeeping, TransferInv, Receiving
  <1>9. (pc' \in {"load", "write"} /\ status' # "ok") =>
           ~header_valid' /\ header_buf' = << >> /\ got' = << >>
    BY <1>1, <1>6, Zenon DEF TransferInv
  <1>10. QED
    BY <1>1, <1>2, <1>3, <1>4, <1>5, <1>7, <1>8, <1>9, Zenon DEF TransferInv, Receiving

\* A step that changes nothing.
LEMMA StutterStep == ASSUME TransferInv, UNCHANGED vars PROVE TransferInv'
  <1>1. TypeOK'
    BY DEF TransferInv, TypeOK, vars, taskVars, streamVars, lwipVars, headerVars, sectorVars,
           recvVars, respVars, history
  <1>2. QED
    BY <1>1, Zenon DEF TransferInv, Bookkeeping, Room, vars, taskVars, streamVars, lwipVars, headerVars,
                sectorVars, recvVars, respVars, history

\* TransferInv is an invariant of the server with any number of clients, any
\* scripts, and any size of stream buffer, sector and slot.
THEOREM TransferInvariance == Spec => []TransferInv
  <1>1. TransferInv /\ [Next]_vars => TransferInv'
    <2>1. SUFFICES ASSUME TransferInv, Next PROVE TransferInv'
      BY StutterStep
    <2>2. CASE \E c \in Conns : Lwip(c)
      BY <2>1, <2>2, CallbackStep
    <2>3. CASE Task
      BY <2>1, <2>3, ReceiveStep, HeaderStep, DataStep, FlushOkStep, RestartStep, ResponseStep
      DEF Task
    <2>4. QED
      BY <2>1, <2>2, <2>3 DEF Next
  <1>2. QED
    BY <1>1, TransferInit, PTL DEF Spec

\* Bookkeeping for every instance: no transfer, whatever was connected,
\* dropped or reset while it ran, makes the task erase or program a sector
\* that is not in the slot.
THEOREM StaysInSlot == Spec => []Bookkeeping
  <1>1. TransferInv => Bookkeeping
    BY DEF TransferInv
  <1>2. QED
    BY <1>1, TransferInvariance, PTL

\* The type invariant of the server: in particular head and tail of the stream
\* buffer are always indices into its storage.
THEOREM ServerTypes == Spec => []TypeOK
  <1>1. TransferInv => TypeOK
    BY DEF TransferInv
  <1>2. QED
    BY <1>1, TransferInvariance, PTL

\* VerifiedBeforeReboot for every instance: from the comparison of the checksum
\* to the reset, with the response and the delay between them, no callback and
\* no step of the task touches the slot, the size or the expected checksum.
THEOREM RebootIsVerified == Spec => []VerifiedBeforeReboot
  <1> USE DEF streamVars, lwipVars, headerVars, sectorVars, recvVars, respVars, taskVars, history,
              Goto, Respond, VerifiedBeforeReboot
  <1>1. Init => VerifiedBeforeReboot
    BY DEF Init
  <1>2. VerifiedBeforeReboot /\ [Next]_vars => VerifiedBeforeReboot'
    <2>1. SUFFICES ASSUME VerifiedBeforeReboot, [Next]_vars PROVE VerifiedBeforeReboot'
      OBVIOUS
    <2>2. CASE UNCHANGED vars
      BY <2>1, <2>2, Zenon DEF vars, Crc
    <2>3. CASE \E c \in Conns : Lwip(c)
      <3>1. UNCHANGED << pc, status, flash, total_size, expected_crc >>
        BY <2>3, Zenon DEF Lwip, Accept, AcceptBusy, Deliver, ClientClose, Failing, ConnError
      <3>2. QED
        BY <2>1, <3>1 DEF Crc
    <2>4. CASE RecvCount \/ RecvTail \/ RecvCopy
      <3>1. pc' \in {"tail", "copy", "commit"}
        BY <2>4, Zenon DEF RecvCount, RecvTail, RecvCopy
      <3>2. QED
        BY <3>1
    <2>5. CASE HeaderPart \/ HeaderMagic \/ HeaderMismatch \/ HeaderOk
      <3>1. pc' = "recv" \/ (pc' = "load" /\ status' \in {"error", "size_mismatch"})
        BY <2>5, Zenon DEF HeaderPart, HeaderMagic, HeaderMismatch, HeaderOk
      <3>2. QED
        BY <3>1
    <2>6. CASE TakeData \/ FlushOk
      <3>1. pc' \in {"flush", "recv", "verify"}
        BY <2>6, Zenon DEF TakeData, FlushOk
      <3>2. QED
        BY <3>1
    <2>7. CASE FlushFail \/ VerifyFail
      <3>1. pc' = "load" /\ status' \in {"flash_error", "crc_fail"}
        BY <2>7, Zenon DEF FlushFail, VerifyFail
      <3>2. QED
        BY <3>1
    <2>8. CASE VerifyOk
      <3>1. Crc = expected_crc /\ UNCHANGED << flash, total_size, expected_crc >>
        BY <2>8 DEF VerifyOk
      <3>2. QED
        BY <3>1 DEF Crc
    <2>9. CASE LoadPcb \/ WritePcb \/ Reset
      <3>1. UNCHANGED << status, flash, total_size, expected_crc >>
        BY <2>9, Zenon DEF LoadPcb, WritePcb, Reset
      <3>2. \/ pc = "load" /\ pc' = "write"
            \/ pc = "write" /\ pc' = IF status = "ok" THEN "delay" ELSE "recv"
            \/ pc = "delay" /\ pc' = "reset"
        BY <2>9, Zenon DEF LoadPcb, WritePcb, Reset
      <3>3. QED
        BY <2>1, <3>1, <3>2 DEF Crc
    <2>10. QED
      BY <2>1, <2>2, <2>3, <2>4, <2>5, <2>6, <2>7, <2>8, <2>9 DEF Next, Task
  <1>3. QED
    BY <1>1, <1>2, PTL DEF Spec

-----------------------------------------------------------------------------
(* The image is what was sent                                               *)

\* k places after place i of the stream buffer
Place(i, k) == IF i + k < StreamLength THEN i + k ELSE i + k - StreamLength

\* a connection that ota_accept took
Taken(c) == conn[c] \in {"open", "failing", "freed"}

\* what the task has taken out of the stream buffer, of what was delivered
Consumed(c) == delivered[c] - BytesInBuffer

\* Only a connection that was taken delivers; until there is one, the task waits; and as long as
\* there was only one session, there is only one such connection.
SessionInv ==
    /\ \A c \in Conns : delivered[c] > 0 => Taken(c)
    /\ g_ota_data_pcb # NULL => Taken(g_ota_data_pcb)
    /\ sessions = 0 =>
          /\ \A c \in Conns : conn[c] = "new"
          /\ pc = "recv" /\ ~header_valid /\ BytesInBuffer = 0
    /\ sessions <= 1 => \A c, d \in Conns : Taken(c) /\ Taken(d) => c = d

\* The stream buffer holds what follows the units consumed, and a receive copies from there: the
\* count and the tail it works with are still right.
Flow(c) ==
    /\ \A k \in 0 .. BytesInBuffer - 1 : ucBuffer[Place(xTail, k)] = Script[c][Consumed(c) + k + 1]
    /\ pc \in {"tail", "copy", "commit"} => xCount <= BytesInBuffer
    /\ pc \in {"copy", "commit"} =>
          tail = xTail /\ \A i \in 1 .. Len(got) : got[i] = Script[c][Consumed(c) + i]

\* The flash and the sector buffer hold the last `received' units of those consumed.
Image(c) ==
    header_valid => \A j \in 0 .. received - 1 : Stored(j) = Script[c][Consumed(c) - received + j + 1]

\* The inductive invariant behind FaithfulImage.
ImageInv ==
    /\ SessionInv
    /\ sessions <= 1 /\ ~dropped => \A c \in Conns : Taken(c) => Flow(c) /\ Image(c)

\* The remainder with which stream_buffer.c steps through its storage.
LEMMA StreamPlace ==
  ASSUME NEW i \in StreamIndex, NEW k \in 0 .. StreamLength
  PROVE  (i + k) % StreamLength = Place(i, k) /\ Place(i, k) \in StreamIndex
  <1> DEFINE n == StreamLength
             q == (i + k) \div n
             r == (i + k) % n
  <1>1. n \in Nat /\ n > 0 /\ i \in 0 .. n - 1 /\ k \in 0 .. n
    BY OtaAssumption DEF StreamIndex
  <1>2. q \in Int /\ r \in 0 .. n - 1 /\ i + k = n * q + r
    BY <1>1
  <1> HIDE DEF n, q, r
  <1>3. q \in {0, 1}
    <2>1. CASE q <= 0 - 1
      <3>1. n * q <= 0 - n
        BY <1>1, <1>2, <2>1
      <3>2. QED
        BY <1>1, <1>2, <3>1
    <2>2. CASE q >= 2
      <3>1. n * q >= 2 * n
        BY <1>1, <1>2, <2>2
      <3>2. QED
        BY <1>1, <1>2, <3>1
    <2>3. QED
      BY <1>2, <2>1, <2>2
  <1>4. r = IF i + k < n THEN i + k ELSE i + k - n
    <2>1. CASE q = 0
      BY <1>1, <1>2, <2>1
    <2>2. CASE q = 1
      BY <1>1, <1>2, <2>2
    <2>3. QED
      BY <1>3, <2>1, <2>2
  <1>5. QED
    BY <1>2, <1>4 DEF n, r, Place, StreamIndex

\* The distance from one place of the storage forward to another.
LEMMA StreamDistance ==
  ASSUME NEW h \in StreamIndex, NEW t \in StreamIndex
  PROVE  (StreamLength + h - t) % StreamLength = IF h >= t THEN h - t ELSE h - t + StreamLength
  <1>1. StreamLength \in Nat /\ h \in 0 .. StreamLength - 1 /\ t \in 0 .. StreamLength - 1
    BY OtaAssumption DEF StreamIndex
  <1>2. StreamLength - t \in 0 .. StreamLength /\ StreamLength + h - t = h + (StreamLength - t)
    BY <1>1
  <1>3. (StreamLength + h - t) % StreamLength = Place(h, StreamLength - t)
    BY <1>2, StreamPlace, Zenon
  <1>4. Place(h, StreamLength - t) = IF h >= t THEN h - t ELSE h - t + StreamLength
    BY <1>1 DEF Place
  <1>5. QED
    BY <1>3, <1>4, Zenon

\* What the stream buffer holds, counted from the tail, and what it has space for.
LEMMA BytesAndSpaces ==
  ASSUME xHead \in StreamIndex, xTail \in StreamIndex
  PROVE  /\ BytesInBuffer = IF xHead >= xTail THEN xHead - xTail ELSE xHead - xTail + StreamLength
         /\ SpacesAvailable = StreamLength - 1 - BytesInBuffer
         /\ BytesInBuffer \in 0 .. StreamLength - 1
         /\ xHead = Place(xTail, BytesInBuffer)
  <1> DEFINE n == StreamLength
             b == BytesInBuffer
  <1>1. n \in Nat /\ n > 1 /\ xHead \in 0 .. n - 1 /\ xTail \in 0 .. n - 1
    BY OtaAssumption DEF StreamIndex
  <1>2. b = IF xHead >= xTail THEN xHead - xTail ELSE xHead - xTail + n
    BY StreamDistance, Zenon DEF BytesInBuffer
  <1>3. n - 1 - xHead \in 0 .. n /\ n + xTail - xHead - 1 = xTail + (n - 1 - xHead)
    BY <1>1
  <1>4. SpacesAvailable = Place(xTail, n - 1 - xHead)
    BY <1>3, StreamPlace, Zenon DEF SpacesAvailable
  <1> HIDE DEF b, n
  <1>5. SpacesAvailable = IF xTail + (n - 1 - xHead) < n THEN xTail + (n - 1 - xHead)
                                                         ELSE xTail + (n - 1 - xHead) - n
    BY <1>4 DEF Place, n
  <1>6. SpacesAvailable = n - 1 - b /\ b \in 0 .. n - 1
    BY <1>1, <1>2, <1>5
  <1>7. xHead = IF xTail + b < n THEN xTail + b ELSE xTail + b - n
    BY <1>1, <1>2
  <1>8. QED
    BY <1>2, <1>6, <1>7, Zenon DEF b, n, Place

\* Stepping on from a place that was reached by stepping.
LEMMA PlaceOn ==
  ASSUME NEW i \in StreamIndex, NEW m \in 0 .. StreamLength, NEW k \in 0 .. StreamLength, m + k < StreamLength
  PROVE  Place(Place(i, m), k) = Place(i, m + k)
  BY OtaAssumption DEF Place, StreamIndex

\* The distance the loop of xStreamBufferSend computes: places before the head are far away.
LEMMA PlaceBack ==
  ASSUME NEW i \in StreamIndex, NEW b \in 0 .. StreamLength - 1, NEW k \in 0 .. StreamLength - 1
  PROVE  (StreamLength + Place(i, k) - Place(i, b)) % StreamLength
             = IF k >= b THEN k - b ELSE k - b + StreamLength
  <1> DEFINE n == StreamLength
             x == Place(i, k)
             y == Place(i, b)
  <1>1. n \in Nat /\ n > 1 /\ i \in 0 .. n - 1 /\ b \in 0 .. n - 1 /\ k \in 0 .. n - 1
    BY OtaAssumption DEF StreamIndex
  <1>2. x \in 0 .. n - 1 /\ y \in 0 .. n - 1
    BY <1>1 DEF Place
  <1>3. x \in StreamIndex /\ y \in StreamIndex
    BY <1>2 DEF StreamIndex
  <1>4. (n + x - y) % n = IF x >= y THEN x - y ELSE x - y + n
    BY <1>3, StreamDistance, Zenon
  <1>5. (IF x >= y THEN x - y ELSE x - y + n) = IF k >= b THEN k - b ELSE k - b + n
    BY <1>1 DEF Place
  <1>6. QED
    BY <1>4, <1>5, Zenon

\* Before the first connection.
LEMMA ImageInit == Init => ImageInv
  <1> SUFFICES ASSUME Init PROVE ImageInv
    OBVIOUS
  <1>1. xHead \in StreamIndex /\ xTail \in StreamIndex /\ xHead = 0 /\ xTail = 0
    BY OtaAssumption DEF Init, StreamIndex
  <1>2. BytesInBuffer = 0
    BY <1>1, BytesAndSpaces
  <1>3. \A c \in Conns : conn[c] = "new" /\ delivered[c] = 0 /\ ~Taken(c)
    BY Zenon DEF Init, Taken
  <1>4. SessionInv
    BY <1>2, <1>3 DEF Init, SessionInv
  <1>5. QED
    BY <1>3, <1>4, Zenon DEF ImageInv

\* A step of the task leaves the connections alone, and there was a session before it.
LEMMA SessionOfTask ==
  ASSUME ImageInv, sessions # 0, UNCHANGED << lwipVars, sessions, dropped >>,
         \A c \in Conns : Taken(c) /\ sessions <= 1 /\ ~dropped /\ Flow(c) /\ Image(c) => Flow(c)' /\ Image(c)'
  PROVE  ImageInv'
  <1>1. UNCHANGED << g_ota_data_pcb, conn, delivered, sessions, dropped >>
    BY Zenon DEF lwipVars
  <1>2. \A c : Taken(c)' <=> Taken(c)
    BY <1>1, Zenon DEF Taken
  <1>3. Taken(g_ota_data_pcb)' <=> Taken(g_ota_data_pcb)
    BY <1>1, Zenon DEF Taken
  <1>4. SessionInv'
    BY <1>1, <1>2, <1>3, Zenon DEF ImageInv, SessionInv
  <1>5. ASSUME sessions' <= 1, ~dropped', NEW c \in Conns, Taken(c)' PROVE Flow(c)' /\ Image(c)'
    <2>1. sessions <= 1 /\ ~dropped /\ Taken(c)
      BY <1>1, <1>2, <1>5
    <2>2. Flow(c) /\ Image(c)
      BY <2>1, Zenon DEF ImageInv
    <2>3. QED
      BY <2>1, <2>2, Zenon
  <1>6. QED
    BY <1>4, <1>5, Zenon DEF ImageInv

\* The task moves only when something was delivered.
LEMMA TaskHasSession == ASSUME ImageInv, Task PROVE sessions # 0
  <1>1. sessions = 0 => pc = "recv" /\ BytesInBuffer = 0
    BY Zenon DEF ImageInv, SessionInv
  <1>2. pc = "recv" => BytesInBuffer > 0
    BY Zenon DEF Task, RecvCount, RecvTail, RecvCopy, HeaderPart, HeaderMagic, HeaderMismatch, HeaderOk,
       TakeData, FlushOk, FlushFail, VerifyOk, VerifyFail, LoadPcb, WritePcb, Reset, Goto
  <1>3. QED
    BY <1>1, <1>2

\* A step that leaves the stream buffer alone, outside a receive.
LEMMA FlowRests ==
  ASSUME NEW c \in Conns, Flow(c), UNCHANGED << streamVars, delivered >>, pc' \notin {"tail", "copy", "commit"}
  PROVE  Flow(c)' /\ Consumed(c)' = Consumed(c)
  <1>1. UNCHANGED << ucBuffer, xHead, xTail, delivered >>
    BY Zenon DEF streamVars
  <1>2. BytesInBuffer' = BytesInBuffer
    BY <1>1, Zenon DEF BytesInBuffer
  <1>3. Consumed(c)' = Consumed(c)
    BY <1>1, <1>2, Zenon DEF Consumed
  <1>4. pc' # "tail" /\ pc' # "copy" /\ pc' # "commit"
    OBVIOUS
  <1>5. QED
    BY <1>1, <1>2, <1>3, <1>4, Zenon DEF Flow, Place

\* A step that leaves the image and the place in the stream alone.
LEMMA ImageRests ==
  ASSUME NEW c \in Conns, Image(c), Consumed(c)' = Consumed(c),
         UNCHANGED << header_valid, received, flash, current_sector, sector_buf >>
  PROVE  Image(c)'
  <1>1. \A j : Stored(j)' = Stored(j)
    BY Zenon DEF Stored
  <1>2. QED
    BY <1>1, Zenon DEF Image

\* xStreamBufferReceive up to the copy.
LEMMA FlowReceives ==
  ASSUME TransferInv, NEW c \in Conns, Flow(c), RecvCount \/ RecvTail \/ RecvCopy
  PROVE  Flow(c)' /\ Consumed(c)' = Consumed(c)
  <1>1. UNCHANGED << ucBuffer, xHead, xTail, delivered >>
    BY Zenon DEF RecvCount, RecvTail, RecvCopy, streamVars, lwipVars
  <1>2. BytesInBuffer' = BytesInBuffer
    BY <1>1, Zenon DEF BytesInBuffer
  <1>3. Consumed(c)' = Consumed(c)
    BY <1>1, <1>2, Zenon DEF Consumed
  <1>4. TypeOK /\ xHead \in StreamIndex /\ xTail \in StreamIndex /\ BytesInBuffer \in 0 .. StreamLength - 1
    BY BytesAndSpaces, Zenon DEF TransferInv, TypeOK
  <1>5. \A k \in 0 .. BytesInBuffer - 1 : (ucBuffer[Place(xTail, k)] = Script[c][Consumed(c) + k + 1])'
    BY <1>1, <1>2, <1>3, Zenon DEF Flow, Place
  <1>6. (\A k \in 0 .. BytesInBuffer - 1 : ucBuffer[Place(xTail, k)] = Script[c][Consumed(c) + k + 1])'
    BY <1>2, <1>5, Zenon
  <1>7. CASE RecvCount
    <2>1. pc' = "tail" /\ xCount' = Min2(BytesInBuffer, Room)
      BY <1>7, Zenon DEF RecvCount, Goto
    <2>2. Room \in Int
      BY <1>4, OtaAssumption DEF Room, TypeOK, HeaderSize
    <2>3. xCount' <= BytesInBuffer
      BY <1>4, <2>1, <2>2 DEF Min2
    <2>4. QED
      BY <1>2, <1>3, <1>6, <2>1, <2>3, Zenon DEF Flow
  <1>8. CASE RecvTail
    <2>1. pc' = "copy" /\ tail' = xTail /\ xCount' = xCount /\ got' = got /\ pc = "tail"
      BY <1>8, Zenon DEF RecvTail, Goto
    <2>2. xCount <= BytesInBuffer /\ got = << >>
      BY <2>1, Zenon DEF Flow, TransferInv
    <2>3. Len(got') = 0
      BY <2>1, <2>2
    <2>4. QED
      <3>1. 1 .. Len(got') = {}
        BY <2>3
      <3>2. \A i \in 1 .. Len(got') : got'[i] = Script[c][Consumed(c)' + i]
        BY <3>1, Zenon
      <3>3. QED
        BY <1>1, <1>2, <1>3, <1>6, <2>1, <2>2, <3>2, Zenon DEF Flow
  <1>9. CASE RecvCopy
    <2> DEFINE e == ucBuffer[(tail + Len(got)) % StreamLength]
    <2>1. pc' \in {"copy", "commit"} /\ tail' = tail /\ xCount' = xCount /\ pc = "copy" /\ got' = Append(got, e)
      BY <1>9, Zenon DEF RecvCopy, Goto
    <2>2. /\ xCount <= BytesInBuffer /\ tail = xTail /\ Len(got) < xCount
          /\ \A i \in 1 .. Len(got) : got[i] = Script[c][Consumed(c) + i]
      BY <2>1, Zenon DEF Flow, TransferInv
    <2>3. got \in Seq(Units) /\ Len(got) \in Nat /\ xCount \in Nat
      BY <1>4 DEF TypeOK
    <2>4. Len(got) \in 0 .. BytesInBuffer - 1 /\ Len(got) \in 0 .. StreamLength
      BY <1>4, <2>2, <2>3, OtaAssumption
    <2>5. e = ucBuffer[Place(xTail, Len(got))]
      BY <1>4, <2>2, <2>4, StreamPlace, Zenon
    <2>6. e = Script[c][Consumed(c) + Len(got) + 1]
      BY <2>4, <2>5, Zenon DEF Flow
    <2> HIDE DEF e
    <2>7. Len(got') = Len(got) + 1 /\ \A i \in 1 .. Len(got) + 1 : got'[i] = IF i <= Len(got) THEN got[i] ELSE e
      BY <2>1, <2>3
    <2>8. Consumed(c) \in Int
      <3>1. delivered[c] \in Nat
        BY <1>4, Zenon DEF TypeOK
      <3>2. BytesInBuffer \in Int
        BY <1>4, BytesAndSpaces, OtaAssumption
      <3>3. QED
        BY <3>1, <3>2 DEF Consumed
    <2>9. ASSUME NEW i \in 1 .. Len(got') PROVE got'[i] = Script[c][Consumed(c) + i]
      <3>1. CASE i \in 1 .. Len(got)
        <4>1. i \in 1 .. Len(got) + 1 /\ i <= Len(got)
          BY <2>3, <3>1
        <4>2. got'[i] = got[i]
          BY <2>7, <4>1, Zenon
        <4>3. QED
          BY <2>2, <3>1, <4>2, Zenon
      <3>2. CASE i = Len(got) + 1
        <4>1. got'[i] = e
          <5>1. i \in 1 .. Len(got) + 1 /\ ~ (i <= Len(got))
            BY <2>3, <3>2
          <5>2. QED
            BY <2>7, <5>1, Zenon
        <4>2. Consumed(c) + i = Consumed(c) + Len(got) + 1
          BY <2>3, <2>8, <3>2
        <4>3. QED
          BY <2>6, <4>1, <4>2, Zenon
      <3>3. QED
        BY <2>3, <2>7, <3>1, <3>2
    <2>10. QED
      BY <1>1, <1>2, <1>3, <1>6, <2>1, <2>2, <2>9, Zenon DEF Flow
  <1>10. QED
    BY <1>7, <1>8, <1>9

\* The store of the new tail: the units copied are consumed.
LEMMA FlowCommits ==
  ASSUME TransferInv, NEW c \in Conns, Flow(c), pc = "commit", Commit, UNCHANGED lwipVars,
         pc' \notin {"tail", "copy", "commit"}
  PROVE  Flow(c)' /\ Consumed(c)' = Consumed(c) + Len(got) /\ Consumed(c) \in Int
  <1>1. /\ xHead \in StreamIndex /\ xTail \in StreamIndex /\ xCount \in Nat /\ delivered[c] \in Nat
        /\ BytesInBuffer \in 0 .. StreamLength - 1 /\ xHead = Place(xTail, BytesInBuffer)
    BY BytesAndSpaces, Zenon DEF TransferInv, TypeOK
  <1>2. tail = xTail /\ xCount <= BytesInBuffer /\ Len(got) = xCount
    BY Zenon DEF Flow, TransferInv
  <1>3. UNCHANGED << ucBuffer, xHead, delivered >> /\ xTail' = (xTail + xCount) % StreamLength
    BY <1>2 DEF Commit, lwipVars
  <1>4. xCount \in 0 .. StreamLength - 1 /\ xCount \in 0 .. StreamLength
    BY <1>1, <1>2, OtaAssumption
  <1>5. xTail' = Place(xTail, xCount) /\ xTail' \in StreamIndex
    BY <1>1, <1>3, <1>4, StreamPlace, Zenon
  <1>6. BytesInBuffer' = BytesInBuffer - xCount
    <2> DEFINE n == StreamLength
               b == BytesInBuffer
    <2>1. b = IF xHead >= xTail THEN xHead - xTail ELSE xHead - xTail + n
      BY <1>1, BytesAndSpaces, Zenon
    <2>2. BytesInBuffer' = IF xHead' >= xTail' THEN xHead' - xTail' ELSE xHead' - xTail' + n
      BY <1>1, <1>3, <1>5, StreamDistance, Zenon DEF BytesInBuffer
    <2>3. n \in Nat /\ xHead \in 0 .. n - 1 /\ xTail \in 0 .. n - 1 /\ xCount \in 0 .. b
      BY <1>1, <1>2, OtaAssumption DEF StreamIndex
    <2>4. xTail' = IF xTail + xCount < n THEN xTail + xCount ELSE xTail + xCount - n
      BY <1>5, Zenon DEF Place
    <2> HIDE DEF b, n
    <2>5. (IF xHead >= xTail' THEN xHead - xTail' ELSE xHead - xTail' + n) = b - xCount
      BY <2>1, <2>3, <2>4
    <2>6. QED
      BY <1>3, <2>2, <2>5, Zenon DEF b
  <1>7. Consumed(c) \in Int /\ Consumed(c)' = Consumed(c) + xCount
    <2> DEFINE d == delivered[c]
               b == BytesInBuffer
    <2>1. Consumed(c) = d - b /\ Consumed(c)' = d - (b - xCount)
      BY <1>3, <1>6, Zenon DEF Consumed
    <2>2. d \in Nat /\ b \in Int /\ xCount \in Nat
      BY <1>1, OtaAssumption
    <2> HIDE DEF d, b
    <2>3. QED
      BY <2>1, <2>2
  <1>8. ASSUME NEW k \in 0 .. BytesInBuffer' - 1
        PROVE  ucBuffer'[Place(xTail', k)] = Script[c][Consumed(c)' + k + 1]
    <2>1. xCount + k \in 0 .. BytesInBuffer - 1 /\ k \in 0 .. StreamLength /\ xCount + k < StreamLength
      BY <1>1, <1>2, <1>6, OtaAssumption
    <2>2. Place(xTail', k) = Place(xTail, xCount + k)
      BY <1>1, <1>4, <1>5, <2>1, PlaceOn, Zenon
    <2>3. ucBuffer[Place(xTail, xCount + k)] = Script[c][Consumed(c) + (xCount + k) + 1]
      BY <2>1, Zenon DEF Flow
    <2>4. Consumed(c) + (xCount + k) + 1 = Consumed(c)' + k + 1
      BY <1>1, <1>7, <2>1
    <2>5. QED
      BY <1>3, <2>2, <2>3, <2>4, Zenon
  <1>9. pc' # "tail" /\ pc' # "copy" /\ pc' # "commit"
    OBVIOUS
  <1>10. Flow(c)'
    <2>1. (\A k \in 0 .. BytesInBuffer - 1 : ucBuffer[Place(xTail, k)] = Script[c][Consumed(c) + k + 1])'
      BY <1>8, Zenon DEF Place
    <2>2. QED
      BY <1>9, <2>1, Zenon DEF Flow
  <1>11. QED
    BY <1>2, <1>7, <1>10, Zenon

\* What was copied is added to the image.
LEMMA ImageGrows ==
  ASSUME TransferInv, NEW c \in Conns, Flow(c), Image(c), TakeData
  PROVE  Image(c)'
  <1> DEFINE b == current_sector * Sector
             n == Len(got)
             s == Len(sector_buf)
             q == Consumed(c)
  <1>1. /\ header_valid /\ header_valid' /\ UNCHANGED << flash, current_sector >> /\ pc = "commit"
        /\ pc' \notin {"tail", "copy", "commit"} /\ Commit /\ UNCHANGED lwipVars
        /\ sector_buf' = sector_buf \o got /\ received' = received + n
    BY Zenon DEF TakeData, Goto, headerVars
  <1>2. Consumed(c)' = q + n /\ q \in Int
    BY <1>1, FlowCommits
  <1>3. /\ b \in Nat /\ n \in Nat /\ s \in Nat /\ received \in Nat
        /\ sector_buf \in Seq(Units) /\ got \in Seq(Units) /\ received = b + s
    <2>1. TypeOK /\ Bookkeeping
      BY Zenon DEF TransferInv
    <2>2. /\ current_sector \in Nat /\ received \in Nat
          /\ sector_buf \in Seq(Units) /\ got \in Seq(Units)
      BY <2>1, Zenon DEF TypeOK
    <2>3. received = current_sector * Sector + Len(sector_buf)
      BY <1>1, <2>1, Zenon DEF Bookkeeping
    <2>4. current_sector * Sector \in Nat /\ Len(sector_buf) \in Nat /\ Len(got) \in Nat
      BY <2>2, OtaAssumption
    <2>5. QED
      BY <2>2, <2>3, <2>4, Zenon
  <1>4. \A i \in 1 .. n : got[i] = Script[c][q + i]
    BY <1>1, Zenon DEF Flow
  <1>5. \A i \in 1 .. s + n : sector_buf'[i] = IF i <= s THEN sector_buf[i] ELSE got[i - s]
    BY <1>1, <1>3, ConcatUnits, Zenon
  <1>6. \A j \in 0 .. received - 1 :
           (IF j < b THEN flash[j] ELSE sector_buf[j - b + 1]) = Script[c][q - received + j + 1]
    BY <1>1, Zenon DEF Image, Stored
  <1> HIDE DEF b, n, s, q
  <1>7. ASSUME NEW j \in 0 .. received' - 1
        PROVE  (IF j < b THEN flash[j] ELSE sector_buf'[j - b + 1]) = Script[c][q + n - received' + j + 1]
    <2>1. q + n - received' + j + 1 = q - received + j + 1
      BY <1>1, <1>2, <1>3
    <2>2. CASE j < b
      <3>1. j \in 0 .. received - 1
        BY <1>1, <1>3, <2>2
      <3>2. QED
        BY <1>6, <2>1, <2>2, <3>1, Zenon
    <2>3. CASE ~(j < b) /\ j < received
      <3>1. j \in 0 .. received - 1 /\ j - b + 1 \in 1 .. s + n /\ j - b + 1 <= s
        BY <1>1, <1>3, <2>3
      <3>2. sector_buf'[j - b + 1] = sector_buf[j - b + 1]
        BY <1>5, <3>1, Zenon
      <3>3. QED
        BY <1>6, <2>1, <2>3, <3>1, <3>2, Zenon
    <2>4. CASE ~(j < received)
      <3> DEFINE i == j - b + 1
      <3>1. /\ i \in 1 .. s + n /\ ~(i <= s) /\ ~(j < b)
            /\ i - s \in 1 .. n /\ q - received + j + 1 = q + (i - s)
        BY <1>1, <1>2, <1>3, <2>4
      <3>2. (IF j < b THEN flash[j] ELSE sector_buf'[j - b + 1]) = sector_buf'[i]
        BY <3>1, Zenon
      <3> HIDE DEF i
      <3>3. sector_buf'[i] = got[i - s]
        BY <1>5, <3>1, Zenon
      <3>4. got[i - s] = Script[c][q + (i - s)]
        BY <1>4, <3>1, Zenon
      <3>5. QED
        BY <2>1, <3>1, <3>2, <3>3, <3>4, Zenon
    <2>5. QED
      BY <2>2, <2>3, <2>4, Zenon
  <1>8. (current_sector * Sector)' = b
    BY <1>1, Zenon DEF b
  <1>9. ASSUME NEW j \in 0 .. received' - 1 PROVE Stored(j)' = Script[c][Consumed(c)' - received' + j + 1]
    <2>1. Stored(j)' = IF j < b THEN flash[j] ELSE sector_buf'[j - b + 1]
      BY <1>1, <1>8, Zenon DEF Stored
    <2>2. Stored(j)' = Script[c][q + n - received' + j + 1]
      BY <1>7, <2>1, Zenon
    <2>3. Consumed(c)' - received' + j + 1 = q + n - received' + j + 1
      <3>1. received' \in Nat /\ q \in Int /\ n \in Nat
        BY <1>1, <1>2, <1>3
      <3>2. QED
        BY <1>2, <3>1
    <2>4. QED
      BY <2>2, <2>3, Zenon
  <1>10. QED
    BY <1>9, Zenon DEF Image

\* A flush moves what is in the sector buffer to the flash, where the image continues.
LEMMA ImageFlushed ==
  ASSUME TransferInv, NEW c \in Conns, Image(c), FlushOk, Consumed(c)' = Consumed(c)
  PROVE  Image(c)'
  <1> DEFINE b == current_sector * Sector
             s == Len(sector_buf)
             q == Consumed(c)
  <1>1. /\ pc = "flush" /\ header_valid /\ header_valid' /\ received' = received
        /\ s \in 1 .. Sector /\ current_sector < Sectors /\ received = b + s
        /\ current_sector \in Nat /\ received \in Nat
    BY Zenon DEF FlushOk, Goto, headerVars, TransferInv, TypeOK, Bookkeeping, Receiving
  <1>2. sector_buf # << >> /\ flash' = Programmed(sector_buf)
    BY <1>1 DEF FlushOk
  <1>3. b \in Nat /\ Sector \in Nat /\ (current_sector + 1) * Sector = b + Sector /\ b + Sector <= MaxFirmware
    <2>1. current_sector \in Nat /\ Sector \in Nat /\ Sectors \in Nat /\ current_sector + 1 <= Sectors
      BY <1>1, OtaAssumption
    <2>2. PICK d \in Nat : Sectors = current_sector + 1 + d
      <3>1. Sectors - (current_sector + 1) \in Nat /\ Sectors = current_sector + 1 + (Sectors - (current_sector + 1))
        BY <2>1
      <3>2. QED
        BY <3>1, Zenon
    <2>3. Sectors * Sector = current_sector * Sector + Sector + d * Sector /\ d * Sector \in Nat
          /\ current_sector * Sector \in Nat /\ (current_sector + 1) * Sector = current_sector * Sector + Sector
      BY <2>1, <2>2
    <2>4. QED
      BY <2>1, <2>3 DEF MaxFirmware
  <1>4. \A j \in 0 .. received - 1 :
           (IF j < b THEN flash[j] ELSE sector_buf[j - b + 1]) = Script[c][q - received + j + 1]
    BY <1>1, Zenon DEF Image, Stored
  <1>5. ASSUME NEW j \in 0 .. received - 1
        PROVE  flash'[j] = IF j < b THEN flash[j] ELSE sector_buf[j - b + 1]
    <2>1. j \in FlashIndex
      BY <1>1, <1>3, MaxFirmwareType DEF FlashIndex
    <2>2. flash'[j] = LET k == j - b
                      IN  IF k \in 0 .. Sector - 1
                          THEN IF k < s THEN sector_buf[k + 1] ELSE Erased
                          ELSE flash[j]
      BY <1>2, <2>1, Zenon DEF Programmed
    <2>3. CASE j < b
      <3>1. ~(j - b \in 0 .. Sector - 1)
        BY <1>1, <1>3, <2>3
      <3>2. QED
        BY <2>2, <2>3, <3>1, Zenon
    <2>4. CASE ~(j < b)
      <3>1. j - b \in 0 .. Sector - 1 /\ j - b < s
        BY <1>1, <1>3, <2>4
      <3>2. QED
        BY <2>2, <2>4, <3>1, Zenon
    <2>5. QED
      BY <2>3, <2>4, Zenon
  <1>6. \/ s = Sector /\ current_sector' = current_sector + 1
        \/ s # Sector /\ current_sector' = current_sector /\ sector_buf' = sector_buf
    BY Zenon DEF FlushOk
  <1>7. ASSUME NEW j \in 0 .. received' - 1 PROVE Stored(j)' = Script[c][q - received + j + 1]
    <2>1. j \in 0 .. received - 1
      BY <1>1, Zenon
    <2>2. CASE s = Sector /\ current_sector' = current_sector + 1
      <3>1. j < current_sector' * Sector
        BY <1>1, <1>3, <2>1, <2>2
      <3>2. Stored(j)' = flash'[j]
        BY <3>1, Zenon DEF Stored
      <3>3. QED
        BY <1>4, <1>5, <2>1, <3>2, Zenon
    <2>3. CASE s # Sector /\ current_sector' = current_sector /\ sector_buf' = sector_buf
      <3>1. Stored(j)' = IF j < b THEN flash'[j] ELSE sector_buf[j - b + 1]
        BY <2>3, Zenon DEF Stored
      <3>2. QED
        BY <1>4, <1>5, <2>1, <3>1, Zenon
    <2>4. QED
      BY <1>6, <2>2, <2>3, Zenon
  <1>8. QED
    BY <1>1, <1>7, Zenon DEF Image

\* Every step of the task.
LEMMA ImageTask ==
  ASSUME TransferInv, NEW c \in Conns, Flow(c), Image(c), Task
  PROVE  Flow(c)' /\ Image(c)'
  <1>1. CASE RecvCount \/ RecvTail \/ RecvCopy
    <2>1. Flow(c)' /\ Consumed(c)' = Consumed(c)
      BY <1>1, FlowReceives, Zenon
    <2>2. UNCHANGED << header_valid, received, flash, current_sector, sector_buf >>
      BY <1>1, Zenon DEF RecvCount, RecvTail, RecvCopy, headerVars, sectorVars
    <2>3. QED
      BY <2>1, <2>2, ImageRests, Zenon
  <1>2. CASE HeaderPart \/ HeaderMagic \/ HeaderMismatch \/ HeaderOk
    <2>1. /\ pc = "commit" /\ Commit /\ UNCHANGED lwipVars
          /\ pc' = "recv" \/ pc' = "load"
      BY <1>2, Zenon DEF HeaderPart, HeaderMagic, HeaderMismatch, HeaderOk, Goto
    <2>2. pc' \notin {"tail", "copy", "commit"}
      BY <2>1
    <2>3. Flow(c)'
      BY <2>1, <2>2, FlowCommits, Zenon
    <2>4. header_valid' => 0 .. received' - 1 = {}
      <3>1. header_valid' => received' = 0
        BY <1>2, Zenon DEF HeaderPart, HeaderMagic, HeaderMismatch, HeaderOk
      <3>2. QED
        BY <3>1
    <2>5. Image(c)'
      BY <2>4, Zenon DEF Image
    <2>6. QED
      BY <2>3, <2>5, Zenon
  <1>3. CASE TakeData
    <2>1. /\ pc = "commit" /\ Commit /\ UNCHANGED lwipVars /\ pc' \in {"recv", "flush"}
      BY <1>3, Zenon DEF TakeData, Goto
    <2>2. pc' \notin {"tail", "copy", "commit"}
      BY <2>1
    <2>3. Flow(c)'
      BY <2>1, <2>2, FlowCommits, Zenon
    <2>4. QED
      BY <1>3, <2>3, ImageGrows, Zenon
  <1>4. CASE FlushOk \/ FlushFail \/ VerifyOk \/ VerifyFail \/ LoadPcb \/ WritePcb \/ Reset
    <2>1. /\ UNCHANGED << streamVars, delivered >>
          /\ pc' \in {"verify", "recv", "load", "write", "delay", "reset"}
      BY <1>4, Zenon DEF FlushOk, FlushFail, VerifyOk, VerifyFail, LoadPcb, WritePcb, Reset, Goto, lwipVars
    <2>2. pc' \notin {"tail", "copy", "commit"}
      BY <2>1
    <2>3. Flow(c)' /\ Consumed(c)' = Consumed(c)
      BY <2>1, <2>2, FlowRests, Zenon
    <2>4. CASE FlushOk
      BY <2>3, <2>4, ImageFlushed, Zenon
    <2>5. CASE FlushFail \/ VerifyFail
      <3>1. header_valid' = FALSE
        BY <2>5, Zenon DEF FlushFail, VerifyFail, Restart
      <3>2. QED
        BY <2>3, <3>1, Zenon DEF Image
    <2>6. CASE VerifyOk \/ LoadPcb \/ WritePcb \/ Reset
      <3>1. UNCHANGED << header_valid, received, flash, current_sector, sector_buf >>
        BY <2>6, Zenon DEF VerifyOk, LoadPcb, WritePcb, Reset, taskVars, headerVars, sectorVars
      <3>2. QED
        BY <2>3, <3>1, ImageRests, Zenon
    <2>7. QED
      BY <1>4, <2>4, <2>5, <2>6, Zenon
  <1>5. QED
    BY <1>1, <1>2, <1>3, <1>4, Zenon DEF Task

\* A step of ota_server_task keeps the invariant.
LEMMA ImageOfTask == ASSUME TransferInv, ImageInv, Task PROVE ImageInv'
  <1>1. sessions # 0
    BY TaskHasSession, Zenon
  <1>2. UNCHANGED << lwipVars, sessions, dropped >>
    BY Zenon DEF Task, RecvCount, RecvTail, RecvCopy, HeaderPart, HeaderMagic, HeaderMismatch, HeaderOk,
       TakeData, FlushOk, FlushFail, VerifyOk, VerifyFail, LoadPcb, WritePcb, Reset, history
  <1>3. \A c \in Conns : Flow(c) /\ Image(c) => Flow(c)' /\ Image(c)'
    BY ImageTask, Zenon
  <1>4. QED
    BY <1>1, <1>2, <1>3, SessionOfTask, Zenon

\* A callback that leaves the stream buffer alone and takes no connection.
LEMMA ImageFrame ==
  ASSUME ImageInv, sessions # 0 \/ conn' = conn, UNCHANGED << streamVars, delivered, sessions, dropped >>,
         UNCHANGED Private, g_ota_data_pcb' \in {NULL, g_ota_data_pcb},
         \A c \in Conns : Taken(c)' <=> Taken(c), NULL \notin Conns, g_ota_data_pcb \in Conns \cup {NULL}
  PROVE  ImageInv'
  <1>1. UNCHANGED << ucBuffer, xHead, xTail, delivered, sessions, dropped >>
    BY Zenon DEF streamVars
  <1>2. UNCHANGED << pc, header_valid, sector_buf, current_sector, received, xCount, tail, got, flash >>
    BY Zenon DEF Private
  <1>3. BytesInBuffer' = BytesInBuffer
    BY <1>1, Zenon DEF BytesInBuffer
  <1>4. \A c \in Conns : Flow(c) => Flow(c)'
    BY <1>1, <1>2, <1>3, Zenon DEF Flow, Place, Consumed
  <1>5. \A c \in Conns : Image(c) => Image(c)'
    BY <1>1, <1>2, <1>3, Zenon DEF Image, Stored, Consumed
  <1>6. SessionInv
    BY Zenon DEF ImageInv
  <1>7. \A c \in Conns : delivered'[c] > 0 => Taken(c)'
    BY <1>1, <1>6, Zenon DEF SessionInv
  <1>8. g_ota_data_pcb' # NULL => Taken(g_ota_data_pcb)'
    <2>1. SUFFICES ASSUME g_ota_data_pcb' # NULL PROVE Taken(g_ota_data_pcb)'
      BY Zenon
    <2>2. g_ota_data_pcb' = g_ota_data_pcb /\ g_ota_data_pcb \in Conns /\ Taken(g_ota_data_pcb)
      BY <1>6, <2>1, Zenon DEF SessionInv
    <2>3. conn'[g_ota_data_pcb] \in {"open", "failing", "freed"}
      BY <2>2, Zenon DEF Taken
    <2>4. QED
      BY <2>2, <2>3, Zenon DEF Taken
  <1>9. sessions' = 0 => /\ \A c \in Conns : conn'[c] = "new"
                         /\ pc' = "recv" /\ ~header_valid' /\ BytesInBuffer' = 0
    BY <1>1, <1>2, <1>3, <1>6, Zenon DEF SessionInv
  <1>10. sessions' <= 1 => \A c, d \in Conns : Taken(c)' /\ Taken(d)' => c = d
    BY <1>1, <1>6, Zenon DEF SessionInv
  <1>11. SessionInv'
    BY <1>7, <1>8, <1>9, <1>10, Zenon DEF SessionInv
  <1>12. QED
    <2>1. ASSUME sessions' <= 1, ~dropped', NEW c \in Conns, Taken(c)' PROVE Flow(c)' /\ Image(c)'
      <3>1. sessions <= 1 /\ ~dropped /\ Taken(c)
        BY <1>1, <2>1
      <3>2. QED
        BY <1>4, <1>5, <3>1, Zenon DEF ImageInv
    <2>2. QED
      BY <1>11, <2>1, Zenon DEF ImageInv

\* The callbacks that do not touch the stream buffer.
LEMMA ImageCallbacks ==
  ASSUME TransferInv, ImageInv, NEW c \in Conns,
         AcceptBusy(c) \/ ClientClose(c) \/ Failing(c) \/ ConnError(c)
  PROVE  ImageInv'
  <1>1. /\ g_ota_data_pcb \in Conns \cup {NULL} /\ NULL \notin Conns
        /\ conn \in [Conns -> {"new", "open", "orphan", "failing", "freed"}]
    BY OtaAssumption, Zenon DEF TransferInv, TypeOK
  <1>2. SessionInv
    BY Zenon DEF ImageInv
  <1>3. conn[c] # "new" \/ g_ota_data_pcb # NULL
    BY Zenon DEF AcceptBusy, ClientClose, Failing, ConnError
  <1>4. g_ota_data_pcb # NULL => g_ota_data_pcb \in Conns /\ conn[g_ota_data_pcb] \in {"open", "failing", "freed"}
    BY <1>1, <1>2, Zenon DEF SessionInv, Taken
  <1>5. sessions # 0
    <2>1. \A d \in Conns : sessions = 0 => conn[d] = "new"
      BY <1>2, Zenon DEF SessionInv
    <2>2. QED
      BY <1>3, <1>4, <2>1, Zenon
  <1>6. UNCHANGED << streamVars, delivered, sessions, dropped >> /\ UNCHANGED Private
    BY Zenon DEF AcceptBusy, ClientClose, Failing, ConnError, history, taskVars, headerVars, sectorVars,
                 recvVars, respVars, Private
  <1>7. g_ota_data_pcb' \in {NULL, g_ota_data_pcb}
    BY Zenon DEF AcceptBusy, ClientClose, Failing, ConnError
  <1>8. \A d \in Conns : Taken(d)' <=> Taken(d)
    <2>1. CASE AcceptBusy(c)
      BY <1>1, <2>1, Zenon DEF AcceptBusy, Taken
    <2>2. CASE ClientClose(c)
      BY <1>1, <1>4, <2>2, Zenon DEF ClientClose, Taken
    <2>3. CASE Failing(c)
      BY <1>1, <2>3, Zenon DEF Failing, Taken
    <2>4. CASE ConnError(c)
      BY <1>1, <2>4, Zenon DEF ConnError, Taken
    <2>5. QED
      BY <2>1, <2>2, <2>3, <2>4, Zenon
  <1>9. QED
    BY <1>1, <1>5, <1>6, <1>7, <1>8, ImageFrame, Zenon

\* ota_accept: the first session finds the task waiting on an empty buffer.
LEMMA ImageAccept == ASSUME TransferInv, ImageInv, NEW c \in Conns, Accept(c) PROVE ImageInv'
  <1>1. /\ conn \in [Conns -> {"new", "open", "orphan", "failing", "freed"}] /\ sessions \in Nat
        /\ delivered \in [Conns -> Nat]
    BY Zenon DEF TransferInv, TypeOK
  <1>2. SessionInv
    BY Zenon DEF ImageInv
  <1>3. /\ conn' = [conn EXCEPT ![c] = "open"] /\ sessions' = sessions + 1 /\ g_ota_data_pcb' = c
        /\ UNCHANGED << delivered, pc, header_valid, dropped >> /\ StreamReset
    BY Zenon DEF Accept, taskVars, headerVars
  <1>4. Taken(c)' /\ \A d \in Conns : d # c => (Taken(d)' <=> Taken(d))
    BY <1>1, <1>3, Zenon DEF Taken
  <1>5. \A d \in Conns : delivered'[d] > 0 => Taken(d)'
    BY <1>2, <1>3, <1>4, Zenon DEF SessionInv
  <1>6. g_ota_data_pcb' # NULL => Taken(g_ota_data_pcb)'
    BY <1>3, <1>4, Zenon DEF Taken
  <1>7. sessions' # 0 /\ (sessions' <= 1 => sessions = 0)
    BY <1>1, <1>3
  <1>8. sessions = 0 => /\ \A d \in Conns : conn[d] = "new"
                        /\ pc = "recv" /\ ~header_valid /\ BytesInBuffer = 0
    BY <1>2, Zenon DEF SessionInv
  <1>9. sessions = 0 => \A d \in Conns : Taken(d)' => d = c
    <2>1. sessions = 0 => \A d \in Conns : ~Taken(d)
      BY <1>8 DEF Taken
    <2>2. QED
      BY <1>4, <2>1, Zenon
  <1>10. SessionInv'
    BY <1>5, <1>6, <1>7, <1>9, Zenon DEF SessionInv
  <1>11. ASSUME sessions = 0 PROVE \A d \in Conns : Flow(d)' /\ Image(d)'
    <2>1. pc = "recv" /\ ~header_valid /\ BytesInBuffer = 0
      BY <1>8, <1>11, Zenon
    <2>2. UNCHANGED << ucBuffer, xHead, xTail >>
      BY <1>3, <2>1, Zenon DEF StreamReset, streamVars
    <2>3. BytesInBuffer' = 0 /\ pc' = "recv" /\ ~header_valid'
      BY <1>3, <2>1, <2>2, Zenon DEF BytesInBuffer
    <2>4. 0 .. BytesInBuffer' - 1 = {} /\ pc' # "tail" /\ pc' # "copy" /\ pc' # "commit"
      BY <2>3
    <2>5. \A d \in Conns : Flow(d)'
      BY <2>4, Zenon DEF Flow
    <2>6. QED
      BY <2>3, <2>5, Zenon DEF Image
  <1>12. QED
    BY <1>7, <1>10, <1>11, Zenon DEF ImageInv

\* A part of what a client sends, unit by unit.
LEMMA PartAt ==
  ASSUME NEW S, NEW s, NEW m \in Int, NEW n \in Int, \A i \in m .. n : s[i] \in S
  PROVE  /\ Len(SubSeq(s, m, n)) = IF m <= n THEN n - m + 1 ELSE 0
         /\ \A i \in 1 .. n - m + 1 : SubSeq(s, m, n)[i] = s[m + i - 1]
  OBVIOUS

\* The units of one delivery.
LEMMA SubSeqUnits ==
  ASSUME NEW s \in Seq(Units), NEW m \in Nat, NEW n \in Nat, m + n <= Len(s)
  PROVE  /\ Len(SubSeq(s, m + 1, m + n)) = n
         /\ \A i \in 1 .. n : SubSeq(s, m + 1, m + n)[i] = s[m + i]
  <1> DEFINE x == m + 1
             y == m + n
             u == SubSeq(s, x, y)
  <1>1. x \in Int /\ y \in Int /\ y - x + 1 = n /\ (IF x <= y THEN y - x + 1 ELSE 0) = n
    OBVIOUS
  <1>2. \A i \in x .. y : i \in 1 .. Len(s)
    OBVIOUS
  <1>3. \A i \in x .. y : s[i] \in Units
    BY <1>2, SeqElement
  <1>4. \A i \in 1 .. n : x + i - 1 = m + i
    OBVIOUS
  <1> HIDE DEF x, y
  <1>5. Len(u) = (IF x <= y THEN y - x + 1 ELSE 0) /\ \A i \in 1 .. y - x + 1 : u[i] = s[x + i - 1]
    BY <1>1, <1>3, PartAt
  <1> HIDE DEF u
  <1>6. Len(u) = n /\ \A i \in 1 .. n : u[i] = s[m + i]
    BY <1>1, <1>4, <1>5, Zenon
  <1>7. QED
    BY <1>6, Zenon DEF u, x, y

\* The head moves on by what is stored, and so does the count.
LEMMA HeadMoves ==
  ASSUME NEW l \in Nat, NEW x \in 0 .. l - 1, NEW t \in 0 .. l - 1, NEW n \in Nat, NEW b \in 0 .. l - 1,
         b = (IF x >= t THEN x - t ELSE x - t + l), n <= l - 1 - b,
         NEW h, h = (IF x + n < l THEN x + n ELSE x + n - l)
  PROVE  (IF h >= t THEN h - t ELSE h - t + l) = b + n
  <1>1. CASE x >= t /\ x + n < l
    <2>1. b = x - t /\ h = x + n
      BY <1>1, Zenon
    <2>2. QED
      BY <1>1, <2>1
  <1>2. CASE x >= t /\ ~(x + n < l)
    <2>1. b = x - t /\ h = x + n - l
      BY <1>2, Zenon
    <2>2. h < t
      BY <1>2, <2>1
    <2>3. QED
      BY <2>1, <2>2
  <1>3. CASE ~(x >= t)
    <2>1. b = x - t + l
      BY <1>3, Zenon
    <2>2. x + n < t
      BY <1>3, <2>1
    <2>3. h = x + n
      BY <2>2
    <2>4. QED
      BY <2>1, <2>2, <2>3
  <1>4. QED
    BY <1>1, <1>2, <1>3, Zenon

\* ota_recv: what is stored behind the head continues what the client sent.
LEMMA FlowDelivers ==
  ASSUME TransferInv, NEW c \in Conns, NEW n \in 1 .. MaxSegment, Deliver(c, n), ~dropped', Flow(c)
  PROVE  Flow(c)' /\ Consumed(c)' = Consumed(c)
  <1> DEFINE data == SubSeq(Script[c], delivered[c] + 1, delivered[c] + n)
             L == StreamLength
             B == BytesInBuffer
             D == delivered[c]
             back(i) == (StreamLength + i - xHead) % StreamLength
  <1>1. /\ xHead \in StreamIndex /\ xTail \in StreamIndex /\ D \in Nat /\ Script[c] \in Seq(Units)
        /\ ucBuffer \in [StreamIndex -> Units] /\ delivered \in [Conns -> Nat] /\ xCount \in Nat
        /\ L \in Nat /\ L > 1 /\ n \in Nat /\ n >= 1
    <2>1. TypeOK
      BY Zenon DEF TransferInv
    <2>2. /\ xHead \in StreamIndex /\ xTail \in StreamIndex /\ xCount \in Nat
          /\ ucBuffer \in [StreamIndex -> Units] /\ delivered \in [Conns -> Nat]
      BY <2>1, Zenon DEF TypeOK
    <2>3. delivered[c] \in Nat /\ Script[c] \in Seq(Units)
      BY <2>2, OtaAssumption, Zenon
    <2>4. StreamLength \in Nat /\ StreamLength > 1 /\ n \in Nat /\ n >= 1
      BY OtaAssumption
    <2>5. QED
      BY <2>2, <2>3, <2>4, Zenon
  <1>2. SpacesAvailable = L - 1 - B /\ B \in 0 .. L - 1 /\ xHead = Place(xTail, B)
    BY <1>1, BytesAndSpaces, Zenon
  <1>3. D + n <= Len(Script[c]) /\ StreamSend(data) /\ delivered' = [delivered EXCEPT ![c] = @ + n]
    BY <1>1 DEF Deliver
  <1>4. Len(data) = n /\ \A i \in 1 .. n : data[i] = Script[c][D + i]
    BY <1>1, <1>3, SubSeqUnits, Zenon
  <1>5. Min2(Len(data), SpacesAvailable) = n /\ n <= L - 1 - B
    <2>1. dropped' = (dropped \/ Min2(Len(data), SpacesAvailable) < Len(data))
      BY <1>3, Zenon DEF StreamSend
    <2>2. ~(Min2(n, L - 1 - B) < n)
      BY <1>2, <1>4, <2>1, Zenon
    <2> HIDE DEF B, L, D, data
    <2>3. Min2(n, L - 1 - B) = n /\ n <= L - 1 - B
      BY <1>1, <1>2, <2>2 DEF Min2
    <2>4. QED
      BY <1>2, <1>4, <2>3, Zenon
  <1>6. /\ ucBuffer' = [i \in StreamIndex |-> IF back(i) < n THEN data[back(i) + 1] ELSE ucBuffer[i]]
        /\ xHead' = (xHead + n) % StreamLength /\ xTail' = xTail
    BY <1>3, <1>5, Zenon DEF StreamSend
  <1>7. xHead' = Place(xHead, n) /\ xHead' \in StreamIndex
    <2>1. n \in 0 .. StreamLength
      BY <1>1, <1>2, <1>5
    <2>2. QED
      BY <1>1, <1>6, <2>1, StreamPlace, Zenon
  <1>8. BytesInBuffer' = B + n
    <2>1. B = IF xHead >= xTail THEN xHead - xTail ELSE xHead - xTail + L
      BY <1>1, BytesAndSpaces, Zenon
    <2>2. BytesInBuffer' = IF xHead' >= xTail THEN xHead' - xTail ELSE xHead' - xTail + L
      BY <1>1, <1>6, <1>7, StreamDistance, Zenon DEF BytesInBuffer
    <2>3. xHead' = IF xHead + n < L THEN xHead + n ELSE xHead + n - L
      BY <1>7, Zenon DEF Place
    <2>4. xHead \in 0 .. L - 1 /\ xTail \in 0 .. L - 1
      BY <1>1, Zenon DEF StreamIndex
    <2> DEFINE h == xHead'
    <2> HIDE DEF B, L, D, data, h
    <2>5. h = IF xHead + n < L THEN xHead + n ELSE xHead + n - L
      BY <2>3, Zenon DEF h
    <2>6. (IF h >= xTail THEN h - xTail ELSE h - xTail + L) = B + n
      <3>1. L \in Nat /\ n \in Nat /\ B \in 0 .. L - 1 /\ n <= L - 1 - B
        BY <1>1, <1>2, <1>5, Zenon
      <3>2. QED
        BY <2>1, <2>4, <2>5, <3>1, HeadMoves
    <2>7. QED
      BY <2>2, <2>6, Zenon DEF h
  <1>9. delivered'[c] = D + n
    BY <1>1, <1>3, Zenon
  <1>10. Consumed(c)' = Consumed(c) /\ Consumed(c) = D - B
    <2>1. Consumed(c)' = (D + n) - (B + n) /\ Consumed(c) = D - B
      BY <1>8, <1>9, Zenon DEF Consumed
    <2> HIDE DEF B, D
    <2>2. (D + n) - (B + n) = D - B
      BY <1>1, <1>2
    <2>3. QED
      BY <2>1, <2>2, Zenon
  <1>11. ASSUME NEW k \in 0 .. B + n - 1
         PROVE  ucBuffer'[Place(xTail, k)] = Script[c][Consumed(c) + k + 1]
    <2> DEFINE p == Place(xTail, k)
    <2>1. k \in 0 .. L - 1 /\ k \in 0 .. StreamLength
      <3>1. L \in Nat /\ n \in Nat /\ B \in 0 .. L - 1 /\ n <= L - 1 - B
        BY <1>1, <1>2, <1>5, Zenon
      <3> HIDE DEF B
      <3>2. QED
        BY <3>1
    <2>2. p \in StreamIndex
      BY <1>1, <2>1, StreamPlace, Zenon
    <2>3. back(p) = IF k >= B THEN k - B ELSE k - B + L
      BY <1>1, <1>2, <2>1, PlaceBack, Zenon
    <2>4. ucBuffer'[p] = IF back(p) < n THEN data[back(p) + 1] ELSE ucBuffer[p]
      <3> HIDE DEF back, p, data, B, L, D
      <3>1. QED
        BY <1>6, <2>2, Zenon
    <2> HIDE DEF back, p, data, B, L, D
    <2>5. CASE k >= B
      <3>1. back(p) = k - B /\ k - B < n /\ k - B + 1 \in 1 .. n
        BY <1>1, <1>2, <2>3, <2>5
      <3>2. ucBuffer'[p] = data[k - B + 1]
        BY <2>4, <3>1, Zenon
      <3>3. data[k - B + 1] = Script[c][D + (k - B + 1)]
        BY <1>4, <3>1, Zenon
      <3>4. D + (k - B + 1) = Consumed(c) + k + 1
        BY <1>1, <1>2, <1>10
      <3>5. QED
        BY <3>2, <3>3, <3>4, Zenon DEF p
    <2>6. CASE ~(k >= B)
      <3>1. ~(back(p) < n) /\ k \in 0 .. B - 1
        BY <1>1, <1>2, <1>5, <2>3, <2>6
      <3>2. ucBuffer'[p] = ucBuffer[p]
        BY <2>4, <3>1, Zenon
      <3>3. ucBuffer[p] = Script[c][Consumed(c) + k + 1]
        BY <3>1, Zenon DEF Flow, p, B
      <3>4. QED
        BY <3>2, <3>3, Zenon DEF p
    <2>7. QED
      BY <2>5, <2>6, Zenon
  <1>12. (\A k \in 0 .. BytesInBuffer - 1 : ucBuffer[Place(xTail, k)] = Script[c][Consumed(c) + k + 1])'
    <2>1. ASSUME NEW k \in 0 .. BytesInBuffer' - 1
          PROVE  ucBuffer'[Place(xTail', k)] = Script[c][Consumed(c)' + k + 1]
      <3>1. k \in 0 .. B + n - 1
        <4>1. B \in 0 .. L - 1 /\ L \in Nat /\ n \in Nat
          BY <1>1, <1>2, Zenon
        <4> HIDE DEF B, L
        <4>2. QED
          BY <1>8, <4>1
      <3>2. ucBuffer'[Place(xTail, k)] = Script[c][Consumed(c) + k + 1]
        BY <1>11, <3>1, Zenon
      <3>3. xTail' = xTail /\ Consumed(c)' + k + 1 = Consumed(c) + k + 1
        BY <1>6, <1>10, Zenon
      <3>4. QED
        BY <3>2, <3>3, Zenon
    <2>2. QED
      BY <2>1, Zenon DEF Place
  <1>13. UNCHANGED << pc, xCount, tail, got >>
    BY Zenon DEF Deliver, taskVars, recvVars
  <1>14. pc \in {"tail", "copy", "commit"} => xCount <= BytesInBuffer'
    <2>1. pc \in {"tail", "copy", "commit"} => xCount <= B
      BY Zenon DEF Flow
    <2> HIDE DEF B
    <2>2. QED
      BY <1>1, <1>2, <1>8, <2>1
  <1>15. pc \in {"copy", "commit"} =>
            tail = xTail /\ \A i \in 1 .. Len(got) : got[i] = Script[c][Consumed(c) + i]
    BY Zenon DEF Flow
  <1>16. Flow(c)'
    BY <1>6, <1>10, <1>12, <1>13, <1>14, <1>15, Zenon DEF Flow
  <1>17. QED
    BY <1>10, <1>16, Zenon

\* A delivery keeps the invariant.
LEMMA ImageDeliver ==
  ASSUME TransferInv, ImageInv, NEW c \in Conns, NEW n \in 1 .. MaxSegment, Deliver(c, n)
  PROVE  ImageInv'
  <1>1. /\ conn[c] = "open" /\ delivered' = [delivered EXCEPT ![c] = @ + n]
        /\ UNCHANGED << g_ota_data_pcb, conn, header_valid, received, flash, current_sector, sector_buf, sessions >>
        /\ StreamSend(SubSeq(Script[c], delivered[c] + 1, delivered[c] + n))
    BY Zenon DEF Deliver, taskVars, headerVars, sectorVars
  <1>2. (dropped => dropped') /\ delivered \in [Conns -> Nat]
    BY <1>1, Zenon DEF StreamSend, TransferInv, TypeOK
  <1>3. SessionInv
    BY Zenon DEF ImageInv
  <1>4. \A d : Taken(d)' <=> Taken(d)
    BY <1>1, Zenon DEF Taken
  <1>5. Taken(c)
    BY <1>1 DEF Taken
  <1>6. sessions # 0
    <2>1. sessions = 0 => conn[c] = "new"
      BY <1>3, Zenon DEF SessionInv
    <2>2. QED
      BY <1>1, <2>1
  <1>7. \A d \in Conns : delivered'[d] > 0 => Taken(d)'
    <2>1. \A d \in Conns : d # c => delivered'[d] = delivered[d]
      BY <1>1, <1>2, Zenon
    <2>2. QED
      BY <1>3, <1>4, <1>5, <2>1, Zenon DEF SessionInv
  <1>8. g_ota_data_pcb' # NULL => Taken(g_ota_data_pcb)'
    BY <1>1, <1>3, Zenon DEF SessionInv, Taken
  <1>9. sessions' # 0 /\ (sessions' <= 1 => \A d, e \in Conns : Taken(d)' /\ Taken(e)' => d = e)
    BY <1>1, <1>3, <1>4, <1>6, Zenon DEF SessionInv
  <1>10. SessionInv'
    BY <1>7, <1>8, <1>9, Zenon DEF SessionInv
  <1>11. ASSUME sessions' <= 1, ~dropped', NEW d \in Conns, Taken(d)' PROVE Flow(d)' /\ Image(d)'
    <2>1. d = c
      BY <1>1, <1>3, <1>4, <1>5, <1>11, Zenon DEF SessionInv
    <2>2. Flow(c) /\ Image(c)
      BY <1>1, <1>2, <1>5, <1>11, Zenon DEF ImageInv
    <2>3. Flow(c)' /\ Consumed(c)' = Consumed(c)
      BY <1>11, <2>2, FlowDelivers, Zenon
    <2>4. Image(c)'
      BY <1>1, <2>2, <2>3, ImageRests, Zenon
    <2>5. QED
      BY <2>1, <2>3, <2>4, Zenon
  <1>12. QED
    BY <1>10, <1>11, Zenon DEF ImageInv

\* ImageInv is an invariant of the server: what a lone client sent is on its way
\* through the stream buffer, in order, and what left it is the image.
THEOREM ImageInvariance == Spec => []ImageInv
  <1>1. TransferInv /\ ImageInv /\ [Next]_vars => ImageInv'
    <2>1. SUFFICES ASSUME TransferInv, ImageInv, [Next]_vars PROVE ImageInv'
      BY Zenon
    <2>2. CASE UNCHANGED vars
      <3>1. UNCHANGED << streamVars, lwipVars, pc, taskVars, flash, history >>
        BY <2>2, Zenon DEF vars
      <3>2. UNCHANGED << streamVars, delivered, sessions, dropped, conn, g_ota_data_pcb >> /\ UNCHANGED Private
        BY <3>1, Zenon DEF lwipVars, history, taskVars, headerVars, sectorVars, recvVars, respVars, Private
      <3>3. \A c \in Conns : Taken(c)' <=> Taken(c)
        BY <3>2, Zenon DEF Taken
      <3>4. NULL \notin Conns /\ g_ota_data_pcb \in Conns \cup {NULL} /\ g_ota_data_pcb' \in {NULL, g_ota_data_pcb}
        BY <2>1, <3>2, OtaAssumption, Zenon DEF TransferInv, TypeOK
      <3>5. QED
        BY <2>1, <3>2, <3>3, <3>4, ImageFrame, Zenon
    <2>3. CASE Task
      BY <2>1, <2>3, ImageOfTask, Zenon
    <2>4. CASE \E c \in Conns : Lwip(c)
      <3>1. PICK c \in Conns : Lwip(c)
        BY <2>4, Zenon
      <3>2. CASE Accept(c)
        BY <2>1, <3>2, ImageAccept, Zenon
      <3>3. CASE \E n \in 1 .. MaxSegment : Deliver(c, n)
        BY <2>1, <3>3, ImageDeliver, Zenon
      <3>4. CASE AcceptBusy(c) \/ ClientClose(c) \/ Failing(c) \/ ConnError(c)
        BY <2>1, <3>4, ImageCallbacks, Zenon
      <3>5. QED
        BY <3>1, <3>2, <3>3, <3>4, Zenon DEF Lwip
    <2>5. QED
      BY <2>1, <2>2, <2>3, <2>4, Zenon DEF Next
  <1>2. QED
    BY <1>1, ImageInit, TransferInvariance, PTL DEF Spec

\* FaithfulImage for every instance: with one session and nothing dropped, the
\* slot and the sector buffer of ota_server_task hold what the client sent, for
\* every size of segment, stream buffer and sector, and every preemption of a
\* receive by ota_recv.
THEOREM ImageIsFaithful == Spec => []FaithfulImage
  <1>1. TransferInv /\ ImageInv => FaithfulImage
    <2>1. SUFFICES ASSUME TransferInv, ImageInv, header_valid, sessions = 1, ~dropped,
                          NEW c \in Conns, delivered[c] > 0, NEW j \in 0 .. received - 1
                   PROVE  Stored(j) = Script[c][delivered[c] - BytesInBuffer - received + j + 1]
      BY Zenon DEF FaithfulImage
    <2>2. sessions <= 1
      BY <2>1
    <2>3. Taken(c)
      BY <2>1, Zenon DEF ImageInv, SessionInv
    <2>4. Image(c)
      BY <2>1, <2>2, <2>3, Zenon DEF ImageInv
    <2>5. QED
      BY <2>1, <2>4, Zenon DEF Image, Consumed
  <1>2. QED
    BY <1>1, TransferInvariance, ImageInvariance, PTL
=============================================================================
