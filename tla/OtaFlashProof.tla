--------------------------- MODULE OtaFlashProof ----------------------------
(***************************************************************************)
(* Proofs for OtaFlash: for every size of double word, sector and slot, and *)
(* whatever the flash controller and the cache do, a write that returns 0   *)
(* has written its data and nothing else, no call touches bytes outside its *)
(* sector or range, no path leaves the controller unlocked, and checksums   *)
(* are computed from the flash.                                             *)
(***************************************************************************)
EXTENDS OtaFlash, TLAPS

-----------------------------------------------------------------------------
(* The invariant                                                            *)

\* the flash after the bytes of data up to address n have been written
Written(n) ==
    [a \in Address |-> IF a \in offset .. n - 1 THEN data[a - offset + 1] ELSE before[a]]

\* ota_flash_erase_sector works on one whole sector of the slot.
EraseInv ==
    pc \in {"erase", "blank"} =>
        /\ op = "erase"
        /\ addr = offset
        /\ \E i \in 0 .. Sectors - 1 : offset = i * SectorSize

\* the double word at addr as it is to become
NextWord == [i \in 1 .. Word |-> Written(addr + Chunk)[Granule(addr) + i - 1]]

\* ota_flash_write has written the data before addr, `remaining' bytes are missing, and only the
\* first and the last step move less than a double word.
WriteInv ==
    /\ pc \in {"head", "body", "program", "compare"} =>
          /\ op = "write"
          /\ offset <= addr
          /\ addr + remaining = offset + Len(data)
          /\ offset + Len(data) <= SlotSize
    /\ pc = "head" => addr % Word # 0
    /\ pc = "body" => remaining = 0 \/ addr % Word = 0
    /\ pc \in {"head", "body", "program"} => flash = Written(addr)
    /\ pc \in {"program", "compare"} =>
          /\ Granule(addr) < addr + remaining
          /\ buf = NextWord
    /\ pc = "compare" =>
          /\ \A a \in Address : Granule(a) # Granule(addr) => flash[a] = Written(addr)[a]
          /\ cache[Granule(addr)] \in {<< >>, Content(Granule(addr))}

\* Between calls nothing remains to be written, and what a checksum went over stays in the flash
\* until the next call.
RestInv ==
    /\ pc = "idle" => remaining = 0
    /\ pc # "idle" => op \in {"erase", "write"}

FlashInv ==
    /\ TypeOK /\ EraseInv /\ WriteInv /\ RestInv
    /\ WriteExact /\ Contained /\ LockedAtRest /\ ChecksumOfFlash

-----------------------------------------------------------------------------
(* Arithmetic of double words and sectors                                   *)

\* Bytes lie in double words: the quotient and the remainder of an address.
LEMMA Quotient ==
  ASSUME NEW a \in Nat
  PROVE  \E q \in Nat : a = Word * q + (a % Word) /\ a % Word \in 0 .. Word - 1
  <1>1. a \div Word \in Nat /\ a % Word \in 0 .. Word - 1 /\ a = Word * (a \div Word) + (a % Word)
    BY FlashAssumption
  <1>2. QED
    BY <1>1

\* The double words Word * q and Word * r are the same or do not overlap.
LEMMA Apart ==
  ASSUME NEW q \in Nat, NEW r \in Nat, Word * q < Word * r + 1
  PROVE  Word * q = Word * r \/ Word * q + Word <= Word * r
  <1>1. CASE q <= r
    <2>1. CASE q = r
      BY <2>1
    <2>2. CASE q < r
      <3>1. r - q - 1 \in Nat /\ r = q + 1 + (r - q - 1)
        BY <2>2
      <3>2. PICK d \in Nat : r = q + 1 + d
        BY <3>1
      <3>3. Word * r = Word * q + Word + Word * d
        BY <3>2, FlashAssumption
      <3>4. Word * d \in Nat /\ Word * q \in Nat
        BY FlashAssumption
      <3>5. QED
        BY <3>3, <3>4, FlashAssumption
    <2>3. QED
      BY <1>1, <2>1, <2>2
  <1>2. CASE q > r
    <2>1. q - r - 1 \in Nat /\ q = r + 1 + (q - r - 1)
      BY <1>2
    <2>2. PICK d \in Nat : q = r + 1 + d
      BY <2>1
    <2>3. Word * q = Word * r + Word + Word * d
      BY <2>2, FlashAssumption
    <2>4. Word * d \in Nat /\ Word * r \in Nat
      BY FlashAssumption
    <2>5. QED
      BY <2>3, <2>4, FlashAssumption
  <1>3. QED
    BY <1>1, <1>2

\* The double word of an address contains it and starts at a multiple of Word.
LEMMA GranuleOf ==
  ASSUME NEW a \in Nat
  PROVE  /\ Granule(a) \in Nat /\ Granule(a) <= a /\ a < Granule(a) + Word
         /\ \E q \in Nat : Granule(a) = Word * q
  <1>1. PICK q \in Nat : a = Word * q + (a % Word) /\ a % Word \in 0 .. Word - 1
    BY Quotient
  <1>2. Word * q \in Nat /\ Granule(a) = Word * q
    BY <1>1, FlashAssumption DEF Granule
  <1>3. QED
    BY <1>1, <1>2, FlashAssumption

\* A multiple of Word leaves no remainder.
LEMMA Multiple ==
  ASSUME NEW q \in Nat
  PROVE  Word * q \in Nat /\ (Word * q) % Word = 0
  <1>1. Word * q \in Nat
    BY FlashAssumption
  <1>2. PICK r \in Nat : Word * q = Word * r + ((Word * q) % Word) /\ (Word * q) % Word \in 0 .. Word - 1
    BY <1>1, Quotient
  <1>3. Word * r \in Nat /\ Word * r < Word * q + 1
    BY <1>1, <1>2, FlashAssumption
  <1>4. Word * r = Word * q \/ Word * r + Word <= Word * q
    BY <1>3, Apart
  <1>5. QED
    BY <1>1, <1>2, <1>3, <1>4, FlashAssumption

\* Every byte of a double word has the same Granule.
LEMMA GranuleUnique ==
  ASSUME NEW a \in Nat, NEW q \in Nat, Word * q <= a, a < Word * q + Word
  PROVE  Granule(a) = Word * q
  <1>1. PICK r \in Nat : Granule(a) = Word * r
    BY GranuleOf
  <1>2. Word * q \in Nat /\ Word * r \in Nat /\ Word * r <= a /\ a < Word * r + Word
    BY <1>1, GranuleOf, FlashAssumption
  <1>3. CASE Word * q < Word * r + 1
    BY <1>1, <1>2, <1>3, Apart, FlashAssumption
  <1>4. CASE Word * r < Word * q + 1
    BY <1>1, <1>2, <1>4, Apart, FlashAssumption
  <1>5. QED
    BY <1>2, <1>3, <1>4

\* Sectors and the slot consist of whole double words.
LEMMA WholeWords ==
  /\ SlotSize \in Nat
  /\ \A i \in Nat : i * SectorSize \in Nat /\ \E q \in Nat : i * SectorSize = Word * q
  /\ \E q \in Nat : SlotSize = Word * q
  <1>1. PICK s \in Nat : SectorSize = Word * s
    <2>1. PICK s \in Nat : SectorSize = Word * s + (SectorSize % Word)
      BY Quotient, FlashAssumption, Zenon
    <2>2. Word * s \in Nat /\ SectorSize % Word = 0
      BY FlashAssumption
    <2>3. QED
      BY <2>1, <2>2
  <1>2. ASSUME NEW i \in Nat
        PROVE  i * SectorSize \in Nat /\ \E q \in Nat : i * SectorSize = Word * q
    <2>1. i * s \in Nat /\ i * SectorSize \in Nat
      BY <1>1, FlashAssumption
    <2>2. i * (Word * s) = Word * (i * s)
      BY FlashAssumption
    <2>3. QED
      BY <1>1, <2>1, <2>2
  <1>3. QED
    BY <1>2, FlashAssumption, Zenon DEF SlotSize

\* A double word of the flash starts at a multiple of Word and not beyond the slot's end.
LEMMA GranuleType ==
  ASSUME NEW g \in Granules
  PROVE  /\ g \in Nat /\ g <= SlotSize /\ g + Word - 1 \in Address
         /\ \E q \in Nat : g = Word * q
  <1>1. g \in Nat /\ g % Word = 0 /\ g < SlotSize + Word
    BY WholeWords, FlashAssumption DEF Granules, Address
  <1>2. PICK q \in Nat : g = Word * q
    <2>1. PICK q \in Nat : g = Word * q + (g % Word)
      BY <1>1, Quotient
    <2>2. Word * q \in Nat
      BY FlashAssumption
    <2>3. QED
      BY <1>1, <2>1, <2>2
  <1>3. PICK r \in Nat : SlotSize = Word * r
    BY WholeWords
  <1>4. SlotSize \in Nat /\ Word \in Nat
    BY WholeWords, FlashAssumption
  <1>5. g <= SlotSize
    <2>1. SUFFICES ASSUME SlotSize < g PROVE FALSE
      BY <1>1, <1>4
    <2>2. SlotSize = g \/ SlotSize + Word <= g
      BY <1>2, <1>3, <1>4, <2>1, Apart
    <2>3. QED
      BY <1>1, <1>4, <2>1, <2>2
  <1>6. QED
    BY <1>1, <1>2, <1>4, <1>5, FlashAssumption DEF Address

\* The double word of an address of the flash is one of the flash's.
LEMMA GranuleIn ==
  ASSUME NEW a \in Address
  PROVE  /\ a \in Nat /\ Granule(a) \in Granules
         /\ Granule(a) <= a /\ a < Granule(a) + Word
         /\ a % Word = a - Granule(a)
  <1>1. a \in Nat
    BY WholeWords DEF Address
  <1>2. PICK q \in Nat : Granule(a) = Word * q
    BY <1>1, GranuleOf
  <1>3. Granule(a) % Word = 0
    BY <1>2, Multiple
  <1>4. Granule(a) \in Address
    BY <1>1, GranuleOf, WholeWords, FlashAssumption DEF Address
  <1>5. a % Word \in Nat
    BY <1>1, FlashAssumption
  <1>6. QED
    BY <1>1, <1>3, <1>4, <1>5, GranuleOf DEF Granules, Granule

\* The bytes of a double word are the addresses with that Granule.
LEMMA GranuleSame ==
  ASSUME NEW g \in Granules, NEW a \in Address
  PROVE  Granule(a) = g <=> g <= a /\ a < g + Word
  <1>1. ASSUME g <= a, a < g + Word PROVE Granule(a) = g
    BY <1>1, GranuleType, GranuleIn, GranuleUnique
  <1>2. QED
    BY <1>1, GranuleIn

\* The slot ends with a double word.
LEMMA GranuleBelow ==
  ASSUME NEW g \in Granules, g < SlotSize
  PROVE  g + Word <= SlotSize
  <1>1. PICK q \in Nat : g = Word * q
    BY GranuleType
  <1>2. PICK r \in Nat : SlotSize = Word * r
    BY WholeWords
  <1>3. g \in Nat /\ SlotSize \in Nat
    BY GranuleType, WholeWords
  <1>4. QED
    BY <1>1, <1>2, <1>3, Apart

\* Double words are in the order of their bytes.
LEMMA GranuleMonotone ==
  ASSUME NEW a \in Address, NEW b \in Address, a <= b
  PROVE  Granule(a) <= Granule(b)
  <1>1. PICK q \in Nat, r \in Nat : Granule(a) = Word * q /\ Granule(b) = Word * r
    BY GranuleIn, GranuleOf
  <1>2. Granule(a) \in Nat /\ Granule(b) \in Nat /\ Granule(a) <= a /\ b < Granule(b) + Word
        /\ a \in Nat /\ b \in Nat
    BY GranuleIn, GranuleType
  <1>3. SUFFICES ASSUME Granule(b) < Granule(a) PROVE FALSE
    BY <1>2
  <1>4. Granule(b) = Granule(a) \/ Granule(b) + Word <= Granule(a)
    BY <1>1, <1>2, <1>3, Apart
  <1>5. QED
    BY <1>2, <1>3, <1>4, FlashAssumption

\* A sector of the slot starts with a double word and ends in the slot.
LEMMA SectorIn ==
  ASSUME NEW i \in 0 .. Sectors - 1
  PROVE  /\ i * SectorSize \in Granules
         /\ i * SectorSize + SectorSize <= SlotSize
  <1>1. i \in Nat /\ i * SectorSize \in Nat /\ SlotSize \in Nat
    BY WholeWords
  <1>2. PICK d \in Nat : Sectors = i + 1 + d
    <2>1. Sectors - i - 1 \in Nat /\ Sectors = i + 1 + (Sectors - i - 1)
      BY FlashAssumption
    <2>2. QED
      BY <2>1, Zenon
  <1>3. SlotSize = i * SectorSize + SectorSize + d * SectorSize
    BY <1>2, FlashAssumption DEF SlotSize
  <1>4. d * SectorSize \in Nat
    BY WholeWords
  <1>5. i * SectorSize + SectorSize <= SlotSize
    BY <1>1, <1>3, <1>4, FlashAssumption
  <1>6. (i * SectorSize) % Word = 0
    <2>1. PICK q \in Nat : i * SectorSize = Word * q
      BY <1>1, WholeWords
    <2>2. QED
      BY <2>1, Multiple
  <1>7. QED
    BY <1>1, <1>5, <1>6, FlashAssumption DEF Granules, Address

-----------------------------------------------------------------------------
(* The flash controller and the cache                                       *)

\* What the core loads of a double word is a double word.
LEMMA ContentType ==
  ASSUME TypeOK, NEW g \in Granules
  PROVE  /\ Content(g) \in [1 .. Word -> Cell]
         /\ Load(g) \in [1 .. Word -> Cell]
  <1>1. \A i \in 1 .. Word : g + i - 1 \in Address
    BY GranuleType, WholeWords, FlashAssumption DEF Address
  <1>2. Content(g) \in [1 .. Word -> Cell]
    BY <1>1 DEF TypeOK, Content
  <1>3. QED
    BY <1>2 DEF TypeOK, Load

\* Erasing a sector changes bytes of that sector, into erased ones.
LEMMA EraseEffect ==
  ASSUME TypeOK, NEW a \in Granules, FmcErase(a)
  PROVE  /\ flash' \in [Address -> Cell]
         /\ \A x \in Address : flash'[x] # flash[x] => Granule(x) \in SectorOf(a)
  <1>1. PICK G \in {{}, {a}, SectorOf(a)} :
            flash' = [x \in Address |-> IF Granule(x) \in G THEN Erased ELSE flash[x]]
    BY DEF FmcErase
  <1>2. G \subseteq SectorOf(a)
    BY GranuleType, FlashAssumption DEF SectorOf
  <1>3. flash' \in [Address -> Cell]
    BY <1>1 DEF TypeOK, Cell
  <1>4. ASSUME NEW x \in Address, flash'[x] # flash[x] PROVE Granule(x) \in SectorOf(a)
    BY <1>1, <1>2, <1>4
  <1>5. QED
    BY <1>3, <1>4

\* Programming a double word changes its bytes only.
LEMMA ProgramEffect ==
  ASSUME TypeOK, NEW g \in Granules, NEW w \in [1 .. Word -> Cell], FmcProgram(g, w)
  PROVE  /\ flash' \in [Address -> Cell]
         /\ \A x \in Address : Granule(x) # g => flash'[x] = flash[x]
  <1>1. PICK v \in {w, Content(g), [i \in 1 .. Word |-> Garbage]} :
            flash' = [x \in Address |-> IF Granule(x) = g THEN v[x - g + 1] ELSE flash[x]]
    BY Zenon DEF FmcProgram
  <1>2. v \in [1 .. Word -> Cell]
    BY <1>1, ContentType DEF Cell
  <1>3. ASSUME NEW x \in Address, Granule(x) = g PROVE x - g + 1 \in 1 .. Word
    <2>1. g <= x /\ x < g + Word
      BY <1>3, GranuleSame
    <2>2. g \in Nat /\ x \in Nat
      BY GranuleIn, GranuleType
    <2>3. QED
      BY <2>1, <2>2, FlashAssumption
  <1>4. \A x \in Address : (IF Granule(x) = g THEN v[x - g + 1] ELSE flash[x]) \in Cell
    BY <1>2, <1>3 DEF TypeOK
  <1>5. QED
    BY <1>1, <1>4

-----------------------------------------------------------------------------
(* Initial states and calls                                                 *)

\* The invariant holds before the first call.
LEMMA FlashInit == Init => FlashInv
  <1> SUFFICES ASSUME Init PROVE FlashInv
    OBVIOUS
  <1>1. flash \in [Address -> Cell]
    <2>1. PICK b \in Byte \cup {Erased} : flash = [a \in Address |-> b]
      BY DEF Init
    <2>2. QED
      BY <2>1 DEF Cell
  <1>2. 0 \in 0 .. SlotSize /\ 0 \in 0 .. MaxCalls
    BY WholeWords, FlashAssumption
  <1>3. TypeOK
    BY <1>1, <1>2 DEF Init, TypeOK
  <1>4. EraseInv /\ WriteInv /\ RestInv
    BY DEF Init, EraseInv, WriteInv, RestInv
  <1>5. WriteExact /\ Contained /\ LockedAtRest /\ ChecksumOfFlash
    BY DEF Init, WriteExact, Contained, LockedAtRest, ChecksumOfFlash
  <1>6. QED
    BY <1>3, <1>4, <1>5 DEF FlashInv

\* A refused call changes nothing but what the caller sees.
LEMMA RefuseStep ==
  ASSUME FlashInv, NEW name \in {"erase", "write"}, NEW off \in 0 .. SlotSize, NEW d \in Seq(Byte),
         Refuse(name, off, d)
  PROVE  FlashInv'
  <1> USE DEF Refuse, Call
  <1>1. pc = "idle" /\ remaining = 0 /\ TypeOK
    BY DEF FlashInv, RestInv
  <1>2. TypeOK'
    <2>1. 0 \in 0 .. Len(d) /\ calls' \in 0 .. MaxCalls
      BY <1>1, FlashAssumption DEF TypeOK
    <2>2. QED
      BY <1>1, <2>1 DEF TypeOK
  <1>3. EraseInv' /\ WriteInv' /\ RestInv'
    BY <1>1 DEF EraseInv, WriteInv, RestInv
  <1>4. WriteExact' /\ ChecksumOfFlash'
    BY <1>1 DEF WriteExact, ChecksumOfFlash
  <1>5. Contained'
    BY <1>1 DEF Contained
  <1>6. LockedAtRest'
    BY <1>1 DEF FlashInv, LockedAtRest
  <1>7. QED
    BY <1>2, <1>3, <1>4, <1>5, <1>6 DEF FlashInv

\* An accepted call of ota_flash_erase_sector starts with a sector of the slot.
LEMMA EraseCallStep ==
  ASSUME FlashInv, NEW i \in 0 .. Sectors, EraseCall(i)
  PROVE  FlashInv'
  <1> USE DEF EraseCall, Call
  <1>1. pc = "idle" /\ remaining = 0 /\ TypeOK
    BY DEF FlashInv, RestInv
  <1>2. i \in 0 .. Sectors - 1
    <2>1. CASE i = Sectors
      BY <2>1, WholeWords DEF SlotSize
    <2>2. QED
      BY <2>1, FlashAssumption
  <1>3. i * SectorSize \in 0 .. SlotSize
    BY <1>2, SectorIn, GranuleType
  <1>4. TypeOK'
    <2>1. 0 \in 0 .. Len(<< >>) /\ calls' \in 0 .. MaxCalls
      BY <1>1, FlashAssumption DEF TypeOK
    <2>2. /\ offset' \in 0 .. SlotSize /\ addr' \in 0 .. SlotSize
          /\ data' \in Seq(Byte) /\ remaining' \in 0 .. Len(data')
      BY <1>1, <1>3, <2>1
    <2>3. QED
      BY <1>1, <2>1, <2>2, Zenon DEF TypeOK
  <1>5. EraseInv' /\ WriteInv' /\ RestInv'
    BY <1>1, <1>2 DEF EraseInv, WriteInv, RestInv
  <1>6. WriteExact' /\ Contained' /\ LockedAtRest' /\ ChecksumOfFlash'
    BY <1>1 DEF WriteExact, Contained, LockedAtRest, ChecksumOfFlash
  <1>7. QED
    BY <1>4, <1>5, <1>6 DEF FlashInv

\* An accepted call of ota_flash_write starts with nothing written.
LEMMA WriteCallStep ==
  ASSUME FlashInv, NEW off \in 0 .. SlotSize, NEW d \in Seq(Byte), WriteCall(off, d)
  PROVE  FlashInv'
  <1> USE DEF WriteCall, Call
  <1>1. pc = "idle" /\ TypeOK
    BY DEF FlashInv
  <1>2. Len(d) \in Nat /\ SlotSize \in Nat /\ off + Len(d) <= SlotSize
    <2>1. Len(d) \in Nat /\ SlotSize \in Nat
      BY WholeWords
    <2>2. QED
      BY <2>1 DEF WriteRange
  <1>3. TypeOK'
    <2>1. Len(d) \in 0 .. Len(d) /\ calls' \in 0 .. MaxCalls
      BY <1>1, <1>2, FlashAssumption DEF TypeOK
    <2>2. QED
      BY <1>1, <2>1, Zenon DEF TypeOK
  <1>4. EraseInv' /\ RestInv'
    BY <1>1 DEF EraseInv, RestInv
  <1>5. WriteInv'
    <2>1. flash' = Written(addr)'
      <3>1. offset' .. addr' - 1 = {}
        BY <1>2
      <3>2. flash = [a \in Address |-> flash[a]]
        BY <1>1 DEF TypeOK
      <3>3. QED
        BY <3>1, <3>2 DEF Written
    <2>2. pc' \in {"head", "body"} /\ (pc' = "head" => addr' % Word # 0) /\ (pc' = "body" => addr' % Word = 0)
      OBVIOUS
    <2>3. /\ op' = "write" /\ offset' <= addr' /\ addr' + remaining' = offset' + Len(data')
          /\ offset' + Len(data') <= SlotSize
      BY <1>2
    <2>4. QED
      BY <2>1, <2>2, <2>3 DEF WriteInv
  <1>6. WriteExact' /\ Contained' /\ LockedAtRest' /\ ChecksumOfFlash'
    BY <1>1 DEF WriteExact, Contained, LockedAtRest, ChecksumOfFlash
  <1>7. QED
    BY <1>3, <1>4, <1>5, <1>6 DEF FlashInv

\* ota_flash_crc32 has invalidated every double word it reads.
LEMMA CrcStep ==
  ASSUME FlashInv, NEW len \in 1 .. SlotSize, Crc(len)
  PROVE  FlashInv'
  <1> DEFINE G == {g \in Granules : g < len}
  <1>1. pc = "idle" /\ remaining = 0 /\ TypeOK
    BY DEF FlashInv, RestInv, Crc, Call
  <1>2. ASSUME NEW i \in 1 .. len
        PROVE  i - 1 \in Address /\ Invalidate(G)[Granule(i - 1)] = << >>
    <2>1. i - 1 \in Address /\ i - 1 < len
      BY WholeWords, FlashAssumption DEF Address
    <2>2. Granule(i - 1) \in Granules /\ Granule(i - 1) < len
      BY <2>1, GranuleIn, GranuleType
    <2>3. QED
      BY <2>1, <2>2 DEF Invalidate
  <1>3. read' = [i \in 1 .. len |-> flash[i - 1]]
    BY <1>2 DEF Crc
  <1>4. read' \in Seq(Cell) /\ Len(read') = len
    <2>1. \A i \in 1 .. len : flash[i - 1] \in Cell
      BY <1>1, <1>2, Zenon DEF TypeOK
    <2>2. len \in Nat
      BY WholeWords
    <2>3. QED
      BY <1>3, <2>1, <2>2
  <1>5. cache' \in [Granules -> {<< >>} \cup [1 .. Word -> Cell]]
    <2>1. cache' = [g \in Granules |-> IF g \in G THEN Content(g) ELSE cache[g]]
      BY DEF Crc
    <2>2. QED
      BY <1>1, <2>1, ContentType DEF TypeOK
  <1>6. TypeOK'
    <2>1. 0 \in 0 .. Len(<< >>) /\ calls' \in 0 .. MaxCalls /\ 0 \in 0 .. SlotSize
      BY <1>1, WholeWords, FlashAssumption DEF TypeOK, Crc, Call
    <2>2. QED
      BY <1>1, <1>4, <1>5, <2>1 DEF TypeOK, Crc, Call
  <1>7. EraseInv' /\ WriteInv' /\ RestInv'
    BY <1>1 DEF EraseInv, WriteInv, RestInv, Crc, Call
  <1>8. WriteExact' /\ Contained'
    BY <1>1 DEF WriteExact, Contained, Crc, Call
  <1>9. LockedAtRest'
    BY <1>1 DEF FlashInv, LockedAtRest, Crc, Call
  <1>10. ChecksumOfFlash'
    BY <1>3, <1>4, Zenon DEF ChecksumOfFlash, Crc
  <1>11. QED
    BY <1>6, <1>7, <1>8, <1>9, <1>10 DEF FlashInv

-----------------------------------------------------------------------------
(* Steps of ota_flash_erase_sector                                          *)

\* Whatever the erase leaves in the flash, it changed the sector of the call only.
LEMMA EraseContained ==
  ASSUME FlashInv, pc = "erase", FmcErase(addr), UNCHANGED << before, op, offset, data >>
  PROVE  flash' \in [Address -> Cell] /\ Contained'
  <1>1. PICK i \in 0 .. Sectors - 1 : offset = i * SectorSize
    BY DEF FlashInv, EraseInv
  <1>2. TypeOK /\ addr = offset /\ op = "erase"
    BY DEF FlashInv, EraseInv
  <1>3. offset \in Granules /\ offset + SectorSize <= SlotSize
    BY <1>1, SectorIn
  <1>4. /\ flash' \in [Address -> Cell]
        /\ \A x \in Address : flash'[x] # flash[x] => Granule(x) \in SectorOf(offset)
    BY <1>2, <1>3, EraseEffect
  <1>5. ASSUME NEW a \in Address, flash'[a] # flash[a]
        PROVE  a < SlotSize /\ Granule(a) \in SectorOf(offset)
    <2>1. Granule(a) \in SectorOf(offset)
      BY <1>4, <1>5
    <2>2. Granule(a) \in Granules /\ Granule(a) < offset + SectorSize
      BY <2>1 DEF SectorOf
    <2>3. Granule(a) \in Nat /\ offset \in Nat /\ a \in Nat /\ SlotSize \in Nat /\ SectorSize \in Nat
      BY <1>3, <2>2, GranuleType, GranuleIn, WholeWords, FlashAssumption
    <2>4. Granule(a) < SlotSize
      BY <1>3, <2>2, <2>3
    <2>5. Granule(a) + Word <= SlotSize /\ a < Granule(a) + Word
      BY <2>2, <2>4, GranuleBelow, GranuleIn
    <2>6. QED
      BY <2>1, <2>3, <2>5, FlashAssumption
  <1>6. Contained'
    <2>1. ASSUME NEW a \in Address, flash'[a] # before[a]
          PROVE  a < SlotSize /\ Granule(a) \in SectorOf(offset)
      BY <1>2, <1>5, <2>1 DEF FlashInv, Contained
    <2>2. offset' = offset /\ op' = "erase" /\ before' = before /\ SectorOf(offset)' = SectorOf(offset)
      BY <1>2 DEF SectorOf
    <2>3. QED
      BY <2>1, <2>2 DEF Contained
  <1>7. QED
    BY <1>4, <1>6

\* The steps of ota_flash_erase_sector keep the invariant.
LEMMA EraseStep ==
  ASSUME FlashInv, EraseFail \/ EraseReady \/ EraseCheck
  PROVE  FlashInv'
  <1>1. TypeOK /\ op = "erase" /\ addr = offset
    BY DEF FlashInv, EraseInv, EraseFail, EraseReady, EraseCheck
  <1>2. addr \in Granules
    BY SectorIn DEF FlashInv, EraseInv, EraseFail, EraseReady, EraseCheck
  <1>3. 0 \in 0 .. SlotSize /\ 0 \in 0 .. Len(data)
    BY <1>1, WholeWords DEF TypeOK
  <1>4. CASE EraseFail
    <2>1. flash' \in [Address -> Cell] /\ Contained'
      BY <1>4, EraseContained DEF EraseFail
    <2>2. TypeOK'
      BY <1>1, <1>3, <1>4, <2>1 DEF TypeOK, EraseFail, Return
    <2>3. EraseInv' /\ WriteInv' /\ RestInv' /\ WriteExact' /\ LockedAtRest' /\ ChecksumOfFlash'
      BY <1>1, <1>4 DEF EraseFail, Return, EraseInv, WriteInv, RestInv, WriteExact, LockedAtRest,
                        ChecksumOfFlash
    <2>4. QED
      BY <2>1, <2>2, <2>3 DEF FlashInv
  <1>5. CASE EraseReady
    <2>1. flash' \in [Address -> Cell] /\ Contained'
      BY <1>5, EraseContained DEF EraseReady
    <2>2. cache' \in [Granules -> {<< >>} \cup [1 .. Word -> Cell]]
      BY <1>1, <1>5 DEF TypeOK, EraseReady, Invalidate
    <2>3. TypeOK'
      BY <1>1, <1>5, <2>1, <2>2 DEF TypeOK, EraseReady
    <2>4. EraseInv'
      BY <1>5 DEF EraseReady, FlashInv, EraseInv
    <2>5. WriteInv' /\ RestInv' /\ WriteExact' /\ LockedAtRest' /\ ChecksumOfFlash'
      BY <1>1, <1>5, Zenon DEF EraseReady, FlashInv, WriteInv, RestInv, WriteExact, LockedAtRest, ChecksumOfFlash
    <2>6. QED
      BY <2>1, <2>3, <2>4, <2>5 DEF FlashInv
  <1>6. CASE EraseCheck
    <2>1. cache' \in [Granules -> {<< >>} \cup [1 .. Word -> Cell]]
      BY <1>1, <1>2, <1>6, ContentType, Zenon DEF TypeOK, EraseCheck, Cached
    <2>2. rc' \in {0, -1}
      BY <1>6 DEF EraseCheck, Return
    <2>3. TypeOK'
      BY <1>1, <1>3, <1>6, <2>1, <2>2, Zenon DEF TypeOK, EraseCheck, Return
    <2>4. EraseInv' /\ WriteInv' /\ RestInv' /\ WriteExact' /\ LockedAtRest' /\ ChecksumOfFlash'
      BY <1>1, <1>6, Zenon DEF EraseCheck, Return, EraseInv, WriteInv, RestInv, WriteExact, LockedAtRest,
                        ChecksumOfFlash
    <2>5. Contained'
      BY <1>6, Zenon DEF EraseCheck, Return, FlashInv, Contained, SectorOf
    <2>6. QED
      BY <2>1, <2>3, <2>4, <2>5 DEF FlashInv
  <1>7. QED
    BY <1>4, <1>5, <1>6

-----------------------------------------------------------------------------
(* Steps of ota_flash_write                                                 *)

Writing == pc \in {"head", "body", "program", "compare"}

\* Where a step of the write loop works: on one double word, which it does not leave.
LEMMA ChunkFacts ==
  ASSUME FlashInv, Writing
  PROVE  /\ addr \in Address /\ addr \in Nat /\ remaining \in Nat /\ offset \in Nat /\ Len(data) \in Nat
         /\ Granule(addr) \in Granules /\ Granule(addr) \in Nat /\ addr % Word = addr - Granule(addr)
         /\ Chunk \in Nat /\ Chunk <= remaining /\ addr + Chunk <= Granule(addr) + Word
         /\ Chunk = remaining \/ addr + Chunk = Granule(addr) + Word
         /\ offset <= addr /\ addr + remaining = offset + Len(data) /\ offset + Len(data) <= SlotSize
         /\ Granule(addr) <= addr /\ addr < Granule(addr) + Word
  <1>1. /\ addr \in 0 .. SlotSize /\ remaining \in 0 .. Len(data) /\ offset \in 0 .. SlotSize
        /\ Len(data) \in Nat /\ SlotSize \in Nat
    BY WholeWords DEF FlashInv, TypeOK
  <1>2. addr \in Address /\ addr \in Nat /\ remaining \in Nat /\ offset \in Nat
    BY <1>1, FlashAssumption DEF Address
  <1>3. /\ Granule(addr) \in Granules /\ Granule(addr) \in Nat /\ addr % Word = addr - Granule(addr)
        /\ Granule(addr) <= addr /\ addr < Granule(addr) + Word
    BY <1>2, GranuleIn, GranuleType
  <1>4. /\ Chunk \in Nat /\ Chunk <= remaining /\ addr + Chunk <= Granule(addr) + Word
        /\ Chunk = remaining \/ addr + Chunk = Granule(addr) + Word
    BY <1>2, <1>3, FlashAssumption DEF Chunk, Min2
  <1>5. offset <= addr /\ addr + remaining = offset + Len(data) /\ offset + Len(data) <= SlotSize
    BY DEF FlashInv, WriteInv, Writing
  <1>6. QED
    BY <1>1, <1>2, <1>3, <1>4, <1>5

\* The flash with a part of the data in it is a flash.
LEMMA WrittenType ==
  ASSUME TypeOK, NEW n \in Nat, n <= offset + Len(data)
  PROVE  Written(n) \in [Address -> Cell]
  <1>1. offset \in Nat /\ Len(data) \in Nat
    BY WholeWords DEF TypeOK
  <1>2. ASSUME NEW a \in Address, a \in offset .. n - 1 PROVE data[a - offset + 1] \in Cell
    <2>1. a - offset + 1 \in 1 .. Len(data)
      BY <1>1, <1>2
    <2>2. QED
      BY <2>1 DEF TypeOK, Cell
  <1>3. \A a \in Address : (IF a \in offset .. n - 1 THEN data[a - offset + 1] ELSE before[a]) \in Cell
    BY <1>2 DEF TypeOK
  <1>4. QED
    BY <1>1, <1>2, <1>3 DEF Written

\* A step changes what is to be in the flash only inside its double word.
LEMMA WrittenBeside ==
  ASSUME FlashInv, Writing, NEW a \in Address, a < addr \/ addr + Chunk <= a
  PROVE  Written(addr + Chunk)[a] = Written(addr)[a]
  <1>1. a \in Nat
    BY GranuleIn
  <1>2. addr \in Nat /\ offset \in Nat /\ Chunk \in Nat
    BY ChunkFacts
  <1>3. a \in offset .. addr + Chunk - 1 <=> a \in offset .. addr - 1
    BY <1>1, <1>2
  <1>4. QED
    BY <1>1, <1>2, <1>3 DEF Written

\* The double word ota_flash_write puts together is the one that is to be in the flash.
LEMMA SpliceIsNext ==
  ASSUME FlashInv, Writing, NEW w,
         \A i \in 1 .. Word : i - 1 - (addr % Word) \notin 0 .. Chunk - 1
                                => w[i] = Written(addr)[Granule(addr) + i - 1]
  PROVE  Splice(w) = NextWord
  <1>1. ASSUME NEW i \in 1 .. Word
        PROVE  Splice(w)[i] = NextWord[i]
    <2> DEFINE a == Granule(addr) + i - 1
               k == i - 1 - (addr % Word)
    <2>1. /\ a \in Address /\ a \in Nat /\ k = a - addr /\ a - offset + 1 = addr - offset + k + 1
          /\ addr \in Nat /\ Chunk \in Nat /\ offset \in Nat /\ offset <= addr
      <3>1. /\ Granule(addr) \in Nat /\ Granule(addr) \in Granules /\ addr \in Nat /\ Chunk \in Nat
            /\ offset \in Nat /\ offset <= addr /\ addr % Word = addr - Granule(addr)
        BY ChunkFacts, Zenon
      <3> DEFINE g == Granule(addr)
                 r == addr % Word
      <3>2. /\ g \in Nat /\ g <= SlotSize /\ addr \in Nat /\ r = addr - g /\ offset \in Nat
            /\ SlotSize \in Nat /\ Word \in Nat
        BY <3>1, GranuleType, WholeWords, FlashAssumption
      <3> HIDE DEF g, r
      <3>3. /\ g + i - 1 \in 0 .. SlotSize + Word - 1 /\ g + i - 1 \in Nat /\ i - 1 - r = g + i - 1 - addr
            /\ g + i - 1 - offset + 1 = addr - offset + (i - 1 - r) + 1
        BY <3>2
      <3>4. QED
        BY <3>1, <3>3 DEF Address, g, r
    <2>2. NextWord[i] = Written(addr + Chunk)[a]
      BY DEF NextWord
    <2>3. Splice(w)[i] = IF k \in 0 .. Chunk - 1 THEN data[addr - offset + k + 1] ELSE w[i]
      BY DEF Splice
    <2> HIDE DEF a, k
    <2>4. CASE k \in 0 .. Chunk - 1
      <3>1. a \in offset .. addr + Chunk - 1
        BY <2>1, <2>4
      <3>2. QED
        BY <2>1, <2>2, <2>3, <2>4, <3>1 DEF Written
    <2>5. CASE k \notin 0 .. Chunk - 1
      <3>1. a < addr \/ addr + Chunk <= a
        BY <2>1, <2>5
      <3>2. w[i] = Written(addr)[a]
        BY <2>5 DEF a, k
      <3>3. QED
        BY <2>1, <2>2, <2>3, <2>5, <3>1, <3>2, WrittenBeside
    <2>6. QED
      BY <2>4, <2>5
  <1>2. QED
    BY <1>1, Zenon DEF Splice, NextWord

\* A programming step changes bytes only in double words of the range of the call.
LEMMA WriteContained ==
  ASSUME FlashInv, pc = "program", FmcProgram(Granule(addr), buf),
         UNCHANGED << before, op, offset, data >>
  PROVE  /\ flash' \in [Address -> Cell] /\ Contained'
         /\ \A a \in Address : Granule(a) # Granule(addr) => flash'[a] = Written(addr)[a]
  <1>1. TypeOK /\ Writing /\ buf = NextWord /\ flash = Written(addr) /\ op = "write"
    BY DEF FlashInv, WriteInv, Writing
  <1>2. Granule(addr) < offset + Len(data) /\ offset + Len(data) <= SlotSize
    BY DEF FlashInv, WriteInv
  <1>3. buf \in [1 .. Word -> Cell]
    <2>1. buf # << >>
      <3>1. 1 \in DOMAIN NextWord
        BY FlashAssumption DEF NextWord
      <3>2. DOMAIN << >> = {}
        OBVIOUS
      <3>3. QED
        BY <1>1, <3>1, <3>2
    <2>2. QED
      BY <1>1, <2>1 DEF TypeOK
  <1>4. /\ flash' \in [Address -> Cell]
        /\ \A a \in Address : Granule(a) # Granule(addr) => flash'[a] = flash[a]
    BY <1>1, <1>3, ChunkFacts, ProgramEffect, Zenon
  <1>5. ASSUME NEW a \in Address, flash'[a] # before[a]
        PROVE  a < SlotSize /\ Granule(offset) <= a /\ Granule(a) < offset + Len(data)
    <2>1. CASE flash[a] # before[a]
      BY <1>1, <2>1, Zenon DEF FlashInv, Contained
    <2>2. CASE flash'[a] # flash[a]
      <3>1. Granule(a) = Granule(addr)
        BY <1>4, <2>2
      <3>2. /\ addr \in Address /\ offset \in Nat /\ offset <= addr /\ Len(data) \in Nat
            /\ Granule(addr) \in Granules /\ Granule(addr) \in Nat
        BY <1>1, ChunkFacts
      <3>3. offset \in Address
        BY <3>2, WholeWords, FlashAssumption DEF Address
      <3>4. Granule(offset) <= Granule(addr) /\ Granule(offset) \in Nat
        BY <3>2, <3>3, GranuleMonotone, GranuleIn, GranuleType
      <3>5. Granule(addr) + Word <= SlotSize
        BY <1>2, <3>2, WholeWords, GranuleBelow, SMTT(20)
      <3>6. a \in Nat /\ Granule(addr) <= a /\ a < Granule(addr) + Word
        BY <3>1, GranuleIn, Zenon
      <3>7. QED
        BY <1>2, <3>1, <3>2, <3>4, <3>5, <3>6, WholeWords, FlashAssumption
    <2>3. QED
      BY <1>5, <2>1, <2>2, Zenon
  <1>6. Contained'
    BY <1>1, <1>5, Zenon DEF Contained
  <1>7. QED
    BY <1>1, <1>4, <1>6

\* A double word is put together from the flash, past the cache, and from the data.
LEMMA ComposeStep ==
  ASSUME FlashInv, WritePart \/ WriteWord
  PROVE  FlashInv'
  <1>1. TypeOK /\ Writing /\ op = "write" /\ flash = Written(addr) /\ pc \in {"head", "body"}
    BY Zenon DEF FlashInv, WriteInv, Writing, WritePart, WriteWord
  <1> DEFINE g == Granule(addr)
  <1>2. g \in Granules /\ Content(g) \in [1 .. Word -> Cell]
    BY <1>1, ChunkFacts, ContentType
  <1>3. buf' = NextWord
    <2>1. CASE WritePart
      <3>1. \A i \in 1 .. Word : Content(g)[i] = Written(addr)[g + i - 1]
        BY <1>1 DEF Content
      <3>2. buf' = Splice(Content(g))
        BY <2>1 DEF WritePart
      <3>3. QED
        BY <1>1, <3>1, <3>2, SpliceIsNext, Zenon
    <2>2. CASE WriteWord
      <3>1. addr % Word = 0 /\ remaining >= Word
        BY <2>2, FlashAssumption DEF WriteWord, FlashInv, WriteInv
      <3>2. Chunk = Word
        BY <1>1, <3>1, ChunkFacts, FlashAssumption DEF Chunk, Min2
      <3>3. \A i \in 1 .. Word : i - 1 - (addr % Word) \in 0 .. Chunk - 1
        BY <3>1, <3>2, FlashAssumption
      <3>4. buf' = Splice(<< >>)
        BY <2>2 DEF WriteWord
      <3>5. QED
        BY <1>1, <3>3, <3>4, SpliceIsNext
    <2>3. QED
      BY <2>1, <2>2
  <1>4. NextWord \in [1 .. Word -> Cell]
    <2>1. addr + Chunk \in Nat /\ addr + Chunk <= offset + Len(data)
      BY <1>1, ChunkFacts
    <2>2. Written(addr + Chunk) \in [Address -> Cell]
      BY <1>1, <2>1, WrittenType
    <2>3. \A i \in 1 .. Word : g + i - 1 \in Address
      BY <1>2, GranuleType, WholeWords, FlashAssumption, SMTT(20) DEF Address
    <2>4. QED
      BY <2>2, <2>3 DEF NextWord
  <1>5. cache' \in [Granules -> {<< >>} \cup [1 .. Word -> Cell]]
    <2>1. CASE WriteWord
      BY <1>1, <2>1 DEF WriteWord, TypeOK
    <2>2. CASE WritePart
      BY <1>1, <1>2, <2>2 DEF WritePart, TypeOK, Cached, Invalidate
    <2>3. QED
      BY <2>1, <2>2
  <1>6. /\ UNCHANGED << flash, locked, op, offset, data, addr, remaining, rc, read, calls, before >>
        /\ pc' = "program"
    BY DEF WritePart, WriteWord
  <1>7. TypeOK'
    BY <1>1, <1>3, <1>4, <1>5, <1>6 DEF TypeOK
  <1>8. WriteInv'
    <2>1. Written(addr)' = Written(addr) /\ NextWord' = NextWord /\ Granule(addr)' = Granule(addr)
      BY <1>6 DEF Written, NextWord, Chunk, Granule
    <2>2. g < addr + remaining
      <3>1. CASE pc = "head"
        BY <1>1, <3>1, ChunkFacts DEF FlashInv, WriteInv
      <3>2. CASE remaining > 0
        BY <1>1, <3>2, ChunkFacts
      <3>3. pc = "head" \/ remaining > 0
        <4>1. pc = "head" \/ remaining \in 1 .. Word - 1 \/ remaining >= Word
          BY Zenon DEF WritePart, WriteWord
        <4>2. remaining \in Nat /\ Word \in Nat /\ Word > 0
          BY <1>1, ChunkFacts, FlashAssumption
        <4>3. QED
          BY <4>1, <4>2
      <3>4. QED
        BY <3>1, <3>2, <3>3
    <2>3. QED
      BY <1>1, <1>3, <1>6, <2>1, <2>2 DEF FlashInv, WriteInv
  <1>9. EraseInv' /\ RestInv' /\ WriteExact' /\ LockedAtRest' /\ ChecksumOfFlash'
    BY <1>1, <1>6 DEF FlashInv, EraseInv, RestInv, WriteExact, LockedAtRest, ChecksumOfFlash
  <1>10. Contained'
    BY <1>6 DEF FlashInv, Contained, SectorOf
  <1>11. QED
    BY <1>7, <1>8, <1>9, <1>10 DEF FlashInv

\* A double word is programmed; the copy in the cache is gone when the controller is ready.
LEMMA ProgramStep ==
  ASSUME FlashInv, ProgramFail \/ ProgramReady
  PROVE  FlashInv'
  <1> DEFINE g == Granule(addr)
  <1>1. TypeOK /\ Writing /\ op = "write" /\ pc = "program" /\ buf = NextWord
    BY DEF FlashInv, WriteInv, Writing, ProgramFail, ProgramReady
  <1>2. UNCHANGED << op, offset, data, read, calls, before >> /\ FmcProgram(g, buf)
    BY Zenon DEF ProgramFail, ProgramReady
  <1>3. /\ flash' \in [Address -> Cell] /\ Contained'
        /\ \A a \in Address : Granule(a) # g => flash'[a] = Written(addr)[a]
    BY <1>1, <1>2, WriteContained
  <1>4. g \in Granules /\ addr \in 0 .. SlotSize /\ 0 \in 0 .. SlotSize /\ 0 \in 0 .. Len(data)
    BY <1>1, ChunkFacts, WholeWords DEF TypeOK
  <1>5. CASE ProgramFail
    <2>1. cache' \in [Granules -> {<< >>} \cup [1 .. Word -> Cell]]
      <3>1. cache' = cache \/ cache' = [cache EXCEPT ![g] = buf]
        BY <1>5 DEF ProgramFail, Cached
      <3>2. QED
        BY <1>1, <3>1, Zenon DEF TypeOK
    <2>2. TypeOK'
      BY <1>1, <1>3, <1>4, <1>5, <2>1 DEF TypeOK, ProgramFail, Return
    <2>3. EraseInv' /\ WriteInv' /\ RestInv' /\ WriteExact' /\ LockedAtRest' /\ ChecksumOfFlash'
      BY <1>1, <1>5 DEF ProgramFail, Return, EraseInv, WriteInv, RestInv, WriteExact, LockedAtRest,
                        ChecksumOfFlash
    <2>4. QED
      BY <1>3, <2>2, <2>3 DEF FlashInv
  <1>6. CASE ProgramReady
    <2>1. cache' \in [Granules -> {<< >>} \cup [1 .. Word -> Cell]] /\ cache'[g] = << >>
      BY <1>1, <1>4, <1>6 DEF TypeOK, ProgramReady, Invalidate
    <2>2. TypeOK'
      BY <1>1, <1>3, <1>6, <2>1, Zenon DEF TypeOK, ProgramReady
    <2>3. UNCHANGED << addr, remaining, buf, locked, rc >> /\ pc' = "compare"
      BY <1>6 DEF ProgramReady
    <2>4. WriteInv'
      <3>1. /\ Written(addr)' = Written(addr) /\ NextWord' = NextWord
            /\ \A a \in Address : Granule(a)' = Granule(a)
            /\ Granule(addr)' = g
        BY <1>2, <2>3 DEF Written, NextWord, Chunk, Granule
      <3>2. \A a \in Address : Granule(a)' # Granule(addr)' => flash'[a] = Written(addr)'[a]
        BY <1>3, <3>1
      <3>3. cache'[Granule(addr)'] \in {<< >>, Content(Granule(addr))'}
        BY <2>1, <3>1
      <3>4. g < addr + remaining
        BY <1>1 DEF FlashInv, WriteInv
      <3>5. QED
        BY <1>1, <1>2, <2>3, <3>1, <3>2, <3>3, <3>4 DEF FlashInv, WriteInv
    <2>5. EraseInv' /\ RestInv' /\ WriteExact' /\ LockedAtRest' /\ ChecksumOfFlash'
      BY <1>1, <1>2, <2>3, Zenon DEF FlashInv, EraseInv, RestInv, WriteExact, LockedAtRest, ChecksumOfFlash
    <2>6. QED
      BY <1>3, <2>2, <2>4, <2>5 DEF FlashInv
  <1>7. QED
    BY <1>5, <1>6

\* The double word is read back: what the core loads is in the flash.
LEMMA LoadIsContent ==
  ASSUME FlashInv, pc = "compare"
  PROVE  Load(Granule(addr)) = Content(Granule(addr))
  BY DEF FlashInv, WriteInv, Load

\* A double word that reads back as it was meant to be completes a step of the write.
LEMMA MatchWritten ==
  ASSUME FlashInv, ProgramMatch
  PROVE  flash = Written(addr + Chunk)
  <1> DEFINE g == Granule(addr)
  <1>1. TypeOK /\ Writing /\ pc = "compare"
    BY DEF FlashInv, Writing, ProgramMatch
  <1>2. Content(g) = NextWord
    BY <1>1, LoadIsContent DEF FlashInv, WriteInv, ProgramMatch
  <1>3. /\ addr \in Nat /\ Chunk \in Nat /\ g \in Granules /\ g \in Nat
        /\ addr + Chunk <= g + Word /\ g <= addr /\ addr + Chunk <= offset + Len(data)
    BY <1>1, ChunkFacts
  <1>4. ASSUME NEW a \in Address PROVE flash[a] = Written(addr + Chunk)[a]
    <2>1. CASE Granule(a) = g
      <3>1. a - g + 1 \in 1 .. Word /\ g + (a - g + 1) - 1 = a
        <4>1. a \in Nat /\ g <= a /\ a < g + Word
          BY <2>1, GranuleIn
        <4>2. QED
          BY <1>3, <4>1, FlashAssumption, SMTT(20)
      <3>2. Content(g)[a - g + 1] = flash[g + (a - g + 1) - 1]
        BY <3>1 DEF Content
      <3>3. NextWord[a - g + 1] = Written(addr + Chunk)[g + (a - g + 1) - 1]
        BY <3>1 DEF NextWord
      <3>4. QED
        BY <1>2, <3>1, <3>2, <3>3
    <2>2. CASE Granule(a) # g
      <3>1. flash[a] = Written(addr)[a]
        BY <1>1, <2>2 DEF FlashInv, WriteInv
      <3>2. a < addr \/ addr + Chunk <= a
        <4>1. a \in Nat /\ ~(g <= a /\ a < g + Word)
          BY <1>3, <2>2, GranuleSame, GranuleIn
        <4>2. QED
          BY <1>3, <4>1, FlashAssumption
      <3>3. QED
        BY <1>1, <3>1, <3>2, WrittenBeside
    <2>3. QED
      BY <2>1, <2>2
  <1>5. flash \in [Address -> Cell] /\ Written(addr + Chunk) \in [Address -> Cell]
    BY <1>1, <1>3, WrittenType DEF TypeOK
  <1>6. QED
    BY <1>4, <1>5

\* The comparison ends the call, or a step of it.
LEMMA CompareStep ==
  ASSUME FlashInv, ProgramMismatch \/ ProgramMatch
  PROVE  FlashInv'
  <1> DEFINE g == Granule(addr)
  <1>1. TypeOK /\ Writing /\ op = "write" /\ pc = "compare"
    BY DEF FlashInv, WriteInv, Writing, ProgramMismatch, ProgramMatch
  <1>2. UNCHANGED << flash, op, offset, data, read, calls, before >> /\ cache' = Cached(cache, g, Load(g))
    BY DEF ProgramMismatch, ProgramMatch
  <1>3. cache' \in [Granules -> {<< >>} \cup [1 .. Word -> Cell]]
    BY <1>1, <1>2, ChunkFacts, ContentType, Zenon DEF TypeOK, Cached
  <1>4. Contained'
    BY <1>2 DEF FlashInv, Contained, SectorOf
  <1>5. CASE ProgramMismatch
    <2>1. 0 \in 0 .. SlotSize /\ 0 \in 0 .. Len(data)
      BY <1>1, ChunkFacts, WholeWords
    <2>2. TypeOK'
      BY <1>1, <1>2, <1>3, <1>5, <2>1 DEF TypeOK, ProgramMismatch, Return
    <2>3. EraseInv' /\ WriteInv' /\ RestInv' /\ WriteExact' /\ LockedAtRest' /\ ChecksumOfFlash'
      BY <1>1, <1>2, <1>5 DEF ProgramMismatch, Return, EraseInv, WriteInv, RestInv, WriteExact,
                              LockedAtRest, ChecksumOfFlash
    <2>4. QED
      BY <1>4, <2>2, <2>3 DEF FlashInv
  <1>6. CASE ProgramMatch
    <2>1. /\ UNCHANGED << locked, buf, rc >> /\ pc' = "body"
          /\ addr' = addr + Chunk /\ remaining' = remaining - Chunk
      BY <1>6 DEF ProgramMatch, Advance
    <2>2. /\ addr \in Nat /\ remaining \in Nat /\ offset \in Nat /\ Len(data) \in Nat /\ SlotSize \in Nat
          /\ Chunk \in Nat /\ Chunk <= remaining /\ offset <= addr
          /\ addr + remaining = offset + Len(data) /\ offset + Len(data) <= SlotSize
      BY <1>1, ChunkFacts, WholeWords
    <2>3. /\ addr' \in 0 .. SlotSize /\ remaining' \in 0 .. Len(data) /\ offset <= addr'
          /\ addr' + remaining' = offset + Len(data)
      BY <2>1, <2>2
    <2>4. TypeOK'
      BY <1>1, <1>2, <1>3, <2>1, <2>3, Zenon DEF TypeOK
    <2>5. remaining' = 0 \/ addr' % Word = 0
      <3>1. CASE Chunk = remaining
        BY <2>1, <2>2, <3>1
      <3>2. CASE addr + Chunk = g + Word
        <4>1. PICK q \in Nat : g = Word * q
          BY <1>1, ChunkFacts, GranuleType
        <4>2. g + Word = Word * (q + 1) /\ q + 1 \in Nat
          BY <4>1, FlashAssumption
        <4>3. QED
          BY <2>1, <3>2, <4>2, Multiple
      <3>3. QED
        BY <1>1, <3>1, <3>2, ChunkFacts
    <2>6. flash' = Written(addr)'
      BY <1>2, <1>6, <2>1, MatchWritten DEF Written
    <2>7. WriteInv'
      BY <1>1, <1>2, <2>1, <2>2, <2>3, <2>5, <2>6 DEF WriteInv
    <2>8. EraseInv' /\ RestInv' /\ WriteExact' /\ LockedAtRest' /\ ChecksumOfFlash'
      BY <1>1, <1>2, <2>1, Zenon DEF FlashInv, EraseInv, RestInv, WriteExact, LockedAtRest, ChecksumOfFlash
    <2>9. QED
      BY <1>4, <2>4, <2>7, <2>8 DEF FlashInv
  <1>7. QED
    BY <1>5, <1>6

\* When nothing remains, all of the data is in the flash.
LEMMA DoneStep ==
  ASSUME FlashInv, WriteDone
  PROVE  FlashInv'
  <1>1. TypeOK /\ Writing /\ op = "write" /\ flash = Written(addr) /\ remaining = 0
    BY DEF FlashInv, WriteInv, Writing, WriteDone
  <1>2. UNCHANGED << flash, cache, op, offset, data, read, calls, before >> /\ Return(0)
    BY DEF WriteDone
  <1>3. /\ addr = offset + Len(data) /\ 0 \in 0 .. Len(data) /\ 0 \in 0 .. SlotSize
        /\ addr \in Nat /\ offset \in Nat /\ Len(data) \in Nat
    BY <1>1, ChunkFacts, WholeWords
  <1>4. TypeOK'
    BY <1>1, <1>2, <1>3 DEF TypeOK, Return
  <1>5. WriteExact'
    <2>1. Range = offset .. addr - 1
      BY <1>3 DEF Range
    <2>2. flash = [a \in Address |-> IF a \in Range THEN data[a - offset + 1] ELSE before[a]]
      BY <1>1, <2>1 DEF Written
    <2>3. Range' = Range
      BY <1>2 DEF Range
    <2>4. QED
      BY <1>2, <2>2, <2>3 DEF WriteExact
  <1>6. Contained'
    BY <1>2 DEF FlashInv, Contained, SectorOf
  <1>7. EraseInv' /\ WriteInv' /\ RestInv' /\ LockedAtRest' /\ ChecksumOfFlash'
    BY <1>1, <1>2 DEF Return, EraseInv, WriteInv, RestInv, LockedAtRest, ChecksumOfFlash
  <1>8. QED
    BY <1>4, <1>5, <1>6, <1>7 DEF FlashInv

\* A step that leaves the flash and the arguments of the call alone leaves what is to be written alone.
LEMMA SameWords ==
  ASSUME UNCHANGED << flash, offset, data, addr, remaining, before >>
  PROVE  /\ Written(addr)' = Written(addr) /\ NextWord' = NextWord /\ Granule(addr)' = Granule(addr)
         /\ Content(Granule(addr))' = Content(Granule(addr))
         /\ \A a \in Address : Granule(a)' = Granule(a)
  <1>1. Granule(addr)' = Granule(addr) /\ \A a \in Address : Granule(a)' = Granule(a)
    BY DEF Granule
  <1>2. Content(Granule(addr))' = Content(Granule(addr))
    BY <1>1, Zenon DEF Content
  <1>3. Chunk' = Chunk
    BY Zenon DEF Chunk
  <1>4. Written(addr)' = Written(addr)
    BY Zenon DEF Written
  <1>5. Written(addr + Chunk)' = Written(addr + Chunk)
    BY <1>3, Zenon DEF Written
  <1>6. NextWord' = NextWord
    BY <1>1, <1>5, Zenon DEF NextWord
  <1>7. QED
    BY <1>1, <1>2, <1>4, <1>6

\* What the core fetches on its own is what the flash holds.
LEMMA PrefetchStep ==
  ASSUME FlashInv, NEW g \in Granules, Prefetch(g)
  PROVE  FlashInv'
  <1>1. /\ UNCHANGED << flash, locked, pc, op, offset, data, addr, remaining, buf, rc, read, calls, before >>
        /\ cache' = [cache EXCEPT ![g] = Content(g)]
    BY DEF Prefetch, Cached
  <1>2. TypeOK
    BY DEF FlashInv
  <1>3. cache' \in [Granules -> {<< >>} \cup [1 .. Word -> Cell]]
    BY <1>1, <1>2, ContentType DEF TypeOK
  <1>4. TypeOK'
    BY <1>1, <1>2, <1>3 DEF TypeOK
  <1>5. ASSUME pc = "compare"
        PROVE  cache'[Granule(addr)] \in {<< >>, Content(Granule(addr))}
    <2>1. cache[Granule(addr)] \in {<< >>, Content(Granule(addr))}
      BY <1>5 DEF FlashInv, WriteInv
    <2>2. Granule(addr) \in Granules
      BY <1>5, ChunkFacts DEF Writing
    <2>3. QED
      BY <1>1, <1>2, <2>1, <2>2 DEF TypeOK
  <1>6. WriteInv'
    <2>1. /\ Written(addr)' = Written(addr) /\ NextWord' = NextWord /\ Granule(addr)' = Granule(addr)
          /\ Content(Granule(addr))' = Content(Granule(addr))
          /\ \A a \in Address : Granule(a)' = Granule(a)
      BY <1>1, SameWords
    <2>2. pc = "compare" =>
             /\ \A a \in Address : Granule(a)' # Granule(addr)' => flash'[a] = Written(addr)'[a]
             /\ cache'[Granule(addr)'] \in {<< >>, Content(Granule(addr))'}
      BY <1>1, <1>5, <2>1 DEF FlashInv, WriteInv
    <2>3. QED
      BY <1>1, <2>1, <2>2 DEF FlashInv, WriteInv
  <1>7. EraseInv' /\ RestInv' /\ LockedAtRest'
    BY <1>1 DEF FlashInv, EraseInv, RestInv, LockedAtRest
  <1>8. WriteExact' /\ Contained' /\ ChecksumOfFlash'
    BY <1>1, Zenon DEF FlashInv, WriteExact, Contained, ChecksumOfFlash, Range, SectorOf
  <1>9. QED
    BY <1>4, <1>6, <1>7, <1>8 DEF FlashInv

-----------------------------------------------------------------------------
(* Theorems                                                                 *)

\* Every step of the driver, of its callers and of the cache keeps the invariant.
THEOREM FlashInvariance == Spec => []FlashInv
  <1>1. FlashInv /\ [Next]_vars => FlashInv'
    <2> SUFFICES ASSUME FlashInv, [Next]_vars PROVE FlashInv'
      OBVIOUS
    <2>1. CASE Driver
      BY <2>1, EraseStep, ComposeStep, ProgramStep, CompareStep, DoneStep DEF Driver
    <2>2. ASSUME NEW i \in 0 .. Sectors, EraseRefuse(i) \/ EraseCall(i) PROVE FlashInv'
      <3>1. CASE EraseCall(i)
        BY <3>1, EraseCallStep
      <3>2. CASE EraseRefuse(i)
        <4>1. i = Sectors
          <5>1. CASE i \in 0 .. Sectors - 1
            <6>1. i * SectorSize + SectorSize <= SlotSize /\ i * SectorSize \in Nat
              BY <5>1, SectorIn, GranuleType
            <6>2. QED
              BY <3>2, <6>1, WholeWords, FlashAssumption DEF EraseRefuse
          <5>2. QED
            BY <5>1, FlashAssumption
        <4>2. i * SectorSize \in 0 .. SlotSize
          <5>1. i * SectorSize = SlotSize
            BY <4>1 DEF SlotSize
          <5>2. QED
            BY <5>1, WholeWords
        <4>3. Refuse("erase", i * SectorSize, << >>) /\ << >> \in Seq(Byte)
          BY <3>2 DEF EraseRefuse
        <4>4. QED
          BY <4>2, <4>3, RefuseStep, Zenon
      <3>3. QED
        BY <2>2, <3>1, <3>2
    <2>3. ASSUME NEW off \in 0 .. SlotSize, NEW d \in Datas, WriteRefuse(off, d) \/ WriteCall(off, d)
          PROVE  FlashInv'
      <3>1. d \in Seq(Byte)
        BY FlashAssumption
      <3>2. QED
        BY <2>3, <3>1, RefuseStep, WriteCallStep DEF WriteRefuse
    <2>4. ASSUME NEW len \in 1 .. SlotSize, Crc(len) PROVE FlashInv'
      BY <2>4, CrcStep
    <2>5. ASSUME NEW g \in Granules, Prefetch(g) PROVE FlashInv'
      BY <2>5, PrefetchStep
    <2>6. CASE UNCHANGED vars
      <3>1. TypeOK'
        BY <2>6, Zenon DEF FlashInv, TypeOK, vars
      <3>2. EraseInv' /\ WriteInv' /\ RestInv'
        <4>1. UNCHANGED << flash, cache, pc, op, offset, data, addr, remaining, buf, before >>
          BY <2>6, Zenon DEF vars
        <4>2. EraseInv' /\ RestInv'
          BY <4>1, Zenon DEF FlashInv, EraseInv, RestInv
        <4>3. /\ Written(addr)' = Written(addr) /\ NextWord' = NextWord /\ Granule(addr)' = Granule(addr)
              /\ Content(Granule(addr))' = Content(Granule(addr))
              /\ \A a \in Address : Granule(a)' = Granule(a)
          BY <4>1, SameWords
        <4>4. WriteInv'
          BY <4>1, <4>3, Zenon DEF FlashInv, WriteInv
        <4>5. QED
          BY <4>2, <4>4
      <3>3. WriteExact' /\ Contained' /\ LockedAtRest' /\ ChecksumOfFlash'
        BY <2>6, Zenon DEF FlashInv, WriteExact, Contained, LockedAtRest, ChecksumOfFlash, vars, Range, SectorOf
      <3>4. QED
        BY <3>1, <3>2, <3>3 DEF FlashInv
    <2>7. QED
      BY <2>1, <2>2, <2>3, <2>4, <2>5, <2>6 DEF Next, Caller
  <1>2. QED
    BY <1>1, FlashInit, PTL DEF Spec

\* ota_flash_write returns 0 only when the flash holds the data and is otherwise as it was, for every
\* size of double word, every offset and every length.
THEOREM WriteIsExact == Spec => []WriteExact
  <1>1. FlashInv => WriteExact
    BY DEF FlashInv
  <1>2. QED
    BY <1>1, FlashInvariance, PTL

\* At no moment of a call, failing ones included, do bytes differ outside the call's sector or double
\* words, or outside the slot.
THEOREM CallIsContained == Spec => []Contained
  <1>1. FlashInv => Contained
    BY DEF FlashInv
  <1>2. QED
    BY <1>1, FlashInvariance, PTL

\* No path of the driver leaves the FMC unlocked.
THEOREM LockedBetweenCalls == Spec => []LockedAtRest
  <1>1. FlashInv => LockedAtRest
    BY DEF FlashInv
  <1>2. QED
    BY <1>1, FlashInvariance, PTL

\* ota_flash_crc32 goes over the bytes of the flash, whatever the cache held.
THEOREM ChecksumIsOfFlash == Spec => []ChecksumOfFlash
  <1>1. FlashInv => ChecksumOfFlash
    BY DEF FlashInv
  <1>2. QED
    BY <1>1, FlashInvariance, PTL
=============================================================================
