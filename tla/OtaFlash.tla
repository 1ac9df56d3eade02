------------------------------ MODULE OtaFlash ------------------------------
(***************************************************************************)
(* The flash driver of the update server (App/ota/ota_flash.c): erasing a  *)
(* sector, programming a range of bytes through double words, and reading  *)
(* the slot back for its checksum, on a flash controller (FMC) that may    *)
(* fail and behind a data cache that may be stale.                         *)
(*                                                                         *)
(* Addresses are relative to SECONDARY_SLOT_ADDR, which is aligned to a    *)
(* sector.  One double word beyond the slot is modelled as well.  The      *)
(* functions run in one task: only the cache moves on its own.             *)
(***************************************************************************)
EXTENDS Integers, Sequences, FiniteSets

CONSTANTS
    Word,           \* bytes of a double word, FLASH_WRITE_ALIGN
    SectorSize,     \* FLASH_SECTOR_SIZE
    Sectors,        \* SECONDARY_SLOT_SIZE / FLASH_SECTOR_SIZE
    Byte,           \* values of a programmed byte
    Erased,         \* 0xFF
    Garbage,        \* a byte after an operation that went wrong
    Datas,          \* the buffers callers pass
    MaxCalls        \* bound on the number of calls

SlotSize == Sectors * SectorSize
Address == 0 .. SlotSize + Word - 1
Granules == {a \in Address : a % Word = 0}
Cell == Byte \cup {Erased, Garbage}

ASSUME FlashAssumption ==
    /\ Word \in Nat \ {0, 1}
    /\ Sectors \in Nat \ {0}
    /\ SectorSize \in Nat \ {0} /\ SectorSize % Word = 0
    /\ {Erased, Garbage} \cap Byte = {}
    /\ Datas \subseteq Seq(Byte)
    /\ MaxCalls \in Nat

VARIABLES
    flash,
    cache,                  \* the double words in the data cache; << >> is a miss
    locked,                 \* the lock of the FMC
    pc,
    op, offset, data,       \* the running (or last) call and its arguments
    addr, remaining,        \* the progress of ota_flash_write
    buf,                    \* the double word being programmed
    rc,                     \* what the last call returned
    read,                   \* the bytes ota_flash_crc32 last went over
    calls, before           \* history: calls so far, flash when the call started

vars == << flash, cache, locked, pc, op, offset, data, addr, remaining, buf, rc, read, calls, before >>

Init ==
    /\ flash \in {[a \in Address |-> b] : b \in Byte \cup {Erased}}
    /\ cache = [g \in Granules |-> << >>]
    /\ locked = TRUE
    /\ pc = "idle"
    /\ op = "none"
    /\ offset = 0
    /\ data = << >>
    /\ addr = 0
    /\ remaining = 0
    /\ buf = << >>
    /\ rc = 0
    /\ read = << >>
    /\ calls = 0
    /\ before = flash

Min2(a, b) == IF a < b THEN a ELSE b
Granule(a) == a - (a % Word)

-----------------------------------------------------------------------------
(* The flash controller and the cache                                       *)

Content(g) == [i \in 1 .. Word |-> flash[g + i - 1]]

\* what the core reads
Load(g) == IF cache[g] = << >> THEN Content(g) ELSE cache[g]

\* mutant: the cache is left alone
InvalidateNothing(G) == cache

\* SCB_InvalidateDCache_by_Addr
Invalidate(G) == [g \in Granules |-> IF g \in G THEN << >> ELSE cache[g]]

\* the cache with a double word the core loaded or stored
Cached(c, g, w) == [c EXCEPT ![g] = w]

SectorOf(a) == {g \in Granules : a <= g /\ g < a + SectorSize}

\* The core may fetch a double word at any time.
Prefetch(g) ==
    /\ cache[g] = << >>
    /\ cache' = Cached(cache, g, Content(g))
    /\ UNCHANGED << flash, locked, pc, op, offset, data, addr, remaining, buf, rc, read, calls, before >>

\* fmc_sector_erase leaves the sector erased, erased in part, or as it was.
FmcErase(a) ==
    \E G \in {{}, {a}, SectorOf(a)} :
        flash' = [x \in Address |-> IF Granule(x) \in G THEN Erased ELSE flash[x]]

\* fmc_doubleword_program stores the double word, leaves the old one, or leaves
\* neither; a cached copy takes the new value whatever happens in the flash.
FmcProgram(g, w) ==
    /\ \E v \in {w, Content(g), [i \in 1 .. Word |-> Garbage]} :
          flash' = [x \in Address |-> IF Granule(x) = g THEN v[x - g + 1] ELSE flash[x]]

-----------------------------------------------------------------------------
(* ota_flash.c                                                              *)

\* the end of every path: the flags are cleared, the FMC is locked, locals go
Return(result) ==
    /\ locked' = TRUE
    /\ addr' = 0
    /\ remaining' = 0
    /\ buf' = << >>
    /\ rc' = result
    /\ pc' = "idle"

Call(name, off, d) ==
    /\ pc = "idle"
    /\ calls < MaxCalls
    /\ calls' = calls + 1
    /\ op' = name
    /\ offset' = off
    /\ data' = d
    /\ before' = flash

\* a call with arguments outside the slot
Refuse(name, off, d) ==
    /\ Call(name, off, d)
    /\ rc' = -1
    /\ UNCHANGED << flash, cache, locked, pc, addr, remaining, buf, read >>

EraseRefuse(i) ==
    /\ i * SectorSize >= SlotSize
    /\ Refuse("erase", i * SectorSize, << >>)

EraseCall(i) ==
    /\ i * SectorSize < SlotSize
    /\ Call("erase", i * SectorSize, << >>)
    /\ addr' = i * SectorSize
    /\ locked' = FALSE
    /\ pc' = "erase"
    /\ UNCHANGED << flash, cache, remaining, buf, rc, read >>

\* the FMC reports an error
EraseFail ==
    /\ pc = "erase"
    /\ FmcErase(addr)
    /\ Return(-1)
    /\ UNCHANGED << cache, op, offset, data, read, calls, before >>

EraseReady ==
    /\ pc = "erase"
    /\ FmcErase(addr)
    /\ cache' = Invalidate(SectorOf(addr))
    /\ pc' = "blank"
    /\ UNCHANGED << locked, op, offset, data, addr, remaining, buf, rc, read, calls, before >>

\* the first 32 bits of the sector are compared with 0xFFFFFFFF
EraseCheck ==
    /\ pc = "blank"
    /\ Return(IF \A k \in 1 .. Word \div 2 : Load(addr)[k] = Erased THEN 0 ELSE -1)
    /\ cache' = Cached(cache, addr, Load(addr))
    /\ UNCHANGED << flash, op, offset, data, read, calls, before >>

\* mutant: a range that ends beyond the slot is not refused
WriteRangeStart(off, d) == off >= SlotSize

WriteRange(off, d) == off + Len(d) > SlotSize

WriteRefuse(off, d) ==
    /\ WriteRange(off, d)
    /\ Refuse("write", off, d)

WriteCall(off, d) ==
    /\ ~WriteRange(off, d)
    /\ Call("write", off, d)
    /\ addr' = off
    /\ remaining' = Len(d)
    /\ locked' = FALSE
    /\ pc' = IF off % Word = 0 THEN "body" ELSE "head"
    /\ UNCHANGED << flash, cache, buf, rc, read >>

\* bytes the step at addr moves
Chunk == Min2(Word - (addr % Word), remaining)

\* the double word w with the next bytes of data in place
Splice(w) ==
    [i \in 1 .. Word |->
        LET k == i - 1 - (addr % Word)
        IN  IF k \in 0 .. Chunk - 1 THEN data[addr - offset + k + 1] ELSE w[i]]

\* mutant: the bytes around the data are written as erased
WritePartBlank ==
    /\ pc = "head" \/ (pc = "body" /\ remaining \in 1 .. Word - 1)
    /\ buf' = Splice([i \in 1 .. Word |-> Erased])
    /\ pc' = "program"
    /\ UNCHANGED << flash, cache, locked, op, offset, data, addr, remaining, rc, read, calls, before >>

\* an unaligned head, or the tail: read, modify and write a double word
WritePart ==
    LET g == Granule(addr)
    IN  /\ pc = "head" \/ (pc = "body" /\ remaining \in 1 .. Word - 1)
        /\ buf' = Splice(Content(g))
        /\ cache' = Cached(Invalidate({g}), g, Content(g))
        /\ pc' = "program"
        /\ UNCHANGED << flash, locked, op, offset, data, addr, remaining, rc, read, calls, before >>

WriteWord ==
    /\ pc = "body"
    /\ remaining >= Word
    /\ buf' = Splice(<< >>)
    /\ pc' = "program"
    /\ UNCHANGED << flash, cache, locked, op, offset, data, addr, remaining, rc, read, calls, before >>

ProgramFail ==
    LET g == Granule(addr)
    IN  /\ pc = "program"
        /\ FmcProgram(g, buf)
        /\ cache' = IF cache[g] = << >> THEN cache ELSE Cached(cache, g, buf)
        /\ Return(-1)
        /\ UNCHANGED << op, offset, data, read, calls, before >>

ProgramReady ==
    LET g == Granule(addr)
    IN  /\ pc = "program"
        /\ FmcProgram(g, buf)
        /\ cache' = Invalidate({g})
        /\ pc' = "compare"
        /\ UNCHANGED << locked, op, offset, data, addr, remaining, buf, rc, read, calls, before >>

ProgramMismatch ==
    LET g == Granule(addr)
    IN  /\ pc = "compare"
        /\ Load(g) # buf
        /\ cache' = Cached(cache, g, Load(g))
        /\ Return(-1)
        /\ UNCHANGED << flash, op, offset, data, read, calls, before >>

\* mutant: after the tail the progress is not recorded
AdvanceForgotten ==
    IF addr % Word = 0 /\ remaining < Word
    THEN UNCHANGED << addr, remaining >>
    ELSE addr' = addr + Chunk /\ remaining' = remaining - Chunk

Advance ==
    /\ addr' = addr + Chunk
    /\ remaining' = remaining - Chunk

ProgramMatch ==
    LET g == Granule(addr)
    IN  /\ pc = "compare"
        /\ Load(g) = buf
        /\ cache' = Cached(cache, g, Load(g))
        /\ Advance
        /\ pc' = "body"
        /\ UNCHANGED << flash, locked, op, offset, data, buf, rc, read, calls, before >>

\* mutant: the FMC stays unlocked after a complete write
WriteDoneUnlocked ==
    /\ pc = "body"
    /\ remaining = 0
    /\ rc' = 0
    /\ pc' = "idle"
    /\ addr' = 0
    /\ buf' = << >>
    /\ UNCHANGED << flash, cache, locked, op, offset, data, remaining, read, calls, before >>

WriteDone ==
    /\ pc = "body"
    /\ remaining = 0
    /\ Return(0)
    /\ UNCHANGED << flash, cache, op, offset, data, read, calls, before >>

\* ota_flash_crc32(0, len): the bytes it goes over
Crc(len) ==
    LET G == {g \in Granules : g < len}
    IN  /\ Call("crc", 0, << >>)
        /\ cache' = [g \in Granules |-> IF g \in G THEN Content(g) ELSE cache[g]]
        /\ read' = [i \in 1 .. len |->
                      LET c == Invalidate(G)[Granule(i - 1)]
                      IN  IF c = << >> THEN flash[i - 1] ELSE c[((i - 1) % Word) + 1]]
        /\ rc' = 0
        /\ UNCHANGED << flash, locked, pc, addr, remaining, buf >>

Driver ==
    \/ EraseFail \/ EraseReady \/ EraseCheck
    \/ WritePart \/ WriteWord \/ WriteDone
    \/ ProgramFail \/ ProgramReady \/ ProgramMismatch \/ ProgramMatch

Caller ==
    \/ \E i \in 0 .. Sectors : EraseRefuse(i) \/ EraseCall(i)
    \/ \E off \in 0 .. SlotSize, d \in Datas : WriteRefuse(off, d) \/ WriteCall(off, d)
    \/ \E len \in 1 .. SlotSize : Crc(len)

Next == Driver \/ Caller \/ \E g \in Granules : Prefetch(g)

Spec == Init /\ [][Next]_vars

\* The task that called runs on until the call returns.
FairSpec == Spec /\ WF_vars(Driver)

-----------------------------------------------------------------------------
(* Properties                                                               *)

TypeOK ==
    /\ flash \in [Address -> Cell]
    /\ before \in [Address -> Cell]
    /\ cache \in [Granules -> {<< >>} \cup [1 .. Word -> Cell]]
    /\ locked \in BOOLEAN
    /\ pc \in {"idle", "erase", "blank", "head", "body", "program", "compare"}
    /\ op \in {"none", "erase", "write", "crc"}
    /\ offset \in 0 .. SlotSize
    /\ data \in Seq(Byte)
    /\ addr \in 0 .. SlotSize
    /\ remaining \in 0 .. Len(data)
    /\ buf = << >> \/ buf \in [1 .. Word -> Cell]
    /\ rc \in {0, -1}
    /\ read \in Seq(Cell)
    /\ calls \in 0 .. MaxCalls

\* the bytes the call is about
Range == offset .. offset + Len(data) - 1

\* ota_flash_write returns 0 only if the flash itself, not the cache, holds the
\* data, and every other byte of the flash is what it was, the bytes that share
\* a double word with the data included.
WriteExact ==
    (pc = "idle" /\ op = "write" /\ rc = 0) =>
        flash = [a \in Address |-> IF a \in Range THEN data[a - offset + 1] ELSE before[a]]

\* Whatever fails, and at every moment of a call, the only bytes that differ
\* from what they were are in the sector being erased or in the double words of
\* the range being written, and inside the slot.
Contained ==
    \A a \in Address : flash[a] # before[a] =>
        /\ a < SlotSize
        /\ \/ op = "erase" /\ Granule(a) \in SectorOf(offset)
           \/ op = "write" /\ Granule(offset) <= a /\ Granule(a) < offset + Len(data)

\* The FMC is unlocked exactly while a call works on the flash: no path of the
\* driver, failing ones included, leaves it unlocked.
LockedAtRest == locked <=> pc = "idle"

\* The checksum is computed from the flash, whatever was in the cache.
ChecksumOfFlash ==
    (pc = "idle" /\ op = "crc") => \A i \in 1 .. Len(read) : read[i] = flash[i - 1]

\* Every call returns: the write loop always ends.
CallsReturn == pc # "idle" ~> pc = "idle"
=============================================================================
