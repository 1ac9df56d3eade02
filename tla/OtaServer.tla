------------------------------ MODULE OtaServer ------------------------------
(***************************************************************************)
(* The firmware update server (App/tcp/ota_server.c): the callbacks lwIP   *)
(* runs in its tcpip thread, the FreeRTOS stream buffer between them and   *)
(* the OTA task, the task, and the flash slot it fills.                    *)
(*                                                                         *)
(* A unit stands for the 8 bytes of a flash double word.  A header is two  *)
(* units: the magic, and a unit from which the size and the checksum of    *)
(* the image are decoded.  The checksum is modelled as free of collisions: *)
(* it is the image itself.                                                 *)
(*                                                                         *)
(* The tcpip thread has a higher priority than the task, so a callback is  *)
(* one step; the task may be preempted wherever it uses shared state.      *)
(***************************************************************************)
EXTENDS Integers, Sequences, FiniteSets

CONSTANTS
    Conns,          \* connections clients open, each with a pcb of its own
    Units,          \* values of a unit
    Magic,          \* the unit that is ota_magic
    SizeOf, CrcOf,  \* what the second header unit decodes to
    Script,         \* what the client of each connection sends
    Sector,         \* OTA_FLASH_SECTOR_SIZE in units
    Sectors,        \* sectors of the slot; OTA_MAX_FIRMWARE_SIZE is the slot size
    StreamLength,   \* xLength of the stream buffer: OTA_STREAM_BUF_SIZE + 1
    MaxSegment,     \* bound on the units of one pbuf chain
    Fill,           \* the unit of 0x55 a reset fills the stream buffer with
    Erased,         \* contents of an erased unit
    NULL

HeaderSize == 2
MaxFirmware == Sectors * Sector
FlashIndex == 0 .. MaxFirmware - 1
StreamIndex == 0 .. StreamLength - 1
Statuses == {"ok", "error", "size_mismatch", "crc_fail", "flash_error"}

ASSUME OtaAssumption ==
    /\ Sector \in Nat \ {0}
    /\ Sectors \in Nat \ {0}
    /\ StreamLength \in Nat \ {0, 1}
    /\ MaxSegment \in Nat \ {0}
    /\ {Magic, Fill} \subseteq Units
    /\ SizeOf \in [Units -> Nat]
    /\ CrcOf \in [Units -> Seq(Units)]
    /\ Script \in [Conns -> Seq(Units)]
    /\ Erased \notin Units
    /\ NULL \notin Conns

VARIABLES
    \* shared by the callbacks and the task
    g_ota_data_pcb, ucBuffer, xHead, xTail,
    \* the lwIP side of each connection: "new", "open", "orphan" or "freed"
    conn, delivered,
    \* locals of ota_server_task, and the place where it is
    pc, header_buf, header_valid, sector_buf, current_sector, received,
    total_size, expected_crc,
    xCount, tail, got,  \* xStreamBufferReceive: units to copy, where from, copied so far
    status, pcb,        \* arguments of the running ota_send_response
    flash,
    \* history: responses tcp_write took or refused, units dropped, sessions
    \* started, a callback that aborted its pcb and did not say so or the
    \* other way round
    replies, dropped, sessions, misreported

streamVars == << ucBuffer, xHead, xTail >>
lwipVars   == << g_ota_data_pcb, conn, delivered >>
headerVars == << header_buf, header_valid, total_size, expected_crc >>
sectorVars == << sector_buf, current_sector, received >>
recvVars   == << xCount, tail, got >>
respVars   == << status, pcb >>
history    == << replies, dropped, sessions, misreported >>
taskVars   == << headerVars, sectorVars, recvVars, respVars >>
vars == << streamVars, lwipVars, pc, taskVars, flash, history >>

Init ==
    /\ g_ota_data_pcb = NULL
    /\ ucBuffer = [i \in StreamIndex |-> Fill]
    /\ xHead = 0
    /\ xTail = 0
    /\ conn = [c \in Conns |-> "new"]
    /\ delivered = [c \in Conns |-> 0]
    /\ pc = "recv"
    /\ header_buf = << >>
    /\ header_valid = FALSE
    /\ total_size = 0
    /\ expected_crc = << >>
    /\ sector_buf = << >>
    /\ current_sector = 0
    /\ received = 0
    /\ xCount = 0
    /\ tail = 0
    /\ got = << >>
    /\ status = "ok"
    /\ pcb = NULL
    /\ flash = [i \in FlashIndex |-> Erased]
    /\ replies = [c \in Conns |-> << >>]
    /\ dropped = FALSE
    /\ sessions = 0
    /\ misreported = FALSE

Min2(a, b) == IF a < b THEN a ELSE b

-----------------------------------------------------------------------------
(* The stream buffer                                                        *)

BytesInBuffer == (StreamLength + xHead - xTail) % StreamLength

SpacesAvailable == (StreamLength + xTail - xHead - 1) % StreamLength

\* xStreamBufferSend without a timeout stores what fits and forgets the rest.
StreamSend(data) ==
    LET n == Min2(Len(data), SpacesAvailable)
    IN  /\ ucBuffer' = [i \in StreamIndex |->
              LET k == (StreamLength + i - xHead) % StreamLength
              IN  IF k < n THEN data[k + 1] ELSE ucBuffer[i]]
        /\ xHead' = (xHead + n) % StreamLength
        /\ dropped' = (dropped \/ n < Len(data))
        /\ UNCHANGED xTail

\* xStreamBufferReset refuses while the task is blocked on the (empty) buffer.
StreamReset ==
    IF pc = "recv" /\ BytesInBuffer = 0
    THEN UNCHANGED streamVars
    ELSE /\ ucBuffer' = [i \in StreamIndex |-> Fill]
         /\ xHead' = 0
         /\ xTail' = 0

-----------------------------------------------------------------------------
(* lwIP callbacks                                                           *)

\* ota_accept: a connection is taken when there is none
Accept(c) ==
    /\ conn[c] = "new"
    /\ g_ota_data_pcb = NULL
    /\ StreamReset
    /\ g_ota_data_pcb' = c
    /\ conn' = [conn EXCEPT ![c] = "open"]
    /\ sessions' = sessions + 1
    /\ UNCHANGED << delivered, pc, taskVars, flash, replies, dropped, misreported >>

\* ota_accept: ERR_ABRT without tcp_abort leaves the pcb allocated
AcceptBusy(c) ==
    /\ conn[c] = "new"
    /\ g_ota_data_pcb # NULL
    /\ \A d \in Conns : conn[d] # "failing"
    /\ conn' = [conn EXCEPT ![c] = "orphan"]
    /\ misreported' = TRUE
    /\ UNCHANGED << streamVars, g_ota_data_pcb, delivered, pc, taskVars, flash,
                    replies, dropped, sessions >>

\* ota_recv with n more units of what the client sends
Deliver(c, n) ==
    /\ conn[c] = "open"
    /\ n <= Len(Script[c]) - delivered[c]
    /\ StreamSend(SubSeq(Script[c], delivered[c] + 1, delivered[c] + n))
    /\ delivered' = [delivered EXCEPT ![c] = @ + n]
    /\ UNCHANGED << g_ota_data_pcb, conn, pc, taskVars, flash, replies, sessions, misreported >>

\* ota_recv without a pbuf: ota_cleanup_connection aborts the pcb, ERR_OK is returned
ClientClose(c) ==
    /\ conn[c] = "open"
    /\ conn' = [conn EXCEPT ![g_ota_data_pcb] = "freed"]
    /\ g_ota_data_pcb' = NULL
    /\ misreported' = TRUE
    /\ UNCHANGED << streamVars, delivered, pc, taskVars, flash, replies, dropped, sessions >>

\* A reset or a timeout: the pcb is gone, and ota_err waits for its turn to log ...
Failing(c) ==
    /\ conn[c] = "open"
    /\ conn' = [conn EXCEPT ![c] = "failing"]
    /\ UNCHANGED << streamVars, g_ota_data_pcb, delivered, pc, taskVars, flash, history >>

\* ... before it clears g_ota_data_pcb; meanwhile the task runs, and no other callback.
ConnError(c) ==
    /\ conn[c] = "failing"
    /\ conn' = [conn EXCEPT ![c] = "freed"]
    /\ g_ota_data_pcb' = NULL
    /\ UNCHANGED << streamVars, delivered, pc, taskVars, flash, history >>

Lwip(c) ==
    \/ Accept(c)
    \/ AcceptBusy(c)
    \/ \E n \in 1 .. MaxSegment : Deliver(c, n)
    \/ ClientClose(c)
    \/ Failing(c)
    \/ ConnError(c)

-----------------------------------------------------------------------------
(* ota_server_task                                                          *)

Goto(from, to) == pc = from /\ pc' = to

\* what the task still has room for
Room == IF header_valid THEN Sector - Len(sector_buf) ELSE HeaderSize - Len(header_buf)

\* xStreamBufferReceive: how much is there, up to that room ...
RecvCount ==
    /\ Goto("recv", "tail")
    /\ BytesInBuffer > 0
    /\ xCount' = Min2(BytesInBuffer, Room)
    /\ UNCHANGED << streamVars, lwipVars, headerVars, sectorVars, tail, got, respVars, flash,
                    history >>

\* ... from where ...
RecvTail ==
    /\ Goto("tail", "copy")
    /\ tail' = xTail
    /\ UNCHANGED << streamVars, lwipVars, headerVars, sectorVars, xCount, got, respVars, flash,
                    history >>

\* ... the copy, which a reset and the data that follow it may overtake ...
RecvCopy ==
    /\ Goto("copy", IF Len(got) + 1 = xCount THEN "commit" ELSE "copy")
    /\ got' = Append(got, ucBuffer[(tail + Len(got)) % StreamLength])
    /\ UNCHANGED << streamVars, lwipVars, headerVars, sectorVars, xCount, tail, respVars, flash,
                    history >>

\* ... and the store of the new tail.
Commit ==
    /\ xTail' = (tail + xCount) % StreamLength
    /\ xCount' = 0
    /\ tail' = 0
    /\ got' = << >>
    /\ UNCHANGED << ucBuffer, xHead >>

\* the call of ota_send_response: its pcb argument is still to be loaded
Respond(s) == status' = s /\ pcb' = NULL

HeaderPart ==
    /\ ~header_valid
    /\ Len(header_buf) + Len(got) < HeaderSize
    /\ Goto("commit", "recv")
    /\ header_buf' = header_buf \o got
    /\ Commit
    /\ UNCHANGED << lwipVars, header_valid, total_size, expected_crc, sectorVars, respVars,
                    flash, history >>

HeaderMagic ==
    LET header == header_buf \o got
    IN  /\ ~header_valid
        /\ Len(header) = HeaderSize
        /\ header[1] # Magic
        /\ Goto("commit", "load")
        /\ Respond("error")
        /\ header_buf' = << >>
        /\ Commit
        /\ UNCHANGED << lwipVars, header_valid, total_size, expected_crc, sectorVars, flash, history >>

\* mutant: an image one sector larger than the slot is accepted
HeaderRangeLax(size) == size = 0 \/ size > MaxFirmware + Sector

HeaderRange(size) == size = 0 \/ size > MaxFirmware

HeaderMismatch ==
    LET header == header_buf \o got
    IN  /\ ~header_valid
        /\ Len(header) = HeaderSize
        /\ header[1] = Magic
        /\ HeaderRange(SizeOf[header[2]])
        /\ Goto("commit", "load")
        /\ Respond("size_mismatch")
        /\ header_buf' = << >>
        /\ total_size' = SizeOf[header[2]]
        /\ expected_crc' = CrcOf[header[2]]
        /\ Commit
        /\ UNCHANGED << lwipVars, header_valid, sectorVars, flash, history >>

HeaderOk ==
    LET header == header_buf \o got
    IN  /\ ~header_valid
        /\ Len(header) = HeaderSize
        /\ header[1] = Magic
        /\ ~HeaderRange(SizeOf[header[2]])
        /\ Goto("commit", "recv")
        /\ header_buf' = header
        /\ header_valid' = TRUE
        /\ total_size' = SizeOf[header[2]]
        /\ expected_crc' = CrcOf[header[2]]
        /\ received' = 0
        /\ sector_buf' = << >>
        /\ current_sector' = 0
        /\ Commit
        /\ UNCHANGED << lwipVars, respVars, flash, history >>

\* mutant: the end of the transfer is missed by one
TakeDataLate ==
    /\ header_valid
    /\ sector_buf' = sector_buf \o got
    /\ received' = received + Len(got)
    /\ Goto("commit",
            IF Len(sector_buf') = Sector \/ received' > total_size THEN "flush" ELSE "recv")
    /\ Commit
    /\ UNCHANGED << lwipVars, headerVars, current_sector, respVars, flash, history >>

TakeData ==
    /\ header_valid
    /\ sector_buf' = sector_buf \o got
    /\ received' = received + Len(got)
    /\ Goto("commit",
            IF Len(sector_buf') = Sector \/ received' >= total_size THEN "flush" ELSE "recv")
    /\ Commit
    /\ UNCHANGED << lwipVars, headerVars, current_sector, respVars, flash, history >>

\* mutant: the offset of the sector is forgotten
ProgrammedAtStart(data) == [i \in FlashIndex |-> IF i < Len(data) THEN data[i + 1] ELSE flash[i]]

\* an erased sector with the units of data programmed from its start
Programmed(data) ==
    [i \in FlashIndex |->
        LET k == i - current_sector * Sector
        IN  IF k \in 0 .. Sector - 1
            THEN IF k < Len(data) THEN data[k + 1] ELSE Erased
            ELSE flash[i]]

\* ota_flush_sector: a full sector moves on to the next one, the last partial
\* one stays where it is, an empty one is not written at all
FlushOk ==
    /\ flash' = IF sector_buf = << >> THEN flash ELSE Programmed(sector_buf)
    /\ current_sector' = IF Len(sector_buf) = Sector THEN current_sector + 1 ELSE current_sector
    /\ sector_buf' = IF Len(sector_buf) = Sector THEN << >> ELSE sector_buf
    /\ Goto("flush", IF received >= total_size THEN "verify" ELSE "recv")
    /\ UNCHANGED << streamVars, lwipVars, headerVars, received, recvVars, respVars, history >>

\* back to the header phase
Restart ==
    /\ header_valid' = FALSE
    /\ header_buf' = << >>
    /\ sector_buf' = << >>
    /\ UNCHANGED << total_size, expected_crc, current_sector, received >>

\* the erase failed, or the programming failed after some units
FlushFail ==
    /\ sector_buf # << >>
    /\ \/ UNCHANGED flash
       \/ \E n \in 0 .. Len(sector_buf) - 1 : flash' = Programmed(SubSeq(sector_buf, 1, n))
    /\ Goto("flush", "load")
    /\ Respond("flash_error")
    /\ Restart
    /\ UNCHANGED << streamVars, lwipVars, recvVars, history >>

\* ota_flash_crc32(0, total_size), with the image itself as its checksum
Crc == [i \in 1 .. total_size |-> flash[i - 1]]

\* mutant: the checksum is not compared
VerifyOkUnchecked ==
    /\ Goto("verify", "load")
    /\ Respond("ok")
    /\ UNCHANGED << streamVars, lwipVars, headerVars, sectorVars, recvVars, flash, history >>

VerifyOk ==
    /\ Goto("verify", "load")
    /\ Crc = expected_crc
    /\ Respond("ok")
    /\ UNCHANGED << streamVars, lwipVars, headerVars, sectorVars, recvVars, flash, history >>

VerifyFail ==
    /\ Goto("verify", "load")
    /\ Crc # expected_crc
    /\ Respond("crc_fail")
    /\ Restart
    /\ UNCHANGED << streamVars, lwipVars, recvVars, flash, history >>

Live == {c \in Conns : conn[c] = "open"}

\* g_ota_data_pcb is loaded as the argument of ota_send_response ...
LoadPcb ==
    /\ Goto("load", "write")
    /\ pcb' = g_ota_data_pcb
    /\ UNCHANGED << streamVars, lwipVars, headerVars, sectorVars, recvVars, status, flash, history >>

\* ... and used by tcp_write, which succeeds or runs out of memory on a live
\* pcb.  It refuses NULL, and on a freed pcb it works on memory that is not a
\* connection: in both cases no client gets a response.
WritePcb ==
    /\ Goto("write", IF status = "ok" THEN "delay" ELSE "recv")
    /\ \/ /\ pcb \in Live
          /\ \E r \in {status, "lost"} : replies' = [replies EXCEPT ![pcb] = Append(@, r)]
       \/ /\ pcb \notin Live
          /\ UNCHANGED replies
    /\ pcb' = NULL
    /\ UNCHANGED << streamVars, lwipVars, headerVars, sectorVars, recvVars, status, flash,
                    dropped, sessions, misreported >>

\* vTaskDelay, then NVIC_SystemReset
Reset ==
    /\ Goto("delay", "reset")
    /\ UNCHANGED << streamVars, lwipVars, taskVars, flash, history >>

Task ==
    \/ RecvCount \/ RecvTail \/ RecvCopy
    \/ HeaderPart \/ HeaderMagic \/ HeaderMismatch \/ HeaderOk \/ TakeData
    \/ FlushOk \/ FlushFail \/ VerifyOk \/ VerifyFail \/ LoadPcb \/ WritePcb \/ Reset

\* After the reset the boot loader runs.
Next == pc # "reset" /\ (Task \/ \E c \in Conns : Lwip(c))

Spec == Init /\ [][Next]_vars

\* The task is scheduled again and again; data a client sent is delivered.
FairSpec ==
    /\ Spec
    /\ WF_vars(pc # "reset" /\ Task)
    /\ \A c \in Conns : WF_vars(pc # "reset" /\ \E n \in 1 .. MaxSegment : Deliver(c, n))

-----------------------------------------------------------------------------
(* Properties                                                               *)

TypeOK ==
    /\ g_ota_data_pcb \in Conns \cup {NULL}
    /\ ucBuffer \in [StreamIndex -> Units]
    /\ xHead \in StreamIndex
    /\ xTail \in StreamIndex
    /\ conn \in [Conns -> {"new", "open", "orphan", "failing", "freed"}]
    /\ delivered \in [Conns -> Nat]
    /\ pc \in {"recv", "tail", "copy", "commit", "flush", "verify", "load", "write", "delay", "reset"}
    /\ header_buf \in Seq(Units)
    /\ header_valid \in BOOLEAN
    /\ sector_buf \in Seq(Units)
    /\ current_sector \in Nat
    /\ received \in Nat
    /\ total_size \in Nat
    /\ expected_crc \in Seq(Units)
    /\ got \in Seq(Units)
    /\ xCount \in Nat
    /\ tail \in StreamIndex
    /\ status \in Statuses
    /\ pcb \in Conns \cup {NULL}
    /\ flash \in [FlashIndex -> Units \cup {Erased}]
    /\ dropped \in BOOLEAN
    /\ sessions \in Nat
    /\ misreported \in BOOLEAN

Receiving == {"recv", "tail", "copy", "commit"}

\* During a transfer the position in the slot follows the bytes received, and
\* never leaves the slot: every sector the task erases and programs is inside
\* the slot, whatever is in the stream buffer and whoever connects.
Bookkeeping ==
    /\ header_valid =>
          /\ total_size \in 1 .. MaxFirmware
          /\ received = current_sector * Sector + Len(sector_buf)
          /\ pc \in Receiving => received < total_size /\ Len(sector_buf) < Sector
    /\ (pc = "flush" /\ sector_buf # << >>) => current_sector < Sectors

\* The inductive invariant behind Bookkeeping: what xStreamBufferReceive copies
\* fits where the task puts it, and a transfer that is not complete has a sector
\* of the slot to go to.
TransferInv ==
    /\ TypeOK
    /\ Bookkeeping
    /\ pc \in {"tail", "copy", "commit"} => xCount \in 1 .. Room
    /\ pc \in {"recv", "tail"} => got = << >>
    /\ pc = "copy" => Len(got) < xCount
    /\ pc = "commit" => Len(got) = xCount
    /\ (pc \in Receiving /\ ~header_valid) => Len(header_buf) < HeaderSize
    /\ pc \in {"flush", "verify"} => header_valid
    /\ (header_valid /\ pc \in Receiving \cup {"flush"}) => current_sector < Sectors
    /\ pc = "flush" => /\ got = << >>
                       /\ Len(sector_buf) \in 1 .. Sector
                       /\ Len(sector_buf) = Sector \/ received >= total_size
    /\ (pc \in {"load", "write"} /\ status # "ok") =>
            ~header_valid /\ header_buf = << >> /\ got = << >>
    /\ pc \in {"load", "write", "delay", "reset", "verify"} => got = << >>

\* The board reboots, and tells the client so, only with a slot that still
\* holds the image the checksum of the header was computed from.
VerifiedBeforeReboot ==
    ((pc \in {"load", "write"} /\ status = "ok") \/ pc \in {"delay", "reset"}) => Crc = expected_crc

\* unit j of the image received so far
Stored(j) ==
    IF j < current_sector * Sector THEN flash[j] ELSE sector_buf[j - current_sector * Sector + 1]

\* As long as nothing was dropped and no second connection was accepted, the
\* flash and the sector buffer hold what the client sent, unit for unit, up to
\* the reset into the boot loader.
FaithfulImage ==
    (header_valid /\ sessions = 1 /\ ~dropped) =>
        \A c \in Conns : delivered[c] > 0 =>
            \A j \in 0 .. received - 1 :
                Stored(j) = Script[c][delivered[c] - BytesInBuffer - received + j + 1]

\* A client that sends a complete image and stays connected is answered, in one
\* way or the other, if nothing is dropped and no other session interferes.
Answered ==
    \A c \in Conns :
        (conn[c] = "open" /\ delivered[c] = Len(Script[c])) ~>
            (replies[c] # << >> \/ conn[c] # "open" \/ dropped \/ sessions > 1)

\* "Forward all received bytes into the StreamBuffer": what ota_recv
\* acknowledged to the client reaches the task.
AllForwarded == ~dropped

\* "Reset stream buffer for new session": until the new client has sent
\* something, the task has nothing to read.
ResetEmpties ==
    \A c \in Conns : (g_ota_data_pcb = c /\ delivered[c] = 0) => BytesInBuffer = 0

\* The check of tcp_write, "invalid pcb": ota_send_response passes a pcb.
ResponseHasPcb == pc = "write" => pcb # NULL

\* The rule of tcp_abort: a callback returns ERR_ABRT if and only if it
\* aborted its pcb.
AbortReported == ~misreported
=============================================================================
