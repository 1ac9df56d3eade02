---------------------------- MODULE ConsoleUart ----------------------------
(***************************************************************************)
(* The console driver (Driver/usart/console_usart.c): reception by DMA     *)
(* with the receive time-out of the UART, transmission by DMA, the two     *)
(* tasks (priority 5), the interrupt handlers, and fputc.                  *)
(*                                                                         *)
(* The rings are the FIFOs RingBuffer proves them to be.  Received         *)
(* characters are those of Input, in order, each at any time.  What one    *)
(* printf writes is one unit in the transmit path.  rx_buffer is one line  *)
(* of the data cache; the core may fetch it at any time.                   *)
(***************************************************************************)
EXTENDS Integers, Sequences, SequencesExt

CONSTANTS
    Chars, Texts,           \* the characters, and what may be typed
    DmaRx, DmaTx,           \* CONSOLE_DMA_BUFFER_RX_SIZE, CONSOLE_DMA_BUFFER_TX_SIZE
    RxRing, TxRing,         \* CONSOLE_RING_BUFFER_RX_SIZE, CONSOLE_RING_BUFFER_TX_SIZE
    NoLine

Nul == "0"                  \* the byte 0

ASSUME UartAssumption ==
    /\ {DmaRx, DmaTx, RxRing, TxRing} \subseteq Nat \ {0}
    /\ Nul \in Chars /\ Texts \subseteq Seq(Chars)

VARIABLES
    Input,                  \* what is typed
    arrived,                \* characters on the receive line so far
    pos, rx_buffer, line,   \* receive DMA: characters since it was started, memory, cache line
    since, rtf, rbne,       \* the UART: a character since the last time-out, flags RT and RBNE
    RTIE, RBNEIE, isr,      \* interrupt enables; the handler is between its two tests of RT
    rx_size, rx, rx_ring,   \* rx_dma_buffer.size, place of console_rx_task, ring
    consumed,               \* history: what was read from rx_ring
    ahead, spoiled,         \* history: the line was fetched ahead; reception was disturbed
    tx_ring, tx_buffer, tx_size, number, ftf,   \* ring, memory, size, transmit DMA and its flag
    owed, garbled           \* history: units accepted and not yet sent; one was sent out of turn

uartVars == << Input, arrived, pos, rx_buffer, line, since, rtf, rbne, RTIE, RBNEIE, isr >>
rxVars == << rx_size, rx, rx_ring, consumed, ahead, spoiled >>
txVars == << tx_ring, tx_buffer, tx_size, number, ftf, owed, garbled >>

InitUart ==
    /\ Input \in Texts /\ arrived = 0 /\ pos = 0 /\ rx_buffer = [i \in 1 .. DmaRx |-> Nul] /\ line = NoLine
    /\ since = FALSE /\ rtf = FALSE /\ rbne = FALSE /\ RTIE = FALSE /\ RBNEIE = TRUE /\ isr = FALSE
    /\ rx_size = 0 /\ rx = "idle" /\ rx_ring = << >> /\ consumed = << >> /\ ahead = FALSE /\ spoiled = FALSE
    /\ tx_ring = << >> /\ tx_buffer = << >> /\ tx_size = 0 /\ number = 0 /\ ftf = FALSE
    /\ owed = << >> /\ garbled = FALSE

(***************************************************************************)
(* The receive line and the interrupt handler                              *)
(***************************************************************************)
\* DMA stores a character, or it is lost when the buffer is full.  The reception is disturbed when
\* the buffer is still to be copied and the DMA to be started again.
Character ==
    /\ arrived < Len(Input)
    /\ ~spoiled                          \* bound: nobody types on after the first disturbance
    /\ arrived' = arrived + 1
    /\ pos' = IF pos < DmaRx THEN pos + 1 ELSE pos
    /\ rx_buffer' = IF pos < DmaRx THEN [rx_buffer EXCEPT ![pos + 1] = Input[arrived + 1]] ELSE rx_buffer
    /\ since' = TRUE
    /\ rbne' = (rbne \/ RBNEIE)
    /\ spoiled' = (spoiled \/ pos = DmaRx \/ rx_size # 0 \/ rx # "idle" \/ isr)
    /\ UNCHANGED << Input, line, rtf, RTIE, RBNEIE, isr, rx_size, rx, rx_ring, consumed, ahead, txVars >>

\* no character for the time of the threshold
Quiet ==
    /\ since
    /\ since' = FALSE
    /\ rtf' = TRUE
    /\ UNCHANGED << Input, arrived, pos, rx_buffer, line, rbne, RTIE, RBNEIE, isr, rxVars, txVars >>

\* a fetch ahead of any use
Prefetch ==
    /\ line = NoLine
    /\ ~spoiled                          \* bound
    /\ line' = rx_buffer
    /\ ahead' = TRUE
    /\ UNCHANGED << Input, arrived, pos, rx_buffer, since, rtf, rbne, RTIE, RBNEIE, isr,
                    rx_size, rx, rx_ring, consumed, spoiled, txVars >>

\* the size of the buffer less dma_transfer_number_get
Size == pos

\* CONSOLE_USART_IRQ_HANDLER: with the first character the time-out interrupt is enabled; the
\* time-out reports how much has been received ...
UsartIrq ==
    /\ ~isr
    /\ rbne \/ (RTIE /\ rtf)
    /\ rbne' = FALSE
    /\ RTIE' = TRUE
    /\ RBNEIE' = (RBNEIE /\ RTIE)
    /\ rtf' = FALSE
    /\ isr' = rtf
    /\ rx_size' = IF rtf THEN Size ELSE rx_size
    /\ spoiled' = (spoiled \/ (rtf /\ rx # "idle"))
    /\ UNCHANGED << Input, arrived, pos, rx_buffer, line, since, rx, rx_ring, consumed, ahead, txVars >>

\* ... and a second one before the handler ends goes back to waiting for a first character.
UsartIrqEnd ==
    /\ isr
    /\ isr' = FALSE
    /\ rtf' = FALSE
    /\ rx_size' = IF rtf THEN Size ELSE rx_size
    /\ RTIE' = ~rtf
    /\ RBNEIE' = (RBNEIE \/ rtf)
    /\ UNCHANGED << Input, arrived, pos, rx_buffer, line, since, rbne, rx, rx_ring, consumed, ahead, spoiled,
                    txVars >>

(***************************************************************************)
(* fputc, and the receive task                                             *)
(***************************************************************************)
\* fputc of every character of s: what does not fit is lost.
Printf(s) ==
    /\ tx_ring' = IF Len(tx_ring) < TxRing THEN Append(tx_ring, s) ELSE tx_ring
    /\ owed' = IF Len(tx_ring) < TxRing THEN Append(owed, s) ELSE owed
    /\ UNCHANGED << tx_buffer, tx_size, number, ftf, garbled >>

\* console_rx_task: write() of what the time-out reported, read through the cache ...
RxCopy ==
    LET bytes == SubSeq(IF line = NoLine THEN rx_buffer ELSE line, 1, rx_size)
    IN  /\ ~isr
        /\ rx = "idle"
        /\ rx_size # 0
        /\ line' = IF line = NoLine THEN rx_buffer ELSE line
        /\ IF Len(rx_ring) + rx_size <= RxRing
             THEN /\ rx_ring' = rx_ring \o bytes
                  /\ rx' = "copied"
                  /\ spoiled' = (spoiled \/ (ahead /\ line # rx_buffer))
                  /\ UNCHANGED txVars
             ELSE /\ Printf(<< "ring_full", 0 >>)
                  /\ rx' = "refused"
                  /\ spoiled' = TRUE
                  /\ UNCHANGED rx_ring
        /\ UNCHANGED << Input, arrived, pos, rx_buffer, since, rtf, rbne, RTIE, RBNEIE, isr, rx_size, consumed,
                        ahead >>

\* ... after which the size is forgotten ...
RxZero ==
    /\ ~isr
    /\ rx = "copied"
    /\ rx' = "zeroed"
    /\ rx_size' = 0
    /\ UNCHANGED << uartVars, rx_ring, consumed, ahead, spoiled, txVars >>

\* mutant: the DMA goes on where it is
RestartNot == pos

Restart == 0

\* SCB_InvalidateDCache_by_Addr does nothing for the negative result of a refused write().
Invalidate == IF rx = "refused" THEN line ELSE NoLine

\* ... the DMA started again and the cache line invalidated.
RxRestart ==
    /\ ~isr
    /\ rx \in {"zeroed", "refused"}
    /\ rx' = "idle"
    /\ pos' = Restart
    /\ line' = Invalidate
    /\ ahead' = (ahead /\ rx = "refused")
    /\ UNCHANGED << Input, arrived, rx_buffer, since, rtf, rbne, RTIE, RBNEIE, isr, rx_size, rx_ring, consumed,
                    spoiled, txVars >>

(***************************************************************************)
(* Transmission                                                            *)
(***************************************************************************)
\* mutant: the buffer is refilled whenever the ring has something
BufferFreeAlways == TRUE

BufferFree == tx_size = 0

\* console_tx_task: from the ring to the buffer, out of the cache, and the DMA is started.
TxStart ==
    LET n == IF Len(tx_ring) < DmaTx THEN Len(tx_ring) ELSE DmaTx
    IN  /\ ~isr
        /\ tx_ring # << >>
        /\ BufferFree
        /\ tx_buffer' = SubSeq(tx_ring, 1, n)
        /\ tx_ring' = SubSeq(tx_ring, n + 1, Len(tx_ring))
        /\ tx_size' = n
        /\ number' = n
        /\ UNCHANGED << ftf, owed, garbled, uartVars, rxVars >>

\* the DMA sends one unit
DmaSend ==
    /\ number > 0
    /\ owed' = SubSeq(owed, 2, Len(owed))
    /\ garbled' = (garbled \/ owed = << >> \/ tx_buffer[Len(tx_buffer) - number + 1] # Head(owed))
    /\ number' = number - 1
    /\ ftf' = (number = 1)
    /\ UNCHANGED << tx_ring, tx_buffer, tx_size, uartVars, rxVars >>

\* mutant: only the flag is cleared
ReleasedNot == tx_size

Released == 0

\* DMA0_Channel0_IRQHandler
DmaIrq ==
    /\ ~isr
    /\ ftf
    /\ ftf' = FALSE
    /\ tx_size' = Released
    /\ UNCHANGED << tx_ring, tx_buffer, number, owed, garbled, uartVars, rxVars >>

Hardware == Character \/ Quiet \/ Prefetch \/ DmaSend
Driver == UsartIrq \/ UsartIrqEnd \/ RxCopy \/ RxZero \/ RxRestart \/ TxStart \/ DmaIrq
=============================================================================
