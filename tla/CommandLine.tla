---------------------------- MODULE CommandLine ----------------------------
(***************************************************************************)
(* The command line (Lib/cli/cli.c, Lib/cli/FreeRTOS_CLI.c) on top of the  *)
(* console driver: CLI_Task takes characters from the receive ring, looks  *)
(* a line up among the registered commands and prints what they return,    *)
(* part by part, into the transmit ring.  A printed string is named after  *)
(* what it says.                                                           *)
(***************************************************************************)
EXTENDS ConsoleUart, FiniteSets, FiniteSetsExt

CONSTANTS
    Commands,               \* the list of registered commands: [name, parameters], "help" first
    LineSize                \* sizeof(cInputString)

ASSUME CommandAssumption ==
    /\ LineSize \in Nat \ {0}
    /\ Commands \in Seq([name : Seq(Chars), parameters : Int])

VARIABLES
    cInputString,           \* up to cInputIndex
    entered,                \* CLI_Task is in its loop over the parts of an answer
    pxCommand,              \* FreeRTOS_CLIProcessCommand: index of the running command, 0 is NULL
    pxHelp,                 \* prvHelpCommand: index of the next help string, 0 is NULL
    running,                \* FALSE after NVIC_SystemReset
    printed                 \* history: the strings passed to printf by CLI_Task

cliVars == << cInputString, entered, pxCommand, pxHelp, running, printed >>
vars == << uartVars, rxVars, txVars, cliVars >>

Newline == {"r", "n"}       \* '\r', '\n'
Space == "_"

Init ==
    /\ InitUart
    /\ cInputString = << >> /\ entered = FALSE
    /\ pxCommand = 0 /\ pxHelp = 0
    /\ running = TRUE /\ printed = << >>

(***************************************************************************)
(* Looking up a line                                                       *)
(***************************************************************************)
\* a string ends with its first byte 0
CString(line_) ==
    LET i == SelectInSeq(line_, LAMBDA x : x = Nul) IN IF i = 0 THEN line_ ELSE SubSeq(line_, 1, i - 1)

\* prvGetNumberOfParameters: spaces after something else, not counting those that end the line
prvGetNumberOfParameters(line_) ==
    LET starts == {i \in DOMAIN line_ : line_[i] = Space /\ (i = 1 \/ line_[i - 1] # Space)}
    IN  Cardinality(starts) - (IF line_ # << >> /\ Last(line_) = Space THEN 1 ELSE 0)

\* strncmp, and the end of the word
Matches(name, line_) ==
    /\ IsPrefix(name, line_)
    /\ Len(line_) > Len(name) => line_[Len(name) + 1] = Space

\* the first command that matches, 0 when none does
Lookup(line_) ==
    LET found == {i \in DOMAIN Commands : Matches(Commands[i].name, CString(line_))}
    IN  IF found = {} THEN 0 ELSE Min(found)

(***************************************************************************)
(* CLI_Task                                                                *)
(***************************************************************************)
\* CLI_Task (priority 3) does not run while a handler or console_rx_task (priority 5) does; the
\* latter may wait in its printf.
CanRun == ~isr /\ rx \in {"idle", "refused"}

CliOnly == UNCHANGED << uartVars, rx_size, rx, ahead, spoiled >>

\* cInputIndex = 0 and memset
Emptied == << >>

HasRoom == Len(cInputString) < LineSize - 1

\* one character from the ring
ReadCharacter ==
    LET cRxedChar == Head(rx_ring)
    IN  /\ running /\ CanRun
        /\ ~entered
        /\ rx_ring # << >>
        /\ rx_ring' = Tail(rx_ring)
        /\ consumed' = Append(consumed, cRxedChar)
        /\ entered' = (cRxedChar \in Newline /\ cInputString # << >>)
        /\ cInputString' = IF cRxedChar \notin Newline /\ HasRoom
                             THEN Append(cInputString, cRxedChar) ELSE cInputString
        /\ UNCHANGED << pxCommand, pxHelp, running, printed, txVars >> /\ CliOnly

\* the last part of an answer, and a part that others follow
Finish(text) ==
    /\ printed' = Append(printed, text) /\ Printf(text)
    /\ pxCommand' = 0
    /\ entered' = FALSE
    /\ cInputString' = Emptied
    /\ UNCHANGED << running, rx_ring, consumed >> /\ CliOnly

Continue(text, command) ==
    /\ printed' = Append(printed, text) /\ Printf(text)
    /\ pxCommand' = command
    /\ UNCHANGED << entered, cInputString, running, rx_ring, consumed >> /\ CliOnly

\* FreeRTOS_CLIProcessCommand: the command that is running, or the one of a new line
Current == IF pxCommand = 0 THEN Lookup(cInputString) ELSE pxCommand

WrongParameters ==
    /\ pxCommand = 0
    /\ Commands[Current].parameters >= 0
    /\ prvGetNumberOfParameters(CString(cInputString)) # Commands[Current].parameters

\* no such command, or not with these parameters
Refused ==
    /\ running /\ CanRun /\ entered
    /\ \/ Current = 0 /\ Finish(<< "refused", 0 >>)
       \/ Current # 0 /\ WrongParameters /\ Finish(<< "refused", 1 >>)
    /\ UNCHANGED pxHelp

Accepted(name) ==
    /\ running /\ CanRun /\ entered
    /\ Current # 0
    /\ Commands[Current].name = name
    /\ ~WrongParameters

\* mutant: the help strings go on after the last one
HelpStays(next) == next

\* NULL behind the last command
HelpNext(next) == IF next > Len(Commands) THEN 0 ELSE next

\* prvHelpCommand: one help string for each call
Help ==
    LET this == IF pxHelp = 0 THEN 1 ELSE pxHelp
    IN  /\ Accepted(Commands[1].name)
        /\ pxHelp' = HelpNext(this + 1)
        /\ IF this < Len(Commands) THEN Continue(<< "help", this >>, Current)
                                   ELSE Finish(<< "help", this >>)

\* prvInfoCommand, prvMemoryCommand, prvTaskStatsCommand
Show ==
    /\ \E i \in 2 .. Len(Commands) - 1 : Accepted(Commands[i].name) /\ Finish(<< "shown", i >>)
    /\ UNCHANGED pxHelp

\* prvResetCommand: the message goes into the ring, and the chip is reset.
Reset ==
    /\ Accepted(Last(Commands).name)
    /\ printed' = Append(printed, << "reset", 0 >>) /\ Printf(<< "reset", 0 >>)
    /\ running' = FALSE
    /\ UNCHANGED << cInputString, entered, pxCommand, pxHelp, rx_ring, consumed >> /\ CliOnly

CLI_Task == ReadCharacter \/ Refused \/ Help \/ Show \/ Reset

Console == running /\ (Hardware \/ Driver) /\ UNCHANGED cliVars

Next == Console \/ CLI_Task

Spec == Init /\ [][Next]_vars

\* Hardware that has something to do does it, handlers run, and the tasks, which all sleep between
\* two rounds, are scheduled again and again.  Nothing makes anybody type, or the core fetch ahead.
Fairness ==
    /\ WF_vars(running /\ (UsartIrq \/ UsartIrqEnd \/ DmaIrq) /\ UNCHANGED cliVars)
    /\ WF_vars(running /\ Quiet /\ UNCHANGED cliVars)
    /\ WF_vars(running /\ DmaSend /\ UNCHANGED cliVars)
    /\ WF_vars(running /\ (RxCopy \/ RxZero \/ RxRestart) /\ UNCHANGED cliVars)
    /\ WF_vars(running /\ TxStart /\ UNCHANGED cliVars)
    /\ WF_vars(CLI_Task)

FairSpec == Spec /\ Fairness

(***************************************************************************)
(* Properties                                                              *)
(***************************************************************************)
\* The driver's and the command line's variables stay in their ranges: sizes within the DMA buffers,
\* rings within their sizes, the line with room for its terminating zero.
TypeOK ==
    /\ pos \in 0 .. DmaRx /\ rx_size \in 0 .. DmaRx /\ Len(rx_ring) <= RxRing
    /\ number <= tx_size /\ tx_size \in 0 .. DmaTx /\ Len(tx_ring) <= TxRing
    /\ rx \in {"idle", "copied", "zeroed", "refused"}
    /\ Len(cInputString) < LineSize
    /\ pxCommand \in 0 .. Len(Commands) /\ pxHelp \in 0 .. Len(Commands)

\* what the receive DMA has stored and console_rx_task has not yet put into the ring
Pending == IF rx \in {"copied", "zeroed"} THEN << >> ELSE SubSeq(rx_buffer, 1, pos)

\* Every character typed reaches CLI_Task once and in order, through the DMA buffer, the cache, the
\* ring and the restarts of the DMA, unless it was typed while the previous burst was being copied,
\* a time-out came during the copy, the burst was longer than the DMA buffer, the ring was full, or
\* the core had fetched the buffer ahead.
HeardAsTyped == ~spoiled => consumed \o rx_ring \o Pending = SubSeq(Input, 1, arrived)

\* What fputc put into the ring leaves on the line once and in order: nothing is sent out of
\* turn, and what is owed is what the DMA still has to send and what is in the ring.
SentAsPrinted ==
    /\ ~garbled
    /\ owed = SubSeq(tx_buffer, Len(tx_buffer) - number + 1, Len(tx_buffer)) \o tx_ring

\* the lines of a text, empty ones left out, and cut as the array demands
LinesOf(text) ==
    LET ends == {i \in DOMAIN text : text[i] \in Newline}
        begin(e) == IF \E d \in ends : d < e THEN Max({d \in ends : d < e}) + 1 ELSE 1
        full == SetToSortSeq({e \in ends : begin(e) < e}, <)
        cut(e) == IF e - 1 < begin(e) + LineSize - 2 THEN e - 1 ELSE begin(e) + LineSize - 2
    IN  [k \in DOMAIN full |-> SubSeq(text, begin(full[k]), cut(full[k]))]

\* the words of a line: the beginnings of runs that are not spaces
WordsOf(l) == {i \in DOMAIN l : l[i] # Space /\ (i = 1 \/ l[i - 1] = Space)}

\* what is to be printed for a line
AnswerTo(text) ==
    LET l == CString(text)
        first == SelectInSeq(l, LAMBDA x : x = Space)
        word == IF first = 0 THEN l ELSE SubSeq(l, 1, first - 1)
        which == {i \in DOMAIN Commands : Commands[i].name = word}
    IN  IF which = {} THEN << << "refused", 0 >> >>
        ELSE IF Cardinality(WordsOf(l)) # 1 THEN << << "refused", 1 >> >>
        ELSE LET i == CHOOSE i \in which : TRUE
             IN  IF i = 1 THEN [k \in DOMAIN Commands |-> << "help", k >>]
                 ELSE IF i = Len(Commands) THEN << << "reset", 0 >> >> ELSE << << "shown", i >> >>

\* CLI_Task answers exactly the lines it has read, each in full and none with what another left in
\* the line, in pxCommand or in the position of the help command.
AnswersInFull ==
    LET expected == FlattenSeq([k \in DOMAIN LinesOf(consumed) |-> AnswerTo(LinesOf(consumed)[k])])
    IN  IF entered THEN IsStrictPrefix(printed, expected) \/ ~running ELSE printed = expected

\* Again and again everything typed has been read by CLI_Task and everything printed has left, unless
\* the chip is reset; a disturbed reception may lose characters, but the driver comes to rest all
\* the same and nothing stays in the ring.
EverythingMoves ==
    []<>(~running \/ (owed = << >> /\ rx_ring = << >> /\ rx_size = 0 /\ rx = "idle"
                       /\ (spoiled \/ Len(consumed) = arrived)))

\* The comment of prvResetCommand: the message is output before the reset.
MessageBeforeReset == ~running => owed = << >>
=============================================================================
