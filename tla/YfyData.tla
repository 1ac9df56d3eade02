------------------------------ MODULE YfyData ------------------------------
(***************************************************************************)
(* The protocol of the YFY power modules (Lib/converter/yfy/yfy_data.c)    *)
(* and the task that polls it (Lib/converter/power_interface.c): frames    *)
(* are stored field by field in the tables of the modules, the groups and  *)
(* the system, and a module that is silent for too long is offline.        *)
(*                                                                         *)
(* yfy_process_data passes its own variable id to recv by value, so every  *)
(* frame it gets is parsed as one of device 0, command 0, address 0; other *)
(* frames reach yfy_data_parse only from the tests, which call it          *)
(* directly.  Both callers are actions here.  Group 0, which does not      *)
(* exist, is not among the frames.                                         *)
(***************************************************************************)
EXTENDS Integers, Sequences, SequencesExt

CONSTANTS
    MODULE_NUM, GROUP_MODULE_NUM, BROADCAST_ADDR, GROUP_DEVICE_ID,
    Info,                       \* kind -> the rows of its table: [cmd, from, to, bit], 0 <= from <= to
    Frames,                     \* the frames of the tests: [dev, cmd, addr, data]
    Clock,                      \* 2^32, the range of time()
    Interval, Offline,          \* 1000 and MODULE_OFFLINE_TIME
    MaxGap                      \* the period of yfy_module_task is at most this

ASSUME YfyAssumption ==
    /\ {MODULE_NUM, GROUP_MODULE_NUM, Interval, Offline, MaxGap} \subseteq Nat \ {0}
    /\ Offline + Interval + MaxGap < Clock

VARIABLES
    recv,                       \* whether a function for receiving was installed
    time, last_check_time,
    last_online_time, is_online,    \* stModuleOnlineInfo
    cell,                       \* stModuleData, stGroupModuleData, stSysModuleData
    age, gap,                   \* history: time since a module was heard and since the last poll
    told                        \* history: the last data of each frame of the tests

vars == << recv, time, last_check_time, last_online_time, is_online, cell, age, gap, told >>

Kinds == {"module", "group", "system"}
Modules == 0 .. MODULE_NUM - 1
Addresses(kind) == CASE kind = "module" -> Modules
                     [] kind = "group" -> 0 .. GROUP_MODULE_NUM - 1
                     [] OTHER -> {0}
Cells == UNION {{<< k, row, a >> : row \in DOMAIN Info[k], a \in Addresses(k)} : k \in Kinds}
Header(f) == << f.dev, f.cmd, f.addr >>
Headers == {Header(f) : f \in Frames}
Never == Offline + Interval + MaxGap     \* ages are counted up to here

Init ==
    /\ recv \in BOOLEAN
    /\ time \in 0 .. Clock - 1 /\ last_check_time = 0
    /\ last_online_time = [i \in Modules |-> 0] /\ is_online = [i \in Modules |-> FALSE]
    /\ cell = [c \in Cells |-> << 0 >>]
    /\ age = [i \in Modules |-> Never] /\ gap = 0
    /\ told = [h \in Headers |-> << >>]

(***************************************************************************)
(* The online check                                                        *)
(***************************************************************************)
\* mutant: the step over the end of the range is forgotten
DiffShort(current, last) == IF current >= last THEN current - last ELSE Clock - 1 - last + current

\* the time from last to current
Diff(current, last) == IF current >= last THEN current - last ELSE (Clock - 1 - last) + current + 1

IsSilent(last) == Diff(time, last) >= Offline

IsDue == Diff(time, last_check_time) >= Interval

\* module_online_check
Checked == [i \in Modules |-> is_online[i] /\ ~(IsDue /\ IsSilent(last_online_time[i]))]

(***************************************************************************)
(* Parsing                                                                 *)
(***************************************************************************)
\* yfy_data_parse: whose data a frame holds
KindOf(f) ==
    IF f.cmd \in {1, 2}
      THEN IF f.addr = BROADCAST_ADDR THEN "system"
           ELSE IF f.dev = GROUP_DEVICE_ID /\ f.addr <= GROUP_MODULE_NUM THEN "group" ELSE "none"
      ELSE IF f.addr < MODULE_NUM THEN "module" ELSE "none"

Index(f) == CASE KindOf(f) = "system" -> 0 [] KindOf(f) = "group" -> f.addr - 1 [] OTHER -> f.addr

\* yfy_data_unpack: the rows of a command, as far as they follow each other in the table
Rows(kind, cmd) ==
    LET of == {r \in DOMAIN Info[kind] : Info[kind][r].cmd = cmd}
    IN  {r \in of : \A q \in of, m \in DOMAIN Info[kind] : q < m /\ m < r => m \in of}

\* mutant: the bytes stay in the order of the line
ValueAsIs(row, data) ==
    IF row.from = row.to THEN << (data[row.from + 1] \div 2^row.bit) % 2 >>
                         ELSE SubSeq(data, row.from + 1, row.to)

\* yfy_data_store: a bit, or bytes from the first of the highest weight to the first of the lowest
Value(row, data) ==
    IF row.from = row.to THEN << (data[row.from + 1] \div 2^row.bit) % 2 >>
                         ELSE Reverse(SubSeq(data, row.from + 1, row.to))

Stored(f) ==
    LET kind == KindOf(f)
        own == IF kind = "none" THEN {} ELSE {<< kind, r, Index(f) >> : r \in Rows(kind, f.cmd)}
    IN  [c \in Cells |-> IF c \in own THEN Value(Info[kind][c[2]], f.data) ELSE cell[c]]

Heard(f) == IF KindOf(f) = "module" THEN {f.addr} ELSE {}

Record(f) == [i \in Modules |-> IF i \in Heard(f) THEN time ELSE last_online_time[i]]

\* the effects of a frame on the tables, after the online states are those of `online'
yfy_data_parse(f, online) ==
    /\ cell' = Stored(f)
    /\ last_online_time' = Record(f)
    /\ is_online' = [i \in Modules |-> online[i] \/ i \in Heard(f)]
    /\ age' = [i \in Modules |-> IF i \in Heard(f) THEN 0 ELSE age[i]]
    /\ told' = [h \in Headers |-> IF h = Header(f) THEN f.data ELSE told[h]]

(***************************************************************************)
(* Actions                                                                 *)
(***************************************************************************)
\* yfy_process_data without a frame: the check, if there is a function for receiving
PollNothing ==
    /\ gap' = 0
    /\ is_online' = IF recv THEN Checked ELSE is_online
    /\ last_check_time' = IF recv /\ IsDue THEN time ELSE last_check_time
    /\ UNCHANGED << recv, time, last_online_time, cell, age, told >>

\* with frames (up to ten, which are all parsed as the same frame): each has been parsed
PollFrames ==
    \E data \in {f.data : f \in Frames} :
        /\ recv
        /\ gap' = 0
        /\ last_check_time' = IF IsDue THEN time ELSE last_check_time
        /\ yfy_data_parse([dev |-> 0, cmd |-> 0, addr |-> 0, data |-> data], Checked)
        /\ UNCHANGED << recv, time >>

\* the tests' calls of yfy_data_parse
Parse(f) ==
    /\ yfy_data_parse(f, is_online)
    /\ UNCHANGED << recv, time, last_check_time, gap >>

Tick ==
    /\ gap < MaxGap
    /\ time' = (time + 1) % Clock
    /\ gap' = gap + 1
    /\ age' = [i \in Modules |-> IF age[i] < Never THEN age[i] + 1 ELSE Never]
    /\ UNCHANGED << recv, last_check_time, last_online_time, is_online, cell, told >>

Next == PollNothing \/ PollFrames \/ Tick \/ \E f \in Frames : Parse(f)

Spec == Init /\ [][Next]_vars

(***************************************************************************)
(* Properties                                                              *)
(***************************************************************************)
\* Times stay in the range of time(), and a bit is stored as 0 or 1.
TypeOK ==
    /\ time \in 0 .. Clock - 1 /\ last_check_time \in 0 .. Clock - 1
    /\ last_online_time \in [Modules -> 0 .. Clock - 1] /\ is_online \in [Modules -> BOOLEAN]
    /\ \A c \in Cells : LET row == Info[c[1]][c[2]]
                         IN  row.from = row.to => cell[c] \in {<< 0 >>, << 1 >>}

\* A module heard within MODULE_OFFLINE_TIME is online, and one not heard for that time, an interval
\* between two checks and the period of the task is not: also when time() wraps around between a
\* frame and the check, or between two checks, and for any value of time() at the start.
OnlineIsRight ==
    recv => \A i \in Modules : /\ age[i] < Offline => is_online[i]
                               /\ is_online[i] => age[i] < Offline + Interval + MaxGap - 1

Number(bytes) == FoldRight(LAMBDA byte, sum : byte + 256 * sum, bytes, 0)     \* lowest weight first

\* where yfy_data.h says the data of a frame belong: modules count from 0, groups from 1
Belongs(h) ==
    IF h[2] \in {1, 2}
      THEN IF h[3] = BROADCAST_ADDR THEN {<< "system", 0 >>}
           ELSE {<< "group", a >> : a \in {b \in Addresses("group") : b + 1 = h[3] /\ h[1] = GROUP_DEVICE_ID}}
      ELSE {<< "module", a >> : a \in {b \in Modules : b = h[3]}}

\* Every field of every table is what the last frame that holds it said: all fields of a command are
\* stored although the scan of the table stops behind them, a number of several bytes keeps its value
\* under the change of byte order, a bit is stored as 0 or 1, and a frame for nobody changes nothing.
TablesFollowFrames ==
    \A c \in Cells :
        LET row == Info[c[1]][c[2]]
            from == {h \in Headers : told[h] # << >> /\ h[2] = row.cmd /\ << c[1], c[3] >> \in Belongs(h)}
        IN  IF from = {} THEN cell[c] = << 0 >>
            ELSE \A h \in from :
                   IF row.from < row.to
                     THEN Number(cell[c]) = FoldLeft(LAMBDA sum, byte : 256 * sum + byte, 0,
                                                     SubSeq(told[h], row.from + 1, row.to))
                     ELSE /\ cell[c] \in {<< 0 >>, << 1 >>}
                          /\ \E high \in 0 .. 127 :
                               told[h][row.from + 1] - (2 * high + cell[c][1]) * 2^row.bit \in 0 .. 2^row.bit - 1
=============================================================================
