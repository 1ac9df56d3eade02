------------------------------ MODULE RingBuffer ------------------------------
(***************************************************************************)
(* The byte ring that RING_BUFF_PRE_INIT expands to (Lib/ring_buffer/      *)
(* ring_buffer.h), called by preemptible FreeRTOS tasks.                   *)
(*                                                                         *)
(* write() holds only write_mutex, read() and the four queries hold only   *)
(* read_mutex, clear() holds both; head, tail and is_full_flag are shared  *)
(* by both sides.  A step is one load or store of a shared field, so every *)
(* preemption of one call by another is a behaviour of the model.          *)
(*                                                                         *)
(* The fields are not volatile: the build may load a field once for the    *)
(* comparison and the subtraction of the space computation, or load it     *)
(* again for the subtraction.  Reload says which build is modelled.        *)
(***************************************************************************)
EXTENDS Integers, Sequences

CONSTANTS
    Size,       \* rb->size, the capacity in bytes
    Byte,       \* the values of a byte
    MaxLen,     \* bound on the len argument of a read or a write
    Writers,    \* tasks that call write()
    Readers,    \* tasks that call read()
    Observers,  \* tasks that call used(), available(), is_empty(), is_full()
    Clearers,   \* tasks that call clear()
    NoTask,     \* a mutex nobody holds
    Uint16,     \* number of values of a uint16_t: 65536
    Reload      \* TRUE: the space computation loads the other side's index twice

Tasks == Writers \cup Readers \cup Observers \cup Clearers

ASSUME RingAssumption ==
    /\ Uint16 \in Nat
    /\ Size \in 1 .. Uint16 - 1
    /\ MaxLen \in 1 .. Uint16 - 1
    /\ Byte # {}
    /\ NoTask \notin Tasks
    /\ Reload \in BOOLEAN

VARIABLES
    p_buff, head, tail, is_full_flag, read_mutex, write_mutex,
    pc,         \* where each task is in its call, "idle" outside
    data,       \* bytes a write has still to store
    want,       \* bytes a read has still to deliver
    snap,       \* the index a task loaded for its comparison, 0 once it is out of scope
    res,        \* what the last query of a task returned
    fifo,       \* history: bytes stored and not yet read, oldest first
    exposed,    \* history: one of the unprotected coincidences happened
    broken      \* history: a byte was lost, overwritten or invented

ring   == << p_buff, head, tail, is_full_flag >>
locals == << data, want, snap, res >>
vars   == << ring, read_mutex, write_mutex, pc, locals, fifo, exposed, broken >>

U16(n) == n % Uint16
Slots  == 0 .. Size - 1

WriteSection == {"w_flag", "w_cmp", "w_avail", "w_store", "w_head", "w_test", "w_full"}
ReadSection  == {"r_flag", "r_cmp", "r_used", "r_load", "r_tail", "r_clear"}
QuerySection == {"o_flag", "o_cmp", "o_calc"}
QueryNames   == {"used", "available", "is_empty", "is_full"}
WaitPoints   == {"w_take", "r_take", "o_take", "c_take_read", "c_take_write"}

\* The shared state as name##_ring_buff leaves it; malloc does not clear p_buff.
Init ==
    /\ p_buff \in [Slots -> Byte]
    /\ head = 0
    /\ tail = 0
    /\ is_full_flag = FALSE
    /\ read_mutex = NoTask
    /\ write_mutex = NoTask
    /\ pc = [t \in Tasks |-> "idle"]
    /\ data = [t \in Tasks |-> << >>]
    /\ want = [t \in Tasks |-> 0]
    /\ snap = [t \in Tasks |-> 0]
    /\ res = [t \in Tasks |-> << "none", 0 >>]
    /\ fifo = << >>
    /\ exposed = FALSE
    /\ broken = FALSE

Goto(t, from, to) ==
    /\ pc[t] = from
    /\ pc' = [pc EXCEPT ![t] = to]

-----------------------------------------------------------------------------
(* Space computations.  h1 and t1 are the indices the comparison loads, h2  *)
(* and t2 the ones the subtraction loads.  The result is a uint16_t.        *)

AvailableOf(h1, t1, h2, t2) ==
    IF h1 >= t1 THEN U16(Size - (h2 - t2)) ELSE U16(t2 - h2)

\* mutant: the wrapped case forgets the capacity
UsedUnwrapped(h1, t1, h2, t2) == U16(h2 - t2)

UsedOf(h1, t1, h2, t2) ==
    IF h1 >= t1 THEN U16(h2 - t2) ELSE U16(Size - (t2 - h2))

\* The other side's index in the subtraction: loaded again, or kept in a register.
Second(t, current) == IF Reload THEN current ELSE snap[t]

-----------------------------------------------------------------------------
(* name##_write                                                             *)

WriteCall(t, d) ==
    /\ t \in Writers
    /\ Goto(t, "idle", "w_take")
    /\ data' = [data EXCEPT ![t] = d]
    /\ UNCHANGED << ring, read_mutex, write_mutex, want, snap, res, fifo, broken >>

WriteTake(t) ==
    /\ write_mutex = NoTask
    /\ write_mutex' = t
    /\ Goto(t, "w_take", "w_flag")
    /\ UNCHANGED << ring, read_mutex, locals, fifo, broken >>

\* mutant: the caller's timeout is not passed on
WriteWaitsForever(t) == FALSE

\* xSemaphoreTake gave up: -2
WriteTimeout(t) ==
    /\ write_mutex # NoTask
    /\ Goto(t, "w_take", "idle")
    /\ data' = [data EXCEPT ![t] = << >>]
    /\ UNCHANGED << ring, read_mutex, write_mutex, want, snap, res, fifo, broken >>

\* available < len: release the lock and return -1
WriteRefuse(t, from) ==
    /\ Goto(t, from, "idle")
    /\ write_mutex' = NoTask
    /\ data' = [data EXCEPT ![t] = << >>]
    /\ snap' = [snap EXCEPT ![t] = 0]
    /\ UNCHANGED << ring, read_mutex, want, res, fifo, broken >>

\* a set flag makes available 0, less than any len
WriteFlag(t) ==
    \/ is_full_flag /\ WriteRefuse(t, "w_flag")
    \/ /\ ~is_full_flag
       /\ Goto(t, "w_flag", "w_cmp")
       /\ UNCHANGED << ring, read_mutex, write_mutex, locals, fifo, broken >>

WriteCmp(t) ==
    /\ Goto(t, "w_cmp", "w_avail")
    /\ snap' = [snap EXCEPT ![t] = tail]
    /\ UNCHANGED << ring, read_mutex, write_mutex, data, want, res, fifo, broken >>

WriteAvail(t) ==
    LET available == AvailableOf(head, snap[t], head, Second(t, tail))
    IN  \/ available < Len(data[t]) /\ WriteRefuse(t, "w_avail")
        \/ /\ available >= Len(data[t])
           /\ Goto(t, "w_avail", "w_store")
           /\ snap' = [snap EXCEPT ![t] = 0]
           /\ UNCHANGED << ring, read_mutex, write_mutex, data, want, res, fifo, broken >>

WriteStore(t) ==
    /\ Goto(t, "w_store", "w_head")
    /\ p_buff' = [p_buff EXCEPT ![head] = Head(data[t])]
    /\ broken' = (broken \/ Len(fifo) >= Size)
    /\ UNCHANGED << head, tail, is_full_flag, read_mutex, write_mutex, locals, fifo >>

WriteHead(t) ==
    /\ Goto(t, "w_head", "w_test")
    /\ head' = (head + 1) % Size
    /\ fifo' = Append(IF Len(fifo) < Size THEN fifo ELSE Tail(fifo), Head(data[t]))
    /\ data' = [data EXCEPT ![t] = Tail(@)]
    /\ UNCHANGED << p_buff, tail, is_full_flag, read_mutex, write_mutex, want, snap, res, broken >>

\* the next byte of the loop, or release the lock and return len
WriteNext(t, from) ==
    /\ Goto(t, from, IF data[t] = << >> THEN "idle" ELSE "w_store")
    /\ write_mutex' = IF data[t] = << >> THEN NoTask ELSE write_mutex
    /\ UNCHANGED << p_buff, head, tail, read_mutex, locals, fifo, broken >>

WriteTest(t) ==
    \/ /\ head = tail
       /\ Goto(t, "w_test", "w_full")
       /\ UNCHANGED << ring, read_mutex, write_mutex, locals, fifo, broken >>
    \/ /\ head # tail
       /\ WriteNext(t, "w_test")
       /\ UNCHANGED is_full_flag

WriteFull(t) ==
    /\ is_full_flag' = TRUE
    /\ WriteNext(t, "w_full")
-----------------------------------------------------------------------------
(* name##_read                                                              *)

ReadCall(t, n) ==
    /\ t \in Readers
    /\ Goto(t, "idle", "r_take")
    /\ want' = [want EXCEPT ![t] = n]
    /\ UNCHANGED << ring, read_mutex, write_mutex, data, snap, res, fifo, broken >>

ReadTake(t) ==
    /\ read_mutex = NoTask
    /\ read_mutex' = t
    /\ Goto(t, "r_take", "r_flag")
    /\ UNCHANGED << ring, write_mutex, locals, fifo, broken >>

\* xSemaphoreTake gave up: -2
ReadTimeout(t) ==
    /\ read_mutex # NoTask
    /\ Goto(t, "r_take", "idle")
    /\ want' = [want EXCEPT ![t] = 0]
    /\ UNCHANGED << ring, read_mutex, write_mutex, data, snap, res, fifo, broken >>

\* read_len = min(used, len); with nothing to read, release the lock and return 0
ReadStart(t, from, used) ==
    LET read_len == IF used < want[t] THEN used ELSE want[t]
    IN  /\ Goto(t, from, IF read_len = 0 THEN "idle" ELSE "r_load")
        /\ want' = [want EXCEPT ![t] = read_len]
        /\ snap' = [snap EXCEPT ![t] = 0]
        /\ read_mutex' = IF read_len = 0 THEN NoTask ELSE read_mutex
        /\ UNCHANGED << ring, write_mutex, data, res, fifo, broken >>

ReadFlag(t) ==
    \/ is_full_flag /\ ReadStart(t, "r_flag", Size)
    \/ /\ ~is_full_flag
       /\ Goto(t, "r_flag", "r_cmp")
       /\ UNCHANGED << ring, read_mutex, write_mutex, locals, fifo, broken >>

ReadCmp(t) ==
    /\ Goto(t, "r_cmp", "r_used")
    /\ snap' = [snap EXCEPT ![t] = head]
    /\ UNCHANGED << ring, read_mutex, write_mutex, data, want, res, fifo, broken >>

ReadUsed(t) == ReadStart(t, "r_used", UsedOf(snap[t], tail, Second(t, head), tail))

ReadLoad(t) ==
    /\ Goto(t, "r_load", "r_tail")
    /\ broken' = (broken \/ fifo = << >> \/ p_buff[tail] # Head(fifo))
    /\ UNCHANGED << ring, read_mutex, write_mutex, locals, fifo >>

ReadTail(t) ==
    /\ Goto(t, "r_tail", "r_clear")
    /\ tail' = (tail + 1) % Size
    /\ fifo' = IF fifo = << >> THEN << >> ELSE Tail(fifo)
    /\ UNCHANGED << p_buff, head, is_full_flag, read_mutex, write_mutex, locals, broken >>

\* mutant: the flag is not cleared
ReadClearForgotten(t) ==
    /\ UNCHANGED is_full_flag
    /\ Goto(t, "r_clear", IF want[t] = 1 THEN "idle" ELSE "r_load")
    /\ want' = [want EXCEPT ![t] = @ - 1]
    /\ read_mutex' = IF want[t] = 1 THEN NoTask ELSE read_mutex
    /\ UNCHANGED << p_buff, head, tail, write_mutex, data, snap, res, fifo, broken >>

\* the flag is cleared after every byte; the last one releases the lock
ReadClear(t) ==
    /\ is_full_flag' = FALSE
    /\ Goto(t, "r_clear", IF want[t] = 1 THEN "idle" ELSE "r_load")
    /\ want' = [want EXCEPT ![t] = @ - 1]
    /\ read_mutex' = IF want[t] = 1 THEN NoTask ELSE read_mutex
    /\ UNCHANGED << p_buff, head, tail, write_mutex, data, snap, res, fifo, broken >>

-----------------------------------------------------------------------------
(* name##_used, name##_available, name##_is_empty, name##_is_full           *)

QueryCall(t, q) ==
    /\ t \in Observers
    /\ Goto(t, "idle", "o_take")
    /\ res' = [res EXCEPT ![t] = << q, 0 >>]
    /\ UNCHANGED << ring, read_mutex, write_mutex, data, want, snap, fifo, broken >>

QueryTake(t) ==
    /\ read_mutex = NoTask
    /\ read_mutex' = t
    /\ Goto(t, "o_take", "o_flag")
    /\ UNCHANGED << ring, write_mutex, locals, fifo, broken >>

QueryReturn(t, from, value) ==
    /\ Goto(t, from, "idle")
    /\ res' = [res EXCEPT ![t] = << @[1], value >>]
    /\ snap' = [snap EXCEPT ![t] = 0]
    /\ read_mutex' = NoTask
    /\ UNCHANGED << ring, write_mutex, data, want, fifo, broken >>

\* Booleans are returned as 0 and 1.
QueryFlag(t) ==
    \/ /\ is_full_flag \/ res[t][1] = "is_full"
       /\ QueryReturn(t, "o_flag",
            CASE res[t][1] = "used"      -> Size
              [] res[t][1] = "available" -> 0
              [] res[t][1] = "is_empty"  -> 0
              [] res[t][1] = "is_full"   -> IF is_full_flag THEN 1 ELSE 0)
    \/ /\ ~is_full_flag /\ res[t][1] # "is_full"
       /\ Goto(t, "o_flag", "o_cmp")
       /\ UNCHANGED << ring, read_mutex, write_mutex, locals, fifo, broken >>

QueryCmp(t) ==
    \/ /\ res[t][1] = "is_empty"
       /\ QueryReturn(t, "o_cmp", IF head = tail THEN 1 ELSE 0)
    \/ /\ res[t][1] # "is_empty"
       /\ Goto(t, "o_cmp", "o_calc")
       /\ snap' = [snap EXCEPT ![t] = head]
       /\ UNCHANGED << ring, read_mutex, write_mutex, data, want, res, fifo, broken >>

QueryCalc(t) ==
    /\ res[t][1] \in {"used", "available"}
    /\ QueryReturn(t, "o_calc",
         IF res[t][1] = "used"
         THEN UsedOf(snap[t], tail, Second(t, head), tail)
         ELSE AvailableOf(snap[t], tail, Second(t, head), tail))

-----------------------------------------------------------------------------
(* name##_clear                                                             *)

ClearCall(t) ==
    /\ t \in Clearers
    /\ Goto(t, "idle", "c_take_read")
    /\ UNCHANGED << ring, read_mutex, write_mutex, locals, fifo, broken >>

ClearTakeRead(t) ==
    /\ read_mutex = NoTask
    /\ read_mutex' = t
    /\ Goto(t, "c_take_read", "c_take_write")
    /\ UNCHANGED << ring, write_mutex, locals, fifo, broken >>

ClearTakeWrite(t) ==
    /\ write_mutex = NoTask
    /\ write_mutex' = t
    /\ Goto(t, "c_take_write", "c_reset")
    /\ UNCHANGED << ring, read_mutex, locals, fifo, broken >>

\* mutant: the flag of a full ring survives the clear
ClearKeepsFlag(t) ==
    /\ Goto(t, "c_reset", "idle")
    /\ head' = 0
    /\ tail' = 0
    /\ fifo' = << >>
    /\ write_mutex' = NoTask
    /\ read_mutex' = NoTask
    /\ UNCHANGED << p_buff, is_full_flag, locals, broken >>

\* both locks are held: no other task sees the stores one by one
ClearReset(t) ==
    /\ Goto(t, "c_reset", "idle")
    /\ head' = 0
    /\ tail' = 0
    /\ is_full_flag' = FALSE
    /\ fifo' = << >>
    /\ write_mutex' = NoTask
    /\ read_mutex' = NoTask
    /\ UNCHANGED << p_buff, locals, broken >>

-----------------------------------------------------------------------------
(* The coincidences nothing in the code excludes.                           *)

Inside(section) == \E t \in Tasks : pc[t] \in section

\* a read and a write are in progress at once while the ring is full
BrimOverlap == Inside(WriteSection) /\ Inside(ReadSection) /\ Len(fifo) = Size

\* a read emptied the ring between a write's store and its head == tail test,
\* which then takes the empty ring for a full one
EmptiedBeforeTest == fifo = << >> /\ \E t \in Tasks : pc[t] = "w_test"

\* the other side's index wrapped between the comparison and the subtraction
WrapBetweenLoads ==
    /\ Reload
    /\ \E t \in Tasks :
          \/ pc[t] = "w_avail" /\ (head >= snap[t]) # (head >= tail)
          \/ pc[t] = "r_used"  /\ (snap[t] >= tail) # (head >= tail)

Monitor == exposed' = (exposed \/ BrimOverlap' \/ EmptiedBeforeTest' \/ WrapBetweenLoads')

WriteStep(t) ==
    \/ WriteTake(t) \/ WriteTimeout(t) \/ WriteFlag(t) \/ WriteCmp(t) \/ WriteAvail(t)
    \/ WriteStore(t) \/ WriteHead(t) \/ WriteTest(t) \/ WriteFull(t)

ReadStep(t) ==
    \/ ReadTake(t) \/ ReadTimeout(t) \/ ReadFlag(t) \/ ReadCmp(t) \/ ReadUsed(t)
    \/ ReadLoad(t) \/ ReadTail(t) \/ ReadClear(t)

QueryStep(t) == QueryTake(t) \/ QueryFlag(t) \/ QueryCmp(t) \/ QueryCalc(t)

ClearStep(t) == ClearTakeRead(t) \/ ClearTakeWrite(t) \/ ClearReset(t)

\* The arguments a caller may pass: len is at least 1 (0 returns at once).
Buffers == UNION {[1 .. n -> Byte] : n \in 1 .. MaxLen}

Call(t) ==
    \/ \E d \in Buffers : WriteCall(t, d)
    \/ \E n \in 1 .. MaxLen : ReadCall(t, n)
    \/ \E q \in QueryNames : QueryCall(t, q)
    \/ ClearCall(t)

Progress(t) == WriteStep(t) \/ ReadStep(t) \/ QueryStep(t) \/ ClearStep(t)

Next == \E t \in Tasks : (Call(t) \/ Progress(t)) /\ Monitor

Spec == Init /\ [][Next]_vars

\* Every task that is inside write() or read() keeps being scheduled.
FairSpec ==
    /\ Spec
    /\ \A t \in Writers : WF_vars(WriteStep(t) /\ Monitor)
    /\ \A t \in Readers : WF_vars(ReadStep(t) /\ Monitor)

-----------------------------------------------------------------------------
(* Properties                                                               *)

Points ==
    {"idle", "c_reset"} \cup WriteSection \cup ReadSection \cup QuerySection \cup WaitPoints

\* Type invariant.  In particular head and tail stay below Size whatever the
\* interleaving, so p_buff[rb->head] and p_buff[rb->tail] of name##_write and
\* name##_read stay inside the allocation.
TypeOK ==
    /\ p_buff \in [Slots -> Byte]
    /\ head \in Slots
    /\ tail \in Slots
    /\ is_full_flag \in BOOLEAN
    /\ read_mutex \in Tasks \cup {NoTask}
    /\ write_mutex \in Tasks \cup {NoTask}
    /\ pc \in [Tasks -> Points]
    /\ data \in [Tasks -> Seq(Byte)]
    /\ want \in [Tasks -> Nat]
    /\ snap \in [Tasks -> Slots]
    /\ res \in [Tasks -> (QueryNames \cup {"none"}) \X Nat]
    /\ fifo \in Seq(Byte)
    /\ Len(fifo) <= Size
    /\ exposed \in BOOLEAN
    /\ broken \in BOOLEAN

\* name##_read delivers exactly the bytes name##_write accepted, in order, and
\* name##_write overwrites no byte that is still to be read, unless a read and
\* a write overlapped while the ring was full, a read emptied the ring before
\* the write tested for full, or (in a build that loads an index twice) the
\* index wrapped between the two loads.
FifoIntact == broken => exposed

Quiet == \A t \in Tasks : pc[t] \notin WriteSection \cup ReadSection

\* Between calls, is_full_flag and the distance from tail to head say exactly
\* how many bytes are stored, so is_full(), used() and available() tell the
\* truth, unless one of those coincidences happened.
FullFlagExact ==
    (Quiet /\ ~exposed) =>
        /\ is_full_flag = (Len(fifo) = Size)
        /\ ~is_full_flag => UsedOf(head, tail, head, tail) = Len(fifo)

\* "true" of is_full() means full and "false" means not full, as the header's
\* description of ring_buff_is_full_func_t promises without exception.
FullFlagTruth == Quiet => is_full_flag = (Len(fifo) = Size)

\* used() and available() return a number of bytes of the ring, as their
\* descriptions in the header promise: never more than its size.
SpaceInRange ==
    \A t \in Tasks :
        (pc[t] = "idle" /\ res[t][1] \in {"used", "available"}) => res[t][2] <= Size

\* Every write() and read() that is waiting or running returns: the timeouts of
\* the two takes and the finite loops leave no call hanging.
CallsReturn ==
    \A t \in Writers \cup Readers : pc[t] # "idle" ~> pc[t] = "idle"

-----------------------------------------------------------------------------
(* The inductive invariant behind FifoIntact and FullFlagExact.             *)

\* A task holds a mutex exactly while it is in a part of a call that needs it.
LockInv ==
    /\ \A t \in Tasks : (write_mutex = t) <=> (pc[t] \in WriteSection \cup {"c_reset"})
    /\ \A t \in Tasks : (read_mutex = t) <=>
          (pc[t] \in ReadSection \cup QuerySection \cup {"c_take_write", "c_reset"})

\* What a call knows of its own arguments, whatever the other tasks do.
LocalInv ==
    \A t \in Tasks :
        /\ pc[t] \in {"w_take", "w_flag", "w_cmp", "w_avail", "w_store", "w_head"} => data[t] # << >>
        /\ pc[t] \in ReadSection \cup {"r_take"} => want[t] >= 1
        /\ pc[t] \in QuerySection \cup {"o_take"} => res[t][1] \in QueryNames
        /\ pc[t] = "o_cmp" => res[t][1] # "is_full"
        /\ pc[t] = "o_calc" => res[t][1] \in {"used", "available"}

\* Monitor records every coincidence in the step that brings it about.
ExposureInv == (BrimOverlap \/ EmptiedBeforeTest \/ WrapBetweenLoads) => exposed

\* i slots after slot s; the number of slots from t to h in a ring that is not full
Slot(s, i) == IF s + i < Size THEN s + i ELSE s + i - Size
Dist(t, h) == IF h >= t THEN h - t ELSE Size - (t - h)

\* The ring holds fifo, from tail to head.
ContentInv ==
    /\ head = Slot(tail, Len(fifo))
    /\ \A i \in 1 .. Len(fifo) : p_buff[Slot(tail, i - 1)] = fifo[i]

\* is_full_flag is exact, except while the call that changes it is on its way.
FlagInv ==
    /\ is_full_flag =>
          \/ Len(fifo) = Size
          \/ Len(fifo) = Size - 1 /\ \E t \in Tasks : pc[t] = "r_clear"
    /\ Len(fifo) = Size =>
          \/ is_full_flag
          \/ \E t \in Tasks : pc[t] \in {"w_test", "w_full"}

\* The room a write counted on is there, the bytes a read counted on are there.
WriterInv ==
    \A t \in Tasks :
        /\ pc[t] \in WriteSection \ {"w_flag"} => ~is_full_flag
        /\ pc[t] \in {"w_cmp", "w_avail", "w_store", "w_head"} => Len(fifo) < Size
        /\ pc[t] = "w_avail" => Dist(snap[t], head) >= Len(fifo)
        /\ pc[t] \in {"w_store", "w_head", "w_test", "w_full"} => Len(data[t]) <= Size - Len(fifo)
        /\ pc[t] = "w_head" => p_buff[head] = Head(data[t])
        /\ pc[t] = "w_test" => Len(fifo) >= 1
        /\ pc[t] = "w_full" => Len(fifo) = Size

ReaderInv ==
    \A t \in Tasks :
        /\ pc[t] \in {"r_cmp", "r_used", "r_clear"} => Len(fifo) < Size
        /\ pc[t] = "r_used" => Dist(tail, snap[t]) <= Len(fifo)
        /\ pc[t] \in {"r_load", "r_tail"} => want[t] <= Len(fifo)
        /\ pc[t] = "r_clear" => want[t] - 1 <= Len(fifo)

RingInv == ~broken /\ ContentInv /\ FlagInv /\ WriterInv /\ ReaderInv

\* As long as none of the coincidences happened, the ring is the queue fifo.
IInv ==
    /\ TypeOK
    /\ LockInv
    /\ LocalInv
    /\ ExposureInv
    /\ ~exposed => RingInv
=============================================================================
