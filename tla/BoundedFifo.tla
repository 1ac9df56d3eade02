---------------------------- MODULE BoundedFifo ----------------------------
(***************************************************************************)
(* What a FreeRTOS queue promises its callers: items are kept in the order *)
(* in which they were accepted, none is lost, changed or handed out twice, *)
(* a receiver is told that the queue is empty only when it is, and an      *)
(* interrupt handler that it is full only when it is.  A task that gave up *)
(* waiting for room is told so whatever the queue holds by then.           *)
(***************************************************************************)
EXTENDS Naturals, Sequences

CONSTANTS
    Tasks,      \* the callers that may wait
    Handlers,   \* the interrupt handlers, which may not
    Item,       \* the items
    uxLength,   \* how many of them fit
    Pending, Passed, Full, Empty    \* answers of a call

VARIABLES
    queue,      \* the items accepted and not yet taken
    answer      \* the answer of each caller's last call

Callers == Tasks \cup Handlers

FifoInit ==
    /\ queue = << >>
    /\ answer = [c \in Callers |-> Passed]

Answer(c, a) == answer' = [answer EXCEPT ![c] = a]

Call(c) ==
    /\ Answer(c, Pending)
    /\ UNCHANGED queue

Put(c, i) ==
    /\ Len(queue) < uxLength
    /\ queue' = Append(queue, i)
    /\ Answer(c, Passed)

Refuse(c) ==
    /\ c \in Handlers => Len(queue) = uxLength
    /\ Answer(c, Full)
    /\ UNCHANGED queue

Get(c) ==
    /\ queue # << >>
    /\ queue' = Tail(queue)
    /\ Answer(c, Head(queue))

FindEmpty(c) ==
    /\ queue = << >>
    /\ Answer(c, Empty)
    /\ UNCHANGED queue

FifoNext ==
    \/ \E c \in Tasks : Call(c)
    \/ \E c \in Callers : Get(c) \/ FindEmpty(c) \/ Refuse(c) \/ \E i \in Item : Put(c, i)

FifoSpec == FifoInit /\ [][FifoNext]_<<queue, answer>>
=============================================================================
