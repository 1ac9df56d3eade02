---------------------------- MODULE KernelQueue ----------------------------
(***************************************************************************)
(* FreeRtos/kernel/queue.c: one queue, tasks that send to it and receive   *)
(* from it with a time to wait, and an interrupt handler that does both.    *)
(*                                                                         *)
(* A critical section is one step.  Between two of them any interrupt, and *)
(* unless the scheduler is suspended any other ready task, may run.  While *)
(* a task decides to block it locks the queue: a handler may still add or  *)
(* take an item but leaves the event lists alone and counts instead.       *)
(* Time is abstract: a wait of "some" ticks may expire at any moment at    *)
(* which the tick is not held back by a suspended scheduler.               *)
(***************************************************************************)
EXTENDS Integers, Sequences, FiniteSets, Functions, KernelLists

CONSTANTS
    Tasks,
    Prio,       \* the priority of each task
    Calls,      \* the calls each task makes: "send", "receive" or both
    Handler,    \* the interrupt handler
    Item,
    uxLength,
    NoTask,
    Pending, Passed, Full, Empty

ASSUME QueueAssumption ==
    /\ uxLength \in Nat \ {0}
    /\ Prio \in [Tasks -> Nat]
    /\ Calls \in [Tasks -> SUBSET {"send", "receive"}]
    /\ IsFiniteSet(Tasks)
    /\ NoTask \notin Tasks
    /\ Handler \notin Tasks
    /\ Cardinality({Pending, Passed, Full, Empty}) = 4
    /\ {Pending, Passed, Full, Empty} \cap Item = {}

VARIABLES
    store,              \* the storage area
    pcWriteTo,          \* the next free place
    pcReadFrom,         \* the place that was read last
    uxMessagesWaiting,
    cTxLock, cRxLock,
    xTasksWaitingToSend, xTasksWaitingToReceive,
    blocked,            \* the tasks taken off the ready lists
    xPendingReadyList,  \* those to be put back when the scheduler resumes
    suspended,          \* the task that suspended the scheduler
    pc, op, wait,       \* each task's place, call and time to wait
    pvItem,             \* what it sends
    expired,            \* its time to wait is over
    answer              \* what its last call returned

queueVars == << store, pcWriteTo, pcReadFrom, uxMessagesWaiting >>
lockVars == << cTxLock, cRxLock >>
listVars == << xTasksWaitingToSend, xTasksWaitingToReceive, blocked, xPendingReadyList >>
callVars == << op, wait, pvItem >>
vars == << queueVars, lockVars, listVars, suspended, pc, callVars, expired, answer >>

queueUNLOCKED == -1
queueLOCKED_UNMODIFIED == 0
Slots == 0 .. uxLength - 1
Ops == {"send", "receive"}
Places == {"idle", "check", "lock", "timeout", "look", "place", "unlock_tx", "unlock_rx", "resume",
           "expired_tx", "expired_rx", "expired_resume", "give_up"}

TypeOK ==
    /\ store \in [Slots -> Item]
    /\ pcWriteTo \in Slots
    /\ pcReadFrom \in Slots
    /\ uxMessagesWaiting \in 0 .. uxLength
    /\ cTxLock \in queueUNLOCKED .. Cardinality(Tasks)
    /\ cRxLock \in queueUNLOCKED .. Cardinality(Tasks)
    /\ xTasksWaitingToSend \in Seq(Tasks)
    /\ xTasksWaitingToReceive \in Seq(Tasks)
    /\ blocked \subseteq Tasks
    /\ xPendingReadyList \subseteq blocked
    /\ suspended \in Tasks \cup {NoTask}
    /\ pc \in [Tasks -> Places]
    /\ op \in [Tasks -> Ops]
    /\ wait \in [Tasks -> {"none", "some", "forever"}]
    /\ pvItem \in [Tasks -> Item]
    /\ expired \subseteq Tasks
    /\ answer \in [Tasks \cup {Handler} -> Item \cup {Pending, Passed, Full, Empty}]

Init ==
    /\ store \in [Slots -> Item]
    /\ pcWriteTo = 0
    /\ pcReadFrom = uxLength - 1
    /\ uxMessagesWaiting = 0
    /\ cTxLock = queueUNLOCKED
    /\ cRxLock = queueUNLOCKED
    /\ xTasksWaitingToSend = << >>
    /\ xTasksWaitingToReceive = << >>
    /\ blocked = {}
    /\ xPendingReadyList = {}
    /\ suspended = NoTask
    /\ pc = [t \in Tasks |-> "idle"]
    /\ op = [t \in Tasks |-> "send"]
    /\ wait = [t \in Tasks |-> "none"]
    /\ \E i \in Item : pvItem = [t \in Tasks |-> i]
    /\ expired = {}
    /\ answer = [c \in Tasks \cup {Handler} |-> Passed]

(***************************************************************************)
(* Helpers of queue.c and tasks.c                                          *)
(***************************************************************************)
Goto(t, place) == pc' = [pc EXCEPT ![t] = place]
Return(t, a) ==
    /\ answer' = [answer EXCEPT ![t] = a]
    /\ expired' = expired \ {t}
    /\ op' = [op EXCEPT ![t] = "send"]
    /\ wait' = [wait EXCEPT ![t] = "none"]
    /\ Goto(t, "idle")

\* The running task: the one that suspended the scheduler, else any ready one.
Runs(t) == IF suspended = NoTask THEN t \notin blocked ELSE t = suspended

\* pcWriteTo and pcReadFrom go from pcTail back to pcHead.
Step(p) == IF p + 1 >= uxLength THEN 0 ELSE p + 1

prvCopyDataToQueue(i) ==
    /\ store' = [store EXCEPT ![pcWriteTo] = i]
    /\ pcWriteTo' = Step(pcWriteTo)
    /\ uxMessagesWaiting' = uxMessagesWaiting + 1
    /\ UNCHANGED pcReadFrom

prvCopyDataFromQueue ==
    /\ pcReadFrom' = Step(pcReadFrom)
    /\ uxMessagesWaiting' = uxMessagesWaiting - 1
    /\ UNCHANGED << store, pcWriteTo >>

\* An event list is kept in order of priority, first come first served within one.
Insert(list, t) == vListInsert(list, t, Prio)

\* Takes the tasks at the head of a list off it, and makes them ready, or pending
\* when the scheduler is suspended.
xTaskRemoveFromEventList(freed) ==
    IF suspended = NoTask
        THEN /\ blocked' = blocked \ freed
             /\ UNCHANGED xPendingReadyList
        ELSE /\ xPendingReadyList' = xPendingReadyList \cup freed
             /\ UNCHANGED blocked

First(list, n) == SubSeq(list, 1, IF n < Len(list) THEN n ELSE Len(list))
Rest(list, n) == SubSeq(list, n + 1, Len(list))

WakeReceivers(n) ==
    /\ xTaskRemoveFromEventList(Range(First(xTasksWaitingToReceive, n)))
    /\ xTasksWaitingToReceive' = Rest(xTasksWaitingToReceive, n)
    /\ UNCHANGED xTasksWaitingToSend

WakeSenders(n) ==
    /\ xTaskRemoveFromEventList(Range(First(xTasksWaitingToSend, n)))
    /\ xTasksWaitingToSend' = Rest(xTasksWaitingToSend, n)
    /\ UNCHANGED xTasksWaitingToReceive

(***************************************************************************)
(* The calls of a task                                                     *)
(***************************************************************************)
Call(t) ==
    /\ Runs(t)
    /\ pc[t] = "idle"
    /\ \E o \in Calls[t] : op' = [op EXCEPT ![t] = o]
    /\ \E w \in {"none", "some", "forever"} : wait' = [wait EXCEPT ![t] = w]
    /\ \E i \in Item : pvItem' = [pvItem EXCEPT ![t] = i]
    /\ answer' = [answer EXCEPT ![t] = Pending]
    /\ Goto(t, "check")
    /\ UNCHANGED << queueVars, lockVars, listVars, suspended, expired >>

\* xQueueGenericSend, first critical section: there is room.
Send(t) ==
    /\ Runs(t)
    /\ pc[t] = "check"
    /\ op[t] = "send"
    /\ uxMessagesWaiting < uxLength
    /\ prvCopyDataToQueue(pvItem[t])
    /\ WakeReceivers(1)
    /\ Return(t, Passed)
    /\ UNCHANGED << lockVars, suspended, pvItem >>

\* xQueueReceive, first critical section: there is an item.
Receive(t) ==
    /\ Runs(t)
    /\ pc[t] = "check"
    /\ op[t] = "receive"
    /\ uxMessagesWaiting > 0
    /\ prvCopyDataFromQueue
    /\ WakeSenders(1)
    /\ Return(t, store[Step(pcReadFrom)])
    /\ UNCHANGED << lockVars, suspended, pvItem >>

\* prvIsQueueFull or prvIsQueueEmpty
Stuck(t) ==
    uxMessagesWaiting = IF op[t] = "send" THEN uxLength ELSE 0

Refusal(t) == IF op[t] = "send" THEN Full ELSE Empty

\* There is none and the caller does not want to wait.
Refuse(t) ==
    /\ Runs(t)
    /\ pc[t] = "check"
    /\ Stuck(t)
    /\ wait[t] = "none"
    /\ Return(t, Refusal(t))
    /\ UNCHANGED << queueVars, lockVars, listVars, suspended, pvItem >>

\* There is none and the caller will wait.
StartWait(t) ==
    /\ Runs(t)
    /\ pc[t] = "check"
    /\ Stuck(t)
    /\ wait[t] # "none"
    /\ Goto(t, "lock")
    /\ UNCHANGED << queueVars, lockVars, listVars, suspended, callVars, expired, answer >>

\* vTaskSuspendAll and prvLockQueue
Lock(t) ==
    /\ Runs(t)
    /\ pc[t] = "lock"
    /\ suspended' = t
    /\ cTxLock' = IF cTxLock = queueUNLOCKED THEN queueLOCKED_UNMODIFIED ELSE cTxLock
    /\ cRxLock' = IF cRxLock = queueUNLOCKED THEN queueLOCKED_UNMODIFIED ELSE cRxLock
    /\ Goto(t, "timeout")
    /\ UNCHANGED << queueVars, listVars, callVars, expired, answer >>

\* mutant: a wait is never over
NeverTimedOut(t) == t \notin Tasks

xTaskCheckForTimeOut(t) == t \in expired

CheckForTimeOut(t) ==
    /\ Runs(t)
    /\ pc[t] = "timeout"
    /\ Goto(t, IF xTaskCheckForTimeOut(t) THEN "expired_tx" ELSE "look")
    /\ UNCHANGED << queueVars, lockVars, listVars, suspended, callVars, expired, answer >>

LookAgain(t) ==
    /\ Runs(t)
    /\ pc[t] = "look"
    /\ Goto(t, IF Stuck(t) THEN "place" ELSE "unlock_tx")
    /\ UNCHANGED << queueVars, lockVars, listVars, suspended, callVars, expired, answer >>

vTaskPlaceOnEventList(t) ==
    /\ Runs(t)
    /\ pc[t] = "place"
    /\ blocked' = blocked \cup {t}
    /\ CASE op[t] = "send"    -> /\ xTasksWaitingToSend' = Insert(xTasksWaitingToSend, t)
                                 /\ UNCHANGED xTasksWaitingToReceive
         [] op[t] = "receive" -> /\ xTasksWaitingToReceive' = Insert(xTasksWaitingToReceive, t)
                                 /\ UNCHANGED xTasksWaitingToSend
    /\ Goto(t, "unlock_tx")
    /\ UNCHANGED << queueVars, lockVars, xPendingReadyList, suspended, callVars, expired, answer >>

\* prvUnlockQueue, first critical section: a waiting receiver for every item a handler added.
UnlockTx(t) ==
    /\ Runs(t)
    /\ pc[t] \in {"unlock_tx", "expired_tx"}
    /\ WakeReceivers(cTxLock)
    /\ cTxLock' = queueUNLOCKED
    /\ Goto(t, IF pc[t] = "unlock_tx" THEN "unlock_rx" ELSE "expired_rx")
    /\ UNCHANGED << queueVars, cRxLock, suspended, callVars, expired, answer >>

\* Second critical section: a waiting sender for every item a handler took.
UnlockRx(t) ==
    /\ Runs(t)
    /\ pc[t] \in {"unlock_rx", "expired_rx"}
    /\ WakeSenders(cRxLock)
    /\ cRxLock' = queueUNLOCKED
    /\ Goto(t, IF pc[t] = "unlock_rx" THEN "resume" ELSE "expired_resume")
    /\ UNCHANGED << queueVars, cTxLock, suspended, callVars, expired, answer >>

\* xTaskResumeAll; a task that is still on an event list is off the ready list, so the
\* yield that follows switches to another one.  A sender that is out of time returns.
ResumeAll(t) ==
    /\ Runs(t)
    /\ pc[t] \in {"resume", "expired_resume"}
    /\ suspended' = NoTask
    /\ blocked' = blocked \ xPendingReadyList
    /\ xPendingReadyList' = {}
    /\ IF pc[t] = "expired_resume" /\ op[t] = "send"
         THEN Return(t, Full)
         ELSE /\ Goto(t, IF pc[t] = "resume" THEN "check" ELSE "give_up")
              /\ UNCHANGED << op, wait, expired, answer >>
    /\ UNCHANGED << queueVars, lockVars, xTasksWaitingToSend, xTasksWaitingToReceive, pvItem >>

\* mutant: it does not look
GiveUpBlindly(t) ==
    /\ Runs(t)
    /\ pc[t] = "give_up"
    /\ op[t] = "receive"
    /\ Return(t, Empty)
    /\ UNCHANGED << queueVars, lockVars, listVars, suspended, pvItem >>

\* A receiver that is out of time looks once more.
GiveUp(t) ==
    /\ Runs(t)
    /\ pc[t] = "give_up"
    /\ op[t] = "receive"
    /\ IF Stuck(t)
         THEN Return(t, Empty)
         ELSE /\ Goto(t, "check")
              /\ UNCHANGED << op, wait, expired, answer >>
    /\ UNCHANGED << queueVars, lockVars, listVars, suspended, pvItem >>

(***************************************************************************)
(* Interrupts                                                              *)
(***************************************************************************)
\* mutant: the task stays on the event list
StaysOn(list, t) == list

\* xTaskIncrementTick takes a task whose time is over off the event list.
TakenOff(list, t) == listREMOVE_ITEM(list, t)

\* xTaskIncrementTick: the time of a call is over, a blocked caller becomes ready.
Expire(t) ==
    /\ suspended = NoTask
    /\ pc[t] # "idle"
    /\ wait[t] = "some"
    /\ t \notin expired
    /\ \/ pc[t] # "check"
       \/ t \in blocked
    /\ expired' = expired \cup {t}
    /\ blocked' = blocked \ {t}
    /\ xTasksWaitingToSend' = TakenOff(xTasksWaitingToSend, t)
    /\ xTasksWaitingToReceive' = TakenOff(xTasksWaitingToReceive, t)
    /\ UNCHANGED << queueVars, lockVars, xPendingReadyList, suspended, pc, callVars, answer >>

\* mutant: what a handler does to a locked queue is forgotten
Forget(lock) == lock

\* prvIncrementQueueTxLock and prvIncrementQueueRxLock
Increment(lock) == IF lock < Cardinality(Tasks) THEN lock + 1 ELSE lock

\* xQueueGenericSendFromISR
SendFromISR ==
    /\ IF uxMessagesWaiting < uxLength
         THEN /\ \E i \in Item : prvCopyDataToQueue(i)
              /\ answer' = [answer EXCEPT ![Handler] = Passed]
              /\ IF cTxLock = queueUNLOCKED
                   THEN WakeReceivers(1) /\ UNCHANGED cTxLock
                   ELSE cTxLock' = Increment(cTxLock) /\ UNCHANGED listVars
         ELSE /\ answer' = [answer EXCEPT ![Handler] = Full]
              /\ UNCHANGED << queueVars, listVars, cTxLock >>
    /\ UNCHANGED << cRxLock, suspended, pc, callVars, expired >>

\* xQueueReceiveFromISR
ReceiveFromISR ==
    /\ IF uxMessagesWaiting > 0
         THEN /\ prvCopyDataFromQueue
              /\ answer' = [answer EXCEPT ![Handler] = store[Step(pcReadFrom)]]
              /\ IF cRxLock = queueUNLOCKED
                   THEN WakeSenders(1) /\ UNCHANGED cRxLock
                   ELSE cRxLock' = Increment(cRxLock) /\ UNCHANGED listVars
         ELSE /\ answer' = [answer EXCEPT ![Handler] = Empty]
              /\ UNCHANGED << queueVars, listVars, cRxLock >>
    /\ UNCHANGED << cTxLock, suspended, pc, callVars, expired >>

TaskStep(t) ==
    \/ Send(t) \/ Receive(t) \/ Refuse(t) \/ StartWait(t)
    \/ Lock(t) \/ CheckForTimeOut(t) \/ LookAgain(t) \/ vTaskPlaceOnEventList(t)
    \/ UnlockTx(t) \/ UnlockRx(t) \/ ResumeAll(t) \/ GiveUp(t)

NewCall ==
    \/ \E t \in Tasks : Call(t)
    \/ SendFromISR
    \/ ReceiveFromISR

Next ==
    \/ NewCall
    \/ \E t \in Tasks : TaskStep(t) \/ Expire(t)

Spec == Init /\ [][Next]_vars

\* Every ready task is scheduled again and again, and time goes on.
Fairness == \A t \in Tasks : WF_vars(TaskStep(t)) /\ WF_vars(Expire(t))

FairSpec == Spec /\ Fairness

(***************************************************************************)
(* Properties                                                              *)
(***************************************************************************)
At(o) == {t \in Tasks : pc[t] = "check" /\ op[t] = o /\ t \notin blocked}

\* No wake-up is lost: while the scheduler runs, a receiver stays on the event list only
\* if every item in the queue has a ready receiver on its way to it, and a sender only if
\* every free place has a ready sender on its way.  The lock counts, the pending ready
\* list and the two critical sections of prvUnlockQueue exist for this.
NoLostWakeUp ==
    suspended = NoTask =>
        /\ xTasksWaitingToReceive # << >> => uxMessagesWaiting <= Cardinality(At("receive"))
        /\ xTasksWaitingToSend # << >> => uxLength - uxMessagesWaiting <= Cardinality(At("send"))

\* The kernel's lists agree: while the scheduler runs, a task is off the ready lists exactly
\* when it is on one event list of the queue, and the queue is not locked.
ListsAgree ==
    suspended = NoTask =>
        /\ blocked = Range(xTasksWaitingToSend) \cup Range(xTasksWaitingToReceive)
        /\ Cardinality(blocked) = Len(xTasksWaitingToSend) + Len(xTasksWaitingToReceive)
        /\ xPendingReadyList = {}
        /\ cTxLock = queueUNLOCKED
        /\ cRxLock = queueUNLOCKED

Contents ==
    [n \in 1 .. uxMessagesWaiting |->
        store[IF pcReadFrom + n >= uxLength THEN pcReadFrom + n - uxLength ELSE pcReadFrom + n]]

Fifo == INSTANCE BoundedFifo WITH queue <- Contents, Handlers <- {Handler}

\* The queue with its storage area, its locks and its waiting tasks implements BoundedFifo.
ImplementsFifo == Fifo!FifoSpec

\* Once no new calls come, every call that is under way returns, except those that wait for
\* ever for an item of an empty queue or a place in a full one.  (While calls keep coming the
\* code does not promise it: others may take every item before a woken task runs.)
CallsReturn ==
    <>[][~ NewCall]_vars =>
        \A t \in Tasks : <>[](pc[t] = "idle" \/ (wait[t] = "forever" /\ Stuck(t)))
=============================================================================
