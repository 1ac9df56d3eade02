---------------------------- MODULE KernelMutex ----------------------------
(***************************************************************************)
(* Mutexes with priority inheritance (FreeRtos/kernel/queue.c and tasks.c) *)
(* under the two nested mutexes of every log message: Log_... takes        *)
(* g_log_mutex for as long as it takes and printf then takes the write     *)
(* mutex of the console ring for each byte, with a time-out.               *)
(*                                                                         *)
(* A ready task of the highest priority runs.  Tasks wake up at any time   *)
(* (a tick, a packet, an interrupt) and sleep when they have nothing to do *)
(* (vTaskDelay, an empty mailbox).  What they do besides printing is their *)
(* own code; for the tcpip thread that is the code of the callbacks.       *)
(***************************************************************************)
EXTENDS Integers, Sequences, FiniteSets, Functions, KernelLists

CONSTANTS
    Tasks,
    uxBasePriority, \* of each task
    Tcpip, Client,  \* the tcpip thread and the task of tcp_client.c
    NoTask

Log == "g_log_mutex"
Ring == "write_mutex"
Mutexes == {Log, Ring}

ASSUME MutexAssumption ==
    /\ uxBasePriority \in [Tasks -> Nat]
    /\ {Tcpip, Client} \subseteq Tasks
    /\ NoTask \notin Tasks

VARIABLES
    uxPriority,
    xMutexHolder,
    xTasksWaitingToReceive,     \* of each mutex, in order of priority at the time of insertion
    pc, mutex,                  \* each task's place, and the mutex it takes or gives
    expired,                    \* its time-out is over
    xInheritanceOccurred        \* the holder owes it its priority

vars == << uxPriority, xMutexHolder, xTasksWaitingToReceive, pc, mutex, expired, xInheritanceOccurred >>

Places == {"asleep", "own", "take", "block", "blocked", "late", "disinherit", "write", "logged"}

TypeOK ==
    /\ uxPriority \in [Tasks -> Nat]
    /\ xMutexHolder \in [Mutexes -> Tasks \cup {NoTask}]
    /\ xTasksWaitingToReceive \in [Mutexes -> Seq(Tasks)]
    /\ pc \in [Tasks -> Places]
    /\ mutex \in [Tasks -> Mutexes]
    /\ expired \subseteq {t \in Tasks : mutex[t] = Ring /\ pc[t] \in {"take", "block", "late", "disinherit"}}
    /\ xInheritanceOccurred \subseteq Tasks

Init ==
    /\ uxPriority = uxBasePriority
    /\ xMutexHolder = [m \in Mutexes |-> NoTask]
    /\ xTasksWaitingToReceive = [m \in Mutexes |-> << >>]
    /\ pc = [t \in Tasks |-> "asleep"]
    /\ mutex = [t \in Tasks |-> Log]
    /\ expired = {}
    /\ xInheritanceOccurred = {}

Held(t) == {m \in Mutexes : xMutexHolder[m] = t}
Ready(t) == pc[t] \notin {"asleep", "blocked"}
Runs(t) == Ready(t) /\ \A u \in Tasks : Ready(u) => uxPriority[u] <= uxPriority[t]
Goto(t, from, to) == Runs(t) /\ pc[t] = from /\ pc' = [pc EXCEPT ![t] = to]

(***************************************************************************)
(* A task and what it prints                                               *)
(***************************************************************************)
Wake(t) ==
    /\ pc[t] = "asleep"
    /\ pc' = [pc EXCEPT ![t] = "own"]
    /\ UNCHANGED << uxPriority, xMutexHolder, xTasksWaitingToReceive, mutex, expired, xInheritanceOccurred >>

Sleep(t) ==
    /\ Goto(t, "own", "asleep")
    /\ UNCHANGED << uxPriority, xMutexHolder, xTasksWaitingToReceive, mutex, expired, xInheritanceOccurred >>

\* Log_... begins with g_log_mutex, printf with the ring.
Output(t, m) ==
    /\ Goto(t, "own", "take")
    /\ mutex' = [mutex EXCEPT ![t] = m]
    /\ UNCHANGED << uxPriority, xMutexHolder, xTasksWaitingToReceive, expired, xInheritanceOccurred >>

\* where a task goes on after a byte was written, or could not be
AfterByte(t) == IF xMutexHolder[Log] = t THEN "logged" ELSE "own"

\* each call has a time-out of its own
Renewed(t) == expired \ {t}

(***************************************************************************)
(* xQueueSemaphoreTake                                                     *)
(***************************************************************************)
\* First critical section.  A log message that has g_log_mutex goes on with the ring.
Take(t) ==
    /\ xMutexHolder[mutex[t]] = NoTask
    /\ xMutexHolder' = [xMutexHolder EXCEPT ![mutex[t]] = t]
    /\ Goto(t, "take", IF mutex[t] = Log THEN "take" ELSE "write")
    /\ mutex' = [mutex EXCEPT ![t] = Ring]
    /\ expired' = Renewed(t)
    /\ xInheritanceOccurred' = xInheritanceOccurred \ {t}
    /\ UNCHANGED << uxPriority, xTasksWaitingToReceive >>

IsHeld(t) ==
    /\ xMutexHolder[mutex[t]] # NoTask
    /\ Goto(t, "take", "block")
    /\ UNCHANGED << uxPriority, xMutexHolder, xTasksWaitingToReceive, mutex, expired, xInheritanceOccurred >>

\* xTaskPriorityInherit
Raised(h, p) == IF uxPriority[h] < p THEN [uxPriority EXCEPT ![h] = p] ELSE uxPriority

\* vTaskPlaceOnEventList
Insert(list, t) == vListInsert(list, t, uxPriority)

\* With the scheduler suspended: the mutex is still held, the holder inherits.
Block(t) ==
    LET h == xMutexHolder[mutex[t]]
    IN  /\ t \notin expired
        /\ h # NoTask
        /\ Goto(t, "block", "blocked")
        /\ uxPriority' = Raised(h, uxPriority[t])
        /\ xInheritanceOccurred' = IF uxBasePriority[h] < uxPriority[t] THEN xInheritanceOccurred \cup {t}
                                                                         ELSE xInheritanceOccurred \ {t}
        /\ xTasksWaitingToReceive' = [xTasksWaitingToReceive EXCEPT ![mutex[t]] = Insert(@, t)]
        /\ UNCHANGED << xMutexHolder, mutex, expired >>

Retry(t) ==
    /\ t \notin expired
    /\ xMutexHolder[mutex[t]] = NoTask
    /\ Goto(t, "block", "take")
    /\ UNCHANGED << uxPriority, xMutexHolder, xTasksWaitingToReceive, mutex, expired, xInheritanceOccurred >>

TimedOut(t) ==
    /\ t \in expired
    /\ Goto(t, "block", "late")
    /\ UNCHANGED << uxPriority, xMutexHolder, xTasksWaitingToReceive, mutex, expired, xInheritanceOccurred >>

\* mutant: no end to the attempts
TryAgain(t) == "take"

\* prvIsQueueEmpty after the time-out
AfterTimeout(t) ==
    CASE xMutexHolder[mutex[t]] = NoTask -> "take"
      [] xMutexHolder[mutex[t]] # NoTask /\ t \in xInheritanceOccurred -> "disinherit"
      [] OTHER -> AfterByte(t)

LookAgain(t) ==
    /\ Goto(t, "late", AfterTimeout(t))
    /\ expired' = IF AfterTimeout(t) \in {"own", "logged"} THEN Renewed(t) ELSE expired
    /\ UNCHANGED << uxPriority, xMutexHolder, xTasksWaitingToReceive, mutex, xInheritanceOccurred >>

\* prvGetDisinheritPriorityAfterTimeout: the priority of the first that waits, or none
HighestWaiting(m) ==
    IF xTasksWaitingToReceive[m] = << >> THEN 0 ELSE uxPriority[Head(xTasksWaitingToReceive[m])]

\* vTaskPriorityDisinheritAfterTimeout: the holder keeps the priority of the first that
\* still waits, and all of it if it holds another mutex.
DisinheritAfterTimeout(t) ==
    LET h == xMutexHolder[mutex[t]]
        to == IF uxBasePriority[h] < HighestWaiting(mutex[t]) THEN HighestWaiting(mutex[t])
                                                              ELSE uxBasePriority[h]
    IN  /\ Goto(t, "disinherit", AfterByte(t))
        /\ uxPriority' = IF h # NoTask /\ Cardinality(Held(h)) = 1
                           THEN [uxPriority EXCEPT ![h] = to] ELSE uxPriority
        /\ xInheritanceOccurred' = xInheritanceOccurred \ {t}
        /\ expired' = Renewed(t)
        /\ UNCHANGED << xMutexHolder, xTasksWaitingToReceive, mutex >>

(***************************************************************************)
(* xQueueGenericSend of a mutex, and the tick                              *)
(***************************************************************************)
\* mutant: the priority goes back although another mutex is held
DisinheritAlways(t, m) == [uxPriority EXCEPT ![t] = uxBasePriority[t]]

\* mutant: the priority stays
DisinheritNever(t, m) == uxPriority

\* xTaskPriorityDisinherit
Disinherited(t, m) ==
    IF Held(t) = {m} THEN [uxPriority EXCEPT ![t] = uxBasePriority[t]] ELSE uxPriority

\* mutant: nobody is made ready
NoneWoken(m) == {}

\* xTaskRemoveFromEventList, if anybody waits
Woken(m) == IF xTasksWaitingToReceive[m] = << >> THEN {} ELSE {Head(xTasksWaitingToReceive[m])}

\* The mutex is given back, and the first that waits for it made ready.
Give(t, m, from, to) ==
    /\ Runs(t)
    /\ pc[t] = from
    /\ xMutexHolder' = [xMutexHolder EXCEPT ![m] = NoTask]
    /\ uxPriority' = Disinherited(t, m)
    /\ xTasksWaitingToReceive' = [xTasksWaitingToReceive EXCEPT ![m] = IF @ = << >> THEN @ ELSE Tail(@)]
    /\ pc' = [u \in Tasks |-> IF u = t THEN to ELSE IF u \in Woken(m) THEN "take" ELSE pc[u]]
    /\ UNCHANGED << mutex, expired, xInheritanceOccurred >>

ByteWritten(t) == Give(t, Ring, "write", AfterByte(t))
Logged(t) == Give(t, Log, "logged", "own")

\* xTaskIncrementTick: only the wait for the ring has a time-out.
Expire(t) ==
    /\ mutex[t] = Ring
    /\ pc[t] \in {"block", "blocked"}
    /\ t \notin expired
    /\ expired' = expired \cup {t}
    /\ xTasksWaitingToReceive' = [xTasksWaitingToReceive EXCEPT ![Ring] = listREMOVE_ITEM(@, t)]
    /\ pc' = [pc EXCEPT ![t] = IF @ = "blocked" THEN "take" ELSE @]
    /\ UNCHANGED << uxPriority, xMutexHolder, mutex, xInheritanceOccurred >>

TaskStep(t) ==
    \/ Sleep(t) \/ (\E m \in Mutexes : Output(t, m))
    \/ Take(t) \/ IsHeld(t) \/ Block(t) \/ Retry(t) \/ TimedOut(t) \/ LookAgain(t)
    \/ DisinheritAfterTimeout(t) \/ ByteWritten(t) \/ Logged(t)

Next == \E t \in Tasks : Wake(t) \/ TaskStep(t) \/ Expire(t)

Spec == Init /\ [][Next]_vars

\* The processor does not stop, and a task that has something to do does not print for ever.
Fairness == \A t \in Tasks : WF_vars(TaskStep(t)) /\ SF_vars(Sleep(t))

FairSpec == Spec /\ Fairness

(***************************************************************************)
(* Properties                                                              *)
(***************************************************************************)
\* A task that holds no mutex is back at its own priority, whatever became of the waits that
\* raised it: given mutexes, time-outs, and both at once.
PriorityRestored ==
    \A t \in Tasks : Held(t) = {} => uxPriority[t] = uxBasePriority[t]

\* While a task waits for a mutex, the holder runs with at least the waiting task's own priority,
\* so tasks in between cannot keep it from giving the mutex back.
WaitersRaiseHolder ==
    \A m \in Mutexes : \A t \in Range(xTasksWaitingToReceive[m]) :
        /\ xMutexHolder[m] # NoTask
              => uxPriority[xMutexHolder[m]] >= uxBasePriority[t]
        /\ xMutexHolder[m] = NoTask
              => \E u \in Tasks : pc[u] = "take" /\ mutex[u] = m /\ uxPriority[u] >= uxBasePriority[t]

\* No task is below tcp_client_task, the tcpip thread is above it and at most one other task has its
\* priority.  (Inheritance does not go through two mutexes: of two such tasks one can hold
\* g_log_mutex and wait for the ring, which the other has, without either getting ahead of the client.)
ClientLowest ==
    /\ \A t \in Tasks : uxBasePriority[Client] <= uxBasePriority[t]
    /\ uxBasePriority[Client] < uxBasePriority[Tcpip]
    /\ \A t, u \in Tasks \ {Client} :
          uxBasePriority[t] = uxBasePriority[Client] /\ uxBasePriority[u] = uxBasePriority[Client] => t = u

\* While a callback waits for its turn to print, tcp_client_task does not leave its own code: the
\* callbacks of tcp_client.c are atomic for the task although they print.
ClientCallbacksAtomic ==
    [][pc[Tcpip] # "asleep" /\ pc[Client] = "own" => pc'[Client] = "own"]_vars

\* Nobody waits for ever: once nothing wakes the tasks any more, all messages get out.
AllPrinted ==
    <>[][\A t \in Tasks : ~ Wake(t)]_vars => <>[](\A t \in Tasks : pc[t] = "asleep")
=============================================================================
