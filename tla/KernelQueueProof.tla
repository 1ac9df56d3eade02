-------------------------- MODULE KernelQueueProof --------------------------
(***************************************************************************)
(* A FreeRTOS queue implements BoundedFifo, its lists of tasks agree and   *)
(* no wake-up is lost, for every length, set of items and set of tasks.    *)
(***************************************************************************)
EXTENDS KernelQueue, TLAPS

Wrapped(x) == IF x >= uxLength THEN x - uxLength ELSE x

\* The items lie between pcReadFrom and pcWriteTo, cyclically.
StoreInv ==
    /\ store \in [Slots -> Item]
    /\ pcWriteTo \in Slots
    /\ pcReadFrom \in Slots
    /\ uxMessagesWaiting \in 0 .. uxLength
    /\ pcWriteTo = Wrapped(Step(pcReadFrom) + uxMessagesWaiting)
    /\ pvItem \in [Tasks -> Item]
    /\ answer \in [Tasks \cup {Handler} -> Item \cup {Pending, Passed, Full, Empty}]

\* Contents is a sequence of as many items as uxMessagesWaiting says.
LEMMA ContentsIsSequence ==
    StoreInv => /\ Contents \in Seq(Item)
                /\ Len(Contents) = uxMessagesWaiting
<1> SUFFICES ASSUME StoreInv
             PROVE  /\ Contents \in Seq(Item)
                    /\ Len(Contents) = uxMessagesWaiting
  OBVIOUS
<1>1. Contents \in [1 .. uxMessagesWaiting -> Item]
  BY QueueAssumption DEF StoreInv, Contents, Slots
<1>2. uxMessagesWaiting \in Nat
  BY QueueAssumption DEF StoreInv
<1> QED
  BY <1>1, <1>2, SMT

\* prvCopyDataToQueue appends to the contents.
LEMMA CopyToAppends ==
    ASSUME StoreInv, NEW i \in Item, uxMessagesWaiting < uxLength, prvCopyDataToQueue(i)
    PROVE  Contents' = Append(Contents, i)
<1>1. /\ uxMessagesWaiting \in Nat
      /\ uxMessagesWaiting' = uxMessagesWaiting + 1
      /\ pcReadFrom' = pcReadFrom
      /\ store' = [store EXCEPT ![pcWriteTo] = i]
  BY QueueAssumption DEF StoreInv, prvCopyDataToQueue
<1>2. Len(Contents) = uxMessagesWaiting /\ Contents \in Seq(Item)
  BY ContentsIsSequence
<1>3. Contents' \in Seq(Item) /\ Len(Contents') = uxMessagesWaiting + 1
  <2>1. Contents' \in [1 .. uxMessagesWaiting + 1 -> Item]
    BY <1>1, QueueAssumption DEF StoreInv, Contents, Slots
  <2> QED
    BY <2>1, <1>1, SMT
<1>4. ASSUME NEW n \in 1 .. uxMessagesWaiting + 1
      PROVE  Contents'[n] = Append(Contents, i)[n]
  <2>1. CASE n = uxMessagesWaiting + 1
    <3>1. Append(Contents, i)[n] = i
      BY <1>2, <2>1
    <3>2. Contents'[n] = i
      BY <1>1, <2>1, QueueAssumption DEF StoreInv, Contents, Slots, Wrapped, Step
    <3> QED
      BY <3>1, <3>2
  <2>2. CASE n \in 1 .. uxMessagesWaiting
    <3>1. Append(Contents, i)[n] = Contents[n]
      BY <1>2, <2>2
    <3>2. Contents'[n] = Contents[n]
      BY <1>1, <2>2, QueueAssumption DEF StoreInv, Contents, Slots, Wrapped, Step
    <3> QED
      BY <3>1, <3>2
  <2> QED
    <3>1. n = uxMessagesWaiting + 1 \/ n \in 1 .. uxMessagesWaiting
      BY <1>1
    <3> QED
      BY <3>1, <2>1, <2>2, Zenon
<1> QED
  BY <1>1, <1>2, <1>3, <1>4, SMT

\* prvCopyDataFromQueue takes the first of the contents.
LEMMA CopyFromTakesHead ==
    ASSUME StoreInv, uxMessagesWaiting > 0, prvCopyDataFromQueue
    PROVE  /\ Contents # << >>
           /\ Contents' = Tail(Contents)
           /\ Head(Contents) = store[Step(pcReadFrom)]
<1>1. /\ uxMessagesWaiting \in Nat
      /\ uxMessagesWaiting' = uxMessagesWaiting - 1
      /\ pcReadFrom' = Step(pcReadFrom)
      /\ store' = store
  BY QueueAssumption DEF StoreInv, prvCopyDataFromQueue
<1>2. Len(Contents) = uxMessagesWaiting /\ Contents \in Seq(Item)
  BY ContentsIsSequence
<1>3. Contents' \in Seq(Item) /\ Len(Contents') = uxMessagesWaiting - 1
  <2>1. Contents' \in [1 .. uxMessagesWaiting - 1 -> Item]
    BY <1>1, QueueAssumption DEF StoreInv, Contents, Slots, Step
  <2> QED
    BY <2>1, <1>1, SMT
<1>4. ASSUME NEW n \in 1 .. uxMessagesWaiting - 1
      PROVE  Contents'[n] = Tail(Contents)[n]
  <2>1. Tail(Contents)[n] = Contents[n + 1]
    BY <1>2, <1>1
  <2>2. Contents'[n] = Contents[n + 1]
    <3>1. n \in 1 .. uxMessagesWaiting' /\ n + 1 \in 1 .. uxMessagesWaiting
      BY <1>1
    <3>2. Contents'[n] = store[Wrapped(Step(pcReadFrom) + n)]
      BY <1>1, <3>1, QueueAssumption DEF StoreInv, Slots, Contents, Wrapped, Step
    <3>3. Contents[n + 1] = store[Wrapped(pcReadFrom + (n + 1))]
      BY <3>1, QueueAssumption DEF StoreInv, Slots, Contents, Wrapped
    <3>4. Wrapped(Step(pcReadFrom) + n) = Wrapped(pcReadFrom + (n + 1))
      BY <1>1, QueueAssumption DEF StoreInv, Slots, Step, Wrapped
    <3> QED
      BY <3>2, <3>3, <3>4
  <2> QED
    BY <2>1, <2>2, Zenon
<1>5. Head(Contents) = Contents[1] /\ Contents # << >>
  BY <1>2, <1>1
<1>6. Contents[1] = store[Step(pcReadFrom)]
  BY <1>1, QueueAssumption DEF StoreInv, Contents, Slots, Step
<1>7. Contents' = Tail(Contents)
  BY <1>1, <1>2, <1>3, <1>4, SMT
<1> QED
  BY <1>5, <1>6, <1>7

\* What the steps that move no item leave alone.
Frame == UNCHANGED << store, pcWriteTo, pcReadFrom, uxMessagesWaiting, pvItem >>

\* The answers a call can give.
Answers == Item \cup {Pending, Passed, Full, Empty}

\* An item that goes into the queue or out of it keeps the places in step.
LEMMA CopyKeepsPlaces ==
    ASSUME StoreInv
    PROVE  /\ \A i \in Item :
                uxMessagesWaiting < uxLength /\ prvCopyDataToQueue(i)
                    => /\ store' \in [Slots -> Item]
                       /\ pcWriteTo' \in Slots
                       /\ pcReadFrom' \in Slots
                       /\ uxMessagesWaiting' \in 0 .. uxLength
                       /\ pcWriteTo' = Wrapped(Step(pcReadFrom) + uxMessagesWaiting)'
           /\ uxMessagesWaiting > 0 /\ prvCopyDataFromQueue
                => /\ store' \in [Slots -> Item]
                   /\ pcWriteTo' \in Slots
                   /\ pcReadFrom' \in Slots
                   /\ uxMessagesWaiting' \in 0 .. uxLength
                   /\ pcWriteTo' = Wrapped(Step(pcReadFrom) + uxMessagesWaiting)'
                   /\ store[Step(pcReadFrom)] \in Item
<1>1. ASSUME NEW i \in Item, uxMessagesWaiting < uxLength, prvCopyDataToQueue(i)
      PROVE  /\ store' \in [Slots -> Item]
             /\ pcWriteTo' \in Slots
             /\ pcReadFrom' \in Slots
             /\ uxMessagesWaiting' \in 0 .. uxLength
             /\ pcWriteTo' = Wrapped(Step(pcReadFrom) + uxMessagesWaiting)'
  <2>1. store' \in [Slots -> Item] /\ pcReadFrom' \in Slots
    BY <1>1 DEF StoreInv, prvCopyDataToQueue
  <2>2. pcWriteTo' \in Slots /\ uxMessagesWaiting' \in 0 .. uxLength
    BY <1>1, QueueAssumption DEF StoreInv, prvCopyDataToQueue, Step, Slots
  <2>3. pcWriteTo' = Wrapped(Step(pcReadFrom) + uxMessagesWaiting)'
    <3>1. Step(pcReadFrom) \in 0 .. uxLength - 1 /\ uxMessagesWaiting \in 0 .. uxLength - 1
      BY <1>1, QueueAssumption DEF StoreInv, Step, Slots
    <3>2. \A a, n \in 0 .. uxLength - 1 : Step(Wrapped(a + n)) = Wrapped(a + (n + 1))
      BY QueueAssumption DEF Step, Wrapped
    <3>3. pcWriteTo' = Step(Wrapped(Step(pcReadFrom) + uxMessagesWaiting))
      BY <1>1 DEF StoreInv, prvCopyDataToQueue
    <3>4. Wrapped(Step(pcReadFrom) + uxMessagesWaiting)' = Wrapped(Step(pcReadFrom) + (uxMessagesWaiting + 1))
      BY <1>1 DEF prvCopyDataToQueue, Wrapped, Step
    <3> QED
      BY <3>1, <3>2, <3>3, <3>4
  <2> QED
    BY <2>1, <2>2, <2>3
<1>2. ASSUME uxMessagesWaiting > 0, prvCopyDataFromQueue
      PROVE  /\ store' \in [Slots -> Item]
             /\ pcWriteTo' \in Slots
             /\ pcReadFrom' \in Slots
             /\ uxMessagesWaiting' \in 0 .. uxLength
             /\ pcWriteTo' = Wrapped(Step(pcReadFrom) + uxMessagesWaiting)'
             /\ store[Step(pcReadFrom)] \in Item
  <2>1. Step(pcReadFrom) \in Slots
    BY QueueAssumption DEF StoreInv, Step, Slots
  <2>2. /\ store' \in [Slots -> Item]
        /\ pcWriteTo' \in Slots
        /\ pcReadFrom' \in Slots
        /\ store[Step(pcReadFrom)] \in Item
    BY <1>2, <2>1 DEF StoreInv, prvCopyDataFromQueue
  <2>3. /\ uxMessagesWaiting' \in 0 .. uxLength
        /\ pcWriteTo' = Wrapped(Step(pcReadFrom) + uxMessagesWaiting)'
    BY <1>2, QueueAssumption DEF StoreInv, prvCopyDataFromQueue, Wrapped, Step, Slots
  <2> QED
    BY <2>2, <2>3
<1> QED
  BY <1>1, <1>2

\* A step of a task or an interrupt is a step of BoundedFifo or changes nothing there, and keeps StoreInv.
LEMMA StepRefines ==
    ASSUME StoreInv, Next
    PROVE  StoreInv' /\ [Fifo!FifoNext]_<< Contents, answer >>
<1> DEFINE Q == << Contents, answer >>
<1>0. ASSUME Frame, answer' \in [Tasks \cup {Handler} -> Answers]
      PROVE  StoreInv' /\ Contents' = Contents
  BY <1>0 DEF Frame, StoreInv, Answers, Contents, Wrapped, Step
<1>a. answer \in [Tasks \cup {Handler} -> Answers]
  BY DEF StoreInv, Answers
<1>b. {Pending, Passed, Full, Empty} \subseteq Answers /\ Item \subseteq Answers
  BY DEF Answers
<1>c. Len(Contents) = uxMessagesWaiting /\ Contents \in Seq(Item)
  BY ContentsIsSequence
<1>d. uxMessagesWaiting \in Nat
  BY QueueAssumption DEF StoreInv
<1>e. Contents = << >> <=> uxMessagesWaiting = 0
  BY <1>c, <1>d
<1>1. ASSUME NEW t \in Tasks, Call(t)
      PROVE  StoreInv' /\ [Fifo!FifoNext]_Q
  <2>1. answer' = [answer EXCEPT ![t] = Pending]
    BY <1>1 DEF Call
  <2>2. \E i \in Item : pvItem' = [pvItem EXCEPT ![t] = i]
    BY <1>1, Zenon DEF Call
  <2>3. UNCHANGED << store, pcWriteTo, pcReadFrom, uxMessagesWaiting >>
    BY <1>1 DEF Call, queueVars
  <2>4. StoreInv' /\ Contents' = Contents
    BY <2>1, <2>2, <2>3 DEF StoreInv, Contents, Wrapped, Step
  <2> QED
    BY <2>1, <2>4, Zenon DEF Fifo!FifoNext, Fifo!Call, Fifo!Answer
<1>2. ASSUME NEW t \in Tasks, Send(t)
      PROVE  StoreInv' /\ [Fifo!FifoNext]_Q
  <2>1. /\ uxMessagesWaiting < uxLength
        /\ prvCopyDataToQueue(pvItem[t])
        /\ answer' = [answer EXCEPT ![t] = Passed]
        /\ pvItem' = pvItem
    BY <1>2 DEF Send, Return
  <2>2. pvItem[t] \in Item
    BY DEF StoreInv
  <2>3. StoreInv'
    BY <2>1, <2>2, <1>a, CopyKeepsPlaces DEF StoreInv
  <2>4. Contents' = Append(Contents, pvItem[t])
    BY <2>1, <2>2, CopyToAppends
  <2>5. Fifo!Put(t, pvItem[t])
    BY <2>1, <2>4, <1>c DEF Fifo!Put, Fifo!Answer
  <2> QED
    BY <2>2, <2>3, <2>5 DEF Fifo!FifoNext, Fifo!Callers
<1>3. ASSUME NEW t \in Tasks, Receive(t)
      PROVE  StoreInv' /\ [Fifo!FifoNext]_Q
  <2>1. /\ uxMessagesWaiting > 0
        /\ prvCopyDataFromQueue
        /\ answer' = [answer EXCEPT ![t] = store[Step(pcReadFrom)]]
        /\ pvItem' = pvItem
    BY <1>3 DEF Receive, Return
  <2>2. StoreInv'
    BY <2>1, <1>a, CopyKeepsPlaces DEF StoreInv
  <2>3. Fifo!Get(t)
    BY <2>1, CopyFromTakesHead, Zenon DEF Fifo!Get, Fifo!Answer
  <2> QED
    BY <2>2, <2>3 DEF Fifo!FifoNext, Fifo!Callers
<1>4. ASSUME NEW t \in Tasks, Refuse(t)
      PROVE  StoreInv' /\ [Fifo!FifoNext]_Q
  <2>1. /\ Frame
        /\ Stuck(t)
        /\ answer' = [answer EXCEPT ![t] = Refusal(t)]
    BY <1>4 DEF Refuse, Return, Frame, queueVars
  <2>2. StoreInv' /\ Contents' = Contents
    BY <2>1, <1>0, <1>a, <1>b DEF Refusal
  <2>3. CASE op[t] = "send"
    BY <2>1, <2>2, <2>3, QueueAssumption, Zenon DEF Fifo!FifoNext, Fifo!Callers, Fifo!Refuse, Fifo!Answer, Refusal
  <2>4. CASE op[t] # "send"
    BY <2>1, <2>2, <2>4, <1>e, Zenon DEF Fifo!FifoNext, Fifo!Callers, Fifo!FindEmpty, Fifo!Answer, Refusal, Stuck
  <2> QED
    BY <2>3, <2>4
<1>5. ASSUME NEW t \in Tasks,
             StartWait(t) \/ Lock(t) \/ CheckForTimeOut(t) \/ LookAgain(t)
                \/ vTaskPlaceOnEventList(t) \/ UnlockTx(t) \/ UnlockRx(t) \/ Expire(t)
      PROVE  StoreInv' /\ [Fifo!FifoNext]_Q
  <2>1. Frame /\ answer' = answer
    BY <1>5, Zenon DEF StartWait, Lock, CheckForTimeOut, LookAgain, vTaskPlaceOnEventList, UnlockTx,
                UnlockRx, Expire, Frame, queueVars, callVars
  <2> QED
    BY <2>1, <1>0, <1>a
<1>6. ASSUME NEW t \in Tasks, ResumeAll(t)
      PROVE  StoreInv' /\ [Fifo!FifoNext]_Q
  <2>1. /\ Frame
        /\ answer' = answer \/ answer' = [answer EXCEPT ![t] = Full]
    BY <1>6 DEF ResumeAll, Return, Frame, queueVars
  <2>2. StoreInv' /\ Contents' = Contents
    BY <2>1, <1>0, <1>a, <1>b
  <2> QED
    BY <2>1, <2>2, QueueAssumption DEF Fifo!FifoNext, Fifo!Callers, Fifo!Refuse, Fifo!Answer
<1>7. ASSUME NEW t \in Tasks, GiveUp(t)
      PROVE  StoreInv' /\ [Fifo!FifoNext]_Q
  <2>1. /\ Frame
        /\ answer' = answer \/ (op[t] = "receive" /\ Stuck(t) /\ answer' = [answer EXCEPT ![t] = Empty])
    BY <1>7 DEF GiveUp, Return, Frame, queueVars
  <2>2. StoreInv' /\ Contents' = Contents
    BY <2>1, <1>0, <1>a, <1>b
  <2> QED
    BY <2>1, <2>2, <1>e DEF Fifo!FifoNext, Fifo!Callers, Fifo!FindEmpty, Fifo!Answer, Stuck
<1>8. ASSUME SendFromISR
      PROVE  StoreInv' /\ [Fifo!FifoNext]_Q
  <2>1. CASE uxMessagesWaiting < uxLength
    <3>1. PICK i \in Item : prvCopyDataToQueue(i)
      BY <1>8, <2>1 DEF SendFromISR
    <3>2. answer' = [answer EXCEPT ![Handler] = Passed] /\ pvItem' = pvItem
      BY <1>8, <2>1 DEF SendFromISR, callVars
    <3>3. StoreInv'
      BY <3>1, <3>2, <2>1, <1>a, CopyKeepsPlaces DEF StoreInv
    <3>4. Fifo!Put(Handler, i)
      BY <3>1, <3>2, <2>1, <1>c, CopyToAppends DEF Fifo!Put, Fifo!Answer
    <3> QED
      BY <3>3, <3>4 DEF Fifo!FifoNext, Fifo!Callers
  <2>2. CASE ~ (uxMessagesWaiting < uxLength)
    <3>1. Frame /\ answer' = [answer EXCEPT ![Handler] = Full]
      BY <1>8, <2>2 DEF SendFromISR, Frame, queueVars, callVars
    <3>2. StoreInv' /\ Contents' = Contents
      BY <3>1, <1>0, <1>a, <1>b
    <3>3. Len(Contents) = uxLength
      BY <2>2, <1>c, QueueAssumption DEF StoreInv
    <3> QED
      BY <3>1, <3>2, <3>3, Zenon DEF Fifo!FifoNext, Fifo!Callers, Fifo!Refuse, Fifo!Answer
  <2> QED
    BY <2>1, <2>2
<1>9. ASSUME ReceiveFromISR
      PROVE  StoreInv' /\ [Fifo!FifoNext]_Q
  <2>1. CASE uxMessagesWaiting > 0
    <3>1. /\ prvCopyDataFromQueue
          /\ answer' = [answer EXCEPT ![Handler] = store[Step(pcReadFrom)]]
          /\ pvItem' = pvItem
      BY <1>9, <2>1 DEF ReceiveFromISR, callVars
    <3>2. StoreInv'
      BY <3>1, <2>1, <1>a, CopyKeepsPlaces DEF StoreInv
    <3>3. Fifo!Get(Handler)
      BY <3>1, <2>1, CopyFromTakesHead, Zenon DEF Fifo!Get, Fifo!Answer
    <3> QED
      BY <3>2, <3>3 DEF Fifo!FifoNext, Fifo!Callers
  <2>2. CASE ~ (uxMessagesWaiting > 0)
    <3>1. Frame /\ answer' = [answer EXCEPT ![Handler] = Empty]
      BY <1>9, <2>2 DEF ReceiveFromISR, Frame, queueVars, callVars
    <3>2. StoreInv' /\ Contents' = Contents
      BY <3>1, <1>0, <1>a, <1>b
    <3>3. Contents = << >>
      BY <2>2, <1>d, <1>e
    <3> QED
      BY <3>1, <3>2, <3>3, Zenon DEF Fifo!FifoNext, Fifo!Callers, Fifo!FindEmpty, Fifo!Answer
  <2> QED
    BY <2>1, <2>2
<1> QED
  BY <1>1, <1>2, <1>3, <1>4, <1>5, <1>6, <1>7, <1>8, <1>9 DEF Next, NewCall, TaskStep

\* The queue of queue.c, with its locks, event lists and time-outs, is a bounded FIFO queue for its
\* callers: the order of items, their number and the answers are those of BoundedFifo.
THEOREM QueueIsFifo == Spec => ImplementsFifo
<1>1. Init => StoreInv /\ Fifo!FifoInit
  <2> SUFFICES ASSUME Init PROVE StoreInv /\ Fifo!FifoInit
    OBVIOUS
  <2>1. StoreInv
    BY QueueAssumption DEF Init, StoreInv, Slots, Wrapped, Step
  <2>2. Len(Contents) = 0 /\ Contents \in Seq(Item)
    BY <2>1, ContentsIsSequence DEF Init
  <2>3. Contents = << >>
    BY <2>2
  <2> QED
    BY <2>1, <2>3 DEF Init, Fifo!FifoInit, Fifo!Callers
<1>2. StoreInv /\ [Next]_vars => StoreInv' /\ [Fifo!FifoNext]_<< Contents, answer >>
  <2>1. ASSUME StoreInv, UNCHANGED vars
        PROVE  StoreInv' /\ UNCHANGED << Contents, answer >>
    BY <2>1 DEF vars, queueVars, callVars, StoreInv, Contents, Wrapped, Step
  <2> QED
    BY <2>1, StepRefines
<1> QED
  BY <1>1, <1>2, PTL DEF Spec, ImplementsFifo, Fifo!FifoSpec

-----------------------------------------------------------------------------
(* Facts about sets                                                         *)

\* What the proofs below use of finite sets and natural numbers, proved in the last section.
SizeFact == \A S : IsFiniteSet(S) => Cardinality(S) \in Nat
EmptyFact == IsFiniteSet({}) /\ Cardinality({}) = 0
PartFact == \A S, T : IsFiniteSet(T) /\ S \subseteq T => IsFiniteSet(S) /\ Cardinality(S) <= Cardinality(T)
LessFact == \A S, x : IsFiniteSet(S) => Cardinality(S \ {x}) = Cardinality(S) - (IF x \in S THEN 1 ELSE 0)
UnionFact ==
    \A S, T : IsFiniteSet(S) /\ IsFiniteSet(T) /\ S \cap T = {} =>
        IsFiniteSet(S \cup T) /\ Cardinality(S \cup T) = Cardinality(S) + Cardinality(T)
CountFact ==
    \A f : \A n \in Nat : (\A i, j \in 1 .. n : f[i] = f[j] => i = j) => Cardinality({f[i] : i \in 1 .. n}) = n
LeastFact == \A S \in SUBSET Nat : S # {} => \E n \in S : \A m \in S : n <= m

SetFacts == SizeFact /\ EmptyFact /\ PartFact /\ LessFact /\ UnionFact /\ CountFact /\ LeastFact

-----------------------------------------------------------------------------
(* Lists of waiting tasks                                                   *)

In(list, t) == \E i \in 1 .. Len(list) : list[i] = t

Distinct(list) == \A i, j \in 1 .. Len(list) : list[i] = list[j] => i = j

\* A list of tasks is a function on its places.
LEMMA ListFacts ==
  ASSUME NEW l \in Seq(Tasks)
  PROVE  /\ Len(l) \in Nat /\ (\A i \in 1 .. Len(l) : l[i] \in Tasks)
         /\ l # << >> <=> Len(l) > 0
         /\ l # << >> => \E t \in Tasks : In(l, t)
         /\ l = << >> => \A t : ~ In(l, t)
         /\ \A t : In(l, t) <=> t \in Range(l)
         /\ Range(l) \subseteq Tasks
  <1>1. Len(l) \in Nat /\ (\A i \in 1 .. Len(l) : l[i] \in Tasks) /\ DOMAIN l = 1 .. Len(l)
    OBVIOUS
  <1>2. l # << >> <=> Len(l) > 0
    BY <1>1
  <1>3. l # << >> => \E t \in Tasks : In(l, t)
    BY <1>1, <1>2 DEF In
  <1>4. l = << >> => \A t : ~ In(l, t)
    BY <1>1, <1>2 DEF In
  <1>5. (\A t : In(l, t) <=> t \in Range(l)) /\ Range(l) \subseteq Tasks
    BY <1>1 DEF In, Range
  <1>6. QED
    BY <1>1, <1>2, <1>3, <1>4, <1>5

\* The loop of vListInsert ends: there is a first task of a lower priority, or none.
LEMMA PlaceFound ==
  ASSUME SetFacts, NEW l \in Seq(Tasks), NEW t \in Tasks
  PROVE  PlaceOf(l, t, Prio) \in 1 .. Len(l) + 1
  <1> DEFINE T == {i \in 1 .. Len(l) + 1 : i <= Len(l) => Prio[l[i]] < Prio[t]}
  <1>1. Len(l) \in Nat /\ (\A i \in 1 .. Len(l) : l[i] \in Tasks) /\ Prio \in [Tasks -> Nat]
    BY ListFacts, QueueAssumption
  <1>2. T \in SUBSET Nat /\ T # {}
    <2>1. T \subseteq Nat /\ Len(l) + 1 \in T
      BY <1>1
    <2>2. QED
      BY <2>1
  <1>3. PICK n \in T : \A m \in T : n <= m
    BY <1>2, Zenon DEF SetFacts, LeastFact
  <1>5. n \in 1 .. Len(l) + 1 /\ (n <= Len(l) => Prio[l[n]] < Prio[t])
    BY <1>3
  <1>6. ASSUME NEW i \in 1 .. n - 1 PROVE Prio[l[i]] >= Prio[t]
    <2>1. i \in 1 .. Len(l) /\ i \in 1 .. Len(l) + 1 /\ ~ (n <= i)
      BY <1>1, <1>5
    <2>2. i \notin T
      BY <1>3, <2>1
    <2>3. Prio[l[i]] \in Nat /\ Prio[t] \in Nat
      BY <1>1, <2>1
    <2>4. QED
      BY <2>1, <2>2, <2>3
  <1>7. \E m \in 1 .. Len(l) + 1 :
          (\A i \in 1 .. m - 1 : Prio[l[i]] >= Prio[t]) /\ (m <= Len(l) => Prio[l[m]] < Prio[t])
    BY <1>5, <1>6
  <1>8. QED
    BY <1>7, Zenon DEF PlaceOf

\* A task that begins to wait is added to the list once.
LEMMA InsertAdds ==
  ASSUME SetFacts, NEW l \in Seq(Tasks), NEW t \in Tasks, Distinct(l), ~ In(l, t)
  PROVE  LET s == Insert(l, t)
         IN  s \in Seq(Tasks) /\ Distinct(s) /\ \A u \in Tasks : In(s, u) <=> In(l, u) \/ u = t
  <1> DEFINE n == PlaceOf(l, t, Prio)
             s == Insert(l, t)
             Before(i) == IF i < n THEN i ELSE i - 1
  <1>1. Len(l) \in Nat /\ \A i \in 1 .. Len(l) : l[i] \in Tasks
    BY ListFacts
  <1>2. n \in 1 .. Len(l) + 1
    BY PlaceFound
  <1>3. s = [i \in 1 .. Len(l) + 1 |-> IF i = n THEN t ELSE l[IF i < n THEN i ELSE i - 1]]
    BY DEF Insert, vListInsert
  <1> HIDE DEF n, s
  <1>4. ASSUME NEW i \in 1 .. Len(l) + 1, i # n
        PROVE  Before(i) \in 1 .. Len(l) /\ s[i] = l[Before(i)]
    BY <1>1, <1>2, <1>3, <1>4
  <1>5. s[n] = t
    BY <1>2, <1>3
  <1>6. s \in Seq(Tasks) /\ Len(s) = Len(l) + 1
    <2>1. s \in [1 .. Len(l) + 1 -> Tasks]
      <3>1. ASSUME NEW i \in 1 .. Len(l) + 1 PROVE s[i] \in Tasks
        BY <1>1, <1>4, <1>5
      <3>2. QED
        BY <1>3, <3>1
    <2>2. QED
      BY <1>1, <2>1
  <1>7. ASSUME NEW u \in Tasks PROVE In(s, u) <=> In(l, u) \/ u = t
    <2>1. ASSUME In(s, u) PROVE In(l, u) \/ u = t
      BY <1>4, <1>5, <1>6, <2>1 DEF In
    <2>2. ASSUME NEW i \in 1 .. Len(l), l[i] = u PROVE In(s, u)
      <3>1. CASE i < n
        <4>1. i \in 1 .. Len(l) + 1 /\ i # n /\ Before(i) = i
          BY <1>1, <1>2, <3>1
        <4>2. QED
          BY <1>4, <1>6, <2>2, <4>1 DEF In
      <3>2. CASE i >= n
        <4>1. i + 1 \in 1 .. Len(l) + 1 /\ i + 1 # n /\ Before(i + 1) = i
          BY <1>1, <1>2, <3>2
        <4>2. QED
          BY <1>4, <1>6, <2>2, <4>1, Zenon DEF In
      <3>3. QED
        BY <1>1, <1>2, <3>1, <3>2
    <2>3. u = t => In(s, u)
      BY <1>2, <1>5, <1>6 DEF In
    <2>4. QED
      BY <2>1, <2>2, <2>3 DEF In
  <1>8. ASSUME NEW i \in 1 .. Len(l) + 1, NEW j \in 1 .. Len(l) + 1, s[i] = s[j] PROVE i = j
    <2>1. CASE i = n \/ j = n
      BY <1>4, <1>5, <1>8, <2>1 DEF In
    <2>2. CASE i # n /\ j # n
      <3>1. Before(i) \in 1 .. Len(l) /\ Before(j) \in 1 .. Len(l) /\ l[Before(i)] = l[Before(j)]
        BY <1>4, <1>8, <2>2, Zenon
      <3>2. Before(i) = Before(j)
        BY <3>1 DEF Distinct
      <3>3. QED
        BY <1>1, <1>2, <2>2, <3>2
    <2>3. QED
      BY <2>1, <2>2
  <1>9. QED
    BY <1>6, <1>7, <1>8 DEF Distinct, s

\* A task whose time is over is taken out of the list.
LEMMA TakenOffRemoves ==
  ASSUME NEW l \in Seq(Tasks), NEW t \in Tasks, Distinct(l)
  PROVE  LET s == TakenOff(l, t)
         IN  s \in Seq(Tasks) /\ Distinct(s) /\ \A u \in Tasks : In(s, u) <=> In(l, u) /\ u # t
  <1> DEFINE s == TakenOff(l, t)
  <1>1. Len(l) \in Nat /\ \A i \in 1 .. Len(l) : l[i] \in Tasks
    BY ListFacts
  <1>2. CASE ~ In(l, t)
    <2>1. s = l
      BY <1>2 DEF TakenOff, listREMOVE_ITEM, In
    <2>2. QED
      BY <1>2, <2>1
  <1>3. CASE In(l, t)
    <2> DEFINE n == CHOOSE i \in 1 .. Len(l) : l[i] = t
               After(i) == IF i < n THEN i ELSE i + 1
    <2>1. n \in 1 .. Len(l) /\ l[n] = t
      BY <1>3 DEF In
    <2>2. s = [i \in 1 .. Len(l) - 1 |-> l[IF i < n THEN i ELSE i + 1]]
      BY <1>3 DEF TakenOff, listREMOVE_ITEM, In
    <2> HIDE DEF n, s
    <2>3. ASSUME NEW i \in 1 .. Len(l) - 1
          PROVE  After(i) \in 1 .. Len(l) /\ After(i) # n /\ s[i] = l[After(i)]
      BY <1>1, <2>1, <2>2
    <2>4. s \in Seq(Tasks) /\ Len(s) = Len(l) - 1
      <3>1. s \in [1 .. Len(l) - 1 -> Tasks]
        <4>1. ASSUME NEW i \in 1 .. Len(l) - 1 PROVE s[i] \in Tasks
          BY <1>1, <2>3
        <4>2. QED
          BY <2>2, <4>1
      <3>2. Len(l) - 1 \in Nat
        BY <1>1, <2>1
      <3>3. QED
        BY <3>1, <3>2
    <2>5. ASSUME NEW u \in Tasks PROVE In(s, u) <=> In(l, u) /\ u # t
      <3>1. ASSUME NEW i \in 1 .. Len(l) - 1, s[i] = u PROVE In(l, u) /\ u # t
        <4>1. After(i) \in 1 .. Len(l) /\ After(i) # n /\ u = l[After(i)]
          BY <2>3, <3>1
        <4>2. l[After(i)] # l[n]
          BY <2>1, <4>1 DEF Distinct
        <4>3. QED
          BY <2>1, <4>1, <4>2 DEF In
      <3>2. ASSUME NEW i \in 1 .. Len(l), l[i] = u, u # t PROVE In(s, u)
        <4>1. CASE i < n
          <5>1. i \in 1 .. Len(l) - 1 /\ After(i) = i
            BY <1>1, <2>1, <4>1
          <5>2. QED
            BY <2>3, <2>4, <3>2, <5>1, Zenon DEF In
        <4>2. CASE i > n
          <5>1. i - 1 \in 1 .. Len(l) - 1 /\ After(i - 1) = i
            BY <1>1, <2>1, <4>2
          <5>2. QED
            BY <2>3, <2>4, <3>2, <5>1, Zenon DEF In
        <4>3. QED
          BY <1>1, <2>1, <3>2, <4>1, <4>2
      <3>3. QED
        BY <2>4, <3>1, <3>2 DEF In
    <2>6. ASSUME NEW i \in 1 .. Len(l) - 1, NEW j \in 1 .. Len(l) - 1, s[i] = s[j] PROVE i = j
      <3>1. After(i) \in 1 .. Len(l) /\ After(j) \in 1 .. Len(l) /\ l[After(i)] = l[After(j)]
        BY <2>3, <2>6, Zenon
      <3>2. After(i) = After(j)
        BY <3>1 DEF Distinct
      <3>3. QED
        BY <1>1, <2>1, <3>2
    <2>7. QED
      BY <2>4, <2>5, <2>6 DEF Distinct, s
  <1>4. QED
    BY <1>2, <1>3

\* A list without duplicates has as many tasks as places.
LEMMA Counted ==
  ASSUME SetFacts, NEW l \in Seq(Tasks), Distinct(l)
  PROVE  IsFiniteSet(Range(l)) /\ Cardinality(Range(l)) = Len(l) /\ Len(l) <= Cardinality(Tasks)
  <1>1. Len(l) \in Nat /\ DOMAIN l = 1 .. Len(l) /\ Range(l) \subseteq Tasks
    BY ListFacts
  <1>2. Range(l) = {l[i] : i \in 1 .. Len(l)}
    BY <1>1, Zenon DEF Range
  <1>3. \A i, j \in 1 .. Len(l) : l[i] = l[j] => i = j
    BY DEF Distinct
  <1>4. Cardinality(Range(l)) = Len(l)
    BY <1>1, <1>2, <1>3, Zenon DEF SetFacts, CountFact
  <1>5. IsFiniteSet(Range(l)) /\ Cardinality(Range(l)) <= Cardinality(Tasks)
    BY <1>1, QueueAssumption, Zenon DEF SetFacts, PartFact
  <1>6. QED
    BY <1>4, <1>5

\* The first n of a list, or all of it, are woken; the others stay.
LEMMA SplitAt ==
  ASSUME SetFacts, NEW l \in Seq(Tasks), NEW n \in Nat, Distinct(l)
  PROVE  LET F == Range(First(l, n))
             s == Rest(l, n)
         IN  /\ s \in Seq(Tasks) /\ Distinct(s) /\ F \subseteq Tasks /\ IsFiniteSet(F)
             /\ \A u \in Tasks : In(s, u) <=> In(l, u) /\ u \notin F
             /\ \A u \in F : In(l, u)
             /\ s # << >> => Cardinality(F) = n /\ n < Len(l)
  <1> DEFINE f == First(l, n)
             F == Range(f)
             s == Rest(l, n)
             k == IF n < Len(l) THEN n ELSE Len(l)
  <1>1. Len(l) \in Nat /\ \A i \in 1 .. Len(l) : l[i] \in Tasks
    BY ListFacts
  <1>2. f \in Seq(Tasks) /\ Len(f) = k /\ \A i \in 1 .. k : f[i] = l[i]
    <2>1. k \in Nat /\ k <= Len(l) /\ f = SubSeq(l, 1, k)
      BY <1>1 DEF First
    <2> HIDE DEF k, f
    <2>2. \A i \in 1 .. k : l[i] \in Tasks
      BY <1>1, <2>1
    <2>3. /\ f \in Seq(Tasks) /\ Len(f) = IF 1 <= k THEN k - 1 + 1 ELSE 0
          /\ \A i \in 1 .. k - 1 + 1 : f[i] = l[1 + i - 1]
      BY <2>1, <2>2
    <2>4. QED
      BY <2>1, <2>3
  <1>3. /\ s \in Seq(Tasks) /\ Len(s) = IF n < Len(l) THEN Len(l) - n ELSE 0
        /\ \A i \in 1 .. Len(l) - n : s[i] = l[n + i]
    <2> DEFINE a == n + 1
    <2>1. a \in Nat /\ a = n + 1 /\ s = SubSeq(l, a, Len(l))
      BY DEF Rest
    <2> HIDE DEF a, s
    <2>2. \A i \in a .. Len(l) : l[i] \in Tasks
      BY <1>1, <2>1
    <2>3. /\ s \in Seq(Tasks) /\ Len(s) = IF a <= Len(l) THEN Len(l) - a + 1 ELSE 0
          /\ \A i \in 1 .. Len(l) - a + 1 : s[i] = l[a + i - 1]
      BY <1>1, <2>1, <2>2
    <2>4. Len(s) = IF n < Len(l) THEN Len(l) - n ELSE 0
      BY <1>1, <2>1, <2>3
    <2>5. ASSUME NEW i \in 1 .. Len(l) - n PROVE s[i] = l[n + i]
      <3>1. i \in 1 .. Len(l) - a + 1 /\ a + i - 1 = n + i
        BY <1>1, <2>1
      <3>2. QED
        BY <2>3, <3>1
    <2>6. QED
      BY <2>3, <2>4, <2>5
  <1>4. k \in 0 .. Len(l) /\ (n < Len(l) => k = n) /\ (~(n < Len(l)) => k = Len(l))
    BY <1>1
  <1> HIDE DEF f, s, k
  <1>5. Distinct(f)
    <2>1. ASSUME NEW i \in 1 .. k, NEW j \in 1 .. k, f[i] = f[j] PROVE i = j
      BY <1>1, <1>2, <1>4, <2>1 DEF Distinct
    <2>2. QED
      BY <1>2, <2>1 DEF Distinct
  <1>6. Distinct(s)
    <2>1. ASSUME NEW i \in 1 .. Len(s), NEW j \in 1 .. Len(s), s[i] = s[j] PROVE i = j
      <3>1. n < Len(l) /\ i \in 1 .. Len(l) - n /\ j \in 1 .. Len(l) - n
        BY <1>1, <1>3
      <3>2. n + i \in 1 .. Len(l) /\ n + j \in 1 .. Len(l) /\ l[n + i] = l[n + j]
        BY <1>1, <1>3, <2>1, <3>1
      <3>3. n + i = n + j
        BY <3>2 DEF Distinct
      <3>4. QED
        BY <3>1, <3>3
    <2>2. QED
      BY <2>1 DEF Distinct
  <1>7. /\ \A u : u \in F <=> \E i \in 1 .. k : l[i] = u
        /\ F \subseteq Tasks /\ IsFiniteSet(F) /\ Cardinality(F) = k
    <2>1. (\A u : In(f, u) <=> u \in F) /\ F \subseteq Tasks
      BY <1>2, ListFacts
    <2>2. \A u : In(f, u) <=> \E i \in 1 .. k : l[i] = u
      BY <1>2 DEF In
    <2>3. IsFiniteSet(F) /\ Cardinality(F) = k
      BY <1>2, <1>5, Counted
    <2>4. QED
      BY <2>1, <2>2, <2>3
  <1>8. ASSUME NEW u \in Tasks PROVE In(s, u) <=> In(l, u) /\ u \notin F
    <2>1. ASSUME NEW i \in 1 .. Len(s), s[i] = u PROVE In(l, u) /\ u \notin F
      <3>1. n < Len(l) /\ i \in 1 .. Len(l) - n /\ k = n
        BY <1>1, <1>3, <1>4
      <3>2. n + i \in 1 .. Len(l) /\ l[n + i] = u
        BY <1>1, <1>3, <2>1, <3>1
      <3>3. \A j \in 1 .. k : j \in 1 .. Len(l) /\ j # n + i
        BY <1>1, <3>1
      <3>4. \A j \in 1 .. k : l[j] # u
        BY <3>2, <3>3 DEF Distinct
      <3>5. QED
        BY <1>7, <3>2, <3>4 DEF In
    <2>2. ASSUME NEW i \in 1 .. Len(l), l[i] = u, u \notin F PROVE In(s, u)
      <3>1. ~ (i <= k)
        BY <1>1, <1>4, <1>7, <2>2
      <3>2. n < Len(l) /\ i - n \in 1 .. Len(l) - n /\ n + (i - n) = i
        BY <1>1, <1>4, <3>1
      <3>3. s[i - n] = u /\ i - n \in 1 .. Len(s)
        BY <1>3, <2>2, <3>2
      <3>4. QED
        BY <3>3 DEF In
    <2>3. QED
      BY <2>1, <2>2 DEF In
  <1>9. \A u \in F : In(l, u)
    BY <1>1, <1>4, <1>7 DEF In
  <1>10. s # << >> => Cardinality(F) = n /\ n < Len(l)
    BY <1>1, <1>3, <1>4, <1>7, ListFacts
  <1>11. QED
    BY <1>3, <1>6, <1>7, <1>8, <1>9, <1>10 DEF f, s

-----------------------------------------------------------------------------
(* The kernel's lists agree                                                 *)

\* The places between vTaskSuspendAll and xTaskResumeAll, with both locks, with one and with none.
TxPlaces == {"timeout", "look", "place", "unlock_tx", "expired_tx"}
RxPlaces == TxPlaces \cup {"unlock_rx", "expired_rx"}
LockPlaces == RxPlaces \cup {"resume", "expired_resume"}

\* From here a task goes on to look at the queue again.
OnWay == {"check", "unlock_tx", "unlock_rx", "resume"}

QueueTypes ==
    /\ cTxLock \in queueUNLOCKED .. Cardinality(Tasks)
    /\ cRxLock \in queueUNLOCKED .. Cardinality(Tasks)
    /\ xTasksWaitingToSend \in Seq(Tasks)
    /\ xTasksWaitingToReceive \in Seq(Tasks)
    /\ blocked \subseteq Tasks
    /\ xPendingReadyList \subseteq Tasks
    /\ suspended \in Tasks \cup {NoTask}
    /\ pc \in [Tasks -> Places]
    /\ op \in [Tasks -> Ops]
    /\ wait \in [Tasks -> {"none", "some", "forever"}]
    /\ expired \subseteq Tasks

\* Who suspended the scheduler, and when the queue is locked.
LockInv ==
    /\ \A t \in Tasks : pc[t] \in LockPlaces <=> suspended = t
    /\ cTxLock >= 0 <=> \E t \in Tasks : pc[t] \in TxPlaces
    /\ cRxLock >= 0 <=> \E t \in Tasks : pc[t] \in RxPlaces

\* A blocked task is in one list, or pending.
ListsOK(ws, wr, b, p) ==
    /\ Distinct(ws) /\ Distinct(wr)
    /\ \A t \in Tasks :
          /\ ~ (In(ws, t) /\ In(wr, t))
          /\ t \in b <=> In(ws, t) \/ In(wr, t) \/ t \in p
          /\ t \in p => ~ In(ws, t) /\ ~ In(wr, t)

ListInv ==
    /\ ListsOK(xTasksWaitingToSend, xTasksWaitingToReceive, blocked, xPendingReadyList)
    /\ \A t \in Tasks : In(xTasksWaitingToSend, t) => op[t] = "send"
    /\ \A t \in Tasks : In(xTasksWaitingToReceive, t) => op[t] = "receive"
    /\ suspended = NoTask => xPendingReadyList = {}
    /\ \A t \in blocked : pc[t] \in OnWay

QueueInv == StoreInv /\ QueueTypes /\ LockInv /\ ListInv

\* The numbers that the constants give.
LEMMA Sizes ==
  ASSUME SetFacts
  PROVE  /\ IsFiniteSet(Tasks) /\ Cardinality(Tasks) \in Nat /\ NoTask \notin Tasks
         /\ uxLength \in Nat /\ uxLength > 0
         /\ queueUNLOCKED = 0 - 1 /\ queueLOCKED_UNMODIFIED = 0
  <1>1. Cardinality(Tasks) \in Nat
    BY QueueAssumption, Zenon DEF SetFacts, SizeFact
  <1>2. QED
    BY <1>1, QueueAssumption DEF queueUNLOCKED, queueLOCKED_UNMODIFIED

\* The lock counts: -1 when the queue is unlocked, a natural number when it is locked.
LEMMA LockNumbers ==
  ASSUME SetFacts
  PROVE  \A x \in queueUNLOCKED .. Cardinality(Tasks) :
            /\ x \in Int /\ x >= 0 - 1 /\ x <= Cardinality(Tasks)
            /\ x >= 0 => x \in Nat
            /\ x < 0 <=> ~ (x >= 0)
            /\ x = queueUNLOCKED <=> x < 0
  BY Sizes

\* One item more or less, and what is counted then.
LEMMA CountSteps ==
  ASSUME NEW i \in Nat, NEW j \in Nat
  PROVE  /\ j <= j /\ j - 1 <= j /\ j + 1 <= j + 1
         /\ i - j <= i - j /\ i - (j + 1) <= i - j /\ i - (j - 1) <= (i - j) + 1
  OBVIOUS

\* A number below one that is at most c is below c.
LEMMA BelowThat ==
  ASSUME NEW n \in Nat, NEW m \in Nat, NEW c \in Nat, n < m, m <= c
  PROVE  n < c
  OBVIOUS

\* Enough is kept when n tasks are woken for at most n offers more.
LEMMA EnoughKept ==
  ASSUME NEW c \in Nat, NEW n \in Nat, NEW a \in Nat, NEW b \in Nat, NEW x \in Nat, NEW y \in Nat,
         NEW l \in Int, NEW k \in Int, k < 0, n < c, x + n <= y,
         a <= x + (IF l < 0 THEN 0 ELSE l) \/ l = c,
         (l < 0 /\ b <= a + n) \/ (l = n /\ b <= a)
  PROVE  b <= y + (IF k < 0 THEN 0 ELSE k)
  OBVIOUS

\* Lists that are not touched agree as before.
LEMMA ListsSame ==
  ASSUME ListsOK(xTasksWaitingToSend, xTasksWaitingToReceive, blocked, xPendingReadyList),
         UNCHANGED << xTasksWaitingToSend, xTasksWaitingToReceive, blocked, xPendingReadyList >>
  PROVE  ListsOK(xTasksWaitingToSend, xTasksWaitingToReceive, blocked, xPendingReadyList)'
  BY DEF ListsOK, Distinct, In

\* The task that runs is the one that suspended the scheduler, or the scheduler runs.
LEMMA Running ==
  ASSUME SetFacts, QueueInv, NEW t \in Tasks, Runs(t)
  PROVE  /\ pc[t] \in LockPlaces => suspended = t
         /\ pc[t] \notin LockPlaces => suspended = NoTask /\ t \notin blocked
         /\ pc[t] \notin OnWay \/ pc[t] \notin LockPlaces => t \notin blocked
         /\ t \notin blocked => ~ In(xTasksWaitingToSend, t) /\ ~ In(xTasksWaitingToReceive, t)
         /\ \A u \in Tasks : u # t => pc[u] \notin LockPlaces
  <1>1. t # NoTask /\ (\A u \in Tasks : pc[u] \in LockPlaces <=> suspended = u)
    BY Sizes DEF QueueInv, LockInv
  <1>2. suspended = NoTask => t \notin blocked
    BY DEF Runs
  <1>3. suspended # NoTask => suspended = t
    BY DEF Runs
  <1>4. t \in blocked => pc[t] \in OnWay
    BY DEF QueueInv, ListInv
  <1>5. t \notin blocked => ~ In(xTasksWaitingToSend, t) /\ ~ In(xTasksWaitingToReceive, t)
    BY DEF QueueInv, ListInv, ListsOK
  <1>6. QED
    BY <1>1, <1>2, <1>3, <1>4, <1>5, Sizes

\* A task goes on without passing a lock or an unlock.
LEMMA LockKept ==
  ASSUME QueueInv, NEW t \in Tasks, NEW to \in Places, pc' = [pc EXCEPT ![t] = to],
         to \in TxPlaces <=> pc[t] \in TxPlaces, to \in RxPlaces <=> pc[t] \in RxPlaces,
         to \in LockPlaces <=> pc[t] \in LockPlaces, UNCHANGED << suspended, lockVars >>
  PROVE  LockInv'
  <1>1. \A u \in Tasks : /\ pc'[u] \in TxPlaces <=> pc[u] \in TxPlaces
                         /\ pc'[u] \in RxPlaces <=> pc[u] \in RxPlaces
                         /\ pc'[u] \in LockPlaces <=> pc[u] \in LockPlaces
    BY DEF QueueInv, QueueTypes
  <1>2. QED
    BY <1>1 DEF QueueInv, LockInv, lockVars

\* A task that is not blocked may go anywhere and make another call.
LEMMA ListsKept ==
  ASSUME QueueInv, NEW t \in Tasks, t \notin blocked, NEW to \in Places, pc' = [pc EXCEPT ![t] = to],
         NEW o, op' = [op EXCEPT ![t] = o], UNCHANGED << suspended, listVars >>
  PROVE  ListInv'
  <1>1. ~ In(xTasksWaitingToSend, t) /\ ~ In(xTasksWaitingToReceive, t)
    BY Zenon DEF QueueInv, ListInv, ListsOK
  <1>2. \A u \in Tasks : u # t => pc'[u] = pc[u] /\ op'[u] = op[u]
    BY Zenon DEF QueueInv, QueueTypes
  <1>3. ListsOK(xTasksWaitingToSend, xTasksWaitingToReceive, blocked, xPendingReadyList)'
    BY ListsSame, Zenon DEF QueueInv, ListInv, listVars
  <1>4. QED
    <2>1. ListInv /\ blocked \subseteq Tasks
      BY Zenon DEF QueueInv, QueueTypes
    <2>2. UNCHANGED << xTasksWaitingToSend, xTasksWaitingToReceive, blocked, xPendingReadyList, suspended >>
      BY Zenon DEF listVars
    <2>3. ASSUME NEW u \in Tasks
          PROVE  /\ In(xTasksWaitingToSend, u)' => op'[u] = "send"
                 /\ In(xTasksWaitingToReceive, u)' => op'[u] = "receive"
      <3>1. /\ In(xTasksWaitingToSend, u)' <=> In(xTasksWaitingToSend, u)
            /\ In(xTasksWaitingToReceive, u)' <=> In(xTasksWaitingToReceive, u)
        BY <2>2, Zenon DEF In
      <3>2. QED
        BY <1>1, <1>2, <2>1, <3>1, Zenon DEF ListInv
    <2>4. ASSUME NEW u \in blocked' PROVE pc'[u] \in OnWay
      BY <1>2, <2>1, <2>2, Zenon DEF ListInv
    <2>5. QED
      BY <1>3, <2>1, <2>2, <2>3, <2>4, Zenon DEF ListInv

\* Calls, returns and looks: the lists stay as they are.
LEMMA QuietStep ==
  ASSUME SetFacts, QueueInv, NEW t \in Tasks,
         Call(t) \/ Refuse(t) \/ StartWait(t) \/ CheckForTimeOut(t) \/ LookAgain(t) \/ GiveUp(t)
  PROVE  QueueTypes' /\ LockInv' /\ ListInv'
  <1>1. QueueTypes
    BY DEF QueueInv
  <1>2. /\ Runs(t) /\ UNCHANGED << suspended, lockVars, listVars >>
        /\ pc[t] \in {"idle", "check", "timeout", "look", "give_up"}
    BY Zenon DEF Call, Refuse, StartWait, CheckForTimeOut, LookAgain, GiveUp
  <1>3. PICK to \in Places :
          /\ pc' = [pc EXCEPT ![t] = to]
          /\ to \in TxPlaces <=> pc[t] \in TxPlaces
          /\ to \in RxPlaces <=> pc[t] \in RxPlaces
          /\ to \in LockPlaces <=> pc[t] \in LockPlaces
    BY Zenon DEF Call, Refuse, StartWait, CheckForTimeOut, LookAgain, GiveUp, Return, Goto, Places,
           TxPlaces, RxPlaces, LockPlaces
  <1>4. PICK o \in Ops : op' = [op EXCEPT ![t] = o]
    <2>1. CASE Call(t)
      <3>1. PICK o \in Calls[t] : op' = [op EXCEPT ![t] = o]
        BY <2>1, Zenon DEF Call
      <3>2. o \in Ops
        BY <3>1, QueueAssumption, Zenon DEF Ops
      <3>3. QED
        BY <3>1, <3>2, Zenon
    <2>2. CASE ~ Call(t)
      <3>1. op' = op \/ op' = [op EXCEPT ![t] = "send"]
        BY <2>2, Zenon DEF Refuse, StartWait, CheckForTimeOut, LookAgain, GiveUp, Return, callVars
      <3>2. op = [op EXCEPT ![t] = op[t]] /\ op[t] \in Ops /\ "send" \in Ops
        BY <1>1 DEF QueueTypes, Ops
      <3>3. QED
        BY <3>1, <3>2
    <2>3. QED
      BY <2>1, <2>2
  <1>5. t \notin blocked
    BY <1>2, Running DEF OnWay, LockPlaces, RxPlaces, TxPlaces
  <1>6. wait' \in [Tasks -> {"none", "some", "forever"}] /\ expired' \subseteq Tasks
    <2>1. wait' \in [Tasks -> {"none", "some", "forever"}]
      BY <1>1, Zenon DEF QueueTypes, Call, Refuse, StartWait, CheckForTimeOut, LookAgain, GiveUp, Return, callVars
    <2>2. expired' \subseteq Tasks
      BY <1>1, Zenon DEF QueueTypes, Call, Refuse, StartWait, CheckForTimeOut, LookAgain, GiveUp, Return, callVars
    <2>3. QED
      BY <2>1, <2>2
  <1>7. QueueTypes'
    BY <1>1, <1>2, <1>3, <1>4, <1>6, Zenon DEF QueueTypes, lockVars, listVars
  <1>8. LockInv'
    BY <1>2, <1>3, LockKept, Zenon
  <1>9. ListInv'
    BY <1>2, <1>3, <1>4, <1>5, ListsKept, Zenon
  <1>10. QED
    BY <1>7, <1>8, <1>9

\* vTaskSuspendAll and prvLockQueue
LEMMA LockStep ==
  ASSUME SetFacts, QueueInv, NEW t \in Tasks, Lock(t)
  PROVE  QueueTypes' /\ LockInv' /\ ListInv'
  <1>1. QueueTypes /\ LockInv /\ ListInv
    BY DEF QueueInv
  <1>2. /\ Runs(t) /\ pc[t] = "lock" /\ suspended' = t /\ pc' = [pc EXCEPT ![t] = "timeout"]
        /\ UNCHANGED << listVars, op, wait, expired >>
    BY DEF Lock, Goto, callVars
  <1>3. /\ suspended = NoTask /\ t \notin blocked /\ \A u \in Tasks : u # t => pc[u] \notin LockPlaces
    BY <1>2, Running DEF LockPlaces, RxPlaces, TxPlaces
  <1>4. cTxLock' \in 0 .. Cardinality(Tasks) /\ cRxLock' \in 0 .. Cardinality(Tasks)
    BY <1>1, Sizes DEF Lock, QueueTypes
  <1>5. QueueTypes'
    BY <1>1, <1>2, <1>4, Sizes DEF QueueTypes, Places, listVars
  <1>6. pc'[t] = "timeout" /\ \A u \in Tasks : u # t => pc'[u] = pc[u]
    BY <1>1, <1>2, Zenon DEF QueueTypes
  <1>7. LockInv'
    BY <1>2, <1>3, <1>4, <1>6, Sizes DEF LockInv, LockPlaces, RxPlaces, TxPlaces
  <1>8. ListsOK(xTasksWaitingToSend, xTasksWaitingToReceive, blocked, xPendingReadyList)'
    BY <1>1, <1>2, ListsSame, Zenon DEF ListInv, listVars
  <1>9. ListInv'
    BY <1>1, <1>2, <1>3, <1>6, <1>8, Sizes, Zenon DEF ListInv, listVars, In, QueueTypes
  <1>10. QED
    BY <1>5, <1>7, <1>9

\* What the woken tasks were and are, in the list they leave.
LEMMA WokenLists ==
  ASSUME SetFacts, NEW l \in Seq(Tasks), NEW k \in Seq(Tasks), NEW b, NEW p, NEW n \in Nat, ListsOK(l, k, b, p)
  PROVE  LET F == Range(First(l, n))
             s == Rest(l, n)
         IN  /\ s \in Seq(Tasks) /\ F \subseteq Tasks
             /\ \A u \in Tasks : In(s, u) => In(l, u)
             /\ ListsOK(s, k, b \ F, p) /\ ListsOK(s, k, b, p \cup F)
             /\ ListsOK(k, s, b \ F, p) /\ ListsOK(k, s, b, p \cup F)
  <1> DEFINE F == Range(First(l, n))
             s == Rest(l, n)
  <1>1. /\ s \in Seq(Tasks) /\ Distinct(s) /\ F \subseteq Tasks
        /\ \A u \in Tasks : In(s, u) <=> In(l, u) /\ u \notin F
        /\ \A u \in F : In(l, u)
    BY SplitAt, Zenon DEF ListsOK
  <1> HIDE DEF F, s
  <1>2. QED
    BY <1>1, Zenon DEF ListsOK, F, s

\* Waking tasks keeps the lists right, whoever does it.
LEMMA WakeKeeps ==
  ASSUME SetFacts, QueueInv, NEW n \in Nat, WakeReceivers(n) \/ WakeSenders(n), suspended' = suspended,
         \A u \in blocked : pc'[u] \in OnWay /\ op'[u] = op[u]
  PROVE  /\ xTasksWaitingToSend' \in Seq(Tasks) /\ xTasksWaitingToReceive' \in Seq(Tasks)
         /\ blocked' \subseteq blocked /\ xPendingReadyList' \subseteq Tasks
         /\ ListInv'
  <1> DEFINE ws == xTasksWaitingToSend
             wr == xTasksWaitingToReceive
             p == xPendingReadyList
  <1>1. ListInv /\ QueueTypes
    BY Zenon DEF QueueInv
  <1>2. ListsOK(ws, wr, blocked, p) /\ ListsOK(wr, ws, blocked, p)
    BY <1>1, Zenon DEF ListInv, ListsOK
  <1>3. /\ ws' \in Seq(Tasks) /\ wr' \in Seq(Tasks) /\ blocked' \subseteq blocked /\ p' \subseteq Tasks
        /\ ListsOK(ws', wr', blocked', p')
        /\ \A u \in Tasks : (In(ws', u) => In(ws, u)) /\ (In(wr', u) => In(wr, u))
        /\ suspended = NoTask => p' = p
    <2>1. CASE WakeReceivers(n)
      <3> DEFINE F == Range(First(wr, n))
                 s == Rest(wr, n)
      <3>1. /\ s \in Seq(Tasks) /\ F \subseteq Tasks /\ \A u \in Tasks : In(s, u) => In(wr, u)
            /\ ListsOK(ws, s, blocked \ F, p) /\ ListsOK(ws, s, blocked, p \cup F)
        BY <1>1, <1>2, WokenLists, Zenon DEF QueueTypes
      <3>2. /\ wr' = s /\ ws' = ws
            /\ IF suspended = NoTask THEN blocked' = blocked \ F /\ p' = p
                                     ELSE p' = p \cup F /\ blocked' = blocked
        BY <2>1, Zenon DEF WakeReceivers, xTaskRemoveFromEventList
      <3> HIDE DEF F, s
      <3>3. QED
        BY <1>1, <3>1, <3>2, Zenon DEF QueueTypes
    <2>2. CASE WakeSenders(n)
      <3> DEFINE F == Range(First(ws, n))
                 s == Rest(ws, n)
      <3>1. /\ s \in Seq(Tasks) /\ F \subseteq Tasks /\ \A u \in Tasks : In(s, u) => In(ws, u)
            /\ ListsOK(s, wr, blocked \ F, p) /\ ListsOK(s, wr, blocked, p \cup F)
        BY <1>1, <1>2, WokenLists, Zenon DEF QueueTypes
      <3>2. /\ ws' = s /\ wr' = wr
            /\ IF suspended = NoTask THEN blocked' = blocked \ F /\ p' = p
                                     ELSE p' = p \cup F /\ blocked' = blocked
        BY <2>2, Zenon DEF WakeSenders, xTaskRemoveFromEventList
      <3> HIDE DEF F, s
      <3>3. QED
        BY <1>1, <3>1, <3>2, Zenon DEF QueueTypes
    <2>3. QED
      BY <2>1, <2>2, Zenon
  <1>4. \A u \in Tasks : In(ws, u) \/ In(wr, u) => u \in blocked
    BY <1>1, Zenon DEF ListInv, ListsOK
  <1>5. ListsOK(ws, wr, blocked, p)'
    BY <1>3, Zenon DEF ListsOK, Distinct, In
  <1>6. \A u \in Tasks : (In(ws, u)' => op'[u] = "send") /\ (In(wr, u)' => op'[u] = "receive")
    <2>1. \A u \in Tasks : (In(ws', u) => op'[u] = "send") /\ (In(wr', u) => op'[u] = "receive")
      BY <1>1, <1>3, <1>4, Zenon DEF ListInv
    <2>2. QED
      BY <2>1, Zenon DEF In
  <1>7. QED
    BY <1>1, <1>3, <1>5, <1>6, Zenon DEF ListInv

\* A call that gets its item or its place wakes one task of the other side.
LEMMA PassStep ==
  ASSUME SetFacts, QueueInv, NEW t \in Tasks, Send(t) \/ Receive(t)
  PROVE  QueueTypes' /\ LockInv' /\ ListInv'
  <1>1. QueueTypes
    BY DEF QueueInv
  <1>2. /\ Runs(t) /\ pc[t] = "check" /\ pc' = [pc EXCEPT ![t] = "idle"] /\ op' = [op EXCEPT ![t] = "send"]
        /\ UNCHANGED << suspended, lockVars >> /\ (WakeReceivers(1) \/ WakeSenders(1))
        /\ wait' = [wait EXCEPT ![t] = "none"] /\ expired' = expired \ {t}
    BY Zenon DEF Send, Receive, Return, Goto
  <1>3. t \notin blocked
    BY <1>2, Running, Zenon DEF LockPlaces, RxPlaces, TxPlaces
  <1>4. \A u \in blocked : pc'[u] \in OnWay /\ op'[u] = op[u]
    BY <1>1, <1>2, <1>3, Zenon DEF QueueInv, ListInv, QueueTypes
  <1>5. /\ xTasksWaitingToSend' \in Seq(Tasks) /\ xTasksWaitingToReceive' \in Seq(Tasks)
        /\ blocked' \subseteq blocked /\ xPendingReadyList' \subseteq Tasks /\ ListInv'
    BY <1>2, <1>4, WakeKeeps, Zenon
  <1>6. QueueTypes'
    BY <1>1, <1>2, <1>5, Zenon DEF QueueTypes, Places, Ops, lockVars
  <1>7. LockInv'
    BY <1>2, LockKept, Zenon DEF Places, LockPlaces, RxPlaces, TxPlaces
  <1>8. QED
    BY <1>5, <1>6, <1>7

\* A handler changes neither places nor calls; it counts while the queue is locked.
LEMMA HandlerStep ==
  ASSUME SetFacts, QueueInv, SendFromISR \/ ReceiveFromISR
  PROVE  QueueTypes' /\ LockInv' /\ ListInv'
  <1>1. QueueTypes /\ LockInv /\ ListInv
    BY DEF QueueInv
  <1>2. UNCHANGED << suspended, pc, op, wait, expired >>
    BY Zenon DEF SendFromISR, ReceiveFromISR, callVars
  <1>3. UNCHANGED listVars \/ WakeReceivers(1) \/ WakeSenders(1)
    BY Zenon DEF SendFromISR, ReceiveFromISR
  <1>4. /\ cTxLock' = cTxLock \/ (cTxLock >= 0 /\ cTxLock' = Increment(cTxLock))
        /\ cRxLock' = cRxLock \/ (cRxLock >= 0 /\ cRxLock' = Increment(cRxLock))
    <2>1. (cTxLock # queueUNLOCKED => cTxLock >= 0) /\ (cRxLock # queueUNLOCKED => cRxLock >= 0)
      BY <1>1, Sizes DEF QueueTypes
    <2>2. QED
      BY <2>1, Zenon DEF SendFromISR, ReceiveFromISR
  <1>5. /\ cTxLock' \in queueUNLOCKED .. Cardinality(Tasks) /\ (cTxLock' >= 0 <=> cTxLock >= 0)
        /\ cRxLock' \in queueUNLOCKED .. Cardinality(Tasks) /\ (cRxLock' >= 0 <=> cRxLock >= 0)
    BY <1>1, <1>4, Sizes, SMTT(20) DEF QueueTypes, Increment
  <1>6. LockInv'
    BY <1>1, <1>2, <1>5, Zenon DEF LockInv
  <1>7. CASE UNCHANGED listVars
    <2>1. QueueTypes'
      BY <1>1, <1>2, <1>5, <1>7, Zenon DEF QueueTypes, listVars
    <2>2. ListInv'
      <3>1. ListsOK(xTasksWaitingToSend, xTasksWaitingToReceive, blocked, xPendingReadyList)'
        BY <1>1, <1>7, ListsSame, Zenon DEF ListInv, listVars
      <3>2. QED
        BY <1>1, <1>2, <1>7, <3>1, Zenon DEF ListInv, In, listVars
    <2>3. QED
      BY <1>6, <2>1, <2>2
  <1>8. CASE WakeReceivers(1) \/ WakeSenders(1)
    <2>1. \A u \in blocked : pc'[u] \in OnWay /\ op'[u] = op[u]
      BY <1>1, <1>2, Zenon DEF ListInv
    <2>2. /\ xTasksWaitingToSend' \in Seq(Tasks) /\ xTasksWaitingToReceive' \in Seq(Tasks)
          /\ blocked' \subseteq blocked /\ xPendingReadyList' \subseteq Tasks /\ ListInv'
      BY <1>2, <1>8, <2>1, WakeKeeps, Zenon
    <2>3. QueueTypes'
      BY <1>1, <1>2, <1>5, <2>2, Zenon DEF QueueTypes
    <2>4. QED
      BY <1>6, <2>2, <2>3
  <1>9. QED
    BY <1>3, <1>7, <1>8

\* prvUnlockQueue
LEMMA UnlockStep ==
  ASSUME SetFacts, QueueInv, NEW t \in Tasks, UnlockTx(t) \/ UnlockRx(t)
  PROVE  QueueTypes' /\ LockInv' /\ ListInv'
  <1>1. QueueTypes /\ LockInv /\ ListInv
    BY DEF QueueInv
  <1>2. Runs(t) /\ UNCHANGED << suspended, op, wait, expired >>
    BY DEF UnlockTx, UnlockRx, callVars
  <1>3. PICK to \in Places :
          /\ pc' = [pc EXCEPT ![t] = to] /\ pc[t] \in RxPlaces /\ to \in LockPlaces /\ to \notin TxPlaces
          /\ pc[t] \in OnWay => to \in OnWay
          /\ UnlockTx(t) => pc[t] \in TxPlaces /\ to \in RxPlaces
          /\ UnlockRx(t) => pc[t] \notin TxPlaces /\ to \notin RxPlaces
    <2>1. CASE UnlockTx(t)
      <3> DEFINE to == IF pc[t] = "unlock_tx" THEN "unlock_rx" ELSE "expired_rx"
      <3>1. pc' = [pc EXCEPT ![t] = to] /\ pc[t] \in {"unlock_tx", "expired_tx"} /\ ~ UnlockRx(t)
        BY <2>1, Zenon DEF UnlockTx, UnlockRx, Goto
      <3>2. /\ to \in Places /\ pc[t] \in TxPlaces /\ pc[t] \in RxPlaces /\ to \in LockPlaces
            /\ to \in RxPlaces /\ to \notin TxPlaces /\ (pc[t] \in OnWay => to \in OnWay)
        BY <3>1 DEF Places, OnWay, LockPlaces, RxPlaces, TxPlaces
      <3>3. QED
        BY <3>1, <3>2, Zenon
    <2>2. CASE UnlockRx(t)
      <3> DEFINE to == IF pc[t] = "unlock_rx" THEN "resume" ELSE "expired_resume"
      <3>1. pc' = [pc EXCEPT ![t] = to] /\ pc[t] \in {"unlock_rx", "expired_rx"} /\ ~ UnlockTx(t)
        BY <2>2, Zenon DEF UnlockTx, UnlockRx, Goto
      <3>2. /\ to \in Places /\ pc[t] \notin TxPlaces /\ pc[t] \in RxPlaces /\ to \in LockPlaces
            /\ to \notin RxPlaces /\ to \notin TxPlaces /\ (pc[t] \in OnWay => to \in OnWay)
        BY <3>1 DEF Places, OnWay, LockPlaces, RxPlaces, TxPlaces
      <3>3. QED
        BY <3>1, <3>2, Zenon
    <2>3. QED
      BY <2>1, <2>2, Zenon
  <1>4. pc'[t] = to /\ (\A u \in Tasks : u # t => pc'[u] = pc[u] /\ pc[u] \notin LockPlaces)
    BY <1>1, <1>2, <1>3, Running, Zenon DEF QueueTypes
  <1>5. TxPlaces \subseteq RxPlaces /\ RxPlaces \subseteq LockPlaces
    BY DEF RxPlaces, LockPlaces
  <1>6. \A u \in blocked : pc'[u] \in OnWay /\ op'[u] = op[u]
    BY <1>1, <1>2, <1>3, <1>4, Zenon DEF ListInv, QueueTypes
  <1>7. CASE UnlockTx(t)
    <2>1. WakeReceivers(cTxLock) /\ cTxLock' = queueUNLOCKED /\ cRxLock' = cRxLock
      BY <1>7, Zenon DEF UnlockTx
    <2>2. cTxLock >= 0 /\ cTxLock \in Nat
      BY <1>1, <1>3, <1>7, Sizes DEF LockInv, QueueTypes
    <2>3. /\ xTasksWaitingToSend' \in Seq(Tasks) /\ xTasksWaitingToReceive' \in Seq(Tasks)
          /\ blocked' \subseteq blocked /\ xPendingReadyList' \subseteq Tasks /\ ListInv'
      BY <1>2, <1>6, <2>1, <2>2, WakeKeeps, Zenon
    <2>4. QueueTypes'
      BY <1>1, <1>2, <1>3, <2>1, <2>3, Sizes DEF QueueTypes
    <2>5. LockInv'
      BY <1>1, <1>2, <1>3, <1>4, <1>5, <1>7, <2>1, Sizes DEF LockInv
    <2>6. QED
      BY <2>3, <2>4, <2>5
  <1>8. CASE UnlockRx(t)
    <2>1. WakeSenders(cRxLock) /\ cRxLock' = queueUNLOCKED /\ cTxLock' = cTxLock
      BY <1>8, Zenon DEF UnlockRx
    <2>2. cRxLock >= 0 /\ cRxLock \in Nat
      BY <1>1, <1>3, <1>8, Sizes DEF LockInv, QueueTypes
    <2>3. /\ xTasksWaitingToSend' \in Seq(Tasks) /\ xTasksWaitingToReceive' \in Seq(Tasks)
          /\ blocked' \subseteq blocked /\ xPendingReadyList' \subseteq Tasks /\ ListInv'
      BY <1>2, <1>6, <2>1, <2>2, WakeKeeps, Zenon
    <2>4. QueueTypes'
      BY <1>1, <1>2, <1>3, <2>1, <2>3, Sizes DEF QueueTypes
    <2>5. LockInv'
      BY <1>1, <1>2, <1>3, <1>4, <1>5, <1>8, <2>1, Sizes DEF LockInv
    <2>6. QED
      BY <2>3, <2>4, <2>5
  <1>9. QED
    BY <1>7, <1>8

\* The task that suspended the scheduler enters one list.
LEMMA PlaceStep ==
  ASSUME SetFacts, QueueInv, NEW t \in Tasks, vTaskPlaceOnEventList(t)
  PROVE  QueueTypes' /\ LockInv' /\ ListInv'
  <1> DEFINE ws == xTasksWaitingToSend
             wr == xTasksWaitingToReceive
             p == xPendingReadyList
  <1>1. QueueTypes /\ LockInv /\ ListInv
    BY DEF QueueInv
  <1>2. /\ Runs(t) /\ pc[t] = "place" /\ pc' = [pc EXCEPT ![t] = "unlock_tx"] /\ blocked' = blocked \cup {t}
        /\ UNCHANGED << lockVars, p, suspended, op, wait, expired >>
        /\ op[t] = "send" => ws' = Insert(ws, t) /\ wr' = wr
        /\ op[t] = "receive" => wr' = Insert(wr, t) /\ ws' = ws
    BY Zenon DEF vTaskPlaceOnEventList, Goto, callVars
  <1>3. t \notin blocked /\ ~ In(ws, t) /\ ~ In(wr, t) /\ t \notin p /\ suspended = t
    BY <1>1, <1>2, Running, Zenon DEF OnWay, LockPlaces, RxPlaces, TxPlaces, ListInv, ListsOK
  <1>4. /\ ws \in Seq(Tasks) /\ wr \in Seq(Tasks) /\ Distinct(ws) /\ Distinct(wr) /\ op[t] \in Ops
    BY <1>1, Zenon DEF QueueTypes, ListInv, ListsOK
  <1>5. /\ ws' \in Seq(Tasks) /\ wr' \in Seq(Tasks) /\ Distinct(ws') /\ Distinct(wr')
        /\ \A u \in Tasks : In(ws', u) <=> In(ws, u) \/ (u = t /\ op[t] = "send")
        /\ \A u \in Tasks : In(wr', u) <=> In(wr, u) \/ (u = t /\ op[t] = "receive")
    <2>1. CASE op[t] = "send"
      <3> DEFINE s == Insert(ws, t)
      <3>1. s \in Seq(Tasks) /\ Distinct(s) /\ \A u \in Tasks : In(s, u) <=> In(ws, u) \/ u = t
        BY <1>3, <1>4, InsertAdds, Zenon
      <3>2. ws' = s /\ wr' = wr
        BY <1>2, <2>1, Zenon
      <3> HIDE DEF s
      <3>3. QED
        BY <1>4, <2>1, <3>1, <3>2, Zenon
    <2>2. CASE op[t] = "receive"
      <3> DEFINE s == Insert(wr, t)
      <3>1. s \in Seq(Tasks) /\ Distinct(s) /\ \A u \in Tasks : In(s, u) <=> In(wr, u) \/ u = t
        BY <1>3, <1>4, InsertAdds, Zenon
      <3>2. wr' = s /\ ws' = ws
        BY <1>2, <2>2, Zenon
      <3> HIDE DEF s
      <3>3. QED
        BY <1>4, <2>2, <3>1, <3>2, Zenon
    <2>3. QED
      BY <1>4, <2>1, <2>2, Zenon DEF Ops
  <1>6. QueueTypes'
    BY <1>1, <1>2, <1>5, Zenon DEF QueueTypes, Places, lockVars
  <1>7. LockInv'
    BY <1>2, LockKept, Zenon DEF Places, LockPlaces, RxPlaces, TxPlaces
  <1>8. ListsOK(ws', wr', blocked', p')
    BY <1>1, <1>2, <1>3, <1>4, <1>5, Zenon DEF ListInv, ListsOK, Ops
  <1>9. ListsOK(ws, wr, blocked, p)'
    BY <1>8, Zenon DEF ListsOK, Distinct, In
  <1>10. \A u \in Tasks : (In(ws', u) => op'[u] = "send") /\ (In(wr', u) => op'[u] = "receive")
    BY <1>1, <1>2, <1>5, Zenon DEF ListInv
  <1>11. \A u \in blocked' : pc'[u] \in OnWay
    BY <1>1, <1>2, Zenon DEF ListInv, QueueTypes, OnWay
  <1>12. ListInv'
    BY <1>2, <1>3, <1>9, <1>10, <1>11, Sizes, Zenon DEF ListInv, In
  <1>13. QED
    BY <1>6, <1>7, <1>12

\* xTaskResumeAll makes the pending tasks ready.
LEMMA ResumeStep ==
  ASSUME SetFacts, QueueInv, NEW t \in Tasks, ResumeAll(t)
  PROVE  QueueTypes' /\ LockInv' /\ ListInv'
  <1> DEFINE ws == xTasksWaitingToSend
             wr == xTasksWaitingToReceive
             p == xPendingReadyList
  <1>1. QueueTypes /\ LockInv /\ ListInv
    BY DEF QueueInv
  <1>2. /\ Runs(t) /\ pc[t] \in {"resume", "expired_resume"} /\ suspended' = NoTask
        /\ blocked' = blocked \ p /\ p' = {} /\ UNCHANGED << lockVars, ws, wr >>
    BY Zenon DEF ResumeAll
  <1>3. PICK to \in Places :
          pc' = [pc EXCEPT ![t] = to] /\ to \notin LockPlaces /\ (pc[t] = "resume" => to = "check")
    BY Zenon DEF ResumeAll, Return, Goto, Places, LockPlaces, RxPlaces, TxPlaces
  <1>4. /\ op' = op \/ (pc[t] = "expired_resume" /\ op' = [op EXCEPT ![t] = "send"])
        /\ wait' \in [Tasks -> {"none", "some", "forever"}] /\ expired' \subseteq Tasks
    BY <1>1, Zenon DEF ResumeAll, Return, QueueTypes
  <1>5. \A u \in Tasks : u # t => pc[u] \notin LockPlaces /\ pc'[u] = pc[u]
    BY <1>1, <1>2, <1>3, Running, Zenon DEF QueueTypes
  <1>6. pc'[t] = to /\ pc[t] \in LockPlaces /\ pc[t] \notin RxPlaces
    BY <1>1, <1>2, <1>3, Zenon DEF QueueTypes, LockPlaces, RxPlaces, TxPlaces
  <1>7. QueueTypes'
    BY <1>1, <1>2, <1>3, <1>4, Zenon DEF QueueTypes, Places, Ops, lockVars
  <1>8. LockInv'
    <2>1. TxPlaces \subseteq RxPlaces /\ RxPlaces \subseteq LockPlaces
      BY Zenon DEF RxPlaces, LockPlaces
    <2>2. \A u \in Tasks : u # NoTask
      BY Sizes
    <2>3. \A u \in Tasks : pc[u] \notin RxPlaces /\ pc'[u] \notin LockPlaces
      BY <1>3, <1>5, <1>6, <2>1, Zenon
    <2>4. QED
      BY <1>1, <1>2, <2>1, <2>2, <2>3, Zenon DEF LockInv, lockVars
  <1>9. pc[t] = "expired_resume" => t \notin blocked
    BY <1>1, Zenon DEF ListInv, OnWay
  <1>10. ListsOK(ws, wr, blocked, p)'
    <2>1. ListsOK(ws, wr, blocked \ p, {})
      BY <1>1, Zenon DEF ListInv, ListsOK
    <2>2. QED
      BY <1>2, <2>1 DEF ListsOK, Distinct, In
  <1>11. \A u \in blocked : op'[u] = op[u] /\ pc'[u] \in OnWay
    <2>1. \A u \in blocked : op'[u] = op[u]
      BY <1>1, <1>4, <1>9, Zenon DEF QueueTypes
    <2>2. \A u \in blocked : pc'[u] \in OnWay
      BY <1>1, <1>2, <1>3, <1>5, <1>6, <1>9, Zenon DEF ListInv, QueueTypes, OnWay
    <2>3. QED
      BY <2>1, <2>2, Zenon
  <1>12. \A u \in Tasks : In(ws, u) \/ In(wr, u) => u \in blocked
    BY <1>1, Zenon DEF ListInv, ListsOK
  <1>13. \A u \in Tasks : (In(ws, u)' => op'[u] = "send") /\ (In(wr, u)' => op'[u] = "receive")
    <2>1. UNCHANGED << ws, wr >>
      BY <1>2, Zenon
    <2>2. \A u \in Tasks : (In(ws, u) => op[u] = "send") /\ (In(wr, u) => op[u] = "receive")
      BY <1>1, Zenon DEF ListInv
    <2>3. \A u \in Tasks : (In(ws, u) => op'[u] = "send") /\ (In(wr, u) => op'[u] = "receive")
      BY <1>11, <1>12, <2>2, Zenon
    <2>4. QED
      BY <2>1, <2>3, Zenon DEF In
  <1>14. ListInv'
    BY <1>2, <1>10, <1>11, <1>13, Zenon DEF ListInv
  <1>15. QED
    BY <1>7, <1>8, <1>14, Zenon

\* The tick takes a task off the list it waits in.
LEMMA ExpireStep ==
  ASSUME QueueInv, NEW t \in Tasks, Expire(t)
  PROVE  QueueTypes' /\ LockInv' /\ ListInv'
  <1> DEFINE ws == xTasksWaitingToSend
             wr == xTasksWaitingToReceive
             p == xPendingReadyList
  <1>1. QueueTypes /\ LockInv /\ ListInv
    BY DEF QueueInv
  <1>2. /\ suspended = NoTask /\ expired' = expired \cup {t} /\ blocked' = blocked \ {t}
        /\ ws' = TakenOff(ws, t) /\ wr' = TakenOff(wr, t)
        /\ UNCHANGED << lockVars, p, suspended, pc, op, wait >>
    BY Zenon DEF Expire, callVars
  <1>3. /\ ws \in Seq(Tasks) /\ wr \in Seq(Tasks) /\ Distinct(ws) /\ Distinct(wr) /\ p = {}
    BY <1>1, <1>2, Zenon DEF QueueTypes, ListInv, ListsOK
  <1>4. ws' \in Seq(Tasks) /\ Distinct(ws') /\ \A u \in Tasks : In(ws', u) <=> In(ws, u) /\ u # t
    BY <1>2, <1>3, TakenOffRemoves, Zenon
  <1>5. wr' \in Seq(Tasks) /\ Distinct(wr') /\ \A u \in Tasks : In(wr', u) <=> In(wr, u) /\ u # t
    BY <1>2, <1>3, TakenOffRemoves, Zenon
  <1>6. QueueTypes'
    BY <1>1, <1>2, <1>4, <1>5, Zenon DEF QueueTypes, lockVars
  <1>7. LockInv'
    BY <1>1, <1>2, Zenon DEF LockInv, lockVars
  <1>8. ListsOK(ws', wr', blocked', p')
    BY <1>1, <1>2, <1>3, <1>4, <1>5, Zenon DEF ListInv, ListsOK
  <1>9. ListsOK(ws, wr, blocked, p)'
    BY <1>8, Zenon DEF ListsOK, Distinct, In
  <1>10. \A u \in Tasks : (In(ws', u) => op'[u] = "send") /\ (In(wr', u) => op'[u] = "receive")
    BY <1>1, <1>2, <1>4, <1>5, Zenon DEF ListInv
  <1>11. ListInv'
    BY <1>1, <1>2, <1>9, <1>10, Zenon DEF ListInv, In
  <1>12. QED
    BY <1>6, <1>7, <1>11, Zenon

\* At the start all tasks are ready and the queue is unlocked.
LEMMA QueueInit ==
  ASSUME SetFacts, Init
  PROVE  QueueInv
  <1>1. StoreInv
    BY QueueAssumption DEF Init, StoreInv, Slots, Wrapped, Step
  <1>2. QueueTypes
    BY Sizes DEF Init, QueueTypes, Places, Ops
  <1>3. LockInv
    BY Sizes DEF Init, LockInv, LockPlaces, RxPlaces, TxPlaces
  <1>4. ListInv
    <2>1. Len(<< >>) = 0
      OBVIOUS
    <2>2. Distinct(<< >>) /\ \A t : ~ In(<< >>, t)
      BY <2>1 DEF Distinct, In
    <2>3. QED
      BY <2>2, Zenon DEF Init, ListInv, ListsOK
  <1>5. QED
    BY <1>1, <1>2, <1>3, <1>4 DEF QueueInv

LEMMA QueueStep ==
  ASSUME SetFacts, QueueInv, [Next]_vars
  PROVE  QueueInv'
  <1>1. CASE UNCHANGED vars
    <2>1. StoreInv'
      BY <1>1, Zenon DEF vars, queueVars, callVars, QueueInv, StoreInv, Wrapped, Step
    <2>2. QueueTypes' /\ LockInv'
      BY <1>1, Zenon DEF vars, listVars, lockVars, callVars, QueueInv, QueueTypes, LockInv
    <2>3. ListInv'
      <3>1. UNCHANGED << xTasksWaitingToSend, xTasksWaitingToReceive, blocked, xPendingReadyList, suspended, op, pc >>
        BY <1>1, Zenon DEF vars, listVars, callVars, lockVars
      <3>2. ListInv
        BY Zenon DEF QueueInv
      <3>3. QED
        <4>1. ListsOK(xTasksWaitingToSend, xTasksWaitingToReceive, blocked, xPendingReadyList)'
          BY <3>1, <3>2, ListsSame, Zenon DEF ListInv
        <4>2. QED
          BY <3>1, <3>2, <4>1, Zenon DEF ListInv, In
    <2>4. QED
      BY <2>1, <2>2, <2>3 DEF QueueInv
  <1>2. CASE Next
    <2>1. StoreInv'
      BY <1>2, StepRefines DEF QueueInv
    <2>2. CASE SendFromISR \/ ReceiveFromISR
      BY <2>1, <2>2, HandlerStep DEF QueueInv
    <2>3. ASSUME NEW t \in Tasks, Call(t) \/ TaskStep(t) \/ Expire(t) PROVE QueueTypes' /\ LockInv' /\ ListInv'
      BY <2>3, QuietStep, LockStep, PassStep, UnlockStep, PlaceStep, ResumeStep, ExpireStep, Zenon DEF TaskStep
    <2>4. QED
      BY <1>2, <2>1, <2>2, <2>3 DEF Next, NewCall, QueueInv
  <1>3. QED
    BY <1>1, <1>2

-----------------------------------------------------------------------------
(* No wake-up is lost                                                       *)

\* For a call o: the list of those that wait, what a handler counts meanwhile, and the items or
\* places that are there.
ListOf(o) == IF o = "send" THEN xTasksWaitingToSend ELSE xTasksWaitingToReceive
LockOf(o) == IF o = "send" THEN cRxLock ELSE cTxLock
Offer(o) == IF o = "send" THEN uxLength - uxMessagesWaiting ELSE uxMessagesWaiting

\* the tasks on their way to look at the queue
On(o) == {t \in Tasks : op[t] = o /\ pc[t] \in OnWay /\ ~ In(ListOf(o), t)}

\* so many offers have somebody on its way, or will have when the queue is unlocked
Enough(offers, tasks, lock) ==
    \/ offers <= tasks + (IF lock < 0 THEN 0 ELSE lock)
    \/ lock = Cardinality(Tasks)

Covered(o) == ListOf(o) # << >> => Enough(Offer(o), Cardinality(On(o)), LockOf(o))

\* what came since the task that is about to wait has looked is counted
Placing(o) == \A t \in Tasks : pc[t] = "place" /\ op[t] = o => Enough(Offer(o), 0, LockOf(o))

WakeInv == QueueInv /\ \A o \in Ops : Covered(o) /\ Placing(o)

Counts(o) ==
    /\ ListOf(o) \in Seq(Tasks) /\ Distinct(ListOf(o))
    /\ LockOf(o) \in Int /\ LockOf(o) >= 0 - 1 /\ LockOf(o) <= Cardinality(Tasks)
    /\ Offer(o) \in Nat
    /\ IsFiniteSet(On(o)) /\ Cardinality(On(o)) \in Nat

\* The types of these, now and after a step.
LEMMA OfferTypes == SetFacts /\ QueueInv => \A o \in Ops : Counts(o)
  <1> SUFFICES ASSUME SetFacts, QueueInv, NEW o \in Ops PROVE Counts(o)
    OBVIOUS
  <1>1. ListOf(o) \in Seq(Tasks) /\ Distinct(ListOf(o))
    BY Zenon DEF QueueInv, QueueTypes, ListInv, ListsOK, ListOf
  <1>2. LockOf(o) \in Int /\ LockOf(o) >= 0 - 1 /\ LockOf(o) <= Cardinality(Tasks)
    BY Sizes DEF QueueInv, QueueTypes, LockOf
  <1>3. Offer(o) \in Nat
    BY Sizes DEF QueueInv, StoreInv, Offer
  <1>4. On(o) \subseteq Tasks
    BY Zenon DEF On
  <1>5. IsFiniteSet(On(o)) /\ Cardinality(On(o)) \in Nat
    BY <1>4, Sizes, Zenon DEF SetFacts, PartFact, SizeFact
  <1>6. QED
    BY <1>1, <1>2, <1>3, <1>5, Zenon DEF Counts

LEMMA OfferTypesNext == SetFacts /\ QueueInv' => \A o \in Ops : Counts(o)'
  <1>1. (SetFacts /\ QueueInv => \A o \in Ops : Counts(o))'
    BY OfferTypes, PTL
  <1>2. QED
    BY <1>1

\* Nobody leaves the way, and nothing more is there.
LEMMA Kept ==
  ASSUME SetFacts, WakeInv, QueueInv', NEW o \in Ops, ListOf(o)' # << >> => ListOf(o) # << >>,
         On(o) \subseteq On(o)', Offer(o)' <= Offer(o),
         LockOf(o)' = LockOf(o) \/ (LockOf(o) < 0 /\ LockOf(o)' = 0)
  PROVE  Covered(o)'
  <1> SUFFICES ASSUME ListOf(o)' # << >> PROVE Enough(Offer(o), Cardinality(On(o)), LockOf(o))'
    BY Zenon DEF Covered
  <1>1. Enough(Offer(o), Cardinality(On(o)), LockOf(o))
    BY Zenon DEF WakeInv, Covered
  <1>2. Offer(o) \in Nat /\ Cardinality(On(o)) \in Nat /\ LockOf(o) \in Int
    BY OfferTypes, Zenon DEF WakeInv, Counts
  <1>3. Offer(o)' \in Nat /\ IsFiniteSet(On(o)') /\ Cardinality(On(o)') \in Nat
    BY OfferTypesNext, Zenon DEF Counts
  <1>4. Cardinality(On(o)) <= Cardinality(On(o)')
    BY <1>3, Zenon DEF SetFacts, PartFact
  <1> DEFINE a == Offer(o)
             b == Offer(o)'
             x == Cardinality(On(o))
             y == Cardinality(On(o)')
             l == LockOf(o)
             k == LockOf(o)'
             c == Cardinality(Tasks)
  <1>5. c \in Nat /\ a \in Nat /\ b \in Nat /\ x \in Nat /\ y \in Nat /\ l \in Int /\ b <= a /\ x <= y
        /\ (k = l \/ (l < 0 /\ k = 0)) /\ (a <= x + (IF l < 0 THEN 0 ELSE l) \/ l = c)
    BY <1>1, <1>2, <1>3, <1>4, Sizes, Zenon DEF Enough
  <1> HIDE DEF a, b, x, y, l, k, c
  <1>6. b <= y + (IF k < 0 THEN 0 ELSE k) \/ k = c
    BY <1>5
  <1>7. QED
    BY <1>6, Zenon DEF Enough, b, y, k, c

\* Nothing is there.
LEMMA NothingThere ==
  ASSUME SetFacts, QueueInv', NEW o \in Ops, Offer(o)' = 0
  PROVE  Covered(o)'
  <1>1. Cardinality(On(o)') \in Nat /\ LockOf(o)' \in Int
    BY OfferTypesNext, Zenon DEF Counts
  <1>2. QED
    BY <1>1 DEF Covered, Enough

\* One task leaves the way with what it came for.
LEMMA Served ==
  ASSUME SetFacts, WakeInv, QueueInv', NEW o \in Ops, NEW t, ListOf(o)' = ListOf(o),
         On(o) \ {t} \subseteq On(o)', Offer(o)' <= Offer(o) - 1, LockOf(o)' = LockOf(o)
  PROVE  Covered(o)'
  <1> SUFFICES ASSUME ListOf(o)' # << >> PROVE Enough(Offer(o), Cardinality(On(o)), LockOf(o))'
    BY Zenon DEF Covered
  <1>1. Enough(Offer(o), Cardinality(On(o)), LockOf(o))
    BY Zenon DEF WakeInv, Covered
  <1>2. /\ Offer(o) \in Nat /\ Cardinality(On(o)) \in Nat /\ IsFiniteSet(On(o)) /\ LockOf(o) \in Int
        /\ Offer(o)' \in Nat /\ Cardinality(On(o)') \in Nat /\ IsFiniteSet(On(o)')
    BY OfferTypes, OfferTypesNext, Zenon DEF WakeInv, Counts
  <1> DEFINE a == Offer(o)
             b == Offer(o)'
             x == Cardinality(On(o))
             y == Cardinality(On(o)')
             z == Cardinality(On(o) \ {t})
             l == LockOf(o)
             c == Cardinality(Tasks)
  <1>3. z = x \/ z = x - 1
    BY <1>2, Zenon DEF SetFacts, LessFact
  <1>4. z <= y
    BY <1>2, Zenon DEF SetFacts, PartFact
  <1>5. c \in Nat /\ a \in Nat /\ b \in Nat /\ x \in Nat /\ y \in Nat /\ l \in Int /\ b <= a - 1
        /\ (a <= x + (IF l < 0 THEN 0 ELSE l) \/ l = c)
    BY <1>1, <1>2, Sizes, Zenon DEF Enough
  <1> HIDE DEF a, b, x, y, z, l, c
  <1>6. b <= y + (IF l < 0 THEN 0 ELSE l) \/ l = c
    BY <1>3, <1>4, <1>5
  <1>7. QED
    BY <1>6, Zenon DEF Enough, b, y, l, c

\* A handler that finds the queue locked counts.
LEMMA HandlerCounts ==
  ASSUME SetFacts, WakeInv, QueueInv', NEW o \in Ops, NEW T, NEW U, IsFiniteSet(T), IsFiniteSet(U), T \subseteq U,
         Offer(o)' <= Offer(o) + 1, LockOf(o) >= 0, LockOf(o)' = Increment(LockOf(o)),
         Enough(Offer(o), Cardinality(T), LockOf(o))
  PROVE  Enough(Offer(o)', Cardinality(U), LockOf(o)')
  <1> DEFINE a == Offer(o)
             b == Offer(o)'
             x == Cardinality(T)
             y == Cardinality(U)
             l == LockOf(o)
             k == LockOf(o)'
             c == Cardinality(Tasks)
  <1>1. x \in Nat /\ y \in Nat /\ x <= y
    BY Zenon DEF SetFacts, SizeFact, PartFact
  <1>2. c \in Nat /\ a \in Nat /\ b \in Nat /\ l \in Int /\ b <= a + 1 /\ l >= 0 /\ l <= c
        /\ (a <= x + (IF l < 0 THEN 0 ELSE l) \/ l = c) /\ k = IF l < c THEN l + 1 ELSE l
    BY OfferTypes, OfferTypesNext, Sizes, Zenon DEF WakeInv, Counts, Enough, Increment
  <1> HIDE DEF a, b, x, y, l, k, c
  <1>3. b <= y + (IF k < 0 THEN 0 ELSE k) \/ k = c
    BY <1>1, <1>2
  <1>4. QED
    BY <1>3, Zenon DEF Enough, b, y, k, c

\* Tasks are woken: one for what is new, or as many as were counted.
LEMMA Woken ==
  ASSUME SetFacts, WakeInv, QueueInv', NEW o \in Ops, NEW n \in Nat, ListOf(o)' = Rest(ListOf(o), n),
         \A u \in Tasks : op[u] = o /\ pc[u] \in OnWay => op'[u] = o /\ pc'[u] \in OnWay,
         LockOf(o)' < 0,
         \/ LockOf(o) < 0 /\ Offer(o)' <= Offer(o) + n
         \/ LockOf(o) = n /\ Offer(o)' <= Offer(o)
  PROVE  Covered(o)'
  <1> SUFFICES ASSUME ListOf(o)' # << >> PROVE Enough(Offer(o), Cardinality(On(o)), LockOf(o))'
    BY Zenon DEF Covered
  <1> DEFINE F == Range(First(ListOf(o), n))
             S == On(o)
             T == On(o)'
  <1>1. /\ ListOf(o) \in Seq(Tasks) /\ Distinct(ListOf(o)) /\ LockOf(o) \in Int /\ Offer(o) \in Nat
        /\ IsFiniteSet(S) /\ Cardinality(S) \in Nat
    BY OfferTypes, Zenon DEF WakeInv, Counts
  <1>2. Offer(o)' \in Nat /\ LockOf(o)' \in Int /\ IsFiniteSet(T) /\ Cardinality(T) \in Nat
    BY OfferTypesNext, Zenon DEF Counts
  <1>3. /\ F \subseteq Tasks /\ IsFiniteSet(F) /\ (\A u \in F : In(ListOf(o), u))
        /\ \A u \in Tasks : In(ListOf(o)', u) <=> In(ListOf(o), u) /\ u \notin F
        /\ Cardinality(F) = n /\ n < Len(ListOf(o))
    <2> DEFINE s == Rest(ListOf(o), n)
    <2>1. /\ F \subseteq Tasks /\ IsFiniteSet(F) /\ (\A u \in F : In(ListOf(o), u))
          /\ \A u \in Tasks : In(s, u) <=> In(ListOf(o), u) /\ u \notin F
          /\ s # << >> => Cardinality(F) = n /\ n < Len(ListOf(o))
      BY <1>1, SplitAt, Zenon
    <2>2. ListOf(o)' = s
      BY Zenon
    <2> HIDE DEF s, F
    <2>3. QED
      BY <2>1, <2>2, Zenon
  <1>4. Len(ListOf(o)) <= Cardinality(Tasks) /\ Len(ListOf(o)) \in Nat /\ ListOf(o) # << >>
    <2> DEFINE m == ListOf(o)
    <2>1. m \in Seq(Tasks) /\ Distinct(m) /\ n < Len(m)
      BY <1>1, <1>3, Zenon
    <2> HIDE DEF m
    <2>2. Len(m) <= Cardinality(Tasks)
      BY <2>1, Counted, Zenon
    <2>3. Len(m) \in Nat /\ m # << >>
      BY <2>1
    <2>4. QED
      BY <2>2, <2>3, Zenon DEF m
  <1> HIDE DEF F
  <1>5. \A u \in F : op[u] = o /\ pc[u] \in OnWay
    <2>1. ListInv
      BY Zenon DEF WakeInv, QueueInv
    <2>2. \A u \in F : u \in blocked /\ op[u] = o
      BY <1>3, <2>1, Zenon DEF ListInv, ListsOK, ListOf, Ops
    <2>3. QED
      BY <2>1, <2>2, Zenon DEF ListInv
  <1>6. \A u \in Tasks : In(ListOf(o), u)' <=> In(ListOf(o)', u)
    BY Zenon DEF In
  <1>7. F \subseteq T
    BY <1>3, <1>5, <1>6, Zenon DEF On
  <1>8. S \subseteq T
    BY <1>3, <1>6, Zenon DEF On
  <1>9. F \cap S = {}
    BY <1>3, Zenon DEF On
  <1>10. Cardinality(S) + n <= Cardinality(T)
    <2>1. S \cap F = {} /\ S \cup F \subseteq T
      BY <1>7, <1>8, <1>9, Zenon
    <2>2. Cardinality(S \cup F) = Cardinality(S) + Cardinality(F)
      BY <1>1, <1>3, <2>1, Zenon DEF SetFacts, UnionFact
    <2>3. Cardinality(S \cup F) <= Cardinality(T)
      BY <1>2, <2>1, Zenon DEF SetFacts, PartFact
    <2>4. QED
      BY <1>1, <1>2, <1>3, <2>2, <2>3, Zenon
  <1>11. Enough(Offer(o), Cardinality(S), LockOf(o))
    BY <1>4, Zenon DEF WakeInv, Covered
  <1> DEFINE a == Offer(o)
             b == Offer(o)'
             x == Cardinality(S)
             y == Cardinality(T)
             l == LockOf(o)
             k == LockOf(o)'
             c == Cardinality(Tasks)
  <1>12. /\ c \in Nat /\ a \in Nat /\ b \in Nat /\ x \in Nat /\ y \in Nat /\ l \in Int /\ k \in Int /\ k < 0 /\ n < c
         /\ x + n <= y /\ (a <= x + (IF l < 0 THEN 0 ELSE l) \/ l = c)
         /\ (l < 0 /\ b <= a + n) \/ (l = n /\ b <= a)
    <2>1. c \in Nat /\ a \in Nat /\ b \in Nat /\ x \in Nat /\ y \in Nat /\ l \in Int /\ k \in Int /\ k < 0
      BY <1>1, <1>2, Sizes, Zenon
    <2>2. n < c
      <3> DEFINE m == Len(ListOf(o))
      <3>1. n < m /\ m <= c /\ m \in Nat
        BY <1>3, <1>4, Zenon
      <3>2. n \in Nat
        BY Zenon
      <3> HIDE DEF m, c, a, b, x, y, l, k
      <3>3. QED
        BY <2>1, <3>1, <3>2, BelowThat, Zenon
    <2>3. x + n <= y
      BY <1>10, Zenon
    <2>4. a <= x + (IF l < 0 THEN 0 ELSE l) \/ l = c
      BY <1>11, Zenon DEF Enough
    <2>5. (l < 0 /\ b <= a + n) \/ (l = n /\ b <= a)
      BY Zenon
    <2>6. QED
      BY <2>1, <2>2, <2>3, <2>4, <2>5, Zenon
  <1> HIDE DEF a, b, x, y, l, k, c, S, T
  <1>13. b <= y + (IF k < 0 THEN 0 ELSE k)
    BY <1>12, EnoughKept, Zenon
  <1>14. QED
    BY <1>13, Zenon DEF Enough, b, y, k, T

\* After a step of a task that does not end at "place", nobody is about to wait.
LEMMA NobodyPlacing ==
  ASSUME SetFacts, QueueInv, NEW t \in Tasks, Runs(t), \A u \in Tasks : u # t => pc'[u] = pc[u], pc'[t] # "place"
  PROVE  \A o \in Ops : Placing(o)'
  <1>1. \A u \in Tasks : u # t => pc[u] \notin LockPlaces
    BY Running, Zenon
  <1>2. \A u \in Tasks : pc'[u] # "place"
    BY <1>1, Zenon DEF LockPlaces, RxPlaces, TxPlaces
  <1>3. QED
    BY <1>2, Zenon DEF Placing

\* Steps of a task that move no item and wake nobody.
LEMMA QuietWake ==
  ASSUME SetFacts, WakeInv, QueueInv', NEW t \in Tasks,
         \/ Call(t) \/ Refuse(t) \/ StartWait(t) \/ Lock(t) \/ CheckForTimeOut(t) \/ LookAgain(t)
         \/ ResumeAll(t) \/ GiveUp(t)
  PROVE  \A o \in Ops : Covered(o)' /\ Placing(o)'
  <1>1. QueueInv /\ QueueTypes
    BY DEF WakeInv, QueueInv
  <1>2. /\ Runs(t) /\ UNCHANGED << xTasksWaitingToSend, xTasksWaitingToReceive, uxMessagesWaiting >>
    BY Zenon DEF Call, Refuse, StartWait, Lock, CheckForTimeOut, LookAgain, ResumeAll, GiveUp, queueVars, listVars
  <1>3. \A o \in Ops : ListOf(o)' = ListOf(o) /\ Offer(o)' = Offer(o)
    BY <1>2, Zenon DEF ListOf, Offer
  <1>4. \A u \in Tasks : u # t => pc'[u] = pc[u] /\ op'[u] = op[u]
    BY <1>1, Zenon DEF Call, Refuse, StartWait, Lock, CheckForTimeOut, LookAgain, ResumeAll, GiveUp, Return, Goto,
                callVars, QueueTypes
  <1>5. \A o \in Ops : LockOf(o)' = LockOf(o) \/ (LockOf(o) < 0 /\ LockOf(o)' = 0)
    <2>1. CASE Lock(t)
      BY <1>1, <2>1, LockNumbers, Sizes, Zenon DEF Lock, LockOf, QueueTypes
    <2>2. CASE ~ Lock(t)
      <3>1. UNCHANGED lockVars
        BY <2>2, Zenon DEF Call, Refuse, StartWait, CheckForTimeOut, LookAgain, ResumeAll, GiveUp
      <3>2. QED
        BY <3>1, Zenon DEF lockVars, LockOf
    <2>3. QED
      BY <2>1, <2>2, Zenon
  <1>6. \/ pc[t] \notin OnWay
        \/ pc[t] \in OnWay /\ pc'[t] \in OnWay /\ op'[t] = op[t]
        \/ pc[t] = "check" /\ Stuck(t)
    BY <1>1, Zenon DEF Call, Refuse, StartWait, Lock, CheckForTimeOut, LookAgain, ResumeAll, GiveUp, Return, Goto,
                OnWay, QueueTypes
  <1>7. ASSUME NEW o \in Ops PROVE Covered(o)'
    <2>1. \A u : In(ListOf(o), u)' <=> In(ListOf(o), u)
      BY <1>3, Zenon DEF In
    <2>2. CASE pc[t] \notin OnWay \/ op[t] # o \/ (pc'[t] \in OnWay /\ op'[t] = op[t])
      <3>1. On(o) \subseteq On(o)'
        BY <1>4, <2>1, <2>2, Zenon DEF On
      <3>2. Offer(o)' <= Offer(o)
        BY <1>1, <1>3, OfferTypes DEF Counts
      <3>3. QED
        BY <1>3, <1>5, <3>1, <3>2, Kept, Zenon
    <2>3. CASE pc[t] = "check" /\ Stuck(t) /\ op[t] = o
      <3>1. Offer(o) = 0
        <4>1. CASE o = "send"
          <5>1. uxMessagesWaiting = uxLength
            BY <2>3, <4>1, Zenon DEF Stuck
          <5>2. QED
            BY <4>1, <5>1, Sizes DEF Offer
        <4>2. CASE o # "send"
          BY <2>3, <4>2, Zenon DEF Stuck, Offer
        <4>3. QED
          BY <4>1, <4>2, Zenon
      <3>2. QED
        BY <1>3, <3>1, NothingThere, Zenon
    <2>4. QED
      BY <1>6, <2>2, <2>3, Zenon
  <1>8. ASSUME NEW o \in Ops PROVE Placing(o)'
    <2>1. CASE pc'[t] # "place"
      BY <1>1, <1>2, <1>4, <2>1, NobodyPlacing, Zenon
    <2>2. CASE pc'[t] = "place"
      <3>1. LookAgain(t) /\ Stuck(t)
        BY <1>1, <2>2, Zenon DEF Call, Refuse, StartWait, Lock, CheckForTimeOut, LookAgain, ResumeAll, GiveUp, Return,
                          Goto, QueueTypes
      <3>2. pc[t] = "look" /\ op' = op /\ UNCHANGED lockVars
        BY <3>1, Zenon DEF LookAgain, callVars
      <3>3. \A u \in Tasks : u # t => pc'[u] # "place"
        BY <1>1, <1>2, <1>4, Running, Zenon DEF LockPlaces, RxPlaces, TxPlaces
      <3>4. op[t] = o => Offer(o) = 0
        BY <3>1, Sizes DEF Stuck, Offer, Ops
      <3>5. LockOf(o)' = LockOf(o) /\ LockOf(o) \in Int
        BY <1>1, <3>2, OfferTypes, Zenon DEF LockOf, lockVars, Counts
      <3>6. op[t] = o => Enough(Offer(o), 0, LockOf(o))'
        BY <1>3, <3>4, <3>5 DEF Enough
      <3>7. QED
        BY <3>2, <3>3, <3>6, Zenon DEF Placing
    <2>3. QED
      BY <2>1, <2>2, Zenon
  <1>9. QED
    BY <1>7, <1>8

\* What came since the task looked is counted, so it may wait.
LEMMA PlaceWake ==
  ASSUME SetFacts, WakeInv, QueueInv', NEW t \in Tasks, vTaskPlaceOnEventList(t)
  PROVE  \A o \in Ops : Covered(o)' /\ Placing(o)'
  <1>1. QueueInv /\ QueueTypes
    BY DEF WakeInv, QueueInv
  <1>2. /\ Runs(t) /\ pc[t] = "place" /\ pc' = [pc EXCEPT ![t] = "unlock_tx"]
        /\ UNCHANGED << uxMessagesWaiting, cTxLock, cRxLock, op >>
        /\ op[t] = "send" => xTasksWaitingToReceive' = xTasksWaitingToReceive
        /\ op[t] = "receive" => xTasksWaitingToSend' = xTasksWaitingToSend
    BY Zenon DEF vTaskPlaceOnEventList, Goto, callVars, queueVars, lockVars
  <1>3. pc'[t] = "unlock_tx" /\ \A u \in Tasks : u # t => pc'[u] = pc[u]
    BY <1>1, <1>2, Zenon DEF QueueTypes
  <1>4. \A o \in Ops : Placing(o)'
    BY <1>1, <1>2, <1>3, NobodyPlacing, Zenon
  <1>5. \A o \in Ops : Offer(o)' = Offer(o) /\ LockOf(o)' = LockOf(o)
    BY <1>2, Zenon DEF Offer, LockOf
  <1>6. ASSUME NEW o \in Ops PROVE Covered(o)'
    <2>1. CASE op[t] = o
      <3>1. Enough(Offer(o), 0, LockOf(o))
        BY <1>2, <2>1, Zenon DEF WakeInv, Placing
      <3>2. Offer(o) \in Nat /\ LockOf(o) \in Int /\ Cardinality(On(o)') \in Nat
        BY <1>1, OfferTypes, OfferTypesNext, Zenon DEF Counts
      <3>3. Enough(Offer(o), Cardinality(On(o)'), LockOf(o))
        <4> DEFINE y == Cardinality(On(o)')
        <4>1. Enough(Offer(o), 0, LockOf(o)) /\ y \in Nat
          BY <3>1, <3>2
        <4> HIDE DEF y
        <4>2. Enough(Offer(o), y, LockOf(o))
          BY <3>2, <4>1 DEF Enough
        <4>3. QED
          BY <4>2 DEF y
      <3>4. QED
        BY <1>5, <3>3, Zenon DEF Covered, Enough
    <2>2. CASE op[t] # o
      <3>1. op[t] \in Ops
        BY <1>1, Zenon DEF QueueTypes
      <3>2. ListOf(o)' = ListOf(o)
        BY <1>2, <2>2, <3>1, Zenon DEF ListOf, Ops
      <3>3. On(o) \subseteq On(o)'
        BY <1>2, <1>3, <2>2, <3>2, Zenon DEF On, In
      <3>4. Offer(o)' <= Offer(o)
        BY <1>1, <1>5, OfferTypes DEF Counts
      <3>5. QED
        BY <1>5, <3>2, <3>3, <3>4, Kept, Zenon
    <2>3. QED
      BY <2>1, <2>2
  <1>7. QED
    BY <1>4, <1>6, Zenon

\* A task gets its item or its place, and one that waits for what it leaves is woken.
LEMMA PassWake ==
  ASSUME SetFacts, WakeInv, QueueInv', NEW t \in Tasks, Send(t) \/ Receive(t)
  PROVE  \A o \in Ops : Covered(o)' /\ Placing(o)'
  <1> DEFINE a == op[t]
  <1>1. QueueInv /\ QueueTypes /\ StoreInv
    BY DEF WakeInv, QueueInv
  <1>2. /\ Runs(t) /\ pc[t] = "check" /\ pc' = [pc EXCEPT ![t] = "idle"] /\ op' = [op EXCEPT ![t] = "send"]
        /\ UNCHANGED << cTxLock, cRxLock >> /\ a \in Ops
    BY <1>1, Zenon DEF Send, Receive, Return, Goto, lockVars, QueueTypes
  <1>3. pc'[t] = "idle" /\ \A u \in Tasks : u # t => pc'[u] = pc[u] /\ op'[u] = op[u]
    BY <1>1, <1>2, Zenon DEF QueueTypes
  <1>4. \A o \in Ops : Placing(o)'
    BY <1>1, <1>2, <1>3, NobodyPlacing, Zenon
  <1>5. \A o \in Ops : LockOf(o)' = LockOf(o) /\ LockOf(o) < 0
    <2>1. suspended = NoTask
      BY <1>1, <1>2, Running, Zenon DEF LockPlaces, RxPlaces, TxPlaces
    <2>2. \A u \in Tasks : pc[u] \notin TxPlaces /\ pc[u] \notin RxPlaces
      BY <1>1, <2>1, Sizes, Zenon DEF QueueInv, LockInv, LockPlaces, RxPlaces
    <2>3. ~ (cTxLock >= 0) /\ ~ (cRxLock >= 0) /\ cTxLock \in Int /\ cRxLock \in Int
      BY <1>1, <2>2, LockNumbers, Zenon DEF QueueInv, LockInv, QueueTypes
    <2>4. cTxLock < 0 /\ cRxLock < 0
      BY <1>1, <2>3, LockNumbers, Zenon DEF QueueTypes
    <2>5. QED
      BY <1>2, <2>4, Zenon DEF LockOf
  <1>6. ASSUME NEW o \in Ops
        PROVE  /\ o = a => ListOf(o)' = ListOf(o) /\ Offer(o)' <= Offer(o) - 1
               /\ o # a => ListOf(o)' = Rest(ListOf(o), 1) /\ Offer(o)' <= Offer(o) + 1
    <2>0. uxMessagesWaiting \in Nat
      BY <1>1, Sizes DEF StoreInv
    <2>1. CASE Send(t)
      <3>1. /\ a = "send" /\ uxMessagesWaiting' = uxMessagesWaiting + 1
            /\ xTasksWaitingToSend' = xTasksWaitingToSend
            /\ xTasksWaitingToReceive' = Rest(xTasksWaitingToReceive, 1)
        BY <2>1, Zenon DEF Send, prvCopyDataToQueue, WakeReceivers
      <3>2. QED
        BY <2>0, <3>1, Sizes DEF ListOf, Offer, Ops
    <2>2. CASE Receive(t)
      <3>1. /\ a = "receive" /\ uxMessagesWaiting' = uxMessagesWaiting - 1
            /\ xTasksWaitingToReceive' = xTasksWaitingToReceive
            /\ xTasksWaitingToSend' = Rest(xTasksWaitingToSend, 1)
        BY <2>2, Zenon DEF Receive, prvCopyDataFromQueue, WakeSenders
      <3>2. QED
        BY <2>0, <3>1, Sizes DEF ListOf, Offer, Ops
    <2>3. QED
      BY <2>1, <2>2, Zenon
  <1>7. ASSUME NEW o \in Ops PROVE Covered(o)'
    <2>1. CASE o = a
      <3>1. On(o) \ {t} \subseteq On(o)'
        BY <1>3, <1>6, <2>1, Zenon DEF On, In
      <3>2. QED
        BY <1>5, <1>6, <2>1, <3>1, Served, Zenon
    <2>2. CASE o # a
      <3>1. \A u \in Tasks : op[u] = o /\ pc[u] \in OnWay => op'[u] = o /\ pc'[u] \in OnWay
        BY <1>3, <2>2, Zenon
      <3>2. QED
        BY <1>5, <1>6, <2>2, <3>1, Woken, Zenon
    <2>3. QED
      BY <2>1, <2>2, Zenon
  <1>8. QED
    BY <1>4, <1>7

\* prvUnlockQueue wakes as many as were counted.
LEMMA UnlockWake ==
  ASSUME SetFacts, WakeInv, QueueInv', NEW t \in Tasks, UnlockTx(t) \/ UnlockRx(t)
  PROVE  \A o \in Ops : Covered(o)' /\ Placing(o)'
  <1> DEFINE a == IF UnlockTx(t) THEN "receive" ELSE "send"
  <1>1. QueueInv /\ QueueTypes
    BY DEF WakeInv, QueueInv
  <1>2. Runs(t) /\ UNCHANGED << uxMessagesWaiting, op >>
    BY Zenon DEF UnlockTx, UnlockRx, callVars, queueVars
  <1>3. PICK to : pc' = [pc EXCEPT ![t] = to] /\ to # "place" /\ (pc[t] \in OnWay => to \in OnWay)
    BY Zenon DEF UnlockTx, UnlockRx, Goto, OnWay
  <1>4. pc'[t] = to /\ \A u \in Tasks : u # t => pc'[u] = pc[u]
    BY <1>1, <1>3, Zenon DEF QueueTypes
  <1>5. \A o \in Ops : Placing(o)'
    BY <1>1, <1>2, <1>3, <1>4, NobodyPlacing, Zenon
  <1>6. \A o \in Ops : Offer(o)' <= Offer(o)
    BY <1>1, <1>2, OfferTypes DEF Offer, Counts
  <1>7. ASSUME NEW o \in Ops
        PROVE  /\ o # a => ListOf(o)' = ListOf(o) /\ LockOf(o)' = LockOf(o)
               /\ o = a => ListOf(o)' = Rest(ListOf(o), LockOf(o)) /\ LockOf(o)' < 0 /\ LockOf(o) \in Nat
    <2>1. CASE UnlockTx(t)
      <3>1. /\ cTxLock' < 0 /\ cRxLock' = cRxLock /\ xTasksWaitingToSend' = xTasksWaitingToSend
            /\ xTasksWaitingToReceive' = Rest(xTasksWaitingToReceive, cTxLock) /\ pc[t] \in TxPlaces
        BY <2>1, Sizes DEF UnlockTx, WakeReceivers, TxPlaces
      <3>2. cTxLock \in Nat
        BY <1>1, <3>1, LockNumbers, Zenon DEF QueueInv, LockInv, QueueTypes
      <3>3. QED
        BY <2>1, <3>1, <3>2, Zenon DEF ListOf, LockOf, Ops
    <2>2. CASE ~ UnlockTx(t)
      <3>1. /\ cRxLock' < 0 /\ cTxLock' = cTxLock /\ xTasksWaitingToReceive' = xTasksWaitingToReceive
            /\ xTasksWaitingToSend' = Rest(xTasksWaitingToSend, cRxLock) /\ pc[t] \in RxPlaces
        BY <2>2, Sizes DEF UnlockRx, WakeSenders, RxPlaces
      <3>2. cRxLock \in Nat
        BY <1>1, <3>1, LockNumbers, Zenon DEF QueueInv, LockInv, QueueTypes
      <3>3. QED
        BY <2>2, <3>1, <3>2, Zenon DEF ListOf, LockOf, Ops
    <2>3. QED
      BY <2>1, <2>2, Zenon
  <1>8. \A u \in Tasks : (pc[u] \in OnWay => pc'[u] \in OnWay) /\ op'[u] = op[u]
    BY <1>2, <1>3, <1>4, Zenon
  <1> HIDE DEF a
  <1>9. ASSUME NEW o \in Ops PROVE Covered(o)'
    <2>1. CASE o = a
      BY <1>6, <1>7, <1>8, <2>1, Woken, Zenon
    <2>2. CASE o # a
      <3>1. On(o) \subseteq On(o)'
        BY <1>7, <1>8, <2>2, Zenon DEF On, In
      <3>2. QED
        BY <1>6, <1>7, <2>2, <3>1, Kept, Zenon
    <2>3. QED
      BY <2>1, <2>2, Zenon
  <1>10. QED
    BY <1>5, <1>9

\* A task whose time is over gets on its way.
LEMMA ExpireWake ==
  ASSUME SetFacts, WakeInv, QueueInv', NEW t \in Tasks, Expire(t)
  PROVE  \A o \in Ops : Covered(o)' /\ Placing(o)'
  <1>1. QueueInv /\ QueueTypes
    BY DEF WakeInv, QueueInv
  <1>2. /\ suspended = NoTask /\ UNCHANGED << uxMessagesWaiting, cTxLock, cRxLock, pc, op >>
        /\ xTasksWaitingToSend' = TakenOff(xTasksWaitingToSend, t)
        /\ xTasksWaitingToReceive' = TakenOff(xTasksWaitingToReceive, t)
    BY Zenon DEF Expire, callVars, queueVars, lockVars
  <1>3. \A u \in Tasks : pc'[u] # "place"
    BY <1>1, <1>2, Sizes, Zenon DEF QueueInv, LockInv, LockPlaces, RxPlaces, TxPlaces
  <1>4. \A o \in Ops : Placing(o)'
    BY <1>3, Zenon DEF Placing
  <1>5. ASSUME NEW o \in Ops PROVE Covered(o)'
    <2> DEFINE l == ListOf(o)
               s == TakenOff(l, t)
    <2>1. l \in Seq(Tasks) /\ Distinct(l) /\ Offer(o) \in Nat
      BY <1>1, OfferTypes, Zenon DEF Counts
    <2>2. s \in Seq(Tasks) /\ \A u \in Tasks : In(s, u) <=> In(l, u) /\ u # t
      BY <2>1, TakenOffRemoves, Zenon
    <2>3. ListOf(o)' = s /\ Offer(o)' = Offer(o) /\ LockOf(o)' = LockOf(o)
      BY <1>2, Zenon DEF ListOf, Offer, LockOf
    <2> HIDE DEF s
    <2>4. s # << >> => l # << >>
      BY <2>1, <2>2, ListFacts, Zenon
    <2>5. On(o) \subseteq On(o)'
      <3>1. \A u \in Tasks : In(ListOf(o), u)' <=> In(s, u)
        BY <2>3, Zenon DEF In
      <3>2. QED
        BY <1>2, <2>2, <3>1, Zenon DEF On
    <2>6. QED
      BY <2>1, <2>3, <2>4, <2>5, Kept
  <1>6. QED
    BY <1>4, <1>5

\* A handler wakes a task for its item or place, or counts it.
LEMMA HandlerWake ==
  ASSUME SetFacts, WakeInv, QueueInv', SendFromISR \/ ReceiveFromISR
  PROVE  \A o \in Ops : Covered(o)' /\ Placing(o)'
  <1>1. QueueInv /\ QueueTypes /\ StoreInv
    BY DEF WakeInv, QueueInv
  <1>2. pc' = pc /\ op' = op /\ uxMessagesWaiting \in Nat
    <2>1. pc' = pc /\ op' = op
      BY Zenon DEF SendFromISR, ReceiveFromISR, callVars
    <2>2. uxMessagesWaiting \in Nat
      BY <1>1, Sizes DEF StoreInv
    <2>3. QED
      BY <2>1, <2>2
  <1>3. ASSUME NEW o \in Ops
        PROVE  \/ ListOf(o)' = ListOf(o) /\ Offer(o)' <= Offer(o) /\ LockOf(o)' = LockOf(o)
               \/ ListOf(o)' = Rest(ListOf(o), 1) /\ Offer(o)' <= Offer(o) + 1 /\ LockOf(o)' = LockOf(o) /\ LockOf(o) < 0
               \/ /\ ListOf(o)' = ListOf(o) /\ Offer(o)' <= Offer(o) + 1
                  /\ LockOf(o) >= 0 /\ LockOf(o)' = Increment(LockOf(o))
    <2>0. /\ (cTxLock = queueUNLOCKED => cTxLock < 0) /\ (cTxLock # queueUNLOCKED => cTxLock >= 0)
          /\ (cRxLock = queueUNLOCKED => cRxLock < 0) /\ (cRxLock # queueUNLOCKED => cRxLock >= 0)
      BY <1>1, LockNumbers, Zenon DEF QueueTypes
    <2>1. CASE SendFromISR /\ uxMessagesWaiting < uxLength
      <3>1. /\ uxMessagesWaiting' = uxMessagesWaiting + 1 /\ cRxLock' = cRxLock
            /\ xTasksWaitingToSend' = xTasksWaitingToSend
        BY <2>1, Zenon DEF SendFromISR, prvCopyDataToQueue, WakeReceivers, listVars
      <3>2. \/ cTxLock < 0 /\ cTxLock' = cTxLock /\ xTasksWaitingToReceive' = Rest(xTasksWaitingToReceive, 1)
            \/ cTxLock >= 0 /\ cTxLock' = Increment(cTxLock) /\ xTasksWaitingToReceive' = xTasksWaitingToReceive
        BY <2>0, <2>1, Zenon DEF SendFromISR, WakeReceivers, listVars
      <3>3. CASE o = "send"
        <4>1. /\ ListOf(o) = xTasksWaitingToSend /\ ListOf(o)' = xTasksWaitingToSend'
              /\ LockOf(o) = cRxLock /\ LockOf(o)' = cRxLock'
              /\ Offer(o) = uxLength - uxMessagesWaiting /\ Offer(o)' = uxLength - (uxMessagesWaiting + 1)
          BY <3>1, <3>3, Zenon DEF ListOf, Offer, LockOf
        <4>2. Offer(o)' <= Offer(o)
          BY <1>2, <4>1, CountSteps, Sizes, Zenon
        <4>3. QED
          BY <3>1, <4>1, <4>2, Zenon
      <3>4. CASE o = "receive"
        <4>1. /\ ListOf(o) = xTasksWaitingToReceive /\ ListOf(o)' = xTasksWaitingToReceive'
              /\ LockOf(o) = cTxLock /\ LockOf(o)' = cTxLock'
              /\ Offer(o) = uxMessagesWaiting /\ Offer(o)' = uxMessagesWaiting + 1
          BY <3>1, <3>4, Zenon DEF ListOf, Offer, LockOf
        <4>2. Offer(o)' <= Offer(o) + 1
          BY <1>2, <4>1, CountSteps, Sizes, Zenon
        <4>3. QED
          BY <3>1, <3>2, <4>1, <4>2, Zenon
      <3>5. QED
        BY <3>3, <3>4, Zenon DEF Ops
    <2>2. CASE ReceiveFromISR /\ uxMessagesWaiting > 0
      <3>1. /\ uxMessagesWaiting' = uxMessagesWaiting - 1 /\ cTxLock' = cTxLock
            /\ xTasksWaitingToReceive' = xTasksWaitingToReceive
        BY <2>2, Zenon DEF ReceiveFromISR, prvCopyDataFromQueue, WakeSenders, listVars
      <3>2. \/ cRxLock < 0 /\ cRxLock' = cRxLock /\ xTasksWaitingToSend' = Rest(xTasksWaitingToSend, 1)
            \/ cRxLock >= 0 /\ cRxLock' = Increment(cRxLock) /\ xTasksWaitingToSend' = xTasksWaitingToSend
        BY <2>0, <2>2, Zenon DEF ReceiveFromISR, WakeSenders, listVars
      <3>3. CASE o = "receive"
        <4>1. /\ ListOf(o) = xTasksWaitingToReceive /\ ListOf(o)' = xTasksWaitingToReceive'
              /\ LockOf(o) = cTxLock /\ LockOf(o)' = cTxLock'
              /\ Offer(o) = uxMessagesWaiting /\ Offer(o)' = uxMessagesWaiting - 1
          BY <3>1, <3>3, Zenon DEF ListOf, Offer, LockOf
        <4>2. Offer(o)' <= Offer(o)
          BY <1>2, <4>1, CountSteps, Sizes, Zenon
        <4>3. QED
          BY <3>1, <4>1, <4>2, Zenon
      <3>4. CASE o = "send"
        <4>1. /\ ListOf(o) = xTasksWaitingToSend /\ ListOf(o)' = xTasksWaitingToSend'
              /\ LockOf(o) = cRxLock /\ LockOf(o)' = cRxLock'
              /\ Offer(o) = uxLength - uxMessagesWaiting /\ Offer(o)' = uxLength - (uxMessagesWaiting - 1)
          BY <3>1, <3>4, Zenon DEF ListOf, Offer, LockOf
        <4>2. Offer(o)' <= Offer(o) + 1
          BY <1>2, <4>1, CountSteps, Sizes, Zenon
        <4>3. QED
          BY <3>1, <3>2, <4>1, <4>2, Zenon
      <3>5. QED
        BY <3>3, <3>4, Zenon DEF Ops
    <2>3. CASE ~ (SendFromISR /\ uxMessagesWaiting < uxLength) /\ ~ (ReceiveFromISR /\ uxMessagesWaiting > 0)
      <3>1. UNCHANGED << uxMessagesWaiting, cTxLock, cRxLock, xTasksWaitingToSend, xTasksWaitingToReceive >>
        BY <2>3, Zenon DEF SendFromISR, ReceiveFromISR, queueVars, listVars
      <3>2. QED
        <4>1. ListOf(o)' = ListOf(o) /\ Offer(o)' = Offer(o) /\ LockOf(o)' = LockOf(o)
          BY <3>1, Zenon DEF ListOf, Offer, LockOf
        <4>2. Offer(o) <= Offer(o)
          BY <1>2, CountSteps, Sizes, Zenon DEF Offer
        <4>3. QED
          BY <4>1, <4>2, Zenon
    <2>4. QED
      BY <2>1, <2>2, <2>3, Zenon
  <1>4. ASSUME NEW o \in Ops PROVE Covered(o)' /\ Placing(o)'
    <2>0. /\ LockOf(o) \in Int /\ Offer(o) \in Nat /\ Offer(o)' \in Nat
          /\ IsFiniteSet(On(o)) /\ IsFiniteSet(On(o)') /\ Covered(o) /\ Placing(o)
      BY <1>1, OfferTypes, OfferTypesNext, Zenon DEF WakeInv, Counts
    <2>1. CASE ListOf(o)' = ListOf(o) /\ Offer(o)' <= Offer(o) /\ LockOf(o)' = LockOf(o)
      <3>1. On(o) \subseteq On(o)'
        BY <1>2, <2>1, Zenon DEF On, In
      <3>2. Covered(o)'
        BY <2>1, <3>1, Kept, Zenon
      <3>3. Enough(Offer(o), 0, LockOf(o)) => Enough(Offer(o), 0, LockOf(o))'
        BY <2>0, <2>1 DEF Enough
      <3>4. QED
        BY <1>2, <2>0, <3>2, <3>3, Zenon DEF Placing
    <2>2. CASE ListOf(o)' = Rest(ListOf(o), 1) /\ Offer(o)' <= Offer(o) + 1 /\ LockOf(o)' = LockOf(o) /\ LockOf(o) < 0
      <3>1. \A u \in Tasks : op[u] = o /\ pc[u] \in OnWay => op'[u] = o /\ pc'[u] \in OnWay
        BY <1>2, Zenon
      <3>2. Covered(o)'
        BY <2>2, <3>1, Woken, Zenon
      <3>3. \A u \in Tasks : pc[u] # "place"
        <4>1. \A u \in Tasks : pc[u] \notin TxPlaces
          <5>1. ~ (LockOf(o) >= 0)
            BY <2>0, <2>2
          <5>2. LockOf(o) = cTxLock \/ LockOf(o) = cRxLock
            BY Zenon DEF LockOf
          <5>3. TxPlaces \subseteq RxPlaces
            BY Zenon DEF TxPlaces, RxPlaces
          <5>4. QED
            BY <1>1, <5>1, <5>2, <5>3, Zenon DEF QueueInv, LockInv
        <4>2. QED
          BY <4>1, Zenon DEF TxPlaces
      <3>4. QED
        BY <1>2, <3>2, <3>3, Zenon DEF Placing
    <2>3. CASE /\ ListOf(o)' = ListOf(o) /\ Offer(o)' <= Offer(o) + 1
               /\ LockOf(o) >= 0 /\ LockOf(o)' = Increment(LockOf(o))
      <3>1. On(o) \subseteq On(o)'
        BY <1>2, <2>3, Zenon DEF On, In
      <3>2. Covered(o)'
        <4>1. Enough(Offer(o), Cardinality(On(o)), LockOf(o)) => Enough(Offer(o)', Cardinality(On(o)'), LockOf(o)')
          BY <2>0, <2>3, <3>1, HandlerCounts, Zenon
        <4>2. QED
          BY <2>0, <2>3, <4>1, Zenon DEF Covered, Enough
      <3>3. Enough(Offer(o), 0, LockOf(o)) => Enough(Offer(o)', 0, LockOf(o)')
        <4>1. IsFiniteSet({}) /\ Cardinality({}) = 0
          BY Zenon DEF SetFacts, EmptyFact
        <4>2. Enough(Offer(o), Cardinality({}), LockOf(o)) => Enough(Offer(o)', Cardinality({}), LockOf(o)')
          BY <2>3, <4>1, HandlerCounts, Zenon
        <4>3. QED
          BY <4>1, <4>2, Zenon
      <3>4. Placing(o)'
        BY <1>2, <2>0, <3>3, Zenon DEF Placing, Enough
      <3>5. QED
        BY <3>2, <3>4
    <2>4. QED
      BY <1>3, <2>1, <2>2, <2>3, Zenon
  <1>5. QED
    BY <1>4

LEMMA WakeInit ==
  ASSUME SetFacts, Init
  PROVE  WakeInv
  <1>1. \A o \in Ops : ListOf(o) = << >>
    BY Zenon DEF Init, ListOf
  <1>2. \A t \in Tasks : pc[t] # "place"
    BY Zenon DEF Init
  <1>3. QED
    BY <1>1, <1>2, QueueInit, Zenon DEF WakeInv, Covered, Placing

LEMMA WakeStep ==
  ASSUME SetFacts, WakeInv, [Next]_vars
  PROVE  WakeInv'
  <1>1. QueueInv'
    BY QueueStep DEF WakeInv
  <1>2. CASE UNCHANGED vars
    <2>1. UNCHANGED << xTasksWaitingToSend, xTasksWaitingToReceive, uxMessagesWaiting, cTxLock, cRxLock, pc, op >>
      BY <1>2, Zenon DEF vars, queueVars, listVars, lockVars, callVars
    <2>2. ASSUME NEW o \in Ops PROVE Covered(o)' /\ Placing(o)'
      <3>1. ListOf(o)' = ListOf(o) /\ LockOf(o)' = LockOf(o) /\ Offer(o)' = Offer(o)
        BY <2>1, Zenon DEF ListOf, LockOf, Offer
      <3>2. On(o)' = On(o)
        BY <2>1, <3>1, Zenon DEF On, In
      <3>3. Covered(o) /\ Placing(o)
        BY DEF WakeInv
      <3>4. QED
        BY <2>1, <3>1, <3>2, <3>3, Zenon DEF Covered, Placing, Enough
    <2>3. QED
      BY <1>1, <2>2 DEF WakeInv
  <1>3. CASE Next
    <2>1. CASE SendFromISR \/ ReceiveFromISR
      BY <1>1, <2>1, HandlerWake, Zenon DEF WakeInv
    <2>2. ASSUME NEW t \in Tasks, Call(t) \/ TaskStep(t) \/ Expire(t)
          PROVE  \A o \in Ops : Covered(o)' /\ Placing(o)'
      BY <1>1, <2>2, QuietWake, PassWake, UnlockWake, PlaceWake, ExpireWake, Zenon DEF TaskStep
    <2>3. QED
      BY <1>1, <1>3, <2>1, <2>2, Zenon DEF Next, NewCall, WakeInv
  <1>4. QED
    BY <1>2, <1>3

-----------------------------------------------------------------------------
(* The theorems                                                             *)

INSTANCE FiniteSetTheorems

\* The facts about sets that the lemmas assume.
LEMMA SetFactsHold == SetFacts
  <1>1. SizeFact
    BY FS_CardinalityType, Zenon DEF SizeFact
  <1>2. EmptyFact
    BY FS_EmptySet, Zenon DEF EmptyFact
  <1>3. PartFact
    BY FS_Subset, Zenon DEF PartFact
  <1>4. LessFact
    <2>1. ASSUME NEW S, NEW x, IsFiniteSet(S)
          PROVE  Cardinality(S \ {x}) = Cardinality(S) - (IF x \in S THEN 1 ELSE 0)
      <3>1. Cardinality(S) \in Nat /\ Cardinality(S \ {x}) = IF x \in S THEN Cardinality(S) - 1 ELSE Cardinality(S)
        BY <2>1, FS_CardinalityType, FS_RemoveElement, Zenon
      <3>2. QED
        BY <3>1
    <2>2. QED
      BY <2>1, Zenon DEF LessFact
  <1>5. UnionFact
    <2>1. ASSUME NEW S, NEW T, IsFiniteSet(S), IsFiniteSet(T), S \cap T = {}
          PROVE  IsFiniteSet(S \cup T) /\ Cardinality(S \cup T) = Cardinality(S) + Cardinality(T)
      <3>1. /\ IsFiniteSet(S \cup T)
            /\ Cardinality(S \cup T) = Cardinality(S) + Cardinality(T) - Cardinality(S \cap T)
        BY <2>1, FS_Union, Zenon
      <3>2. Cardinality(S) \in Nat /\ Cardinality(T) \in Nat /\ Cardinality(S \cap T) = 0
        BY <2>1, FS_CardinalityType, FS_EmptySet, Zenon
      <3>3. QED
        BY <3>1, <3>2
    <2>2. QED
      BY <2>1, Zenon DEF UnionFact
  <1>6. CountFact
    <2> SUFFICES ASSUME NEW f, NEW n \in Nat, \A i, j \in 1 .. n : f[i] = f[j] => i = j
                 PROVE  Cardinality({f[i] : i \in 1 .. n}) = n
      BY Zenon DEF CountFact
    <2> DEFINE g == [i \in 1 .. n |-> f[i]]
               R == {f[i] : i \in 1 .. n}
    <2>1. g \in Bijection(1 .. n, R)
      BY DEF Bijection, Injection, Surjection, IsInjective
    <2>2. ExistsBijection(1 .. n, R)
      BY <2>1 DEF ExistsBijection
    <2>3. QED
      BY <2>2, FS_CountingElements, Zenon
  <1>7. LeastFact
    <2>1. ASSUME NEW S \in SUBSET Nat, S # {} PROVE \E n \in S : \A m \in S : n <= m
      <3> DEFINE R == OpToRel(<, Nat)
      <3>1. IsWellFoundedOn(R, Nat)
        BY NatLessThanWellFounded, Zenon
      <3>2. ASSUME NEW x \in Nat, NEW y \in Nat PROVE << x, y >> \in R <=> x < y
        BY DEF OpToRel
      <3> HIDE DEF R
      <3>3. PICK n \in S : \A m \in S : ~ (<< m, n >> \in R)
        BY <2>1, <3>1, WFMin, Zenon
      <3>4. ASSUME NEW m \in S PROVE n <= m
        <4>1. n \in Nat /\ m \in Nat
          BY <2>1, <3>3
        <4>2. ~ (m < n)
          BY <3>2, <3>3, <4>1, Zenon
        <4>3. QED
          BY <4>1, <4>2
      <3>5. QED
        BY <3>4
    <2>2. QED
      BY <2>1, Zenon DEF LeastFact
  <1>8. QED
    BY <1>1, <1>2, <1>3, <1>4, <1>5, <1>6, <1>7, Zenon DEF SetFacts

\* Who is suspended, locked, listed, pending and where, in every state of the queue.
THEOREM QueueInvariance == Spec => []QueueInv
  <1>1. Init => QueueInv
    BY QueueInit, SetFactsHold, Zenon
  <1>2. QueueInv /\ [Next]_vars => QueueInv'
    BY QueueStep, SetFactsHold
  <1>3. QED
    BY <1>1, <1>2, PTL DEF Spec

\* While the scheduler runs, the blocked tasks are those on the two event lists, each on one of them
\* once, nobody is pending and the queue is unlocked.
THEOREM ListsDoAgree == Spec => []ListsAgree
  <1>1. QueueInv => ListsAgree
    <2> DEFINE ws == xTasksWaitingToSend
               wr == xTasksWaitingToReceive
    <2> SUFFICES ASSUME QueueInv, suspended = NoTask
                 PROVE  /\ blocked = Range(ws) \cup Range(wr)
                        /\ Cardinality(blocked) = Len(ws) + Len(wr)
                        /\ xPendingReadyList = {}
                        /\ cTxLock = queueUNLOCKED
                        /\ cRxLock = queueUNLOCKED
      BY Zenon DEF ListsAgree
    <2>1. /\ ws \in Seq(Tasks) /\ wr \in Seq(Tasks) /\ blocked \subseteq Tasks
          /\ ListsOK(ws, wr, blocked, xPendingReadyList) /\ xPendingReadyList = {}
      BY DEF QueueInv, QueueTypes, ListInv
    <2>2. /\ \A t : In(ws, t) <=> t \in Range(ws)
          /\ \A t : In(wr, t) <=> t \in Range(wr)
          /\ Range(ws) \subseteq Tasks /\ Range(wr) \subseteq Tasks
      BY <2>1, ListFacts
    <2>3. blocked = Range(ws) \cup Range(wr) /\ Range(ws) \cap Range(wr) = {}
      BY <2>1, <2>2, Zenon DEF ListsOK
    <2>4. /\ IsFiniteSet(Range(ws)) /\ Cardinality(Range(ws)) = Len(ws)
          /\ IsFiniteSet(Range(wr)) /\ Cardinality(Range(wr)) = Len(wr)
          /\ Len(ws) \in Nat /\ Len(wr) \in Nat
      BY <2>1, Counted, ListFacts, SetFactsHold, Zenon DEF ListsOK
    <2>5. Cardinality(blocked) = Len(ws) + Len(wr)
      <3>1. Cardinality(Range(ws) \cup Range(wr)) = Cardinality(Range(ws)) + Cardinality(Range(wr))
        BY <2>3, <2>4, SetFactsHold, Zenon DEF SetFacts, UnionFact
      <3>2. QED
        BY <2>3, <2>4, <3>1, Zenon
    <2>6. \A t \in Tasks : pc[t] \notin TxPlaces /\ pc[t] \notin RxPlaces
      BY Sizes, SetFactsHold, Zenon DEF QueueInv, LockInv, LockPlaces, RxPlaces
    <2>7. cTxLock = queueUNLOCKED /\ cRxLock = queueUNLOCKED
      BY <2>6, Sizes, SetFactsHold DEF QueueInv, LockInv, QueueTypes
    <2>8. QED
      BY <2>1, <2>3, <2>5, <2>7, Zenon
  <1>2. QED
    BY <1>1, QueueInvariance, PTL

\* While a task waits, what it waits for is promised to others on their way or counted in the lock,
\* in every state, whoever holds the queue locked.
THEOREM WakeInvariance == Spec => []WakeInv
  <1>1. Init => WakeInv
    BY WakeInit, SetFactsHold
  <1>2. WakeInv /\ [Next]_vars => WakeInv'
    BY WakeStep, SetFactsHold
  <1>3. QED
    BY <1>1, <1>2, PTL DEF Spec

\* No wake-up is lost, for any number of tasks and any length: while the scheduler runs, a task stays
\* on an event list only if every item, or free place, has a ready task on its way to it.
THEOREM NoWakeUpLost == Spec => []NoLostWakeUp
  <1>1. WakeInv => NoLostWakeUp
    <2> SUFFICES ASSUME WakeInv, suspended = NoTask
                 PROVE  \A o \in Ops : ListOf(o) # << >> => Offer(o) <= Cardinality(At(o))
      BY Zenon DEF NoLostWakeUp, ListOf, Offer, Ops
    <2> SUFFICES ASSUME NEW o \in Ops, ListOf(o) # << >>
                 PROVE  Offer(o) <= Cardinality(At(o))
      OBVIOUS
    <2>1. QueueInv /\ QueueTypes /\ LockInv /\ ListInv
      BY DEF WakeInv, QueueInv
    <2>2. \A u \in Tasks : pc[u] \notin LockPlaces
      BY <2>1, Sizes, SetFactsHold DEF LockInv
    <2>3. LockOf(o) < 0
      <3>1. ~ (cTxLock >= 0) /\ ~ (cRxLock >= 0)
        BY <2>1, <2>2, Zenon DEF LockInv, LockPlaces, RxPlaces
      <3>2. QED
        BY <2>1, <3>1, Sizes, SetFactsHold DEF LockOf, QueueTypes
    <2>4. On(o) = At(o)
      <3>1. \A u \in Tasks : pc[u] \in OnWay <=> pc[u] = "check"
        BY <2>2 DEF OnWay, LockPlaces, RxPlaces, TxPlaces
      <3>2. \A u \in Tasks : op[u] = o => (u \in blocked <=> In(ListOf(o), u))
        BY <2>1, Zenon DEF ListInv, ListsOK, ListOf, Ops
      <3>3. QED
        BY <3>1, <3>2, Zenon DEF On, At
    <2>5. Enough(Offer(o), Cardinality(On(o)), LockOf(o))
      BY DEF WakeInv, Covered
    <2>6. Cardinality(On(o)) \in Nat /\ LockOf(o) \in Int /\ Offer(o) \in Nat
      BY <2>1, OfferTypes, SetFactsHold DEF Counts
    <2> DEFINE n == Cardinality(On(o))
    <2>7. Offer(o) <= n
      <3>1. n \in Nat /\ Enough(Offer(o), n, LockOf(o))
        BY <2>5, <2>6, Zenon
      <3> HIDE DEF n
      <3>2. QED
        BY <2>3, <2>6, <3>1, Sizes, SetFactsHold DEF Enough
    <2>8. QED
      BY <2>4, <2>7, Zenon
  <1>2. QED
    BY <1>1, WakeInvariance, PTL
=============================================================================
