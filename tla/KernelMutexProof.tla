------------------------- MODULE KernelMutexProof --------------------------
(***************************************************************************)
(* Inherited priorities are given back, for any number of tasks and any    *)
(* priorities.                                                             *)
(***************************************************************************)
EXTENDS KernelMutex, TLAPS

\* What a task is about to give back it holds, and PriorityRestored.
PriorityInv ==
    /\ uxPriority = [t \in Tasks |-> uxPriority[t]]
    /\ xMutexHolder \in [Mutexes -> Tasks \cup {NoTask}]
    /\ mutex \in [Tasks -> Mutexes]
    /\ pc \in [Tasks -> Places]
    /\ \A t \in Tasks : pc[t] = "write" => xMutexHolder[Ring] = t
    /\ \A t \in Tasks : pc[t] = "logged" => xMutexHolder[Log] = t
    /\ PriorityRestored

\* A step that leaves holders and priorities alone and does not lead to a give.
LEMMA QuietStep ==
    ASSUME PriorityInv, UNCHANGED << uxPriority, xMutexHolder >>, mutex' \in [Tasks -> Mutexes],
           NEW t \in Tasks, NEW to \in Places \ {"write", "logged"}, pc' = [pc EXCEPT ![t] = to]
    PROVE  PriorityInv'
  BY DEF PriorityInv, PriorityRestored, Held

\* The three ways a task raises or lowers the priority of a holder, or goes on after a byte.
LEMMA HolderStep ==
    ASSUME PriorityInv, MutexAssumption, UNCHANGED << xMutexHolder, mutex >>,
           NEW t \in Tasks, NEW to \in Places, pc' = [pc EXCEPT ![t] = to],
           to # "write", to = "logged" => xMutexHolder[Log] = t,
           NEW m \in Mutexes, NEW p,
           \/ uxPriority' = uxPriority
           \/ xMutexHolder[m] # NoTask /\ uxPriority' = [uxPriority EXCEPT ![xMutexHolder[m]] = p]
    PROVE  PriorityInv'
  BY DEF PriorityInv, PriorityRestored, Held, MutexAssumption

\* Giving a mutex back: only the task that gives loses one, and it is lowered with the last.
LEMMA GiveStep ==
    ASSUME PriorityInv, MutexAssumption, NEW t \in Tasks, NEW m \in Mutexes,
           NEW from, NEW to \in Places, Give(t, m, from, to),
           xMutexHolder[m] = t, to # "write",
           to = "logged" => xMutexHolder[Log] = t /\ m # Log
    PROVE  PriorityInv'
<1>1. uxPriority' = [u \in Tasks |-> uxPriority'[u]]
  BY Zenon DEF Give, Disinherited, PriorityInv, MutexAssumption
<1>2. xMutexHolder' \in [Mutexes -> Tasks \cup {NoTask}] /\ mutex' \in [Tasks -> Mutexes]
  BY DEF Give, PriorityInv
<1>3. pc' \in [Tasks -> Places]
  BY DEF Give, PriorityInv, Places
<1>4. ASSUME NEW u \in Tasks
      PROVE  /\ pc'[u] = "write" => xMutexHolder'[Ring] = u
             /\ pc'[u] = "logged" => xMutexHolder'[Log] = u
  <2>1. u # t => pc'[u] \in {pc[u], "take"}
    BY DEF Give
  <2>2. pc'[t] = to
    BY DEF Give
  <2>3. Log # Ring
    BY DEF Log, Ring
  <2> QED
    BY <2>1, <2>2, <2>3 DEF Give, PriorityInv, Mutexes, MutexAssumption
<1>5. ASSUME NEW u \in Tasks, Held(u)' = {}
      PROVE  uxPriority'[u] = uxBasePriority[u]
  <2>1. CASE u = t
    <3>1. Held(t) = {m}
      BY <1>5, <2>1 DEF Held, Give, PriorityInv
    <3> QED
      BY <3>1, <2>1 DEF Give, Disinherited, PriorityInv
  <2>2. CASE u # t
    <3>1. Held(u) = {}
      BY <1>5, <2>2 DEF Held, Give, PriorityInv
    <3>2. uxPriority'[u] = uxPriority[u]
      BY <2>2 DEF Give, Disinherited, PriorityInv
    <3> QED
      BY <3>1, <3>2 DEF PriorityInv, PriorityRestored
  <2> QED
    BY <2>1, <2>2
<1> QED
  BY <1>1, <1>2, <1>3, <1>4, <1>5 DEF PriorityInv, PriorityRestored

LEMMA PriorityStep ==
    ASSUME PriorityInv, MutexAssumption, [Next]_vars
    PROVE  PriorityInv'
<1>1. CASE UNCHANGED vars
  BY <1>1 DEF vars, PriorityInv, PriorityRestored, Held
<1>2. ASSUME NEW t \in Tasks, Wake(t) \/ Sleep(t) \/ IsHeld(t) \/ Retry(t) \/ TimedOut(t)
      PROVE  PriorityInv'
  <2>1. PICK to \in Places \ {"write", "logged"} : pc' = [pc EXCEPT ![t] = to]
    BY <1>2 DEF Wake, Sleep, IsHeld, Retry, TimedOut, Goto, Places
  <2> QED
    BY <1>2, <2>1, QuietStep, Zenon DEF Wake, Sleep, IsHeld, Retry, TimedOut, PriorityInv
<1>3. ASSUME NEW t \in Tasks, NEW m \in Mutexes, Output(t, m)
      PROVE  PriorityInv'
  BY <1>3, QuietStep, Zenon DEF Output, Goto, PriorityInv, Places
<1>4. ASSUME NEW t \in Tasks, Take(t)
      PROVE  PriorityInv'
  BY <1>4 DEF Take, Goto, PriorityInv, PriorityRestored, Held, Mutexes, Log, Ring, Places, MutexAssumption
<1>5. ASSUME NEW t \in Tasks, Block(t)
      PROVE  PriorityInv'
  <2> USE <1>5
  <2>1. mutex[t] \in Mutexes
    BY DEF PriorityInv
  <2>2. \/ uxPriority' = uxPriority
        \/ uxPriority' = [uxPriority EXCEPT ![xMutexHolder[mutex[t]]] = uxPriority[t]]
    BY DEF Block, Raised
  <2>3. xMutexHolder[mutex[t]] # NoTask /\ UNCHANGED << xMutexHolder, mutex >>
    BY DEF Block
  <2>4. pc' = [pc EXCEPT ![t] = "blocked"]
    BY DEF Block, Goto
  <2> QED
    BY <2>1, <2>2, <2>3, <2>4, HolderStep, Zenon DEF Places
<1>6. ASSUME NEW t \in Tasks, LookAgain(t)
      PROVE  PriorityInv'
  <2>1. /\ AfterTimeout(t) \in Places
        /\ AfterTimeout(t) # "write"
        /\ AfterTimeout(t) = "logged" => xMutexHolder[Log] = t
    BY DEF AfterTimeout, AfterByte, Places
  <2> QED
    BY <1>6, <2>1, HolderStep, Zenon DEF LookAgain, Goto, Mutexes
<1>7. ASSUME NEW t \in Tasks, DisinheritAfterTimeout(t)
      PROVE  PriorityInv'
  <2> USE <1>7
  <2> DEFINE h == xMutexHolder[mutex[t]]
  <2>1. mutex[t] \in Mutexes
    BY DEF PriorityInv
  <2>2. AfterByte(t) \in Places /\ AfterByte(t) # "write" /\ (AfterByte(t) = "logged" => xMutexHolder[Log] = t)
    BY DEF AfterByte, Places
  <2>3. pc' = [pc EXCEPT ![t] = AfterByte(t)] /\ UNCHANGED << xMutexHolder, mutex >>
    BY DEF DisinheritAfterTimeout, Goto
  <2>4. CASE uxPriority' = uxPriority
    BY <2>1, <2>2, <2>3, <2>4, HolderStep, Zenon
  <2>5. CASE uxPriority' # uxPriority
    <3>1. h # NoTask
      BY <2>5 DEF DisinheritAfterTimeout
    <3>2. PICK p : uxPriority' = [uxPriority EXCEPT ![h] = p]
      BY <2>5, Zenon DEF DisinheritAfterTimeout
    <3> QED
      BY <2>1, <2>2, <2>3, <3>1, <3>2, HolderStep, Zenon
  <2> QED
    BY <2>4, <2>5
<1>8. ASSUME NEW t \in Tasks, ByteWritten(t)
      PROVE  PriorityInv'
  <2>1. AfterByte(t) \in Places /\ AfterByte(t) # "write" /\ (AfterByte(t) = "logged" => xMutexHolder[Log] = t)
    BY DEF AfterByte, Places
  <2>2. xMutexHolder[Ring] = t /\ Ring # Log /\ Ring \in Mutexes
    BY <1>8 DEF ByteWritten, Give, PriorityInv, Ring, Log, Mutexes
  <2> QED
    BY <1>8, <2>1, <2>2, GiveStep DEF ByteWritten
<1>9. ASSUME NEW t \in Tasks, Logged(t)
      PROVE  PriorityInv'
  <2>1. xMutexHolder[Log] = t /\ Log \in Mutexes
    BY <1>9 DEF Logged, Give, PriorityInv, Mutexes
  <2> QED
    BY <1>9, <2>1, GiveStep DEF Logged, Places
<1>10. ASSUME NEW t \in Tasks, Expire(t)
       PROVE  PriorityInv'
  <2>1. PICK to \in Places \ {"write", "logged"} : pc' = [pc EXCEPT ![t] = to]
    BY <1>10, Zenon DEF Expire, Places
  <2> QED
    BY <1>10, <2>1, QuietStep, Zenon DEF Expire, PriorityInv
<1> QED
  BY <1>1, <1>2, <1>3, <1>4, <1>5, <1>6, <1>7, <1>8, <1>9, <1>10 DEF Next, TaskStep

\* A task that holds no mutex has its own priority, in any mix of raises, gives and time-outs.
THEOREM PrioritiesRestored == Spec => []PriorityRestored
<1>1. Init => PriorityInv
  BY MutexAssumption DEF Init, PriorityInv, PriorityRestored, Held, Mutexes, Places, MutexAssumption
<1>2. PriorityInv /\ [Next]_vars => PriorityInv'
  BY PriorityStep, MutexAssumption
<1>3. PriorityInv => PriorityRestored
  BY DEF PriorityInv
<1> QED
  BY <1>1, <1>2, <1>3, PTL DEF Spec

-----------------------------------------------------------------------------
(* Facts about sets                                                         *)

\* What the proofs below use of sets, proved in the last section.
LeastFact == \A S \in SUBSET Nat : S # {} => \E n \in S : \A m \in S : n <= m
PairFact == \A x, y : x # y => Cardinality({x} \cup {y}) = 2

SetFacts == LeastFact /\ PairFact

-----------------------------------------------------------------------------
(* Lists of waiting tasks                                                   *)

In(list, t) == \E i \in 1 .. Len(list) : list[i] = t

\* Every task is in a list once, and nobody has a higher base priority than those before it have.
Ordered(list, priority) ==
    /\ \A i, j \in 1 .. Len(list) : list[i] = list[j] => i = j
    /\ \A i, j \in 1 .. Len(list) : i < j => priority[list[i]] >= uxBasePriority[list[j]]

\* The loop of vListInsert ends: there is a first task of a lower priority, or none.
LEMMA PlaceFound ==
  ASSUME SetFacts, NEW l \in Seq(Tasks), NEW t \in Tasks, NEW pr \in [Tasks -> Nat]
  PROVE  LET n == PlaceOf(l, t, pr)
         IN  /\ n \in 1 .. Len(l) + 1
             /\ \A i \in 1 .. n - 1 : pr[l[i]] >= pr[t]
             /\ n <= Len(l) => pr[l[n]] < pr[t]
  <1> DEFINE T == {i \in 1 .. Len(l) + 1 : i <= Len(l) => pr[l[i]] < pr[t]}
  <1>1. Len(l) \in Nat /\ \A i \in 1 .. Len(l) : l[i] \in Tasks
    OBVIOUS
  <1>2. T \in SUBSET Nat /\ T # {}
    <2>1. T \subseteq Nat /\ Len(l) + 1 \in T
      BY <1>1
    <2>2. QED
      BY <2>1
  <1>3. PICK n \in T : \A y \in T : n <= y
    BY <1>2, Zenon DEF SetFacts, LeastFact
  <1>4. n \in 1 .. Len(l) + 1 /\ (n <= Len(l) => pr[l[n]] < pr[t])
    BY <1>3
  <1>5. ASSUME NEW i \in 1 .. n - 1 PROVE pr[l[i]] >= pr[t]
    <2>1. i \in 1 .. Len(l) /\ i \in 1 .. Len(l) + 1 /\ i < n /\ ~(n <= i)
      BY <1>1, <1>4
    <2>2. i \notin T
      BY <1>3, <2>1
    <2>3. pr[l[i]] \in Nat /\ pr[t] \in Nat
      BY <1>1, <2>1
    <2>4. QED
      BY <2>1, <2>2, <2>3
  <1>6. \E m \in 1 .. Len(l) + 1 :
          (\A i \in 1 .. m - 1 : pr[l[i]] >= pr[t]) /\ (m <= Len(l) => pr[l[m]] < pr[t])
    BY <1>4, <1>5
  <1>7. QED
    BY <1>6, Zenon DEF PlaceOf

\* Where the items of a list are found when one is inserted at place n: those before it stay, the
\* others move up by one.
LEMMA ShiftedPlace ==
  ASSUME NEW len \in Nat, NEW n \in 1 .. len + 1, NEW i \in 1 .. len
  PROVE  /\ i < n \/ i >= n
         /\ i < n => i \in 1 .. len + 1 /\ i # n
         /\ i >= n => i + 1 \in 1 .. len + 1 /\ i + 1 # n /\ ~ (i + 1 < n) /\ i + 1 - 1 = i
  OBVIOUS

\* A task that begins to wait is put where it belongs.
LEMMA InsertOrdered ==
  ASSUME SetFacts, NEW l \in Seq(Tasks), NEW t \in Tasks, NEW pr \in [Tasks -> Nat],
         \A u \in Tasks : pr[u] >= uxBasePriority[u], Ordered(l, pr), ~ In(l, t)
  PROVE  LET s == vListInsert(l, t, pr)
         IN  s \in Seq(Tasks) /\ Ordered(s, pr) /\ \A u \in Tasks : In(s, u) <=> In(l, u) \/ u = t
  <1> DEFINE n == PlaceOf(l, t, pr)
             s == vListInsert(l, t, pr)
             At(i) == IF i < n THEN i ELSE i - 1
  <1>1. Len(l) \in Nat /\ \A i \in 1 .. Len(l) : l[i] \in Tasks
    OBVIOUS
  <1>2. /\ n \in 1 .. Len(l) + 1
        /\ \A i \in 1 .. n - 1 : pr[l[i]] >= pr[t]
        /\ n <= Len(l) => pr[l[n]] < pr[t]
    BY PlaceFound, Zenon
  <1>3. s = [i \in 1 .. Len(l) + 1 |-> IF i = n THEN t ELSE l[IF i < n THEN i ELSE i - 1]]
    BY DEF vListInsert
  <1> HIDE DEF n, s
  <1>4. ASSUME NEW i \in 1 .. Len(l) + 1, i # n
        PROVE  At(i) \in 1 .. Len(l) /\ s[i] = l[At(i)] /\ (i < n => At(i) = i) /\ (i > n => At(i) = i - 1)
    <2>1. At(i) \in 1 .. Len(l) /\ (i < n => At(i) = i) /\ (i > n => At(i) = i - 1)
      BY <1>1, <1>2, <1>4
    <2>2. s[i] = l[At(i)]
      BY <1>3, <1>4, Zenon
    <2>3. QED
      BY <2>1, <2>2, Zenon
  <1>5. s[n] = t /\ n \in 1 .. Len(l) + 1
    BY <1>2, <1>3
  <1>6. s \in Seq(Tasks) /\ Len(s) = Len(l) + 1
    <2>1. s \in [1 .. Len(l) + 1 -> Tasks]
      <3>1. ASSUME NEW i \in 1 .. Len(l) + 1 PROVE s[i] \in Tasks
        <4>1. CASE i = n
          BY <1>5, <4>1, Zenon
        <4>2. CASE i # n
          BY <1>1, <1>4, <4>2, Zenon
        <4>3. QED
          BY <4>1, <4>2, Zenon
      <3>2. QED
        BY <1>3, <3>1
    <2>2. QED
      BY <1>1, <2>1, SMTT(20)
  <1>7. ASSUME NEW u \in Tasks PROVE In(s, u) <=> In(l, u) \/ u = t
    <2>1. ASSUME In(s, u) PROVE In(l, u) \/ u = t
      BY <1>4, <1>5, <1>6, <2>1, Zenon DEF In
    <2>2. ASSUME NEW i \in 1 .. Len(l), l[i] = u PROVE In(s, u)
      <3>1. CASE i < n
        <4>1. i \in 1 .. Len(l) + 1 /\ i # n /\ At(i) = i
          BY <1>1, <1>2, <3>1, ShiftedPlace, Zenon
        <4>2. QED
          BY <1>4, <1>6, <2>2, <4>1, Zenon DEF In
      <3>2. CASE i >= n
        <4>0. i + 1 \in 1 .. Len(l) + 1 /\ i + 1 # n /\ ~ (i + 1 < n) /\ i + 1 - 1 = i
          BY <1>1, <1>2, <3>2, ShiftedPlace, Zenon
        <4>1. At(i + 1) = i
          BY <4>0
        <4>2. QED
          BY <1>4, <1>6, <2>2, <4>0, <4>1, Zenon DEF In
      <3>3. QED
        BY <1>1, <1>2, <3>1, <3>2, ShiftedPlace, Zenon
    <2>3. u = t => In(s, u)
      BY <1>5, <1>6 DEF In
    <2>4. QED
      BY <2>1, <2>2, <2>3 DEF In
  <1>8. ASSUME NEW i \in 1 .. Len(l) + 1, NEW j \in 1 .. Len(l) + 1, s[i] = s[j] PROVE i = j
    <2>0. \A k \in 1 .. Len(l) + 1 : k # n => s[k] # t
      BY <1>4, Zenon DEF In
    <2>1. CASE i = n \/ j = n
      BY <1>5, <1>8, <2>0, <2>1, Zenon
    <2>2. CASE i # n /\ j # n
      <3>1. At(i) \in 1 .. Len(l) /\ At(j) \in 1 .. Len(l) /\ l[At(i)] = l[At(j)]
        BY <1>4, <1>8, <2>2, Zenon
      <3>2. At(i) = At(j)
        BY <3>1, Zenon DEF Ordered
      <3>3. i \in Int /\ j \in Int /\ n \in Int
        BY <1>1, <1>2
      <3>4. CASE i < n
        BY <2>2, <3>2, <3>3, <3>4
      <3>5. CASE i > n
        BY <2>2, <3>2, <3>3, <3>5
      <3>6. QED
        BY <2>2, <3>3, <3>4, <3>5
    <2>3. QED
      BY <2>1, <2>2, Zenon
  <1>9. ASSUME NEW i \in 1 .. Len(l) + 1, NEW j \in 1 .. Len(l) + 1, i < j
        PROVE  pr[s[i]] >= uxBasePriority[s[j]]
    <2>0. pr[t] \in Nat /\ uxBasePriority \in [Tasks -> Nat]
      BY MutexAssumption
    <2>1. CASE j = n
      <3>1. i \in 1 .. n - 1 /\ s[i] = l[i] /\ l[i] \in Tasks
        <4>1. n \in 1 .. Len(l) + 1 /\ Len(l) \in Nat
          BY <1>1, <1>2, Zenon
        <4>2. i \in 1 .. n - 1 /\ i < n /\ i # n /\ i \in 1 .. Len(l)
          BY <1>9, <2>1, <4>1
        <4>3. QED
          BY <1>1, <1>4, <4>2, Zenon
      <3>2. pr[l[i]] >= pr[t] /\ pr[t] >= uxBasePriority[t] /\ pr[l[i]] \in Nat /\ uxBasePriority[t] \in Nat
        BY <1>2, <2>0, <3>1, Zenon
      <3>3. pr[l[i]] >= uxBasePriority[t]
        BY <2>0, <3>2
      <3>4. QED
        BY <1>5, <2>1, <3>1, <3>3, Zenon
    <2>2. CASE i = n
      <3>1. PICK k \in 1 .. Len(l) : s[j] = l[k] /\ n <= k
        <4>1. n \in 1 .. Len(l) + 1 /\ Len(l) \in Nat
          BY <1>1, <1>2, Zenon
        <4>2. j # n /\ j > n /\ n <= j - 1
          BY <1>9, <2>2, <4>1
        <4>3. At(j) \in 1 .. Len(l) /\ s[j] = l[At(j)] /\ At(j) = j - 1
          BY <1>4, <4>2, Zenon
        <4>4. QED
          BY <4>2, <4>3, Zenon
      <3>2. n \in 1 .. Len(l) /\ l[k] \in Tasks /\ l[n] \in Tasks
        <4>1. n \in 1 .. Len(l) + 1 /\ Len(l) \in Nat
          BY <1>1, <1>2, Zenon
        <4>2. n \in 1 .. Len(l)
          BY <3>1, <4>1
        <4>3. QED
          BY <1>1, <4>2, Zenon
      <3>3. pr[l[n]] < pr[t] /\ pr[l[n]] \in Nat /\ uxBasePriority[l[k]] \in Nat
        <4>1. n <= Len(l)
          BY <1>1, <3>2
        <4>2. QED
          BY <1>2, <2>0, <3>2, <4>1, Zenon
      <3>4. pr[l[n]] >= uxBasePriority[l[k]]
        <4>1. CASE n = k
          BY <3>2, <4>1, Zenon
        <4>2. CASE n < k
          BY <3>2, <4>2, Zenon DEF Ordered
        <4>3. QED
          BY <3>1, <3>2, <4>1, <4>2
      <3>5. pr[t] >= uxBasePriority[l[k]]
        <4>1. \A x, y, z \in Nat : x < y /\ x >= z => y >= z
          OBVIOUS
        <4>2. QED
          BY <2>0, <3>3, <3>4, <4>1, Zenon
      <3>6. QED
        BY <1>5, <2>2, <3>1, <3>5, Zenon
    <2>3. CASE i # n /\ j # n
      <3>1. At(i) \in 1 .. Len(l) /\ At(j) \in 1 .. Len(l) /\ At(i) < At(j)
        BY <1>1, <1>2, <1>4, <1>9, <2>3, SMTT(20)
      <3>2. pr[l[At(i)]] >= uxBasePriority[l[At(j)]]
        BY <3>1, Zenon DEF Ordered
      <3>3. QED
        BY <1>4, <2>3, <3>2, Zenon
    <2>4. QED
      BY <2>1, <2>2, <2>3
  <1>10. QED
    BY <1>6, <1>7, <1>8, <1>9 DEF Ordered, s

\* A task whose time is over is taken out of the list.
LEMMA RemoveOrdered ==
  ASSUME NEW l \in Seq(Tasks), NEW t \in Tasks, NEW pr, Ordered(l, pr)
  PROVE  LET s == listREMOVE_ITEM(l, t)
         IN  s \in Seq(Tasks) /\ Ordered(s, pr) /\ \A u \in Tasks : In(s, u) <=> In(l, u) /\ u # t
  <1> DEFINE s == listREMOVE_ITEM(l, t)
  <1>1. Len(l) \in Nat /\ \A i \in 1 .. Len(l) : l[i] \in Tasks
    OBVIOUS
  <1>2. CASE ~ In(l, t)
    <2>1. s = l
      BY <1>2 DEF listREMOVE_ITEM, In
    <2>2. QED
      BY <1>2, <2>1
  <1>3. CASE In(l, t)
    <2> DEFINE n == CHOOSE i \in 1 .. Len(l) : l[i] = t
               At(i) == IF i < n THEN i ELSE i + 1
    <2>1. n \in 1 .. Len(l) /\ l[n] = t
      BY <1>3, Zenon DEF In
    <2>2. s = [i \in 1 .. Len(l) - 1 |-> l[IF i < n THEN i ELSE i + 1]]
      BY <1>3 DEF listREMOVE_ITEM, In
    <2> HIDE DEF n, s
    <2>3. ASSUME NEW i \in 1 .. Len(l) - 1
          PROVE  At(i) \in 1 .. Len(l) /\ At(i) # n /\ s[i] = l[At(i)]
      BY <1>1, <2>1, <2>2
    <2>4. s \in Seq(Tasks) /\ Len(s) = Len(l) - 1
      <3>1. s \in [1 .. Len(l) - 1 -> Tasks]
        <4>1. ASSUME NEW i \in 1 .. Len(l) - 1 PROVE s[i] \in Tasks
          BY <1>1, <2>3
        <4>2. QED
          BY <2>2, <4>1
      <3>2. Len(l) - 1 \in Nat
        BY <1>1, <2>1
      <3>3. QED
        BY <3>1, <3>2
    <2>5. ASSUME NEW u \in Tasks PROVE In(s, u) <=> In(l, u) /\ u # t
      <3>1. ASSUME NEW i \in 1 .. Len(l) - 1, s[i] = u PROVE In(l, u) /\ u # t
        <4>1. At(i) \in 1 .. Len(l) /\ At(i) # n /\ u = l[At(i)]
          BY <2>3, <3>1
        <4>2. l[At(i)] # l[n]
          BY <2>1, <4>1 DEF Ordered
        <4>3. QED
          BY <2>1, <4>1, <4>2 DEF In
      <3>2. ASSUME NEW i \in 1 .. Len(l), l[i] = u, u # t PROVE In(s, u)
        <4>1. CASE i < n
          <5>1. i \in 1 .. Len(l) - 1 /\ At(i) = i
            BY <1>1, <2>1, <4>1
          <5>2. QED
            BY <2>3, <2>4, <3>2, <5>1, Zenon DEF In
        <4>2. CASE i > n
          <5>1. i - 1 \in 1 .. Len(l) - 1 /\ At(i - 1) = i
            BY <1>1, <2>1, <4>2
          <5>2. QED
            BY <2>3, <2>4, <3>2, <5>1, Zenon DEF In
        <4>3. QED
          BY <1>1, <2>1, <3>2, <4>1, <4>2
      <3>3. QED
        BY <2>4, <3>1, <3>2 DEF In
    <2>6. ASSUME NEW i \in 1 .. Len(l) - 1, NEW j \in 1 .. Len(l) - 1
          PROVE  /\ s[i] = s[j] => i = j
                 /\ i < j => pr[s[i]] >= uxBasePriority[s[j]]
      <3>1. /\ At(i) \in 1 .. Len(l) /\ s[i] = l[At(i)] /\ At(j) \in 1 .. Len(l) /\ s[j] = l[At(j)]
        BY <2>3, Zenon
      <3>2. (At(i) = At(j) => i = j) /\ (i < j => At(i) < At(j))
        BY <1>1, <2>1
      <3>3. /\ l[At(i)] = l[At(j)] => At(i) = At(j)
            /\ At(i) < At(j) => pr[l[At(i)]] >= uxBasePriority[l[At(j)]]
        BY <3>1, Zenon DEF Ordered
      <3>4. QED
        BY <3>1, <3>2, <3>3
    <2>7. QED
      BY <2>4, <2>5, <2>6, Zenon DEF Ordered, s
  <1>4. QED
    BY <1>2, <1>3

\* The first of the list is made ready.
LEMMA TailOrdered ==
  ASSUME NEW l \in Seq(Tasks), l # << >>, NEW pr, Ordered(l, pr)
  PROVE  /\ Tail(l) \in Seq(Tasks) /\ Ordered(Tail(l), pr) /\ Head(l) \in Tasks /\ In(l, Head(l))
         /\ \A u \in Tasks : In(Tail(l), u) <=> In(l, u) /\ u # Head(l)
         /\ \A u \in Tasks : In(Tail(l), u) => pr[Head(l)] >= uxBasePriority[u]
  <1> DEFINE s == Tail(l)
  <1>1. Len(l) \in Nat /\ Len(l) > 0 /\ Head(l) = l[1] /\ Head(l) \in Tasks
    OBVIOUS
  <1>2. s \in Seq(Tasks) /\ Len(s) = Len(l) - 1 /\ \A i \in 1 .. Len(l) - 1 : s[i] = l[i + 1]
    OBVIOUS
  <1> HIDE DEF s
  <1>3. In(l, Head(l))
    BY <1>1 DEF In
  <1>4. ASSUME NEW i \in 1 .. Len(l) - 1, NEW j \in 1 .. Len(l) - 1
        PROVE  /\ s[i] = s[j] => i = j
               /\ i < j => pr[s[i]] >= uxBasePriority[s[j]]
    <2>1. i + 1 \in 1 .. Len(l) /\ j + 1 \in 1 .. Len(l) /\ s[i] = l[i + 1] /\ s[j] = l[j + 1]
      BY <1>1, <1>2
    <2>2. /\ l[i + 1] = l[j + 1] => i + 1 = j + 1
          /\ i + 1 < j + 1 => pr[l[i + 1]] >= uxBasePriority[l[j + 1]]
      BY <2>1 DEF Ordered
    <2>3. QED
      BY <2>1, <2>2
  <1>5. ASSUME NEW u \in Tasks, NEW i \in 1 .. Len(l) - 1, s[i] = u
        PROVE  In(l, u) /\ u # Head(l) /\ pr[Head(l)] >= uxBasePriority[u]
    <2>1. i + 1 \in 1 .. Len(l) /\ 1 \in 1 .. Len(l) /\ 1 < i + 1 /\ u = l[i + 1]
      BY <1>1, <1>2, <1>5
    <2>2. l[i + 1] # l[1] /\ pr[l[1]] >= uxBasePriority[l[i + 1]]
      BY <2>1 DEF Ordered
    <2>3. QED
      BY <1>1, <2>1, <2>2 DEF In
  <1>6. ASSUME NEW u \in Tasks, NEW i \in 1 .. Len(l), l[i] = u, u # Head(l) PROVE In(s, u)
    <2>1. i - 1 \in 1 .. Len(l) - 1 /\ i - 1 + 1 = i
      BY <1>1, <1>6
    <2>2. s[i - 1] = u
      BY <1>2, <1>6, <2>1
    <2>3. QED
      BY <1>2, <2>1, <2>2 DEF In
  <1>7. QED
    BY <1>1, <1>2, <1>3, <1>4, <1>5, <1>6, Zenon DEF Ordered, In, s

-----------------------------------------------------------------------------
(* Waiting tasks raise the holder                                           *)

\* Where a task is when it holds a mutex; nobody is below its own priority.
HolderInv ==
    /\ \A t \in Tasks : pc[t] = "write" <=> xMutexHolder[Ring] = t
    /\ \A t \in Tasks : pc[t] = "logged" => xMutexHolder[Log] = t
    /\ \A t \in Tasks : xMutexHolder[Log] = t => mutex[t] = Ring /\ pc[t] \notin {"asleep", "own"}
    /\ \A t \in Tasks : pc[t] \in {"late", "disinherit"} => mutex[t] = Ring
    /\ \A t \in Tasks : uxPriority[t] >= uxBasePriority[t]

\* The blocked tasks are in the list of the mutex they wait for, in order.
ListInv ==
    \A m \in Mutexes :
        /\ Ordered(xTasksWaitingToReceive[m], uxPriority)
        /\ \A t \in Tasks : In(xTasksWaitingToReceive[m], t) <=> pc[t] = "blocked" /\ mutex[t] = m

\* somebody of priority b or more has mutex m, or is about to take it
Served(m, b) ==
    /\ xMutexHolder[m] # NoTask => uxPriority[xMutexHolder[m]] >= b
    /\ xMutexHolder[m] = NoTask => \E u \in Tasks : pc[u] = "take" /\ mutex[u] = m /\ uxPriority[u] >= b

RaiseInv == \A t \in Tasks : pc[t] = "blocked" => Served(mutex[t], uxBasePriority[t])

WaitInv == TypeOK /\ HolderInv /\ ListInv /\ RaiseInv

\* The names and the priorities that the constants give.
LEMMA Names ==
  /\ Log \in Mutexes /\ Ring \in Mutexes /\ Log # Ring /\ \A m \in Mutexes : m = Log \/ m = Ring
  /\ uxBasePriority \in [Tasks -> Nat] /\ NoTask \notin Tasks /\ Tcpip \in Tasks /\ Client \in Tasks
  BY MutexAssumption DEF Log, Ring, Mutexes

\* At the start nobody holds a mutex and nobody waits.
LEMMA WaitInit == Init => WaitInv
  <1> SUFFICES ASSUME Init PROVE WaitInv
    OBVIOUS
  <1>1. TypeOK
    BY Names DEF Init, TypeOK, Places
  <1>2. HolderInv
    BY Names DEF Init, HolderInv
  <1>3. ListInv
    <2>1. Len(<< >>) = 0 /\ \A m \in Mutexes : xTasksWaitingToReceive[m] = << >>
      BY DEF Init
    <2>2. Ordered(<< >>, uxPriority) /\ \A t : ~ In(<< >>, t)
      BY <2>1 DEF Ordered, In
    <2>3. QED
      BY <2>1, <2>2 DEF Init, ListInv
  <1>4. RaiseInv
    BY DEF Init, RaiseInv
  <1>5. QED
    BY <1>1, <1>2, <1>3, <1>4 DEF WaitInv

\* A task that goes from one place to another, neither of them waiting, changes nothing for those
\* that wait, unless it leaves a free mutex to others.
LEMMA MoveStep ==
  ASSUME WaitInv, NEW t \in Tasks, NEW to \in Places, pc' = [pc EXCEPT ![t] = to],
         pc[t] # "blocked", to # "blocked", pc[t] = "take" => xMutexHolder[mutex[t]] # NoTask,
         mutex' = mutex \/ (pc[t] = "own" /\ \E m \in Mutexes : mutex' = [mutex EXCEPT ![t] = m]),
         UNCHANGED << uxPriority, xMutexHolder, xTasksWaitingToReceive >>
  PROVE  ListInv' /\ RaiseInv'
  <1>1. /\ pc \in [Tasks -> Places] /\ mutex \in [Tasks -> Mutexes]
        /\ xMutexHolder \in [Mutexes -> Tasks \cup {NoTask}]
    BY DEF WaitInv, TypeOK
  <1>2. \A u \in Tasks : u # t => pc'[u] = pc[u] /\ mutex'[u] = mutex[u]
    BY <1>1
  <1>3. pc'[t] = to
    BY <1>1
  <1>4. ListInv'
    <2>1. \A u \in Tasks, m \in Mutexes :
            (pc'[u] = "blocked" /\ mutex'[u] = m) <=> (pc[u] = "blocked" /\ mutex[u] = m)
      BY <1>2, <1>3
    <2>2. QED
      BY <2>1 DEF WaitInv, ListInv
  <1>5. ASSUME NEW u \in Tasks, pc'[u] = "blocked" PROVE Served(mutex[u], uxBasePriority[u])'
    <2>1. u # t /\ pc[u] = "blocked" /\ mutex'[u] = mutex[u] /\ Served(mutex[u], uxBasePriority[u])
      BY <1>2, <1>3, <1>5 DEF WaitInv, RaiseInv
    <2>2. \A v \in Tasks : pc[v] = "take" /\ mutex[v] = mutex[u] /\ xMutexHolder[mutex[u]] = NoTask
            => pc'[v] = "take" /\ mutex'[v] = mutex[u]
      BY <1>2
    <2>3. QED
      BY <2>1, <2>2, Zenon DEF Served
  <1>6. QED
    BY <1>4, <1>5 DEF RaiseInv

\* Steps of a task in its own code, and those that only find something out.
LEMMA FindStep ==
  ASSUME WaitInv, NEW t \in Tasks,
         \/ Wake(t) \/ Sleep(t) \/ (\E m \in Mutexes : Output(t, m))
         \/ IsHeld(t) \/ Retry(t) \/ TimedOut(t) \/ LookAgain(t)
  PROVE  WaitInv'
  <1>1. TypeOK /\ HolderInv
    BY DEF WaitInv
  <1>2. UNCHANGED << uxPriority, xMutexHolder, xTasksWaitingToReceive, xInheritanceOccurred >>
    BY DEF Wake, Sleep, Output, IsHeld, Retry, TimedOut, LookAgain
  <1> DEFINE Goes(to) == pc' = [pc EXCEPT ![t] = to]
  <1>3. CASE Wake(t) \/ Sleep(t) \/ Retry(t) \/ IsHeld(t) \/ TimedOut(t)
    <2>1. UNCHANGED << mutex, expired >>
      BY <1>3, Zenon DEF Wake, Sleep, IsHeld, Retry, TimedOut
    <2>2. PICK to \in Places :
            /\ Goes(to) /\ pc[t] # "blocked" /\ to # "blocked"
            /\ pc[t] = "take" => xMutexHolder[mutex[t]] # NoTask
            /\ to \in {"own", "asleep", "take", "block", "late"}
            /\ to \in {"own", "asleep"} => pc[t] \in {"own", "asleep"}
            /\ to = "late" => t \in expired
            /\ to \in {"take", "block", "late"} => pc[t] \in {"take", "block"}
            /\ pc[t] \notin {"write", "logged"}
      BY <1>3, Zenon DEF Wake, Sleep, IsHeld, Retry, TimedOut, Goto, Places
    <2>3. TypeOK'
      BY <1>1, <1>2, <2>1, <2>2 DEF TypeOK
    <2>4. HolderInv'
      BY <1>1, <1>2, <2>1, <2>2 DEF TypeOK, HolderInv
    <2>5. ListInv' /\ RaiseInv'
      BY <1>2, <2>1, <2>2, MoveStep, Zenon
    <2>6. QED
      BY <2>3, <2>4, <2>5 DEF WaitInv
  <1>4. ASSUME NEW m \in Mutexes, Output(t, m) PROVE WaitInv'
    <2>1. /\ Goes("take") /\ pc[t] = "own" /\ mutex' = [mutex EXCEPT ![t] = m] /\ expired' = expired
      BY <1>4 DEF Output, Goto
    <2>2. TypeOK'
      BY <1>1, <1>2, <2>1 DEF TypeOK, Places
    <2>3. HolderInv'
      BY <1>1, <1>2, <2>1 DEF TypeOK, HolderInv
    <2>4. ListInv' /\ RaiseInv'
      BY <1>2, <2>1, MoveStep, Zenon DEF Places
    <2>5. QED
      BY <2>2, <2>3, <2>4 DEF WaitInv
  <1>5. CASE LookAgain(t)
    <2> DEFINE to == AfterTimeout(t)
    <2>1. /\ Goes(to) /\ pc[t] = "late" /\ mutex' = mutex
          /\ expired' = IF to \in {"own", "logged"} THEN expired \ {t} ELSE expired
      BY <1>5 DEF LookAgain, Goto, Renewed
    <2>2. /\ to \in {"take", "disinherit", "own", "logged"}
          /\ to = "own" => xMutexHolder[Log] # t
          /\ to = "logged" => xMutexHolder[Log] = t
      BY DEF AfterTimeout, AfterByte
    <2> HIDE DEF to
    <2>3. TypeOK'
      BY <1>1, <1>2, <2>1, <2>2 DEF TypeOK, Places
    <2>4. HolderInv'
      BY <1>1, <1>2, <2>1, <2>2 DEF TypeOK, HolderInv
    <2>5. ListInv' /\ RaiseInv'
      BY <1>2, <2>1, <2>2, MoveStep, Zenon DEF Places
    <2>6. QED
      BY <2>3, <2>4, <2>5 DEF WaitInv
  <1>6. QED
    BY <1>3, <1>4, <1>5

\* A task that gets a free mutex has at least the priority of all that are about to take it.
LEMMA TakeStep ==
  ASSUME WaitInv, NEW t \in Tasks, Take(t)
  PROVE  WaitInv'
  <1> DEFINE m == mutex[t]
             to == IF m = Log THEN "take" ELSE "write"
  <1>1. TypeOK /\ HolderInv /\ ListInv /\ RaiseInv
    BY DEF WaitInv
  <1>2. m \in Mutexes /\ to \in {"take", "write"} /\ (to = "take" <=> m = Log) /\ (m = Log \/ m = Ring) /\ Log # Ring
    BY <1>1, Names DEF TypeOK
  <1>3. /\ pc[t] = "take" /\ pc' = [pc EXCEPT ![t] = to] /\ Runs(t) /\ xMutexHolder[m] = NoTask
        /\ xMutexHolder' = [xMutexHolder EXCEPT ![m] = t] /\ mutex' = [mutex EXCEPT ![t] = Ring]
        /\ expired' = expired \ {t} /\ xInheritanceOccurred' = xInheritanceOccurred \ {t}
        /\ uxPriority' = uxPriority /\ xTasksWaitingToReceive' = xTasksWaitingToReceive
    BY DEF Take, Goto, Renewed
  <1> HIDE DEF m, to
  <1>4. TypeOK'
    BY <1>1, <1>2, <1>3, Names, Zenon DEF TypeOK, Places
  <1>5. HolderInv'
    <2>1. \A u \in Tasks : u # NoTask
      BY Names
    <2>2. \A u \in Tasks : u # t => pc'[u] = pc[u] /\ mutex'[u] = mutex[u]
      BY <1>1, <1>3 DEF TypeOK
    <2>3. pc'[t] = to /\ mutex'[t] = Ring
      BY <1>1, <1>3 DEF TypeOK
    <2>4. \A k \in Mutexes : xMutexHolder'[k] = IF k = m THEN t ELSE xMutexHolder[k]
      BY <1>1, <1>3 DEF TypeOK
    <2>5. Ring \in Mutexes /\ Log \in Mutexes
      BY Names
    <2>6. QED
      BY <1>1, <1>2, <1>3, <2>1, <2>2, <2>3, <2>4, <2>5 DEF HolderInv
  <1>6. ListInv'
    <2>1. \A u \in Tasks, k \in Mutexes :
            (pc'[u] = "blocked" /\ mutex'[u] = k) <=> (pc[u] = "blocked" /\ mutex[u] = k)
      BY <1>1, <1>2, <1>3 DEF TypeOK
    <2>2. QED
      BY <1>1, <1>3, <2>1 DEF ListInv
  <1>7. ASSUME NEW u \in Tasks, pc'[u] = "blocked" PROVE Served(mutex[u], uxBasePriority[u])'
    <2>1. /\ u # t /\ pc[u] = "blocked" /\ mutex'[u] = mutex[u] /\ mutex[u] \in Mutexes
          /\ Served(mutex[u], uxBasePriority[u])
      BY <1>1, <1>2, <1>3, <1>7 DEF TypeOK, RaiseInv
    <2>2. CASE mutex[u] = m
      <3>1. PICK v \in Tasks : pc[v] = "take" /\ mutex[v] = m /\ uxPriority[v] >= uxBasePriority[u]
        BY <1>3, <2>1, <2>2, Zenon DEF Served
      <3>2. uxPriority[v] <= uxPriority[t]
        BY <1>3, <3>1, Zenon DEF Runs, Ready
      <3>3. uxPriority[v] \in Nat /\ uxPriority[t] \in Nat /\ uxBasePriority[u] \in Nat
        BY <1>1, Names DEF TypeOK
      <3>4. uxPriority[t] >= uxBasePriority[u]
        BY <3>1, <3>2, <3>3
      <3>5. xMutexHolder'[m] = t /\ t # NoTask
        BY <1>1, <1>2, <1>3, Names DEF TypeOK
      <3>6. QED
        BY <1>3, <2>1, <2>2, <3>4, <3>5, Zenon DEF Served
    <2>3. CASE mutex[u] # m
      <3>1. xMutexHolder'[mutex[u]] = xMutexHolder[mutex[u]]
        BY <1>1, <1>3, <2>1, <2>3, Zenon DEF TypeOK
      <3>2. \A v \in Tasks : mutex[v] = mutex[u] => v # t
        BY <2>3 DEF m
      <3>3. \A v \in Tasks : v # t => pc'[v] = pc[v] /\ mutex'[v] = mutex[v]
        BY <1>1, <1>3 DEF TypeOK
      <3>4. QED
        BY <1>3, <2>1, <3>1, <3>2, <3>3, Zenon DEF Served
    <2>4. QED
      BY <2>2, <2>3
  <1>8. QED
    BY <1>4, <1>5, <1>6, <1>7, Zenon DEF WaitInv, RaiseInv

\* A list stays in order when priorities rise, and when those that change are not in it.
LEMMA OrderKept ==
  ASSUME NEW l \in Seq(Tasks), NEW pr \in [Tasks -> Nat], NEW qr \in [Tasks -> Nat], Ordered(l, pr),
         \A u \in Tasks : In(l, u) => qr[u] >= pr[u]
  PROVE  Ordered(l, qr)
  <1>1. Len(l) \in Nat /\ \A i \in 1 .. Len(l) : l[i] \in Tasks
    OBVIOUS
  <1>2. ASSUME NEW i \in 1 .. Len(l), NEW j \in 1 .. Len(l), i < j PROVE qr[l[i]] >= uxBasePriority[l[j]]
    <2>1. l[i] \in Tasks /\ l[j] \in Tasks /\ In(l, l[i])
      BY <1>1 DEF In
    <2>2. qr[l[i]] >= pr[l[i]] /\ pr[l[i]] >= uxBasePriority[l[j]]
      BY <1>2, <2>1, Zenon DEF Ordered
    <2>3. qr[l[i]] \in Nat /\ pr[l[i]] \in Nat /\ uxBasePriority[l[j]] \in Nat
      BY <2>1, Names, Zenon
    <2>4. \A x, y, z \in Nat : x >= y /\ y >= z => x >= z
      OBVIOUS
    <2>5. QED
      BY <2>2, <2>3, <2>4, Zenon
  <1>3. QED
    BY <1>2 DEF Ordered

\* A task that begins to wait is in nobody's way, and the holder gets its priority.
LEMMA BlockStep ==
  ASSUME SetFacts, WaitInv, NEW t \in Tasks, Block(t)
  PROVE  WaitInv'
  <1> DEFINE m == mutex[t]
             h == xMutexHolder[m]
             l == xTasksWaitingToReceive[m]
             s == vListInsert(l, t, uxPriority)
  <1>1. TypeOK /\ HolderInv /\ ListInv /\ RaiseInv
    BY DEF WaitInv
  <1>2. m \in Mutexes /\ l \in Seq(Tasks) /\ uxPriority \in [Tasks -> Nat] /\ h \in Tasks /\ uxPriority[t] \in Nat
    BY <1>1 DEF TypeOK, Block
  <1>3. /\ pc[t] = "block" /\ pc' = [pc EXCEPT ![t] = "blocked"] /\ t \notin expired
        /\ uxPriority' = Raised(h, uxPriority[t])
        /\ xTasksWaitingToReceive' = [xTasksWaitingToReceive EXCEPT ![m] = s]
        /\ UNCHANGED << xMutexHolder, mutex, expired >>
        /\ xInheritanceOccurred' \in {xInheritanceOccurred \cup {t}, xInheritanceOccurred \ {t}}
    BY DEF Block, Goto, Insert
  <1>4. s \in Seq(Tasks) /\ Ordered(s, uxPriority) /\ \A u \in Tasks : In(s, u) <=> In(l, u) \/ u = t
    BY <1>1, <1>2, <1>3, InsertOrdered, Zenon DEF HolderInv, ListInv
  <1>5. uxPriority' \in [Tasks -> Nat] /\ (\A u \in Tasks : uxPriority'[u] >= uxPriority[u])
        /\ uxPriority'[h] >= uxPriority[t]
    BY <1>2, <1>3 DEF Raised
  <1>0. h # NoTask
    BY <1>2, Names
  <1> HIDE DEF m, h, l, s
  <1>6. TypeOK'
    BY <1>1, <1>2, <1>3, <1>4, <1>5 DEF TypeOK, Places
  <1>7. \A u \in Tasks : uxPriority'[u] >= uxBasePriority[u]
    <2>1. ASSUME NEW u \in Tasks PROVE uxPriority'[u] >= uxBasePriority[u]
      <3>1. uxPriority'[u] \in Nat /\ uxPriority[u] \in Nat /\ uxBasePriority[u] \in Nat
        BY <1>2, <1>5, Names
      <3>2. QED
        BY <1>1, <1>5, <3>1 DEF HolderInv
    <2>2. QED
      BY <2>1
  <1>8. HolderInv'
    BY <1>1, <1>3, <1>7 DEF TypeOK, HolderInv
  <1>9. ListInv'
    <2>1. ASSUME NEW k \in Mutexes
          PROVE  /\ Ordered(xTasksWaitingToReceive[k], uxPriority)'
                 /\ \A u \in Tasks : In(xTasksWaitingToReceive[k], u)' <=> pc'[u] = "blocked" /\ mutex'[u] = k
      <3>1. /\ xTasksWaitingToReceive[k] \in Seq(Tasks) /\ Ordered(xTasksWaitingToReceive[k], uxPriority)
            /\ \A u \in Tasks : In(xTasksWaitingToReceive[k], u) <=> pc[u] = "blocked" /\ mutex[u] = k
        BY <1>1 DEF TypeOK, ListInv
      <3>2. xTasksWaitingToReceive'[k] = IF k = m THEN s ELSE xTasksWaitingToReceive[k]
        BY <1>1, <1>3 DEF TypeOK
      <3>3. \A u \in Tasks : pc'[u] = IF u = t THEN "blocked" ELSE pc[u]
        BY <1>1, <1>3 DEF TypeOK
      <3>4. Ordered(xTasksWaitingToReceive'[k], uxPriority')
        BY <1>2, <1>4, <1>5, <3>1, <3>2, OrderKept, Zenon
      <3>5. \A u \in Tasks : In(xTasksWaitingToReceive'[k], u) <=> pc'[u] = "blocked" /\ mutex'[u] = k
        <4>1. CASE k = m
          BY <1>3, <1>4, <3>1, <3>2, <3>3, <4>1, Zenon DEF l, m
        <4>2. CASE k # m
          BY <1>3, <3>1, <3>2, <3>3, <4>2, Zenon DEF m
        <4>3. QED
          BY <4>1, <4>2
      <3>6. QED
        BY <3>4, <3>5 DEF Ordered, In
    <2>2. QED
      BY <2>1, Zenon DEF ListInv
  <1>10. ASSUME NEW u \in Tasks, pc'[u] = "blocked" PROVE Served(mutex[u], uxBasePriority[u])'
    <2>0. \A x, y, z \in Nat : x >= y /\ y >= z => x >= z
      OBVIOUS
    <2>1. mutex'[u] = mutex[u] /\ mutex[u] \in Mutexes /\ uxBasePriority[u] \in Nat
      BY <1>1, <1>3, Names, Zenon DEF TypeOK
    <2>2. CASE u = t
      <3>1. uxPriority'[h] >= uxBasePriority[t]
        <4>1. uxPriority'[h] \in Nat /\ uxPriority[t] >= uxBasePriority[t] /\ uxBasePriority[t] \in Nat
          BY <1>1, <1>2, <1>5, Names DEF HolderInv
        <4>2. QED
          BY <1>2, <1>5, <2>0, <4>1, Zenon
      <3>2. QED
        BY <1>0, <1>3, <2>1, <2>2, <3>1, Zenon DEF Served, h, m
    <2>3. CASE u # t
      <3>1. pc[u] = "blocked" /\ Served(mutex[u], uxBasePriority[u])
        BY <1>1, <1>3, <1>10, <2>3, Zenon DEF TypeOK, RaiseInv
      <3>2. \A v \in Tasks : pc[v] = "take" => pc'[v] = "take"
        BY <1>1, <1>3 DEF TypeOK
      <3>3. \A v \in Tasks : uxPriority[v] >= uxBasePriority[u] => uxPriority'[v] >= uxBasePriority[u]
        <4>1. ASSUME NEW v \in Tasks, uxPriority[v] >= uxBasePriority[u] PROVE uxPriority'[v] >= uxBasePriority[u]
          <5>1. uxPriority'[v] \in Nat /\ uxPriority[v] \in Nat /\ uxPriority'[v] >= uxPriority[v]
            BY <1>2, <1>5
          <5>2. QED
            BY <2>0, <2>1, <4>1, <5>1, Zenon
        <4>2. QED
          BY <4>1
      <3>4. xMutexHolder[mutex[u]] # NoTask => xMutexHolder[mutex[u]] \in Tasks
        BY <1>1, <2>1 DEF TypeOK
      <3>5. QED
        BY <1>3, <2>1, <3>1, <3>2, <3>3, <3>4, Zenon DEF Served
    <2>4. QED
      BY <2>2, <2>3
  <1>11. QED
    BY <1>6, <1>8, <1>9, <1>10, Zenon DEF WaitInv, RaiseInv

\* A holder is lowered to what those that still wait need.
LEMMA DisinheritStep ==
  ASSUME SetFacts, WaitInv, NEW t \in Tasks, DisinheritAfterTimeout(t)
  PROVE  WaitInv'
  <1> DEFINE h == xMutexHolder[Ring]
             l == xTasksWaitingToReceive[Ring]
             w == HighestWaiting(Ring)
             low == IF uxBasePriority[h] < w THEN w ELSE uxBasePriority[h]
  <1>0. \A x, y, z \in Nat : x >= y /\ y >= z => x >= z
    OBVIOUS
  <1>1. TypeOK /\ HolderInv /\ ListInv /\ RaiseInv
    BY DEF WaitInv
  <1>2. pc[t] = "disinherit" /\ mutex[t] = Ring
    BY <1>1, Zenon DEF HolderInv, DisinheritAfterTimeout, Goto
  <1>3. /\ pc' = [pc EXCEPT ![t] = AfterByte(t)]
        /\ uxPriority' = IF h # NoTask /\ Cardinality(Held(h)) = 1
                           THEN [uxPriority EXCEPT ![h] = low] ELSE uxPriority
        /\ xInheritanceOccurred' = xInheritanceOccurred \ {t} /\ expired' = expired \ {t}
        /\ UNCHANGED << xMutexHolder, xTasksWaitingToReceive, mutex >>
    BY <1>2, Zenon DEF DisinheritAfterTimeout, Goto, Renewed
  <1>4. /\ AfterByte(t) \in {"logged", "own"}
        /\ AfterByte(t) = "own" => xMutexHolder[Log] # t
        /\ AfterByte(t) = "logged" => xMutexHolder[Log] = t
    BY DEF AfterByte
  <1>5. l \in Seq(Tasks) /\ h \in Tasks \cup {NoTask} /\ uxPriority \in [Tasks -> Nat]
    BY <1>1, Names, Zenon DEF TypeOK
  <1>6. /\ w \in Nat
        /\ \A u \in Tasks : In(l, u) => w >= uxBasePriority[u]
    <2>1. CASE l = << >>
      <3>1. Len(l) = 0
        BY <2>1
      <3>2. QED
        BY <2>1, <3>1 DEF HighestWaiting, In
    <2>2. CASE l # << >>
      <3>1. Ordered(l, uxPriority)
        BY <1>1, Names DEF ListInv
      <3>2. /\ Head(l) \in Tasks
            /\ \A u \in Tasks : In(Tail(l), u) <=> In(l, u) /\ u # Head(l)
            /\ \A u \in Tasks : In(Tail(l), u) => uxPriority[Head(l)] >= uxBasePriority[u]
        BY <1>5, <2>2, <3>1, TailOrdered
      <3>3. uxPriority[Head(l)] >= uxBasePriority[Head(l)] /\ uxPriority[Head(l)] \in Nat
        BY <1>1, <1>5, <3>2 DEF HolderInv
      <3>4. w = uxPriority[Head(l)]
        BY <2>2 DEF HighestWaiting
      <3>5. QED
        BY <3>2, <3>3, <3>4
    <2>3. QED
      BY <2>1, <2>2
  <1> HIDE DEF l, w
  <1>7. ASSUME h # NoTask PROVE low \in Nat /\ low >= w /\ low >= uxBasePriority[h]
    <2>1. uxBasePriority[h] \in Nat /\ w \in Nat
      BY <1>5, <1>6, <1>7, Names, Zenon
    <2>2. QED
      BY <2>1
  <1> HIDE DEF low
  <1>8. h # NoTask => h \in Tasks /\ pc[h] = "write" /\ pc'[h] = "write"
    BY <1>1, <1>2, <1>3, <1>5, Zenon DEF HolderInv, TypeOK
  <1>9. uxPriority' \in [Tasks -> Nat] /\ \A u \in Tasks : u # h => uxPriority'[u] = uxPriority[u]
    BY <1>3, <1>5, <1>7, Zenon
  <1>10. TypeOK'
    BY <1>1, <1>3, <1>4, <1>9 DEF TypeOK, Places
  <1>11. HolderInv'
    <2>1. \A u \in Tasks : uxPriority'[u] >= uxBasePriority[u]
      BY <1>1, <1>3, <1>5, <1>7, Zenon DEF HolderInv
    <2>2. \A u \in Tasks : u # t => pc'[u] = pc[u]
      BY <1>1, <1>3 DEF TypeOK
    <2>3. pc'[t] = AfterByte(t)
      BY <1>1, <1>3 DEF TypeOK
    <2>4. ASSUME NEW u \in Tasks
          PROVE  /\ pc'[u] = "write" <=> xMutexHolder[Ring] = u
                 /\ pc'[u] = "logged" => xMutexHolder[Log] = u
                 /\ xMutexHolder[Log] = u => mutex[u] = Ring /\ pc'[u] \notin {"asleep", "own"}
                 /\ pc'[u] \in {"late", "disinherit"} => mutex[u] = Ring
      <3>1. /\ pc[u] = "write" <=> xMutexHolder[Ring] = u
            /\ pc[u] = "logged" => xMutexHolder[Log] = u
            /\ xMutexHolder[Log] = u => mutex[u] = Ring /\ pc[u] \notin {"asleep", "own"}
            /\ pc[u] \in {"late", "disinherit"} => mutex[u] = Ring
        BY <1>1, Zenon DEF HolderInv
      <3>2. CASE u = t
        <4>1. pc'[u] \notin {"write", "late", "disinherit", "asleep"} /\ xMutexHolder[Ring] # u
          BY <1>2, <1>4, <2>3, <3>1, <3>2
        <4>2. QED
          BY <1>2, <1>4, <2>3, <3>2, <4>1, Zenon
      <3>3. CASE u # t
        BY <2>2, <3>1, <3>3, Zenon
      <3>4. QED
        BY <3>2, <3>3, Zenon
    <2>5. QED
      BY <1>3, <2>1, <2>4, Zenon DEF HolderInv
  <1>12. \A u \in Tasks : (pc'[u] = "blocked" <=> pc[u] = "blocked") /\ (pc[u] = "take" => pc'[u] = "take")
    BY <1>1, <1>2, <1>3, <1>4 DEF TypeOK
  <1>13. ListInv'
    <2>1. ASSUME NEW k \in Mutexes PROVE Ordered(xTasksWaitingToReceive[k], uxPriority')
      <3>1. xTasksWaitingToReceive[k] \in Seq(Tasks) /\ Ordered(xTasksWaitingToReceive[k], uxPriority)
        BY <1>1, Zenon DEF TypeOK, ListInv
      <3>2. ASSUME NEW u \in Tasks, In(xTasksWaitingToReceive[k], u) PROVE uxPriority'[u] >= uxPriority[u]
        <4>1. pc[u] = "blocked" /\ u # h
          BY <1>1, <1>8, <3>2, Names, Zenon DEF ListInv
        <4>2. uxPriority'[u] = uxPriority[u] /\ uxPriority[u] \in Nat
          BY <1>5, <1>9, <4>1
        <4>3. QED
          BY <4>2
      <3>3. QED
        BY <1>5, <1>9, <3>1, <3>2, OrderKept, Zenon
    <2>2. QED
      BY <1>1, <1>3, <1>12, <2>1, Zenon DEF ListInv
  <1>14. ASSUME NEW u \in Tasks, pc'[u] = "blocked" PROVE Served(mutex[u], uxBasePriority[u])'
    <2>1. /\ pc[u] = "blocked" /\ Served(mutex[u], uxBasePriority[u]) /\ mutex'[u] = mutex[u]
          /\ mutex[u] \in Mutexes /\ uxBasePriority[u] \in Nat
      BY <1>1, <1>3, <1>12, <1>14, Names, Zenon DEF TypeOK, RaiseInv
    <2>2. ASSUME uxPriority' # uxPriority, xMutexHolder[mutex[u]] # NoTask
          PROVE  uxPriority'[xMutexHolder[mutex[u]]] >= uxBasePriority[u]
      <3>1. h # NoTask /\ Cardinality(Held(h)) = 1 /\ uxPriority' = [uxPriority EXCEPT ![h] = low]
        BY <1>3, <2>2, Zenon
      <3>2. CASE mutex[u] = Ring
        <4>1. In(l, u)
          BY <1>1, <2>1, <3>2, Names, Zenon DEF ListInv, l
        <4>2. w >= uxBasePriority[u] /\ low >= w /\ low \in Nat
          BY <1>6, <1>7, <3>1, <4>1, Zenon
        <4>3. low >= uxBasePriority[u]
          BY <1>0, <1>6, <2>1, <4>2, Zenon
        <4>4. uxPriority'[h] = low
          BY <1>5, <1>8, <3>1
        <4>5. QED
          BY <3>2, <4>3, <4>4, Zenon
      <3>3. CASE mutex[u] # Ring
        <4>1. mutex[u] = Log /\ xMutexHolder[Log] \in Tasks
          BY <1>1, <2>1, <2>2, <3>3, Names DEF TypeOK
        <4>2. ASSUME xMutexHolder[Log] = h PROVE FALSE
          <5>1. Held(h) = {Ring} \cup {Log}
            BY <4>2, Names DEF Held
          <5>2. Ring # Log
            BY Names
          <5>3. Cardinality({Ring} \cup {Log}) = 2
            BY <5>2, Zenon DEF SetFacts, PairFact
          <5>4. QED
            BY <3>1, <5>1, <5>3
        <4>3. uxPriority'[xMutexHolder[Log]] = uxPriority[xMutexHolder[Log]]
          BY <1>9, <4>1, <4>2
        <4>4. QED
          BY <2>1, <2>2, <4>1, <4>3, Zenon DEF Served
      <3>4. QED
        BY <3>2, <3>3, Zenon
    <2>3. \A v \in Tasks : pc[v] = "take" => pc'[v] = "take" /\ uxPriority'[v] = uxPriority[v]
      <3>1. ASSUME NEW v \in Tasks, pc[v] = "take" PROVE v # h
        BY <1>8, <3>1, Names
      <3>2. QED
        BY <1>9, <1>12, <3>1
    <2>4. QED
      BY <1>3, <2>1, <2>2, <2>3, Zenon DEF Served
  <1>15. QED
    BY <1>10, <1>11, <1>13, <1>14 DEF WaitInv, RaiseInv

\* Only a task that waits or is about to wait runs out of time; nobody depends on it.
LEMMA ExpireStep ==
  ASSUME WaitInv, NEW t \in Tasks, Expire(t)
  PROVE  WaitInv'
  <1> DEFINE l == xTasksWaitingToReceive[Ring]
             s == listREMOVE_ITEM(l, t)
             to == IF pc[t] = "blocked" THEN "take" ELSE pc[t]
  <1>1. TypeOK /\ HolderInv /\ ListInv /\ RaiseInv
    BY DEF WaitInv
  <1>2. l \in Seq(Tasks) /\ Ordered(l, uxPriority)
    BY <1>1, Names DEF TypeOK, ListInv
  <1>3. /\ mutex[t] = Ring /\ pc[t] \in {"block", "blocked"} /\ expired' = expired \cup {t}
        /\ xTasksWaitingToReceive' = [xTasksWaitingToReceive EXCEPT ![Ring] = s]
        /\ pc' = [pc EXCEPT ![t] = to]
        /\ UNCHANGED << uxPriority, xMutexHolder, mutex, xInheritanceOccurred >>
    BY <1>1 DEF Expire, TypeOK
  <1>4. s \in Seq(Tasks) /\ Ordered(s, uxPriority) /\ \A u \in Tasks : In(s, u) <=> In(l, u) /\ u # t
    BY <1>2, RemoveOrdered
  <1>5. to \in {"take", "block"}
    BY <1>3
  <1> HIDE DEF l, s, to
  <1>6. \A u \in Tasks : pc'[u] = IF u = t THEN to ELSE pc[u]
    BY <1>1, <1>3 DEF TypeOK
  <1>7. TypeOK'
    BY <1>1, <1>3, <1>4, <1>5, <1>6, Zenon DEF TypeOK, Places
  <1>8. HolderInv'
    BY <1>1, <1>3, <1>5, <1>6 DEF HolderInv
  <1>9. ListInv'
    <2>1. ASSUME NEW k \in Mutexes
          PROVE  /\ Ordered(xTasksWaitingToReceive[k], uxPriority)'
                 /\ \A u \in Tasks : In(xTasksWaitingToReceive[k], u)' <=> pc'[u] = "blocked" /\ mutex'[u] = k
      <3>1. /\ Ordered(xTasksWaitingToReceive[k], uxPriority)
            /\ \A u \in Tasks : In(xTasksWaitingToReceive[k], u) <=> pc[u] = "blocked" /\ mutex[u] = k
        BY <1>1 DEF ListInv
      <3>2. xTasksWaitingToReceive'[k] = IF k = Ring THEN s ELSE xTasksWaitingToReceive[k]
        BY <1>1, <1>3 DEF TypeOK
      <3>3. Ordered(xTasksWaitingToReceive'[k], uxPriority')
        BY <1>3, <1>4, <3>1, <3>2
      <3>4. \A u \in Tasks : In(xTasksWaitingToReceive'[k], u) <=> pc'[u] = "blocked" /\ mutex'[u] = k
        <4>1. CASE k = Ring
          BY <1>3, <1>4, <1>5, <1>6, <3>1, <3>2, <4>1 DEF l
        <4>2. CASE k # Ring
          BY <1>3, <1>5, <1>6, <3>1, <3>2, <4>2, Zenon
        <4>3. QED
          BY <4>1, <4>2, Zenon
      <3>5. QED
        BY <3>3, <3>4, Zenon DEF Ordered, In
    <2>2. QED
      BY <2>1 DEF ListInv
  <1>10. RaiseInv'
    BY <1>1, <1>3, <1>5, <1>6 DEF RaiseInv, Served
  <1>11. QED
    BY <1>7, <1>8, <1>9, <1>10 DEF WaitInv

\* The task that gives a mutex back leaves it to the first that waits, which has at least the
\* priority that the others need.
LEMMA GivenOn ==
  ASSUME WaitInv, NEW t \in Tasks, NEW m \in Mutexes, NEW from \in {"write", "logged"},
         NEW to \in {"own", "logged"}, xMutexHolder[m] = t, Give(t, m, from, to)
  PROVE  /\ TypeOK' /\ ListInv' /\ RaiseInv'
         /\ \A u \in Tasks : uxPriority'[u] >= uxBasePriority[u]
         /\ pc'[t] = to
         /\ \A u \in Tasks : u # t => pc'[u] = pc[u] \/ (pc[u] = "blocked" /\ pc'[u] = "take")
  <1> DEFINE l == xTasksWaitingToReceive[m]
             s == IF l = << >> THEN l ELSE Tail(l)
             W == Woken(m)
  <1>1. TypeOK /\ HolderInv /\ ListInv /\ RaiseInv
    BY DEF WaitInv
  <1>2. /\ pc[t] = from /\ xMutexHolder' = [xMutexHolder EXCEPT ![m] = NoTask]
        /\ uxPriority' = Disinherited(t, m)
        /\ xTasksWaitingToReceive' = [xTasksWaitingToReceive EXCEPT ![m] = s]
        /\ pc' = [u \in Tasks |-> IF u = t THEN to ELSE IF u \in W THEN "take" ELSE pc[u]]
        /\ UNCHANGED << mutex, expired, xInheritanceOccurred >>
    BY DEF Give
  <1>3. l \in Seq(Tasks) /\ Ordered(l, uxPriority) /\ uxPriority \in [Tasks -> Nat]
        /\ \A u \in Tasks : In(l, u) <=> pc[u] = "blocked" /\ mutex[u] = m
    BY <1>1 DEF TypeOK, ListInv
  <1>4. /\ s \in Seq(Tasks) /\ Ordered(s, uxPriority)
        /\ W \subseteq {u \in Tasks : In(l, u)}
        /\ \A u \in Tasks : In(s, u) <=> In(l, u) /\ u \notin W
        /\ \A u \in Tasks : In(s, u) => \E v \in W : uxPriority[v] >= uxBasePriority[u]
    <2>1. CASE l = << >>
      <3>1. s = l /\ W = {} /\ Len(l) = 0
        BY <2>1, Zenon DEF Woken
      <3>2. 1 .. Len(l) = {}
        BY <3>1
      <3> HIDE DEF l, s, W
      <3>3. \A u \in Tasks : ~ In(l, u)
        BY <3>2, Zenon DEF In
      <3>4. QED
        BY <1>3, <3>1, <3>3, Zenon
    <2>2. CASE l # << >>
      <3>1. s = Tail(l) /\ W = {Head(l)}
        BY <2>2, Zenon DEF Woken
      <3> HIDE DEF l, s, W
      <3>2. /\ Tail(l) \in Seq(Tasks) /\ Ordered(Tail(l), uxPriority) /\ Head(l) \in Tasks /\ In(l, Head(l))
            /\ \A u \in Tasks : In(Tail(l), u) <=> In(l, u) /\ u # Head(l)
            /\ \A u \in Tasks : In(Tail(l), u) => uxPriority[Head(l)] >= uxBasePriority[u]
        BY <1>3, <2>2, TailOrdered, Zenon
      <3>3. QED
        BY <3>1, <3>2, Zenon
    <2>3. QED
      BY <2>1, <2>2, Zenon
  <1>5. uxPriority' \in [Tasks -> Nat] /\ \A u \in Tasks : u # t => uxPriority'[u] = uxPriority[u]
    BY <1>2, <1>3, Names, Zenon DEF Disinherited
  <1>6. ASSUME NEW u \in Tasks PROVE uxPriority'[u] >= uxBasePriority[u]
    <2>1. uxPriority[u] >= uxBasePriority[u] /\ uxBasePriority[u] \in Nat
      BY <1>1, MutexAssumption, Zenon DEF HolderInv
    <2>2. uxPriority'[u] = uxPriority[u] \/ uxPriority'[u] = uxBasePriority[u]
      BY <1>2, <1>3, Names, Zenon DEF Disinherited
    <2>3. QED
      BY <2>1, <2>2
  <1> HIDE DEF l, s, W
  <1>7. pc'[t] = to /\ \A u \in Tasks : u # t => pc'[u] = IF u \in W THEN "take" ELSE pc[u]
    BY <1>2
  <1>8. \A u \in Tasks : u \in W => pc[u] = "blocked" /\ mutex[u] = m /\ u # t
    BY <1>2, <1>3, <1>4, Zenon
  <1>9. TypeOK'
    <2>1. pc' \in [Tasks -> Places]
      BY <1>1, <1>2, Zenon DEF TypeOK, Places
    <2>2. ASSUME NEW u \in expired
          PROVE  u \in Tasks /\ mutex[u] = Ring /\ pc'[u] \in {"take", "block", "late", "disinherit"}
      <3>1. u \in Tasks /\ mutex[u] = Ring /\ pc[u] \in {"take", "block", "late", "disinherit"}
        BY <1>1 DEF TypeOK
      <3>2. u # t
        BY <1>2, <3>1, Zenon
      <3>3. QED
        BY <1>7, <3>1, <3>2, Zenon
    <2>3. QED
      BY <1>1, <1>2, <1>4, <1>5, <2>1, <2>2, Zenon DEF TypeOK
  <1>10. ListInv'
    <2>1. ASSUME NEW k \in Mutexes
          PROVE  /\ Ordered(xTasksWaitingToReceive[k], uxPriority)'
                 /\ \A u \in Tasks : In(xTasksWaitingToReceive[k], u)' <=> pc'[u] = "blocked" /\ mutex'[u] = k
      <3>1. /\ xTasksWaitingToReceive[k] \in Seq(Tasks) /\ Ordered(xTasksWaitingToReceive[k], uxPriority)
            /\ \A u \in Tasks : In(xTasksWaitingToReceive[k], u) <=> pc[u] = "blocked" /\ mutex[u] = k
        BY <1>1 DEF TypeOK, ListInv
      <3>2. xTasksWaitingToReceive'[k] = IF k = m THEN s ELSE xTasksWaitingToReceive[k]
        BY <1>1, <1>2 DEF TypeOK
      <3>3. \A u \in Tasks : In(xTasksWaitingToReceive'[k], u) <=> pc'[u] = "blocked" /\ mutex'[u] = k
        <4>1. pc'[t] # "blocked" /\ pc[t] # "blocked" /\ ~ In(l, t)
          BY <1>2, <1>3, <1>7, Zenon
        <4>2. CASE k = m
          BY <1>2, <1>3, <1>4, <1>7, <1>8, <3>2, <4>1, <4>2
        <4>3. CASE k # m
          BY <1>2, <1>7, <1>8, <3>1, <3>2, <4>1, <4>3, Zenon
        <4>4. QED
          BY <4>2, <4>3, Zenon
      <3>4. Ordered(xTasksWaitingToReceive'[k], uxPriority')
        <4>1. xTasksWaitingToReceive'[k] \in Seq(Tasks) /\ Ordered(xTasksWaitingToReceive'[k], uxPriority)
          BY <1>4, <3>1, <3>2, Zenon
        <4>2. ASSUME NEW u \in Tasks, In(xTasksWaitingToReceive'[k], u) PROVE uxPriority'[u] >= uxPriority[u]
          <5>1. u # t
            BY <1>7, <3>3, <4>2, Zenon
          <5>2. uxPriority'[u] = uxPriority[u] /\ uxPriority[u] \in Nat
            BY <1>3, <1>5, <5>1, Zenon
          <5>3. QED
            BY <5>2
        <4>3. QED
          BY <1>3, <1>5, <4>1, <4>2, OrderKept, Zenon
      <3>5. QED
        BY <3>3, <3>4, Zenon DEF Ordered, In
    <2>2. QED
      BY <2>1, Zenon DEF ListInv
  <1>11. ASSUME NEW u \in Tasks, pc'[u] = "blocked" PROVE Served(mutex[u], uxBasePriority[u])'
    <2>1. u # t /\ u \notin W /\ pc[u] = "blocked" /\ mutex[u] \in Mutexes /\ mutex'[u] = mutex[u]
          /\ Served(mutex[u], uxBasePriority[u])
      BY <1>1, <1>2, <1>7, <1>11, Zenon DEF TypeOK, RaiseInv
    <2>2. CASE mutex[u] = m
      <3>1. xMutexHolder'[m] = NoTask
        BY <1>1, <1>2, Zenon DEF TypeOK
      <3>2. In(s, u)
        BY <1>3, <1>4, <2>1, <2>2, Zenon
      <3>3. PICK v \in W : uxPriority[v] >= uxBasePriority[u]
        BY <1>4, <3>2, Zenon
      <3>4. v \in Tasks /\ v # t /\ mutex'[v] = m
        BY <1>2, <1>4, <1>8, Zenon
      <3>5. pc'[v] = "take" /\ uxPriority'[v] = uxPriority[v]
        BY <1>5, <1>7, <3>4, Zenon
      <3>6. QED
        BY <2>1, <2>2, <3>1, <3>3, <3>4, <3>5, Zenon DEF Served
    <2>3. CASE mutex[u] # m
      <3>1. xMutexHolder'[mutex[u]] = xMutexHolder[mutex[u]]
        BY <1>1, <1>2, <2>1, <2>3, Zenon DEF TypeOK
      <3>2. \A v \in Tasks : pc[v] = "take" => pc'[v] = "take" /\ uxPriority'[v] = uxPriority[v]
        BY <1>2, <1>5, <1>7, Zenon
      <3>3. xMutexHolder[mutex[u]] \in Tasks => uxPriority'[xMutexHolder[mutex[u]]] = uxPriority[xMutexHolder[mutex[u]]]
        <4>1. CASE xMutexHolder[mutex[u]] = t
          <5>1. Held(t) # {m}
            BY <2>1, <2>3, <4>1, Zenon DEF Held
          <5>2. QED
            BY <1>2, <5>1, Zenon DEF Disinherited
        <4>2. CASE xMutexHolder[mutex[u]] # t
          BY <1>5, <4>2, Zenon
        <4>3. QED
          BY <4>1, <4>2, Zenon
      <3>4. xMutexHolder[mutex[u]] \in Tasks \cup {NoTask}
        BY <1>1, <2>1, Zenon DEF TypeOK
      <3>5. mutex' = mutex
        BY <1>2, Zenon
      <3>6. CASE xMutexHolder[mutex[u]] = NoTask
        <4>1. PICK v \in Tasks : pc[v] = "take" /\ mutex[v] = mutex[u] /\ uxPriority[v] >= uxBasePriority[u]
          BY <2>1, <3>6, Zenon DEF Served
        <4>2. pc'[v] = "take" /\ mutex'[v] = mutex[u] /\ uxPriority'[v] >= uxBasePriority[u]
          BY <3>2, <3>5, <4>1, Zenon
        <4>3. QED
          BY <3>1, <3>5, <3>6, <4>2, Zenon DEF Served
      <3>7. CASE xMutexHolder[mutex[u]] # NoTask
        <4>1. xMutexHolder[mutex[u]] \in Tasks /\ uxPriority[xMutexHolder[mutex[u]]] >= uxBasePriority[u]
          BY <2>1, <3>4, <3>7, Zenon DEF Served
        <4>2. QED
          BY <3>1, <3>3, <3>5, <3>7, <4>1, Zenon DEF Served
      <3>8. QED
        BY <3>6, <3>7, Zenon
    <2>4. QED
      BY <2>2, <2>3
  <1>12. \A u \in Tasks : u # t => pc'[u] = pc[u] \/ (pc[u] = "blocked" /\ pc'[u] = "take")
    BY <1>7, <1>8, Zenon
  <1>13. QED
    BY <1>6, <1>7, <1>9, <1>10, <1>11, <1>12, Zenon DEF RaiseInv

\* A byte is in the ring, and the ring is given back.
LEMMA ByteStep ==
  ASSUME WaitInv, NEW t \in Tasks, ByteWritten(t)
  PROVE  WaitInv'
  <1>1. TypeOK /\ HolderInv
    BY DEF WaitInv
  <1>2. Give(t, Ring, "write", AfterByte(t)) /\ pc[t] = "write" /\ xMutexHolder[Ring] = t
    BY <1>1, Zenon DEF ByteWritten, Give, HolderInv
  <1>3. /\ AfterByte(t) \in {"own", "logged"}
        /\ AfterByte(t) = "own" <=> xMutexHolder[Log] # t
    BY DEF AfterByte
  <1>4. /\ TypeOK' /\ ListInv' /\ RaiseInv'
        /\ \A u \in Tasks : uxPriority'[u] >= uxBasePriority[u]
        /\ pc'[t] = AfterByte(t)
        /\ \A u \in Tasks : u # t => pc'[u] = pc[u] \/ (pc[u] = "blocked" /\ pc'[u] = "take")
    BY <1>2, <1>3, GivenOn, Names
  <1>5. mutex' = mutex /\ xMutexHolder' = [xMutexHolder EXCEPT ![Ring] = NoTask]
    BY <1>2 DEF Give
  <1>6. xMutexHolder'[Ring] = NoTask /\ xMutexHolder'[Log] = xMutexHolder[Log] /\ \A u \in Tasks : u # NoTask
    BY <1>1, <1>5, Names DEF TypeOK
  <1>7. HolderInv'
    <2>1. ASSUME NEW u \in Tasks
          PROVE  /\ pc'[u] = "write" <=> xMutexHolder'[Ring] = u
                 /\ pc'[u] = "logged" => xMutexHolder'[Log] = u
                 /\ xMutexHolder'[Log] = u => mutex'[u] = Ring /\ pc'[u] \notin {"asleep", "own"}
                 /\ pc'[u] \in {"late", "disinherit"} => mutex'[u] = Ring
      <3>1. /\ pc[u] = "write" <=> xMutexHolder[Ring] = u
            /\ pc[u] = "logged" => xMutexHolder[Log] = u
            /\ xMutexHolder[Log] = u => mutex[u] = Ring /\ pc[u] \notin {"asleep", "own"}
            /\ pc[u] \in {"late", "disinherit"} => mutex[u] = Ring
        BY <1>1, Zenon DEF HolderInv
      <3>2. CASE u = t
        <4>1. pc'[u] \in {"own", "logged"} /\ (pc'[u] = "own" <=> xMutexHolder[Log] # u)
          BY <1>3, <1>4, <3>2, Zenon
        <4>2. pc'[u] \notin {"write", "late", "disinherit", "asleep"} /\ (xMutexHolder[Log] = u <=> pc'[u] = "logged")
          BY <4>1
        <4>3. QED
          BY <1>5, <1>6, <3>1, <4>1, <4>2, Zenon
      <3>3. CASE u # t
        <4>1. pc[u] # "write" /\ (pc'[u] = pc[u] \/ (pc[u] = "blocked" /\ pc'[u] = "take"))
          BY <1>2, <1>4, <3>1, <3>3, Zenon
        <4>2. QED
          BY <1>5, <1>6, <3>1, <4>1, Zenon
      <3>4. QED
        BY <3>2, <3>3, Zenon
    <2>2. QED
      BY <1>4, <2>1, Zenon DEF HolderInv
  <1>8. QED
    BY <1>4, <1>7 DEF WaitInv

\* A message is out, and g_log_mutex is given back.
LEMMA LoggedStep ==
  ASSUME WaitInv, NEW t \in Tasks, Logged(t)
  PROVE  WaitInv'
  <1>1. TypeOK /\ HolderInv
    BY DEF WaitInv
  <1>2. Give(t, Log, "logged", "own") /\ pc[t] = "logged" /\ xMutexHolder[Log] = t
    BY <1>1, Zenon DEF Logged, Give, HolderInv
  <1>3. /\ TypeOK' /\ ListInv' /\ RaiseInv'
        /\ \A u \in Tasks : uxPriority'[u] >= uxBasePriority[u]
        /\ pc'[t] = "own"
        /\ \A u \in Tasks : u # t => pc'[u] = pc[u] \/ (pc[u] = "blocked" /\ pc'[u] = "take")
    BY <1>2, GivenOn, Names, Zenon
  <1>4. mutex' = mutex /\ xMutexHolder' = [xMutexHolder EXCEPT ![Log] = NoTask]
    BY <1>2, Zenon DEF Give
  <1>5. xMutexHolder'[Log] = NoTask /\ xMutexHolder'[Ring] = xMutexHolder[Ring] /\ \A u \in Tasks : u # NoTask
    BY <1>1, <1>4, Names, Zenon DEF TypeOK
  <1>6. HolderInv'
    <2>1. ASSUME NEW u \in Tasks
          PROVE  /\ pc'[u] = "write" <=> xMutexHolder'[Ring] = u
                 /\ pc'[u] = "logged" => xMutexHolder'[Log] = u
      <3>0. (pc[u] = "write" <=> xMutexHolder[Ring] = u) /\ (pc[u] = "logged" => xMutexHolder[Log] = u)
        BY <1>1, Zenon DEF HolderInv
      <3>1. CASE u = t
        BY <1>2, <1>3, <1>5, <3>0, <3>1, Zenon
      <3>2. CASE u # t
        <4>1. pc[u] # "logged" /\ (pc'[u] = pc[u] \/ (pc[u] = "blocked" /\ pc'[u] = "take"))
          BY <1>2, <1>3, <3>0, <3>2, Zenon
        <4>2. QED
          BY <1>5, <3>0, <4>1, Zenon
      <3>3. QED
        BY <3>1, <3>2, Zenon
    <2>2. ASSUME NEW u \in Tasks
          PROVE  /\ xMutexHolder'[Log] = u => mutex'[u] = Ring /\ pc'[u] \notin {"asleep", "own"}
                 /\ pc'[u] \in {"late", "disinherit"} => mutex'[u] = Ring
      <3>1. xMutexHolder'[Log] # u
        BY <1>5, Zenon
      <3>2. pc'[u] \in {"late", "disinherit"} => mutex'[u] = Ring
        BY <1>1, <1>3, <1>4, Zenon DEF HolderInv
      <3>3. QED
        BY <3>1, <3>2, Zenon
    <2>3. QED
      BY <1>3, <2>1, <2>2, Zenon DEF HolderInv
  <1>7. QED
    BY <1>3, <1>6, Zenon DEF WaitInv

LEMMA WaitStep ==
  ASSUME SetFacts, WaitInv, [Next]_vars
  PROVE  WaitInv'
  <1>1. CASE UNCHANGED vars
    <2>0. UNCHANGED << uxPriority, xMutexHolder, xTasksWaitingToReceive, pc, mutex, expired, xInheritanceOccurred >>
      BY <1>1, Zenon DEF vars
    <2>1. TypeOK' /\ HolderInv'
      BY <2>0, Zenon DEF WaitInv, TypeOK, HolderInv
    <2>2. ListInv'
      BY <2>0, Zenon DEF WaitInv, ListInv
    <2>3. RaiseInv'
      BY <2>0, Zenon DEF WaitInv, RaiseInv, Served
    <2>4. QED
      BY <2>1, <2>2, <2>3, Zenon DEF WaitInv
  <1>2. ASSUME NEW t \in Tasks, Wake(t) \/ TaskStep(t) \/ Expire(t) PROVE WaitInv'
    BY <1>2, FindStep, TakeStep, BlockStep, DisinheritStep, ByteStep, LoggedStep, ExpireStep, Zenon DEF TaskStep
  <1>3. QED
    BY <1>1, <1>2 DEF Next

\* While a callback prints or waits to print, the client task does not get the processor.
LEMMA ClientHeldOff ==
  ASSUME WaitInv, PriorityRestored, ClientLowest, pc[Tcpip] # "asleep", pc[Client] = "own"
  PROVE  ~ Runs(Client)
  <1> DEFINE p == uxBasePriority[Client]
             m == mutex[Tcpip]
             h == xMutexHolder[m]
             base == uxBasePriority
  <1>1. TypeOK /\ HolderInv /\ RaiseInv
    BY DEF WaitInv
  <1>2. /\ Client \in Tasks /\ Tcpip \in Tasks /\ p \in Nat /\ base[Tcpip] \in Nat /\ p < base[Tcpip]
        /\ base \in [Tasks -> Nat] /\ uxPriority \in [Tasks -> Nat]
    BY <1>1, Names, Zenon DEF ClientLowest, TypeOK
  <1>3. uxPriority[Client] = p
    <2>1. xMutexHolder[Log] # Client /\ xMutexHolder[Ring] # Client
      BY <1>1, <1>2, Zenon DEF HolderInv
    <2>2. Held(Client) = {}
      BY <2>1, Names, Zenon DEF Held
    <2>3. QED
      BY <1>2, <2>2 DEF PriorityRestored
  <1>4. SUFFICES ASSUME Runs(Client) PROVE FALSE
    OBVIOUS
  <1>5. ASSUME NEW u \in Tasks, Ready(u)
        PROVE  uxPriority[u] <= p /\ base[u] = p
    <2>1. uxPriority[u] <= p
      BY <1>3, <1>4, <1>5, Zenon DEF Runs
    <2>2. base[u] >= p /\ uxPriority[u] >= base[u] /\ base[u] \in Nat /\ uxPriority[u] \in Nat
      BY <1>1, <1>2, Zenon DEF HolderInv, ClientLowest
    <2>3. QED
      BY <1>2, <2>1, <2>2
  <1>6. pc[Tcpip] = "blocked"
    <2>1. base[Tcpip] # p
      BY <1>2
    <2>2. QED
      BY <1>2, <1>5, <2>1 DEF Ready
  <1>7. Served(m, base[Tcpip]) /\ m \in Mutexes
    BY <1>1, <1>2, <1>6, Zenon DEF RaiseInv, TypeOK
  <1>8. ASSUME NEW u \in Tasks, uxPriority[u] >= base[Tcpip] PROVE ~ Ready(u)
    <2>1. uxPriority[u] \in Nat
      BY <1>2
    <2>2. ~ (uxPriority[u] <= p)
      BY <1>2, <1>8, <2>1
    <2>3. QED
      BY <1>5, <2>2
  <1>9. h # NoTask /\ h \in Tasks /\ ~ Ready(h)
    <2>1. h # NoTask
      <3>1. ASSUME h = NoTask PROVE FALSE
        <4>1. PICK u \in Tasks : pc[u] = "take" /\ uxPriority[u] >= base[Tcpip]
          BY <1>7, <3>1 DEF Served
        <4>2. Ready(u)
          BY <4>1 DEF Ready
        <4>3. QED
          BY <1>8, <4>1, <4>2
      <3>2. QED
        BY <3>1
    <2>2. h \in Tasks
      BY <1>1, <1>7, <2>1 DEF TypeOK
    <2>3. QED
      BY <1>7, <1>8, <2>1, <2>2, Zenon DEF Served
  <1>10. m = Log
    <2>1. ASSUME m = Ring PROVE FALSE
      <3>1. pc[h] = "write"
        BY <1>1, <1>9, <2>1, Zenon DEF HolderInv
      <3>2. QED
        BY <1>9, <3>1 DEF Ready
    <2>2. QED
      BY <1>7, <2>1, Names, Zenon
  <1>11. mutex[h] = Ring /\ pc[h] = "blocked"
    BY <1>1, <1>9, <1>10, Zenon DEF HolderInv, Ready
  <1>12. Served(Ring, base[h])
    BY <1>1, <1>9, <1>11, Zenon DEF RaiseInv
  <1>13. PICK k \in Tasks : Ready(k) /\ uxPriority[k] >= base[h] /\ k # Client
    <2>1. CASE xMutexHolder[Ring] = NoTask
      <3>1. PICK u \in Tasks : pc[u] = "take" /\ uxPriority[u] >= base[h]
        BY <1>12, <2>1 DEF Served
      <3>2. QED
        BY <3>1, Zenon DEF Ready
    <2>2. CASE xMutexHolder[Ring] # NoTask
      <3>1. xMutexHolder[Ring] \in Tasks
        BY <1>1, <2>2, Names DEF TypeOK
      <3>2. pc[xMutexHolder[Ring]] = "write"
        BY <1>1, <3>1 DEF HolderInv
      <3>3. QED
        BY <1>12, <2>2, <3>1, <3>2, Zenon DEF Served, Ready
    <2>3. QED
      BY <2>1, <2>2, Zenon
  <1>14. uxPriority[k] <= p /\ base[k] = p /\ uxPriority[k] \in Nat /\ base[h] \in Nat /\ base[h] >= p
    BY <1>2, <1>5, <1>9, <1>13, Zenon DEF ClientLowest
  <1>15. base[h] = p
    BY <1>2, <1>13, <1>14
  <1>16. h # Client /\ h # k
    BY <1>9, <1>11, <1>13, Zenon
  <1>17. QED
    BY <1>9, <1>13, <1>14, <1>15, <1>16, Zenon DEF ClientLowest

\* Only its own steps, which need the processor, take tcp_client_task out of its own code.
LEMMA ClientStays ==
  ASSUME WaitInv, PriorityRestored, ClientLowest, Next, pc[Tcpip] # "asleep", pc[Client] = "own"
  PROVE  pc'[Client] = "own"
  <1>1. TypeOK /\ HolderInv /\ ListInv
    BY DEF WaitInv
  <1>2. ~ Runs(Client) /\ Client \in Tasks
    BY ClientHeldOff, Names
  <1>3. PICK t \in Tasks : Wake(t) \/ TaskStep(t) \/ Expire(t)
    BY DEF Next
  <1>4. t # Client
    BY <1>2, <1>3, Zenon DEF Wake, TaskStep, Expire, Sleep, Output, Take, IsHeld, Block, Retry, TimedOut, LookAgain,
                      DisinheritAfterTimeout, ByteWritten, Logged, Give, Goto
  <1>5. CASE ByteWritten(t) \/ Logged(t)
    <2>1. PICK m \in Mutexes, from \in {"write", "logged"}, to \in {"own", "logged"} :
            xMutexHolder[m] = t /\ Give(t, m, from, to)
      <3>1. Ring \in Mutexes /\ Log \in Mutexes /\ AfterByte(t) \in {"own", "logged"}
        BY Names DEF AfterByte
      <3>2. CASE ByteWritten(t)
        <4>1. xMutexHolder[Ring] = t /\ Give(t, Ring, "write", AfterByte(t))
          BY <1>1, <3>1, <3>2, Zenon DEF ByteWritten, Give, Goto, HolderInv
        <4>2. QED
          BY <3>1, <4>1, Zenon
      <3>3. CASE Logged(t)
        <4>1. xMutexHolder[Log] = t /\ Give(t, Log, "logged", "own")
          BY <1>1, <3>1, <3>3, Zenon DEF Logged, Give, Goto, HolderInv
        <4>2. QED
          BY <3>1, <4>1, Zenon
      <3>4. QED
        BY <1>5, <3>2, <3>3, Zenon
    <2>2. pc'[Client] = pc[Client] \/ pc[Client] = "blocked"
      BY <1>2, <1>4, <2>1, GivenOn, Zenon
    <2>3. QED
      BY <2>2, Zenon
  <1>6. CASE ~ (ByteWritten(t) \/ Logged(t))
    <2>1. \E to : pc' = [pc EXCEPT ![t] = to]
      BY <1>3, <1>6, Zenon DEF Wake, TaskStep, Expire, Sleep, Output, Take, IsHeld, Block, Retry, TimedOut, LookAgain,
                        DisinheritAfterTimeout, Goto
    <2>2. QED
      BY <1>1, <1>2, <1>4, <2>1 DEF TypeOK
  <1>7. QED
    BY <1>5, <1>6

-----------------------------------------------------------------------------
(* The theorems                                                             *)

INSTANCE FiniteSetTheorems

\* The facts about sets that the lemmas assume.
LEMMA SetFactsHold == SetFacts
  <1>1. LeastFact
    <2>1. ASSUME NEW S \in SUBSET Nat, S # {} PROVE \E n \in S : \A m \in S : n <= m
      <3> DEFINE R == OpToRel(<, Nat)
      <3>1. IsWellFoundedOn(R, Nat)
        BY NatLessThanWellFounded, Zenon
      <3>2. ASSUME NEW x \in Nat, NEW y \in Nat PROVE << x, y >> \in R <=> x < y
        BY DEF OpToRel
      <3> HIDE DEF R
      <3>3. PICK n \in S : \A m \in S : ~ (<< m, n >> \in R)
        BY <2>1, <3>1, WFMin, Zenon
      <3>4. ASSUME NEW m \in S PROVE n <= m
        <4>1. n \in Nat /\ m \in Nat
          BY <2>1, <3>3
        <4>2. ~ (m < n)
          BY <3>2, <3>3, <4>1, Zenon
        <4>3. QED
          BY <4>1, <4>2
      <3>5. QED
        BY <3>4
    <2>2. QED
      BY <2>1, Zenon DEF LeastFact
  <1>2. PairFact
    <2>1. ASSUME NEW x, NEW y, x # y PROVE Cardinality({x} \cup {y}) = 2
      <3>1. IsFiniteSet({x}) /\ Cardinality({x}) = 1
        BY FS_Singleton, Zenon
      <3>2. Cardinality({x} \cup {y}) = IF y \in {x} THEN Cardinality({x}) ELSE Cardinality({x}) + 1
        BY <3>1, FS_AddElement, Zenon
      <3>3. y \notin {x}
        BY <2>1
      <3>4. QED
        BY <3>1, <3>2, <3>3
    <2>2. QED
      BY <2>1, Zenon DEF PairFact
  <1>3. QED
    BY <1>1, <1>2, Zenon DEF SetFacts

\* The inductive invariant: who holds what where, who waits in which list in which order, and that
\* somebody fit to run serves each waiting task.
THEOREM WaitInvariance == Spec => []WaitInv
  <1>1. Init => WaitInv
    BY WaitInit, Zenon
  <1>2. WaitInv /\ [Next]_vars => WaitInv'
    BY WaitStep, SetFactsHold
  <1>3. QED
    BY <1>1, <1>2, PTL DEF Spec

\* While tasks wait for a mutex its holder has at least the priority of each of them, and a free
\* mutex is about to be taken by such a task, for any tasks and priorities.
THEOREM HolderIsRaised == Spec => []WaitersRaiseHolder
  <1>1. WaitInv => WaitersRaiseHolder
    <2> SUFFICES ASSUME WaitInv, NEW m \in Mutexes, NEW t \in Range(xTasksWaitingToReceive[m])
                 PROVE  Served(m, uxBasePriority[t])
      BY Zenon DEF WaitersRaiseHolder, Served
    <2>1. xTasksWaitingToReceive[m] \in Seq(Tasks)
      BY DEF WaitInv, TypeOK
    <2>2. In(xTasksWaitingToReceive[m], t) /\ t \in Tasks
      <3>1. DOMAIN xTasksWaitingToReceive[m] = 1 .. Len(xTasksWaitingToReceive[m])
        BY <2>1
      <3>2. \A i \in 1 .. Len(xTasksWaitingToReceive[m]) : xTasksWaitingToReceive[m][i] \in Tasks
        BY <2>1
      <3>3. QED
        BY <3>1, <3>2, Zenon DEF Range, In
    <2>3. QED
      BY <2>2, Zenon DEF WaitInv, ListInv, RaiseInv
  <1>2. QED
    BY <1>1, WaitInvariance, PTL

\* The callbacks of tcp_client.c are atomic for tcp_client_task although they print, for any tasks
\* and priorities such that the client is lowest.
THEOREM CallbacksAreAtomic == ClientLowest => (Spec => ClientCallbacksAtomic)
  <1> SUFFICES ASSUME ClientLowest PROVE Spec => ClientCallbacksAtomic
    BY Zenon
  <1>1. WaitInv /\ PriorityRestored /\ [Next]_vars
          => [pc[Tcpip] # "asleep" /\ pc[Client] = "own" => pc'[Client] = "own"]_vars
    BY ClientStays DEF vars
  <1>2. Spec => [][Next]_vars
    BY PTL DEF Spec
  <1>3. QED
    BY <1>1, <1>2, WaitInvariance, PrioritiesRestored, PTL DEF ClientCallbacksAtomic
=============================================================================
