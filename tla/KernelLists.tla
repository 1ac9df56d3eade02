---------------------------- MODULE KernelLists ----------------------------
(***************************************************************************)
(* FreeRtos/kernel/list.c: the lists of waiting tasks, kept in order of    *)
(* priority.                                                               *)
(***************************************************************************)
EXTENDS Integers, Sequences

\* The loop of vListInsert goes past every task of at least the same priority.
PlaceOf(list, t, priority) ==
    CHOOSE n \in 1 .. Len(list) + 1 :
        /\ \A i \in 1 .. n - 1 : priority[list[i]] >= priority[t]
        /\ n <= Len(list) => priority[list[n]] < priority[t]

vListInsert(list, t, priority) ==
    LET n == PlaceOf(list, t, priority)
    IN  [i \in 1 .. Len(list) + 1 |-> IF i = n THEN t ELSE list[IF i < n THEN i ELSE i - 1]]

\* for a task that waits in this list
listREMOVE_ITEM(list, t) ==
    LET n == CHOOSE i \in 1 .. Len(list) : list[i] = t
    IN  IF \A i \in 1 .. Len(list) : list[i] # t
          THEN list
          ELSE [i \in 1 .. Len(list) - 1 |-> list[IF i < n THEN i ELSE i + 1]]
=============================================================================
