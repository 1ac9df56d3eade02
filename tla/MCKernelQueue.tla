--------------------------- MODULE MCKernelQueue ---------------------------
(***************************************************************************)
(* A sender, a receiver of the same priority, and a task above them that   *)
(* does both.                                                              *)
(***************************************************************************)
EXTENDS KernelQueue

CONSTANTS low1, low2, high

MCPrio == [t \in Tasks |-> IF t = high THEN 2 ELSE 1]

MCCalls ==
    [t \in Tasks |-> (IF t = low1 THEN {} ELSE {"receive"}) \cup (IF t = low2 THEN {} ELSE {"send"})]
=============================================================================
