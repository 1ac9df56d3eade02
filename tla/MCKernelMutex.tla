--------------------------- MODULE MCKernelMutex ---------------------------
(***************************************************************************)
(* The tasks of App/main.c that print, with their priorities.              *)
(***************************************************************************)
EXTENDS KernelMutex

CONSTANTS cli, client, ota, tcpip

MCPriority == [t \in Tasks |-> CASE t = tcpip -> 29 [] t = ota -> 4 [] OTHER -> 3]

\* These priorities are ones for which the callbacks are atomic.
ASSUME ClientIsLowest == ClientLowest
=============================================================================
