---------------------------- MODULE MCEthernetif ----------------------------
(***************************************************************************)
(* The tasks of App/main.c that send, with their priorities.               *)
(***************************************************************************)
EXTENDS Ethernetif

CONSTANTS client, ota, tcpip

MCPriority == [s \in Senders |-> CASE s = tcpip -> 29 [] s = ota -> 4 [] OTHER -> 3]
=============================================================================
