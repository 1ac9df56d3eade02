--------------------------- MODULE TcpClientProof ---------------------------
(***************************************************************************)
(* Proofs for TcpClient: the task and the callbacks agree on the one       *)
(* connection there is, for every number of pcbs.                          *)
(***************************************************************************)
EXTENDS TcpClient, TLAPS

USE DEF lwipVars, appVars, history

\* Nothing is allocated when tcp_client_task starts.
LEMMA ClientInit == Init => ClientInv
BY ClientAssumption, Zenon DEF Init, ClientInv, TypeOK, PcbOwned, ConnectedTruth, BufferOwned

\* The callbacks keep the invariant: each runs on the pcb g_pcb points to.
LEMMA CallbackStep == ASSUME ClientInv, NEW p \in Pcbs, Lwip(p) PROVE ClientInv'
<1> USE ClientAssumption DEF ClientInv, TypeOK, PcbOwned, ConnectedTruth, BufferOwned
<1>1. CASE Connected(p)
  BY <1>1 DEF Connected
<1>2. CASE Recv(p)
  BY <1>2 DEF Recv
<1>3. CASE ServerClose(p)
  BY <1>3, Zenon DEF ServerClose, FreeArg
<1>4. CASE Closed(p)
  BY <1>4 DEF Closed, Free
<1>5. CASE Error(p)
  BY <1>5, Zenon DEF Error, FreeArg, Free
<1>. QED
  BY <1>1, <1>2, <1>3, <1>4, <1>5 DEF Lwip

\* The steps of tcp_client_task keep the invariant.
LEMMA TaskStep == ASSUME ClientInv, Task PROVE ClientInv'
<1> USE ClientAssumption DEF ClientInv, TypeOK, PcbOwned, ConnectedTruth, BufferOwned, Goto
<1>1. CASE NewFails
  BY <1>1 DEF NewFails
<1>2. CASE New
  BY <1>2 DEF New
<1>3. CASE Connect
  BY <1>3 DEF Connect
<1>4. CASE ConnectFails
  BY <1>4 DEF ConnectFails, Free
<1>5. CASE TestUp \/ TestPcb \/ TestDown \/ TestNone
  BY <1>5 DEF TestUp, TestPcb, TestDown, TestNone, Test
<1>6. CASE Write \/ Output
  BY <1>6 DEF Write, Output
<1>. QED
  BY <1>1, <1>2, <1>3, <1>4, <1>5, <1>6 DEF Task

\* The invariant holds in every behaviour of the client.
THEOREM ClientInvariance == Spec => []ClientInv
<1>1. ClientInv /\ [Next]_vars => ClientInv'
  <2> SUFFICES ASSUME ClientInv, [Next]_vars PROVE ClientInv'
    OBVIOUS
  <2>1. CASE Task
    BY <2>1, TaskStep
  <2>2. CASE \E p \in Pcbs : Lwip(p)
    BY <2>2, CallbackStep
  <2>3. CASE UNCHANGED vars
    BY <2>3 DEF vars, ClientInv, TypeOK, PcbOwned, ConnectedTruth, BufferOwned
  <2>. QED
    BY <2>1, <2>2, <2>3 DEF Next
<1>. QED
  BY <1>1, ClientInit, PTL DEF Spec

\* Every pcb in use is the one g_pcb points to, however callbacks and
\* tcp_client_init interleave.
THEOREM PcbIsOwned == Spec => []PcbOwned
<1>1. ClientInv => PcbOwned
  BY DEF ClientInv
<1>. QED
  BY <1>1, ClientInvariance, PTL

\* g_tcp_connected is only set while g_pcb is an established connection.
THEOREM ConnectedIsTrue == Spec => []ConnectedTruth
<1>1. ClientInv => ConnectedTruth
  BY DEF ClientInv
<1>. QED
  BY <1>1, ClientInvariance, PTL

\* The receive buffer is never left behind on the heap.
THEOREM BufferIsOwned == Spec => []BufferOwned
<1>1. ClientInv => BufferOwned
  BY DEF ClientInv
<1>. QED
  BY <1>1, ClientInvariance, PTL
=============================================================================
