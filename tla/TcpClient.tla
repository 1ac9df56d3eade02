------------------------------ MODULE TcpClient ------------------------------
(***************************************************************************)
(* The TCP client (App/tcp/tcp_client.c): the callbacks lwIP runs in its   *)
(* tcpip thread, and the task that connects, sends and reconnects.         *)
(*                                                                         *)
(* The tcpip thread preempts the task, so a callback is one step and every *)
(* load of g_tcp_connected or g_pcb by the task is a step of its own.      *)
(* What is sent and received is left out: only the life of the control     *)
(* blocks (pcbs), of the receive buffer hung on them and of a pbuf that    *)
(* was handed back to lwIP is modelled.                                    *)
(***************************************************************************)
EXTENDS Naturals, FiniteSets

CONSTANTS Pcbs, NULL

ASSUME ClientAssumption == NULL \notin Pcbs

VARIABLES
    g_pcb, g_tcp_connected,
    state,          \* of each pcb: "free", "closed" (allocated), "syn_sent", "established", "last_ack"
    arg,            \* its callback argument: "null", "live", or "freed" (dangling)
    refused_data,   \* TRUE: lwIP keeps a pbuf of it that the callback refused
    pc,             \* the place of tcp_client_task
    freed_twice, pbuf_freed_twice   \* history

lwipVars == << state, arg, refused_data >>
appVars  == << g_pcb, g_tcp_connected >>
history  == << freed_twice, pbuf_freed_twice >>
vars == << lwipVars, appVars, pc, history >>

Init ==
    /\ g_pcb = NULL
    /\ g_tcp_connected = FALSE
    /\ state = [p \in Pcbs |-> "free"]
    /\ arg = [p \in Pcbs |-> "null"]
    /\ refused_data = [p \in Pcbs |-> FALSE]
    /\ pc = "new"
    /\ freed_twice = FALSE
    /\ pbuf_freed_twice = FALSE

-----------------------------------------------------------------------------
(* lwIP and the callbacks                                                   *)

\* the pcb goes back to the pool
Free(p) ==
    /\ state' = [state EXCEPT ![p] = "free"]
    /\ arg' = [arg EXCEPT ![p] = "null"]
    /\ refused_data' = [refused_data EXCEPT ![p] = FALSE]

\* tcp_client_connected; mem_calloc may fail
Connected(p) ==
    /\ state[p] = "syn_sent"
    /\ state' = [state EXCEPT ![p] = "established"]
    /\ \E a \in {"live", "null"} : arg' = [arg EXCEPT ![p] = a]
    /\ g_pcb' = p
    /\ g_tcp_connected' = TRUE
    /\ UNCHANGED << refused_data, pc, history >>

\* tcp_client_recv with data: a buffer is filled, logged and emptied again, which
\* leaves no trace in this model; without a buffer the pbuf is freed and refused,
\* and lwIP offers it again later
Recv(p) ==
    /\ state[p] = "established"
    /\ arg[p] = "null"
    /\ refused_data' = [refused_data EXCEPT ![p] = TRUE]
    /\ pbuf_freed_twice' = (pbuf_freed_twice \/ refused_data[p])
    /\ UNCHANGED << state, arg, appVars, pc, freed_twice >>

\* mem_free of the callback argument
FreeArg(p) ==
    /\ freed_twice' = (freed_twice \/ arg[p] = "freed")
    /\ UNCHANGED pbuf_freed_twice

\* mutant: the connection is not marked as down
ServerCloseQuiet(p) ==
    /\ state[p] = "established"
    /\ ~refused_data[p]
    /\ FreeArg(p)
    /\ arg' = [arg EXCEPT ![p] = IF @ = "null" THEN @ ELSE "freed"]
    /\ state' = [state EXCEPT ![p] = "last_ack"]
    /\ UNCHANGED << refused_data, appVars, pc >>

\* tcp_client_recv without data: the server closed, and so does the client
ServerClose(p) ==
    /\ state[p] = "established"
    /\ ~refused_data[p]
    /\ g_tcp_connected' = FALSE
    /\ FreeArg(p)
    /\ arg' = [arg EXCEPT ![p] = IF @ = "null" THEN @ ELSE "freed"]
    /\ state' = [state EXCEPT ![p] = "last_ack"]
    /\ UNCHANGED << refused_data, g_pcb, pc >>

\* the last ACK: a connection the application has closed ends without a callback
Closed(p) ==
    /\ state[p] = "last_ack"
    /\ Free(p)
    /\ UNCHANGED << appVars, pc, history >>

\* mutant: the error callback keeps the buffer
ErrorKeepsBuffer(p) ==
    /\ state[p] \in {"syn_sent", "established", "last_ack"}
    /\ g_tcp_connected' = FALSE
    /\ g_pcb' = NULL
    /\ state' = [state EXCEPT ![p] = "free"]
    /\ refused_data' = [refused_data EXCEPT ![p] = FALSE]
    /\ UNCHANGED << arg, pc, history >>

\* a reset or a timeout: tcp_client_err, and the pcb is freed
Error(p) ==
    /\ state[p] \in {"syn_sent", "established", "last_ack"}
    /\ g_tcp_connected' = FALSE
    /\ g_pcb' = NULL
    /\ FreeArg(p)
    /\ Free(p)
    /\ UNCHANGED pc

Lwip(p) == Connected(p) \/ Recv(p) \/ ServerClose(p) \/ Closed(p) \/ Error(p)

-----------------------------------------------------------------------------
(* tcp_client_task                                                          *)

Goto(from, to) == pc = from /\ pc' = to

\* tcp_client_init: tcp_new may find no pcb
NewFails ==
    /\ Goto("new", "loop")
    /\ g_pcb' = NULL
    /\ UNCHANGED << lwipVars, g_tcp_connected, history >>

New ==
    /\ Goto("new", "connect")
    /\ \E p \in Pcbs :
          /\ state[p] = "free"
          /\ state' = [state EXCEPT ![p] = "closed"]
          /\ g_pcb' = p
    /\ UNCHANGED << arg, refused_data, g_tcp_connected, history >>

Connect ==
    /\ Goto("connect", "loop")
    /\ state' = [state EXCEPT ![g_pcb] = "syn_sent"]
    /\ UNCHANGED << arg, refused_data, appVars, history >>

\* mutant: the pcb of a failed tcp_connect is not given back
ConnectFailsLeaks ==
    /\ Goto("connect", "loop")
    /\ g_pcb' = NULL
    /\ UNCHANGED << lwipVars, g_tcp_connected, history >>

ConnectFails ==
    /\ Goto("connect", "loop")
    /\ Free(g_pcb)
    /\ g_pcb' = NULL
    /\ UNCHANGED << g_tcp_connected, history >>

\* The conditions of the loop, one load at a time; "loop" is also the delay.
Test(from, condition, then, else) ==
    /\ Goto(from, IF condition THEN then ELSE else)
    /\ UNCHANGED << lwipVars, appVars, history >>

TestUp == Test("loop", g_tcp_connected, "test_pcb", "test_down")

TestPcb == Test("test_pcb", g_pcb # NULL, "write", "test_down")

\* mutant: the negation is lost
TestDownUp == Test("test_down", g_tcp_connected, "test_none", "loop")

TestDown == Test("test_down", ~g_tcp_connected, "test_none", "loop")

TestNone == Test("test_none", g_pcb = NULL, "new", "loop")

\* tcp_write(g_pcb) refuses NULL and otherwise succeeds or fails; after a success
\* g_pcb is loaded again for tcp_output
Write ==
    /\ \E to \in (IF g_pcb = NULL THEN {"loop"} ELSE {"loop", "output"}) : Goto("write", to)
    /\ UNCHANGED << lwipVars, appVars, history >>

Output ==
    /\ Goto("output", "loop")
    /\ UNCHANGED << lwipVars, appVars, history >>

Task ==
    \/ NewFails \/ New \/ Connect \/ ConnectFails
    \/ TestUp \/ TestPcb \/ TestDown \/ TestNone
    \/ Write \/ Output

Next == Task \/ \E p \in Pcbs : Lwip(p)

Spec == Init /\ [][Next]_vars

\* The task runs again and again; a connection that is being set up or closed
\* ends one way or the other (lwIP's timers).
FairSpec ==
    /\ Spec
    /\ WF_vars(Task)
    /\ \A p \in Pcbs :
          /\ WF_vars(Connected(p) \/ (state[p] = "syn_sent" /\ Error(p)))
          /\ WF_vars(Closed(p) \/ (state[p] = "last_ack" /\ Error(p)))

-----------------------------------------------------------------------------
(* Properties                                                               *)

TypeOK ==
    /\ g_pcb \in Pcbs \cup {NULL}
    /\ g_tcp_connected \in BOOLEAN
    /\ state \in [Pcbs -> {"free", "closed", "syn_sent", "established", "last_ack"}]
    /\ arg \in [Pcbs -> {"null", "live", "freed"}]
    /\ refused_data \in [Pcbs -> BOOLEAN]
    /\ pc \in {"new", "connect", "loop", "test_pcb", "test_down", "test_none", "write", "output"}
    /\ freed_twice \in BOOLEAN
    /\ pbuf_freed_twice \in BOOLEAN

\* Every pcb in use is the one g_pcb points to: no interleaving of callbacks
\* with tcp_client_init leaks a pcb or leaves two connections behind, so a late
\* callback of an old connection cannot disturb a new one.
PcbOwned == \A p \in Pcbs : state[p] # "free" => g_pcb = p

\* While g_tcp_connected is set there is an established connection in g_pcb.
ConnectedTruth == g_tcp_connected => \E p \in Pcbs : g_pcb = p /\ state[p] = "established"

\* The receive buffer lives as long as its connection: nothing is left on the
\* heap once the connection is closed or reset.
BufferOwned == \A p \in Pcbs : arg[p] = "live" => state[p] = "established"

\* The inductive invariant behind the three: while the task runs
\* tcp_client_init, no callback can run, because no pcb is connected or closing.
ClientInv ==
    /\ TypeOK
    /\ PcbOwned
    /\ ConnectedTruth
    /\ BufferOwned
    /\ pc = "new" => g_pcb = NULL
    /\ pc = "connect" => g_pcb \in Pcbs
    /\ \A p \in Pcbs : state[p] = "closed" <=> (pc = "connect" /\ g_pcb = p)

\* After an error the task tries again.
RetriesAfterError == (g_pcb = NULL) ~> (pc = "new")

\* "Try to reconnect if disconnected": a client that is down tries again or
\* comes up, whatever brought it down.
Reconnects == ~g_tcp_connected ~> (pc = "new" \/ g_tcp_connected)

\* The assertion of tcp_output: the task that calls it after tcp_write still has
\* a pcb to pass.
SendHasPcb == pc = "output" => g_pcb # NULL

\* "mem_free: illegal memory: double free": the receive buffer is freed once.
BufferFreedOnce == ~freed_twice

\* "pbuf_free: p->ref > 0": a received pbuf is freed once.
PbufFreedOnce == ~pbuf_freed_twice
=============================================================================
