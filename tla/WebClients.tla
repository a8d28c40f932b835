----------------------------- MODULE WebClients -----------------------------
(***************************************************************************)
(* web/web_config.c: the two records of HTTP connections, used by the      *)
(* callbacks of lwIP, in front of the control requests of                  *)
(* ControlRequests.tla.  The callbacks run in the poll phase of            *)
(* bluetooth_task; what the submissions of the web page are there is an    *)
(* HTTP request of some connection here.                                   *)
(*                                                                         *)
(* lwIP is external: conn says what it knows of a connection, tcp_arg the  *)
(* record it passes to the callbacks, which close_client removes together  *)
(* with them.  A segment is a part of a request or its end; answers, pages *)
(* and the status snapshot are left out.                                   *)
(***************************************************************************)
EXTENDS ControlRequests

CONSTANTS
    Pcb,             \* TCP connections
    NoPcb,           \* NULL
    NoClient,        \* tcp_arg(pcb, NULL)
    MaxClients,      \* WEB_MAX_CLIENTS
    MaxPolls,        \* age_polls that ends a connection
    RequestSize      \* parts that fill the request buffer

ClientSlot == 0..MaxClients-1

ASSUME ClientsAssumption ==
    /\ {MaxClients, MaxPolls, RequestSize} \subseteq Nat \ {0}
    /\ NoPcb \notin Pcb
    /\ NoClient \notin ClientSlot

VARIABLES
    clients,         \* web_client_t of each slot
    conn,            \* "closed", "open", or "closing" on its own
    tcp_arg,         \* record of a connection with callbacks
    submitted        \* history: connections that submitted a request

webVars == <<clients, conn, tcp_arg, submitted>>
allVars == <<vars, webVars>>

FreeClient == [used |-> FALSE, pcb |-> NoPcb, request_length |-> 0, age_polls |-> 0]

WebInit ==
    /\ Init
    /\ clients = [s \in ClientSlot |-> FreeClient]
    /\ conn = [p \in Pcb |-> "closed"]
    /\ tcp_arg = [p \in Pcb |-> NoClient]
    /\ submitted = {}

-----------------------------------------------------------------------------
\* Mutant of CloseClient: the callbacks keep their record.
CloseKeepsArg(p) ==
    /\ clients' = [clients EXCEPT ![tcp_arg[p]] = FreeClient]
    /\ conn' \in {[conn EXCEPT ![p] = how] : how \in {"closing", "closed"}}
    /\ UNCHANGED tcp_arg

\* close_client: tcp_close, or tcp_abort when that fails
CloseClient(p) ==
    /\ clients' = [clients EXCEPT ![tcp_arg[p]] = FreeClient]
    /\ tcp_arg' = [tcp_arg EXCEPT ![p] = NoClient]
    /\ conn' \in {[conn EXCEPT ![p] = how] : how \in {"closing", "closed"}}

\* accept_client: the first free record; without one the connection is
\* aborted, which leaves nothing behind.
AcceptClient(p) ==
    /\ phase = "poll"
    /\ conn[p] = "closed"
    /\ \E s \in ClientSlot :
           /\ ~clients[s].used
           /\ \A t \in 0..s-1 : clients[t].used
           /\ clients' = [clients EXCEPT ![s] = [FreeClient EXCEPT !.used = TRUE, !.pcb = p]]
           /\ tcp_arg' = [tcp_arg EXCEPT ![p] = s]
    /\ conn' = [conn EXCEPT ![p] = "open"]
    /\ submitted' = submitted \ {p}
    /\ UNCHANGED vars

\* A callback of lwIP for a connection that has its callbacks
Callback(p) == phase = "poll" /\ tcp_arg[p] \in ClientSlot

\* Mutant of HandleRequest: the connection is kept for a next request.
HandleAndKeep(p, r) ==
    /\ Push(r)
    /\ submitted' = submitted \cup {p}
    /\ UNCHANGED <<clients, conn, tcp_arg>>

\* handle_request of a POST endpoint: 202 or 503, and in any case the end
HandleRequest(p, r) ==
    /\ Push(r)
    /\ submitted' = submitted \cup {p}
    /\ CloseClient(p)

\* receive_request: the end of a header that asks for r
ReceiveRequest(p, r) ==
    /\ Callback(p)
    /\ HandleRequest(p, r)
    /\ UNCHANGED <<phase, unread, lineVars, executed>>

\* receive_request: the end of the connection, or of a request that submits
\* nothing: a page, the status, an error
ReceiveOther(p) ==
    /\ Callback(p)
    /\ CloseClient(p)
    /\ UNCHANGED <<vars, submitted>>

\* receive_request: a part of a header; one that fills the buffer is refused.
ReceivePart(p) ==
    /\ Callback(p)
    /\ IF clients[tcp_arg[p]].request_length + 1 = RequestSize
       THEN CloseClient(p)
       ELSE /\ clients' = [clients EXCEPT ![tcp_arg[p]].request_length = @ + 1]
            /\ UNCHANGED <<conn, tcp_arg>>
    /\ UNCHANGED <<vars, submitted>>

\* Mutant of PollClient: what has sent something is not counted.
PollSilent(p) ==
    /\ Callback(p)
    /\ clients[tcp_arg[p]].request_length = 0
    /\ IF clients[tcp_arg[p]].age_polls + 1 >= MaxPolls
       THEN CloseClient(p)
       ELSE /\ clients' = [clients EXCEPT ![tcp_arg[p]].age_polls = @ + 1]
            /\ UNCHANGED <<conn, tcp_arg>>
    /\ UNCHANGED <<vars, submitted>>

\* poll_client
PollClient(p) ==
    /\ Callback(p)
    /\ IF clients[tcp_arg[p]].age_polls + 1 >= MaxPolls
       THEN CloseClient(p)
       ELSE /\ clients' = [clients EXCEPT ![tcp_arg[p]].age_polls = @ + 1]
            /\ UNCHANGED <<conn, tcp_arg>>
    /\ UNCHANGED <<vars, submitted>>

\* client_error: lwIP has freed the connection already.
ClientError(p) ==
    /\ Callback(p)
    /\ clients' = [clients EXCEPT ![tcp_arg[p]] = FreeClient]
    /\ tcp_arg' = [tcp_arg EXCEPT ![p] = NoClient]
    /\ conn' = [conn EXCEPT ![p] = "closed"]
    /\ UNCHANGED <<vars, submitted>>

\* lwIP is done with a connection that was closed.
CloseFinished(p) ==
    /\ phase = "poll"
    /\ conn[p] = "closing"
    /\ conn' = [conn EXCEPT ![p] = "closed"]
    /\ UNCHANGED <<vars, clients, tcp_arg, submitted>>

TurnOfTask == Turn /\ UNCHANGED webVars

WebNext ==
    \/ TurnOfTask
    \/ \E p \in Pcb :
          \/ AcceptClient(p)
          \/ \E r \in Request : ReceiveRequest(p, r)
          \/ ReceiveOther(p)
          \/ ReceivePart(p)
          \/ PollClient(p)
          \/ ClientError(p)
          \/ CloseFinished(p)

WebSpec == WebInit /\ [][WebNext]_allVars

\* bluetooth_task runs again and again, and lwIP polls a connection whose timer
\* is due in one of the next turns.
FairWebSpec ==
    WebSpec /\ WF_allVars(TurnOfTask) /\ \A p \in Pcb : SF_allVars(PollClient(p))

-----------------------------------------------------------------------------
\* Records and connections belong to each other one to one: no callback comes
\* with a record that is free or another connection's, no record holds a
\* connection that is gone, and no open connection is left without one.
ClientsMatch ==
    /\ \A p \in Pcb :
          /\ conn[p] = "open" <=> tcp_arg[p] # NoClient
          /\ tcp_arg[p] # NoClient => clients[tcp_arg[p]].pcb = p
    /\ \A s \in ClientSlot :
          /\ clients[s].used <=> clients[s].pcb # NoPcb
          /\ clients[s].used => tcp_arg[clients[s].pcb] = s

\* A connection is good for one request ("Connection: close"): whatever a client
\* sends after it, nothing is submitted twice.
OneRequestEach ==
    [][\A p \in Pcb, r \in Request :
           ReceiveRequest(p, r) => p \notin submitted]_allVars

\* Every record is free again and again, although clients never finish their
\* requests or send them a byte at a time (web_config.c: "Reclaim clients that
\* do not complete an HTTP header").
ClientsReclaimed == \A s \in ClientSlot : []<>(~clients[s].used)

=============================================================================
