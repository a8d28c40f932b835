--------------------------- MODULE WebClientsProofs ---------------------------
(***************************************************************************)
(* The HTTP connections of the configuration page, for every number of     *)
(* records, connections and polls: records and connections belong to each  *)
(* other one to one, a connection submits one request at most, and what    *)
(* the web server does to the queue of requests is what ControlRequests    *)
(* allows it.                                                              *)
(***************************************************************************)
EXTENDS WebClients, ControlRequestsProofs

ClientRecord ==
    [used : BOOLEAN, pcb : Pcb \cup {NoPcb},
     request_length : 0..RequestSize-1, age_polls : 0..MaxPolls-1]

\* The types of the web server.  A request never fills its buffer, and a
\* connection is never polled more often than MaxPolls.
WebTypeOK ==
    /\ clients \in [ClientSlot -> ClientRecord]
    /\ conn \in [Pcb -> {"closed", "open", "closing"}]
    /\ tcp_arg \in [Pcb -> ClientSlot \cup {NoClient}]
    /\ submitted \subseteq Pcb

\* A connection that still has its callbacks has submitted nothing.
CallbacksAreFresh ==
    \A p \in Pcb : tcp_arg[p] # NoClient => p \notin submitted

WebInv == WebTypeOK /\ ClientsMatch /\ CallbacksAreFresh

LEMMA FreeRecord ==
    /\ FreeClient \in ClientRecord
    /\ FreeClient.used = FALSE /\ FreeClient.pcb = NoPcb
    /\ NoClient \notin ClientSlot /\ NoPcb \notin Pcb
<1>1. 0 \in 0..RequestSize-1 /\ 0 \in 0..MaxPolls-1
  BY ClientsAssumption
<1> QED
  BY <1>1, ClientsAssumption DEF FreeClient, ClientRecord

LEMMA WebInitInv == WebInit => WebInv
<1> SUFFICES ASSUME WebInit PROVE WebInv
  OBVIOUS
<1>1. WebTypeOK
  BY FreeRecord DEF WebInit, WebTypeOK
<1>2. ClientsMatch
  BY FreeRecord DEF WebInit, ClientsMatch
<1> QED
  BY <1>1, <1>2 DEF WebInit, WebInv, CallbacksAreFresh

-----------------------------------------------------------------------------
(* What the callbacks do to the records.                                   *)

\* The record of a connection with callbacks is its own.
LEMMA RecordOfCallback ==
    ASSUME WebInv, NEW p \in Pcb, tcp_arg[p] \in ClientSlot
    PROVE  /\ clients[tcp_arg[p]].pcb = p /\ clients[tcp_arg[p]].used
           /\ conn[p] = "open" /\ p \notin submitted
           /\ \A q \in Pcb \ {p} : tcp_arg[q] # tcp_arg[p]
           /\ \A s \in ClientSlot \ {tcp_arg[p]} : clients[s].pcb # p
<1>1. /\ tcp_arg[p] # NoClient /\ p # NoPcb
      /\ clients \in [ClientSlot -> ClientRecord]
  BY FreeRecord DEF WebInv, WebTypeOK
<1>2. clients[tcp_arg[p]].pcb = p /\ conn[p] = "open" /\ p \notin submitted
  BY <1>1 DEF WebInv, ClientsMatch, CallbacksAreFresh
<1>3. clients[tcp_arg[p]].used
  BY <1>1, <1>2 DEF WebInv, ClientsMatch
<1>4. \A q \in Pcb \ {p} : tcp_arg[q] # tcp_arg[p]
  BY <1>1, <1>2 DEF WebInv, ClientsMatch
<1>5. \A s \in ClientSlot \ {tcp_arg[p]} : clients[s].pcb # p
  BY <1>1 DEF WebInv, ClientsMatch
<1> QED
  BY <1>2, <1>3, <1>4, <1>5

\* A connection loses its callbacks and its record together.
LEMMA ClosingKeepsInv ==
    ASSUME WebInv, NEW p \in Pcb, tcp_arg[p] \in ClientSlot,
           clients' = [clients EXCEPT ![tcp_arg[p]] = FreeClient],
           tcp_arg' = [tcp_arg EXCEPT ![p] = NoClient],
           \E how \in {"closing", "closed"} : conn' = [conn EXCEPT ![p] = how],
           submitted' \in {submitted, submitted \cup {p}}
    PROVE  WebInv'
<1>1. /\ clients \in [ClientSlot -> ClientRecord]
      /\ conn \in [Pcb -> {"closed", "open", "closing"}]
      /\ tcp_arg \in [Pcb -> ClientSlot \cup {NoClient}]
      /\ submitted \subseteq Pcb
  BY DEF WebInv, WebTypeOK
<1>2. /\ tcp_arg'[p] = NoClient /\ conn'[p] # "open"
      /\ \A q \in Pcb \ {p} : tcp_arg'[q] = tcp_arg[q] /\ conn'[q] = conn[q]
      /\ clients'[tcp_arg[p]] = FreeClient
      /\ \A s \in ClientSlot \ {tcp_arg[p]} : clients'[s] = clients[s]
  BY <1>1
<1>3. WebTypeOK'
  BY <1>1, FreeRecord DEF WebTypeOK
<1>4. ASSUME NEW q \in Pcb
      PROVE  /\ conn'[q] = "open" <=> tcp_arg'[q] # NoClient
             /\ tcp_arg'[q] # NoClient => clients'[tcp_arg'[q]].pcb = q
             /\ tcp_arg'[q] # NoClient => q \notin submitted'
  <2>1. CASE q = p
    BY <1>2, <2>1
  <2>2. CASE q # p
    <3>1. /\ tcp_arg'[q] = tcp_arg[q] /\ conn'[q] = conn[q]
          /\ tcp_arg[q] # tcp_arg[p] /\ (q \in submitted' <=> q \in submitted)
      BY <1>2, <2>2, RecordOfCallback
    <3>2. /\ conn[q] = "open" <=> tcp_arg[q] # NoClient
          /\ tcp_arg[q] # NoClient => clients[tcp_arg[q]].pcb = q
          /\ tcp_arg[q] # NoClient => q \notin submitted
      BY DEF WebInv, ClientsMatch, CallbacksAreFresh
    <3> QED
      BY <1>1, <1>2, <3>1, <3>2
  <2> QED
    BY <2>1, <2>2
<1>5. ASSUME NEW s \in ClientSlot
      PROVE  /\ clients'[s].used <=> clients'[s].pcb # NoPcb
             /\ clients'[s].used => tcp_arg'[clients'[s].pcb] = s
  <2>1. CASE s = tcp_arg[p]
    BY <1>2, <2>1, FreeRecord
  <2>2. CASE s # tcp_arg[p]
    <3>1. clients'[s] = clients[s] /\ clients[s].pcb # p
      BY <1>2, <2>2, RecordOfCallback
    <3>2. /\ clients[s].used <=> clients[s].pcb # NoPcb
          /\ clients[s].used => tcp_arg[clients[s].pcb] = s
          /\ clients[s].pcb \in Pcb \cup {NoPcb}
      BY <1>1 DEF WebInv, ClientsMatch, ClientRecord
    <3> QED
      BY <1>2, <3>1, <3>2
  <2> QED
    BY <2>1, <2>2
<1> QED
  BY <1>3, <1>4, <1>5 DEF WebInv, ClientsMatch, CallbacksAreFresh

\* The counters of a record play no part in the matching.
LEMMA CountingKeepsInv ==
    ASSUME WebInv, NEW p \in Pcb, tcp_arg[p] \in ClientSlot,
           NEW new \in ClientRecord,
           clients' = [clients EXCEPT ![tcp_arg[p]] = new],
           new.used = clients[tcp_arg[p]].used, new.pcb = clients[tcp_arg[p]].pcb,
           UNCHANGED <<conn, tcp_arg, submitted>>
    PROVE  WebInv'
<1>1. clients \in [ClientSlot -> ClientRecord]
  BY DEF WebInv, WebTypeOK
<1>2. WebTypeOK'
  BY <1>1 DEF WebInv, WebTypeOK
<1>3. \A s \in ClientSlot : /\ clients'[s].used = clients[s].used
                            /\ clients'[s].pcb = clients[s].pcb
  BY <1>1
<1>4. \A q \in Pcb : tcp_arg[q] # NoClient => tcp_arg[q] \in ClientSlot
  BY DEF WebInv, WebTypeOK
<1>5. ClientsMatch'
  BY <1>3, <1>4 DEF WebInv, ClientsMatch
<1> QED
  BY <1>2, <1>5 DEF WebInv, CallbacksAreFresh

LEMMA AcceptKeepsInv ==
    ASSUME WebInv, NEW p \in Pcb, AcceptClient(p)
    PROVE  WebInv'
<1>1. PICK s \in ClientSlot :
          /\ ~clients[s].used
          /\ clients' = [clients EXCEPT ![s] = [FreeClient EXCEPT !.used = TRUE, !.pcb = p]]
          /\ tcp_arg' = [tcp_arg EXCEPT ![p] = s]
  BY DEF AcceptClient
<1> DEFINE new == [FreeClient EXCEPT !.used = TRUE, !.pcb = p]
<1>2. /\ conn[p] = "closed" /\ conn' = [conn EXCEPT ![p] = "open"]
      /\ submitted' = submitted \ {p}
  BY DEF AcceptClient
<1>3. /\ clients \in [ClientSlot -> ClientRecord]
      /\ conn \in [Pcb -> {"closed", "open", "closing"}]
      /\ tcp_arg \in [Pcb -> ClientSlot \cup {NoClient}]
      /\ submitted \subseteq Pcb
  BY DEF WebInv, WebTypeOK
<1>4. new \in ClientRecord /\ new.used = TRUE /\ new.pcb = p
  BY FreeRecord DEF FreeClient, ClientRecord
<1>5. /\ tcp_arg'[p] = s /\ conn'[p] = "open" /\ s # NoClient /\ p # NoPcb
      /\ \A q \in Pcb \ {p} : tcp_arg'[q] = tcp_arg[q] /\ conn'[q] = conn[q]
      /\ clients'[s] = new
      /\ \A t \in ClientSlot \ {s} : clients'[t] = clients[t]
  BY <1>1, <1>2, <1>3, FreeRecord
<1>6. WebTypeOK'
  BY <1>1, <1>2, <1>3, <1>4 DEF WebTypeOK
<1>7. tcp_arg[p] = NoClient
  BY <1>2 DEF WebInv, ClientsMatch
<1>8. ASSUME NEW q \in Pcb
      PROVE  /\ conn'[q] = "open" <=> tcp_arg'[q] # NoClient
             /\ tcp_arg'[q] # NoClient => clients'[tcp_arg'[q]].pcb = q
             /\ tcp_arg'[q] # NoClient => q \notin submitted'
  <2>1. CASE q = p
    BY <1>2, <1>4, <1>5, <2>1
  <2>2. CASE q # p
    <3>1. /\ conn[q] = "open" <=> tcp_arg[q] # NoClient
          /\ tcp_arg[q] # NoClient => clients[tcp_arg[q]].pcb = q
          /\ tcp_arg[q] # NoClient => q \notin submitted
      BY DEF WebInv, ClientsMatch, CallbacksAreFresh
    <3>2. tcp_arg[q] # NoClient => tcp_arg[q] # s
      <4> SUFFICES ASSUME tcp_arg[q] = s PROVE FALSE
        BY <1>5
      <4>1. clients[s].pcb = q
        BY <1>5, <3>1
      <4>2. clients[s].used <=> clients[s].pcb # NoPcb
        BY DEF WebInv, ClientsMatch
      <4> QED
        BY <1>1, <4>1, <4>2, FreeRecord
    <3> QED
      BY <1>2, <1>3, <1>5, <2>2, <3>1, <3>2
  <2> QED
    BY <2>1, <2>2
<1>9. ASSUME NEW t \in ClientSlot
      PROVE  /\ clients'[t].used <=> clients'[t].pcb # NoPcb
             /\ clients'[t].used => tcp_arg'[clients'[t].pcb] = t
  <2>1. CASE t = s
    BY <1>4, <1>5, <2>1
  <2>2. CASE t # s
    <3>1. /\ clients[t].used <=> clients[t].pcb # NoPcb
          /\ clients[t].used => tcp_arg[clients[t].pcb] = t
          /\ clients[t].pcb \in Pcb \cup {NoPcb}
      BY <1>3 DEF WebInv, ClientsMatch, ClientRecord
    <3>2. clients[t].used => clients[t].pcb # p
      BY <1>7, <3>1, FreeRecord
    <3> QED
      BY <1>5, <2>2, <3>1, <3>2
  <2> QED
    BY <2>1, <2>2
<1> QED
  BY <1>6, <1>8, <1>9 DEF WebInv, ClientsMatch, CallbacksAreFresh

\* close_client, as the callbacks use it
LEMMA CloseClientInv ==
    ASSUME WebInv, NEW p \in Pcb, tcp_arg[p] \in ClientSlot, CloseClient(p),
           submitted' \in {submitted, submitted \cup {p}}
    PROVE  WebInv'
<1>1. \E how \in {"closing", "closed"} : conn' = [conn EXCEPT ![p] = how]
  BY DEF CloseClient
<1> QED
  BY <1>1, ClosingKeepsInv DEF CloseClient

LEMMA ReceivePartInv ==
    ASSUME WebInv, NEW p \in Pcb, ReceivePart(p)
    PROVE  WebInv'
<1> DEFINE old == clients[tcp_arg[p]]
           new == [old EXCEPT !.request_length = @ + 1]
<1>1. tcp_arg[p] \in ClientSlot /\ submitted' = submitted
  BY DEF ReceivePart, Callback
<1>2. old \in ClientRecord
  BY <1>1 DEF WebInv, WebTypeOK
<1>3. CASE old.request_length + 1 = RequestSize
  BY <1>1, <1>3, CloseClientInv DEF ReceivePart
<1>4. CASE old.request_length + 1 # RequestSize
  <2>1. old.request_length + 1 \in 0..RequestSize-1
    BY <1>2, <1>4, ClientsAssumption DEF ClientRecord
  <2>2. new \in ClientRecord /\ new.used = old.used /\ new.pcb = old.pcb
    BY <1>2, <2>1 DEF ClientRecord
  <2>3. clients' = [clients EXCEPT ![tcp_arg[p]] = new] /\ UNCHANGED <<conn, tcp_arg>>
    BY <1>4 DEF ReceivePart
  <2> HIDE DEF new
  <2> QED
    BY <1>1, <2>2, <2>3, CountingKeepsInv
<1> QED
  BY <1>3, <1>4

LEMMA PollClientInv ==
    ASSUME WebInv, NEW p \in Pcb, PollClient(p)
    PROVE  WebInv'
<1> DEFINE old == clients[tcp_arg[p]]
           new == [old EXCEPT !.age_polls = @ + 1]
<1>1. tcp_arg[p] \in ClientSlot /\ submitted' = submitted
  BY DEF PollClient, Callback
<1>2. old \in ClientRecord
  BY <1>1 DEF WebInv, WebTypeOK
<1>3. CASE old.age_polls + 1 >= MaxPolls
  BY <1>1, <1>3, CloseClientInv DEF PollClient
<1>4. CASE ~(old.age_polls + 1 >= MaxPolls)
  <2>1. old.age_polls + 1 \in 0..MaxPolls-1
    BY <1>2, <1>4, ClientsAssumption DEF ClientRecord
  <2>2. new \in ClientRecord /\ new.used = old.used /\ new.pcb = old.pcb
    BY <1>2, <2>1 DEF ClientRecord
  <2>3. clients' = [clients EXCEPT ![tcp_arg[p]] = new] /\ UNCHANGED <<conn, tcp_arg>>
    BY <1>4 DEF PollClient
  <2> HIDE DEF new
  <2> QED
    BY <1>1, <2>2, <2>3, CountingKeepsInv
<1> QED
  BY <1>3, <1>4

LEMMA ClientErrorInv ==
    ASSUME WebInv, NEW p \in Pcb, ClientError(p)
    PROVE  WebInv'
<1>1. tcp_arg[p] \in ClientSlot /\ submitted' \in {submitted, submitted \cup {p}}
  BY DEF ClientError, Callback
<1>2. \E how \in {"closing", "closed"} : conn' = [conn EXCEPT ![p] = how]
  BY DEF ClientError
<1> QED
  BY <1>1, <1>2, ClosingKeepsInv DEF ClientError

\* lwIP finishes a connection that has no callbacks any more.
LEMMA CloseFinishedInv ==
    ASSUME WebInv, NEW p \in Pcb, CloseFinished(p)
    PROVE  WebInv'
<1>1. /\ conn[p] = "closing" /\ conn' = [conn EXCEPT ![p] = "closed"]
      /\ UNCHANGED <<clients, tcp_arg, submitted>>
  BY DEF CloseFinished
<1>2. conn \in [Pcb -> {"closed", "open", "closing"}]
  BY DEF WebInv, WebTypeOK
<1>3. \A q \in Pcb : conn'[q] = "open" <=> conn[q] = "open"
  BY <1>1, <1>2
<1>4. WebTypeOK'
  BY <1>1, <1>2 DEF WebInv, WebTypeOK
<1>5. ClientsMatch'
  BY <1>1, <1>3 DEF WebInv, ClientsMatch
<1> QED
  BY <1>1, <1>4, <1>5 DEF WebInv, CallbacksAreFresh

-----------------------------------------------------------------------------
LEMMA WebStepInv == WebInv /\ [WebNext]_allVars => WebInv'
<1> SUFFICES ASSUME WebInv, [WebNext]_allVars PROVE WebInv'
  OBVIOUS
<1>1. CASE TurnOfTask \/ UNCHANGED allVars
  BY <1>1 DEF TurnOfTask, allVars, webVars, WebInv, WebTypeOK, ClientsMatch,
              CallbacksAreFresh
<1>2. ASSUME NEW p \in Pcb, NEW r \in Request, ReceiveRequest(p, r)
      PROVE  WebInv'
  BY <1>2, CloseClientInv DEF ReceiveRequest, HandleRequest, Callback
<1>3. ASSUME NEW p \in Pcb, ReceiveOther(p)
      PROVE  WebInv'
  BY <1>3, CloseClientInv DEF ReceiveOther, Callback
<1> QED
  BY <1>1, <1>2, <1>3, AcceptKeepsInv, ReceivePartInv, PollClientInv,
     ClientErrorInv, CloseFinishedInv
     DEF WebNext

LEMMA WebInvariant == WebSpec => []WebInv
  BY WebInitInv, WebStepInv, PTL DEF WebSpec

\* No callback ever comes with a record that is free or another connection's,
\* no record holds a connection that is gone, and no open connection is left
\* without one, whatever lwIP and the clients do and in whatever order.
THEOREM ClientsAlwaysMatch == WebSpec => []ClientsMatch
<1>1. WebInv => ClientsMatch
  BY DEF WebInv
<1> QED
  BY <1>1, WebInvariant, PTL

\* The header of a request stays within its buffer, and a connection is closed
\* at the latest when it is polled for the MaxPolls-th time.
THEOREM WebTypeCorrect == WebSpec => []WebTypeOK
<1>1. WebInv => WebTypeOK
  BY DEF WebInv
<1> QED
  BY <1>1, WebInvariant, PTL

\* A connection submits one request at most, until its record is used anew.
THEOREM OneRequestOnly == WebSpec => OneRequestEach
<1>1. WebInv => \A p \in Pcb, r \in Request : ReceiveRequest(p, r) => p \notin submitted
  BY RecordOfCallback DEF ReceiveRequest, Callback
<1> QED
  BY <1>1, WebInvariant, PTL DEF WebSpec, OneRequestEach

-----------------------------------------------------------------------------
(* The web server is the submitter that ControlRequests.tla expects.       *)

LEMMA WebStepSubmits == [WebNext]_allVars => [Next]_vars
<1> SUFFICES ASSUME [WebNext]_allVars PROVE [Next]_vars
  OBVIOUS
<1>1. CASE TurnOfTask
  BY <1>1 DEF TurnOfTask, Next
<1>2. ASSUME NEW p \in Pcb, NEW r \in Request, ReceiveRequest(p, r)
      PROVE  Next
  <2>1. WebSubmit(r)
    BY <1>2 DEF ReceiveRequest, HandleRequest, Callback, WebSubmit
  <2> QED
    BY <2>1 DEF Next
<1>3. ASSUME NEW p \in Pcb,
             \/ AcceptClient(p) \/ ReceiveOther(p) \/ ReceivePart(p)
             \/ PollClient(p) \/ ClientError(p) \/ CloseFinished(p)
      PROVE  UNCHANGED vars
  BY <1>3 DEF AcceptClient, ReceiveOther, ReceivePart, PollClient, ClientError,
              CloseFinished
<1>4. CASE UNCHANGED allVars
  BY <1>4 DEF allVars
<1> QED
  BY <1>1, <1>2, <1>3, <1>4 DEF WebNext

\* Whatever the HTTP clients do, the queue and the line see a behaviour of
\* ControlRequests: all that is proved of it holds with the web server in front.
THEOREM WebImplementsRequests == WebSpec => Spec
<1>1. WebInit => Init
  BY DEF WebInit
<1> QED
  BY <1>1, WebStepSubmits, PTL DEF WebSpec, Spec

\* So a request that is answered with 202 is executed once and in order.
THEOREM WebRequestsAreFifo == WebSpec => QueueIsFifo
  BY WebImplementsRequests, RingImplementsFifo, PTL

=============================================================================
