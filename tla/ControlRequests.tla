--------------------------- MODULE ControlRequests ---------------------------
(***************************************************************************)
(* How control requests reach the connection manager: bluetooth_task of    *)
(* bt/bluetooth.c with bt/control_command.c, bt/control_request_queue.c    *)
(* and the POST endpoints of web/web_config.c.  A turn of the task polls   *)
(* lwIP, whose callbacks submit the requests of the web page, then reads a *)
(* few characters of the CDC line, and then executes all that is queued.   *)
(* What a request does is Bluetooth.tla's ControlRequests.                 *)
(*                                                                         *)
(* A character of the CDC line stands for a piece of text: the text of a   *)
(* request, a blank or anything else.  A line is that request when it      *)
(* holds its text alone, with blanks before and, unless the text ends with *)
(* an address, after.                                                      *)
(***************************************************************************)
EXTENDS Naturals, Sequences

CONSTANTS
    Request,         \* control requests
    Addressed,       \* those with an address: CONNECT
    NoRequest,       \* none has been executed yet
    Blank,           \* a space or a tab
    Char,            \* what is typed: requests, blanks, other text
    BufferSize,      \* sizeof(command_buffer)
    ReadSize,        \* sizeof(input)
    Capacity,        \* CONTROL_REQUEST_QUEUE_CAPACITY
    MaxTyped         \* bound of the model: the longest line that is typed

ASSUME RequestAssumption ==
    /\ Addressed \subseteq Request
    /\ NoRequest \notin Request
    /\ Blank \notin Request
ASSUME SizeAssumption ==
    /\ BufferSize \in Nat \ {0}
    /\ {ReadSize, MaxTyped} \subseteq Nat
    /\ Capacity \in Nat \ {0}

VARIABLES
    phase,           \* what the turn of bluetooth_task is doing
    unread,          \* characters of this turn still to be looked at
    command_buffer,  \* its length is command_length
    requests, head, count,       \* control_requests
    answer,          \* to the last submission
    executed,        \* the last request executed
    typed            \* history: the line typed so far

queueVars == <<requests, head, count, answer>>
lineVars  == <<command_buffer, typed>>
vars == <<phase, unread, lineVars, queueVars, executed>>

Init ==
    /\ phase = "poll"
    /\ unread = 0
    /\ command_buffer = <<>>
    /\ requests = [i \in 0..Capacity-1 |-> NoRequest]
    /\ head = 0
    /\ count = 0
    /\ answer = "none"
    /\ executed = NoRequest
    /\ typed = <<>>

-----------------------------------------------------------------------------
(* control_request_queue.c                                                 *)

Slot(offset) == (head + offset) % Capacity

Put(r) ==
    /\ requests' = [requests EXCEPT ![Slot(count)] = r]
    /\ count' = count + 1
    /\ answer' = "accepted"
    /\ UNCHANGED head

\* Mutant of Push: a full queue is not noticed.
PushAlways(r) == Put(r)

\* control_request_queue_push, and what its callers answer
Push(r) ==
    \/ count < Capacity /\ Put(r)
    \/ /\ count = Capacity
       /\ answer' = "refused"
       /\ UNCHANGED <<requests, head, count>>

\* Mutant of Pop: the newest request first.
PopNewest ==
    /\ count > 0
    /\ executed' = requests[Slot(count - 1)]
    /\ count' = count - 1
    /\ UNCHANGED <<requests, head, answer>>

\* control_request_queue_pop
Pop ==
    /\ count > 0
    /\ executed' = requests[head]
    /\ head' = Slot(1)
    /\ count' = count - 1
    /\ UNCHANGED <<requests, answer>>

-----------------------------------------------------------------------------
(* The turn of bluetooth_task.                                             *)

\* async_context_poll: handle_request of the web server submits a request.
WebSubmit(r) ==
    /\ phase = "poll"
    /\ Push(r)
    /\ UNCHANGED <<phase, unread, lineVars, executed>>

\* usb_serial_read: as many characters as there are, up to the size of input.
EndPoll ==
    /\ phase = "poll"
    /\ phase' = "read"
    /\ unread' \in 0..ReadSize
    /\ UNCHANGED <<lineVars, queueVars, executed>>

ReadOne == phase = "read" /\ unread > 0 /\ unread' = unread - 1

\* Mutant of ReadChar: the buffer keeps what it has when it is full.
ReadCharTruncating(c) ==
    /\ ReadOne
    /\ Len(typed) < MaxTyped
    /\ typed' = Append(typed, c)
    /\ command_buffer' = IF Len(command_buffer) < BufferSize - 1
                         THEN Append(command_buffer, c)
                         ELSE command_buffer
    /\ UNCHANGED <<phase, queueVars, executed>>

\* A character of a line: one too many empties the buffer and is lost.
ReadChar(c) ==
    /\ ReadOne
    /\ Len(typed) < MaxTyped
    /\ typed' = Append(typed, c)
    /\ command_buffer' = IF Len(command_buffer) < BufferSize - 1
                         THEN Append(command_buffer, c)
                         ELSE <<>>
    /\ UNCHANGED <<phase, queueVars, executed>>

\* control_command_parse: the request of a line, or NoRequest.  parse_address
\* wants the end of the line right after the address.
Parse(text) ==
    LET words == {i \in DOMAIN text : text[i] # Blank}
        spells(i) == /\ words = {i} /\ text[i] \in Request
                     /\ text[i] \in Addressed => i = Len(text)
    IN  IF \E i \in words : spells(i)
        THEN text[CHOOSE i \in words : spells(i)]
        ELSE NoRequest

\* '\r' or '\n': the line is parsed and submitted; an empty one is skipped.
ReadEndOfLine ==
    /\ ReadOne
    /\ command_buffer' = <<>>
    /\ typed' = <<>>
    /\ IF Parse(command_buffer) \in Request
       THEN Push(Parse(command_buffer))
       ELSE UNCHANGED queueVars
    /\ UNCHANGED <<phase, executed>>

EndRead ==
    /\ phase = "read"
    /\ unread = 0
    /\ phase' = "drain"
    /\ UNCHANGED <<unread, lineVars, queueVars, executed>>

\* Mutant of Execute: one request a turn.
ExecuteOne ==
    /\ phase = "drain"
    /\ Pop
    /\ phase' = "poll"
    /\ UNCHANGED <<unread, lineVars>>

\* The loop that drains the queue, and its end
Execute ==
    /\ phase = "drain"
    /\ Pop
    /\ UNCHANGED <<phase, unread, lineVars>>

EndTurn ==
    /\ phase = "drain"
    /\ count = 0
    /\ phase' = "poll"
    /\ UNCHANGED <<unread, lineVars, queueVars, executed>>

Turn ==
    \/ EndPoll
    \/ \E c \in Char : ReadChar(c)
    \/ ReadEndOfLine
    \/ EndRead
    \/ Execute
    \/ EndTurn

Next == Turn \/ \E r \in Request : WebSubmit(r)

Spec == Init /\ [][Next]_vars

\* main.c calls bluetooth_task again and again, and no call of it blocks.
FairSpec == Spec /\ WF_vars(Turn)

-----------------------------------------------------------------------------
\* The queue stays within its array and the line within its buffer, with room
\* for the terminating zero.
TypeOK ==
    /\ phase \in {"poll", "read", "drain"}
    /\ unread \in 0..ReadSize
    /\ command_buffer \in Seq(Char) /\ Len(command_buffer) < BufferSize
    /\ requests \in [0..Capacity-1 -> Request \cup {NoRequest}]
    /\ head \in 0..Capacity-1
    /\ count \in 0..Capacity
    /\ answer \in {"none", "accepted", "refused"}
    /\ executed \in Request \cup {NoRequest}
    /\ typed \in Seq(Char)

\* The buffer holds the end of the typed line: all of it, or what follows the
\* last BufferSize characters that were dropped together.
BufferIsTail ==
    LET dropped == BufferSize * (Len(typed) \div BufferSize)
    IN  command_buffer = SubSeq(typed, dropped + 1, Len(typed))

\* The queue's contents, oldest first: the refinement mapping to RequestFifo.tla
Waiting == [i \in 1..count |-> requests[Slot(i - 1)]]
Fifo == INSTANCE RequestFifo WITH waiting <- Waiting

\* The ring of control_request_queue.c is the FIFO of RequestFifo.tla, for the
\* web page (202, 503) and the CDC line together.
QueueIsFifo == Fifo!Spec

\* The queue is emptied again and again, whatever the web page submits: what is
\* accepted does not wait for later turns.
QueueDrained == count > 0 ~> count = 0

-----------------------------------------------------------------------------
(* What the repository says and the code does not do.                      *)

\* A line that does not fit the buffer is not a command ("Command too long",
\* bluetooth.c:1195): only whole lines are submitted.
WholeLinesOnly ==
    [][ReadEndOfLine /\ count' # count => Parse(typed) \in Request]_vars

=============================================================================
