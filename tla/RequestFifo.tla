----------------------------- MODULE RequestFifo -----------------------------
(***************************************************************************)
(* What a submitter of control requests is promised: a request that is     *)
(* accepted is executed once, in the order of acceptance; a request is     *)
(* refused only when Capacity requests are waiting, and then never         *)
(* executed.                                                               *)
(***************************************************************************)
EXTENDS Naturals, Sequences

CONSTANTS
    Request,         \* control requests
    NoRequest,       \* none has been executed yet
    Capacity         \* requests that may wait

VARIABLES
    waiting,         \* accepted, oldest first
    answer,          \* to the last submission
    executed         \* the last request executed

vars == <<waiting, answer, executed>>

Init ==
    /\ waiting = <<>>
    /\ answer = "none"
    /\ executed = NoRequest

Accept(r) ==
    /\ Len(waiting) < Capacity
    /\ waiting' = Append(waiting, r)
    /\ answer' = "accepted"
    /\ UNCHANGED executed

Refuse ==
    /\ Len(waiting) = Capacity
    /\ answer' = "refused"
    /\ UNCHANGED <<waiting, executed>>

Execute ==
    /\ waiting # <<>>
    /\ executed' = Head(waiting)
    /\ waiting' = Tail(waiting)
    /\ UNCHANGED answer

Next ==
    \/ \E r \in Request : Accept(r)
    \/ Refuse
    \/ Execute

Spec == Init /\ [][Next]_vars

=============================================================================
