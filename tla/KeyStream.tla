------------------------------ MODULE KeyStream ------------------------------
(***************************************************************************)
(* What the USB side promises of keyboard reports, however it stores them: *)
(* the host receives them one at a time and in the order they were made.   *)
(* Older reports may be dropped in favour of a newer one, the newest one   *)
(* never is.                                                               *)
(***************************************************************************)
EXTENDS Naturals, Sequences

CONSTANTS
    Report,          \* complete keyboard states
    Released,        \* the state in which no key is pressed
    NoReport         \* the endpoint is free

VARIABLES
    pending,         \* reports made and not yet handed to the endpoint
    endpoint,        \* the report waiting for the host's next poll
    host,            \* the state the host last received
    newest           \* the state the host is to end up with

vars == <<pending, endpoint, host, newest>>

Init ==
    /\ pending = <<>>
    /\ endpoint = NoReport
    /\ host = Released
    /\ newest = Released

\* A new report takes the place of any number of the oldest ones.
Make(r) ==
    /\ \E dropped \in 0..Len(pending) :
           pending' = Append(SubSeq(pending, dropped + 1, Len(pending)), r)
    /\ newest' = r
    /\ UNCHANGED <<endpoint, host>>

Take ==
    /\ pending # <<>>
    /\ endpoint = NoReport
    /\ endpoint' = Head(pending)
    /\ pending' = Tail(pending)
    /\ UNCHANGED <<host, newest>>

Receive ==
    /\ endpoint # NoReport
    /\ host' = endpoint
    /\ endpoint' = NoReport
    /\ UNCHANGED <<pending, newest>>

\* A bus reset: the host forgets the device and what it was about to send.
Reset ==
    /\ endpoint' = NoReport
    /\ host' = Released
    /\ newest' = IF pending = <<>> THEN Released ELSE newest
    /\ UNCHANGED pending

Next ==
    \/ \E r \in Report : Make(r)
    \/ Take
    \/ Receive
    \/ Reset

Spec == Init /\ [][Next]_vars

=============================================================================
