----------------------------- MODULE DhcpLeases -----------------------------
(***************************************************************************)
(* web/dhcp_server.c: the table of leases of the configuration network.    *)
(* A client asks for an offer (DISCOVER) and takes an address (REQUEST);   *)
(* the server keeps the client of each address and the upper bits of the   *)
(* millisecond at which its lease ends.  Nothing is ever answered with a   *)
(* refusal: what cannot be granted is ignored.                             *)
(*                                                                         *)
(* The network is UDP: a reply may be lost, and a REQUEST may name any     *)
(* address, be it late, repeated or remembered from an earlier visit.      *)
(* Packets that are not well formed and requests for addresses outside of  *)
(* the table are ignored too and take no step.                             *)
(***************************************************************************)
EXTENDS Integers

CONSTANTS
    Client,          \* hardware addresses
    NoClient,        \* the hardware address 0
    MaxIp,           \* DHCPS_MAX_IP
    Clock,           \* values of the clock: 2^32 milliseconds
    Block,           \* milliseconds told apart by an expiry: 2^16
    LeaseTime        \* DEFAULT_LEASE_TIME_S * 1000

Address == 0..MaxIp-1
Half    == Clock \div 2

ASSUME ClientAssumption == NoClient \notin Client
ASSUME TableAssumption  == MaxIp \in Nat \ {0}
ASSUME ClockAssumption  ==
    /\ {Clock, Block, LeaseTime} \subseteq Nat \ {0}
    /\ Clock % Block = 0 /\ Clock % 2 = 0
    /\ LeaseTime + Block < Half

VARIABLES
    lease,           \* the table: mac and expiry of each address
    now,             \* cyw43_hal_ticks_ms()
    left,            \* history: how long each client may use each address
    age              \* history: time since the last DHCPACK of each address

vars == <<lease, now, left, age>>

\* From this age on a lease is past all that the clock can tell.
Never == LeaseTime + Half + 1

Init ==
    /\ lease = [i \in Address |-> [mac |-> NoClient, expiry |-> 0]]
    /\ now = 0
    /\ left = [i \in Address |-> [c \in Client |-> 0]]
    /\ age = [i \in Address |-> Never]

-----------------------------------------------------------------------------
First(S) == CHOOSE i \in S : \A j \in S : i <= j

\* Mutants of Expired: a lease ends with the start of its last block, and the
\* difference is not taken as a signed number.
ExpiredEarly(i) == (lease[i].expiry * Block - now) % Clock >= Half
ExpiredUnsigned(i) == lease[i].expiry * Block + Block - 1 < now

\* (int32_t) (expiry - now) < 0
Expired(i) == (lease[i].expiry * Block + Block - 1 - now) % Clock >= Half

Own(c) == {i \in Address : lease[i].mac = c}

\* Mutant of Candidates: an expired lease is not looked at.
CandidatesFree(c) ==
    {i \in Address : /\ \A j \in Own(c) : i < j
                     /\ lease[i].mac = NoClient}

\* The loop of DISCOVER stops at the client's first address, and on its way
\* there at most one address is kept in mind: the first that is free or expired.
Candidates(c) ==
    {i \in Address : /\ \A j \in Own(c) : i < j
                     /\ lease[i].mac = NoClient \/ Expired(i)}

\* An expired lease that is kept in mind is freed, offered or not.
Freed(c) ==
    IF Candidates(c) = {} THEN lease
    ELSE [lease EXCEPT ![First(Candidates(c))].mac = NoClient]

\* What can be offered to c, and what is: its own address before any other.
Offers(c) == Own(c) \cup Candidates(c)
Offer(c)  == First(IF Own(c) # {} THEN Own(c) ELSE Candidates(c))

\* DHCPDISCOVER, answered with Offer(c), or ignored when there is none
Discover(c) ==
    /\ Offers(c) # {}
    /\ lease' = Freed(c)
    /\ UNCHANGED <<now, left, age>>

\* DHCPREQUEST of a free address or the client's own, answered with DHCPACK.
Request(c, i) ==
    /\ lease[i].mac \in {c, NoClient}
    /\ lease' = [lease EXCEPT ![i] =
           [mac |-> c, expiry |-> ((now + LeaseTime) % Clock) \div Block]]
    /\ left' = [left EXCEPT ![i][c] = LeaseTime]
    /\ age' = [age EXCEPT ![i] = 0]
    /\ UNCHANGED now

Tick ==
    /\ now' = (now + 1) % Clock
    /\ left' = [i \in Address |-> [c \in Client |->
                   IF left[i][c] > 0 THEN left[i][c] - 1 ELSE 0]]
    /\ age' = [i \in Address |-> IF age[i] < Never THEN age[i] + 1 ELSE Never]
    /\ UNCHANGED lease

Next ==
    \/ \E c \in Client : Discover(c)
    \/ \E c \in Client, i \in Address : Request(c, i)
    \/ Tick

Spec == Init /\ [][Next]_vars

-----------------------------------------------------------------------------
\* An acknowledged address stays its client's until the time it was granted for
\* is over, whatever others ask for and wherever the clock wraps: so no two
\* clients use an address at the same time.
LeaseKept ==
    \A i \in Address, c \in Client : left[i][c] > 0 => lease[i].mac = c

\* An address is only offered to a client when no other may still use it.
OthersNotDisturbed ==
    \A c \in Client : Offers(c) # {} =>
        \A other \in Client \ {c} : left[Offer(c)][other] = 0

\* A client is left without an offer only while every address is leased, or has
\* not been for so long that half a turn of the clock went by and its old
\* expiry lies in the future again (25 days of the 50 that 32 bits count).
RefusedOnlyIfFull ==
    \A c \in Client : Offers(c) = {} =>
        \A i \in Address : age[i] <= LeaseTime + Block \/ age[i] > LeaseTime + Half

=============================================================================
