--------------------------- MODULE DhcpLeasesProofs ---------------------------
(***************************************************************************)
(* The leases of the configuration network, for every size of the table,   *)
(* every set of clients and every clock: an acknowledged address stays its *)
(* client's for the time it was granted for, wherever the clock wraps, no  *)
(* offer takes it away, and a client is refused only while the table is    *)
(* full as far as the clock can tell.                                      *)
(***************************************************************************)
EXTENDS DhcpLeases, WellFoundedInduction, TLAPS

\* The last millisecond of a lease, as the code computes it from the expiry
Deadline(i) == lease[i].expiry * Block + Block - 1

LeaseTypeOK ==
    /\ lease \in [Address -> [mac : Client \cup {NoClient},
                              expiry : 0..(Clock \div Block)-1]]
    /\ now \in 0..Clock-1
    /\ left \in [Address -> [Client -> 0..LeaseTime]]
    /\ age \in [Address -> 0..Never]

\* What is left of a lease, as far as the clock can tell
Remaining(i) == (Deadline(i) - now) % Clock

\* Until it is past all that the clock can tell, the expiry says how old a lease
\* is: its deadline lies LeaseTime, and less than a block, after its DHCPACK.
ExpiryTellsAge ==
    \A i \in Address : age[i] # Never =>
        \E granted \in LeaseTime..LeaseTime + Block - 1 :
            Remaining(i) \in {granted - age[i], granted - age[i] + Clock}

\* Who may use an address is the one its lease names, since the last DHCPACK.
UseIsLeased ==
    \A i \in Address, c \in Client : left[i][c] > 0 =>
        lease[i].mac = c /\ left[i][c] = LeaseTime - age[i]

\* What holds in every state: LeaseKept is a part of it, and needs both others.
Inv == LeaseTypeOK /\ ExpiryTellsAge /\ UseIsLeased

-----------------------------------------------------------------------------
(* The clock.                                                              *)

LEMMA ClockFacts ==
    /\ Clock \in Nat \ {0} /\ Block \in Nat \ {0} /\ LeaseTime \in Nat \ {0}
    /\ Half \in Nat /\ Clock = 2 * Half
    /\ LeaseTime + Block < Half
    /\ Never = LeaseTime + Half + 1
<1>1. Clock \in Nat \ {0} /\ Block \in Nat \ {0} /\ LeaseTime \in Nat \ {0}
      /\ Clock % 2 = 0 /\ LeaseTime + Block < Half
  BY ClockAssumption
<1>2. Half \in Nat /\ Clock = 2 * Half
  BY <1>1 DEF Half
<1> QED
  BY <1>1, <1>2 DEF Never

\* A quotient and a remainder determine each other.
LEMMA RemainderIsUnique ==
    ASSUME NEW n \in Nat \ {0}, NEW q \in Int, NEW r \in 0..n-1
    PROVE  (n * q + r) % n = r
<1> DEFINE x == n * q + r
           k == x \div n
           m == x % n
<1>1. n * q \in Int /\ x \in Int
  OBVIOUS
<1> HIDE DEF x
<1>2. k \in Int /\ m \in 0..n-1 /\ x = n * k + m
  BY <1>1
<1> HIDE DEF k, m
<1>3. n * q + r = n * k + m
  BY <1>2 DEF x
<1>4. n * (q - k) = m - r
  <2>1. n * (q - k) = n * q - n * k /\ n * k \in Int
    BY <1>2
  <2> QED
    BY <1>1, <1>2, <1>3, <2>1
<1>5. ~(q > k)
  <2> SUFFICES ASSUME q - k >= 1 PROVE FALSE
    BY <1>2
  <2>1. n * (q - k) >= n
    BY <1>2
  <2> QED
    BY <1>2, <1>4, <2>1
<1>6. ~(q < k)
  <2> SUFFICES ASSUME q - k <= -1 PROVE FALSE
    BY <1>2
  <2>1. n * (q - k) <= -n
    BY <1>2
  <2> QED
    BY <1>2, <1>4, <2>1
<1>7. q = k
  BY <1>2, <1>5, <1>6
<1>8. m = r
  BY <1>1, <1>2, <1>3, <1>7
<1> QED
  BY <1>8 DEF m, x

\* Differences of times, one turn of the clock and one tick apart
LEMMA ClockTurns ==
    ASSUME NEW x \in Int
    PROVE  /\ x % Clock \in 0..Clock-1
           /\ (x + Clock) % Clock = x % Clock
           /\ (x - 1) % Clock = IF x % Clock = 0 THEN Clock - 1 ELSE (x % Clock) - 1
           /\ x \in 0..Clock-1 => x % Clock = x
<1>1. Clock \in Nat \ {0}
  BY ClockFacts
<1>2. x % Clock \in 0..Clock-1
  BY <1>1
<1> DEFINE q == x \div Clock
           r == x % Clock
<1>a. /\ q \in Int /\ r \in 0..Clock-1 /\ x = Clock * q + r
      /\ Clock * q \in Int
      /\ Clock * (q + 1) = Clock * q + Clock
      /\ Clock * (q - 1) = Clock * q - Clock
  BY <1>1
<1> HIDE DEF q, r
<1>3. (x + Clock) % Clock = r
  <2>1. x + Clock = Clock * (q + 1) + r
    BY <1>1, <1>a
  <2> QED
    BY <1>1, <1>a, <2>1, RemainderIsUnique
<1>4. (x - 1) % Clock = IF r = 0 THEN Clock - 1 ELSE r - 1
  <2>1. CASE r = 0
    <3>1. x - 1 = Clock * (q - 1) + (Clock - 1)
      BY <1>1, <1>a, <2>1
    <3>2. q - 1 \in Int /\ Clock - 1 \in 0..Clock-1
      BY <1>1, <1>a
    <3> QED
      BY <1>1, <2>1, <3>1, <3>2, RemainderIsUnique
  <2>2. CASE r # 0
    <3>1. x - 1 = Clock * q + (r - 1) /\ r - 1 \in 0..Clock-1
      BY <1>1, <1>a, <2>2
    <3> QED
      BY <1>1, <1>a, <2>2, <3>1, RemainderIsUnique
  <2> QED
    BY <2>1, <2>2
<1>5. x \in 0..Clock-1 => x % Clock = x
  BY <1>1
<1> QED
  BY <1>2, <1>3, <1>4, <1>5 DEF r

LEMMA DeadlineIsInt ==
    ASSUME LeaseTypeOK, NEW i \in Address
    PROVE  /\ Deadline(i) \in Int /\ now \in 0..Clock-1
           /\ lease[i].mac \in Client \cup {NoClient}
           /\ age[i] \in 0..Never
           /\ \A c \in Client : left[i][c] \in 0..LeaseTime
<1>1. Block \in Nat \ {0} /\ lease[i].expiry \in Nat
  BY ClockFacts DEF LeaseTypeOK
<1>2. lease[i].expiry * Block \in Nat
  BY <1>1
<1> QED
  BY <1>1, <1>2 DEF LeaseTypeOK, Deadline

\* The difference that the code takes
LEMMA RemainingIsExpiry ==
    ASSUME LeaseTypeOK, NEW i \in Address
    PROVE  Remaining(i) = (lease[i].expiry * Block + Block - 1 - now) % Clock
<1>1. /\ lease[i].expiry * Block \in Int /\ Block \in Int /\ now \in Int
  <2>1. lease[i].expiry \in Nat /\ Block \in Nat
    BY ClockFacts DEF LeaseTypeOK
  <2> QED
    BY <2>1 DEF LeaseTypeOK
<1>2. lease[i].expiry * Block + Block - 1 - now = Deadline(i) - now
  BY <1>1 DEF Deadline
<1> QED
  BY <1>2 DEF Remaining

\* A lease that ends LeaseTime from now: its expiry, and its deadline
LEMMA GrantedExpiry ==
    ASSUME NEW t \in 0..Clock-1
    PROVE  LET e == ((t + LeaseTime) % Clock) \div Block IN
           /\ e \in 0..(Clock \div Block)-1
           /\ (e * Block + Block - 1 - t) % Clock \in LeaseTime..LeaseTime + Block - 1
<1> DEFINE s == (t + LeaseTime) % Clock
           e == s \div Block
           d == e * Block + Block - 1
<1>1. /\ Clock \in Nat \ {0} /\ Block \in Nat \ {0} /\ LeaseTime \in Nat \ {0}
      /\ LeaseTime + Block < Clock
      /\ Clock % Block = 0
  BY ClockFacts, ClockAssumption
<1>2. /\ s \in 0..Clock-1
      /\ s = IF t + LeaseTime < Clock THEN t + LeaseTime ELSE t + LeaseTime - Clock
  BY <1>1
<1> HIDE DEF s
<1>3. /\ e \in Nat /\ s % Block \in 0..Block-1 /\ s = Block * e + (s % Block)
      /\ e * Block = Block * e
  BY <1>1, <1>2
<1>4. e < Clock \div Block
  <2>1. Clock \div Block \in Nat /\ Clock = Block * (Clock \div Block)
    BY <1>1
  <2>2. Block * e < Block * (Clock \div Block)
    BY <1>1, <1>2, <1>3, <2>1
  <2> QED
    BY <1>1, <1>3, <2>1, <2>2
<1>5. d \in s..s + Block - 1
  <2>1. Block * e \in Nat
    BY <1>1, <1>3
  <2> QED
    BY <1>1, <1>2, <1>3, <2>1
<1>6. (d - t) % Clock \in LeaseTime..LeaseTime + Block - 1
  <2> HIDE DEF d
  <2>1. CASE t + LeaseTime < Clock
    <3>1. d - t \in LeaseTime..LeaseTime + Block - 1
      BY <1>1, <1>2, <1>5, <2>1
    <3>2. d - t \in 0..Clock-1
      BY <1>1, <3>1
    <3> QED
      BY <3>1, <3>2, ClockTurns
  <2>2. CASE ~(t + LeaseTime < Clock)
    <3>1. d - t + Clock \in LeaseTime..LeaseTime + Block - 1 /\ d - t \in Int
      BY <1>1, <1>2, <1>5, <2>2
    <3>2. d - t + Clock \in 0..Clock-1
      BY <1>1, <3>1
    <3>3. (d - t) % Clock = d - t + Clock
      BY <3>1, <3>2, ClockTurns
    <3> QED
      BY <3>1, <3>3
  <2> QED
    BY <2>1, <2>2
<1>7. Clock \div Block \in Nat
  BY <1>1
<1>8. e \in 0..(Clock \div Block)-1
  BY <1>3, <1>4, <1>7
<1>9. e * Block + Block - 1 - t = d - t
  BY <1>1, <1>3
<1> QED
  BY <1>6, <1>8, <1>9, Zenon DEF s

\* The age of a lease and its expiry: within LeaseTime it has not expired, and
\* from the end of its last block on for half a turn of the clock it has.
LEMMA ExpiryIsTimely ==
    ASSUME Inv, NEW i \in Address, age[i] # Never
    PROVE  /\ age[i] <= LeaseTime => ~Expired(i)
           /\ age[i] > LeaseTime + Block => Expired(i)
<1>1. PICK granted \in LeaseTime..LeaseTime + Block - 1 :
          Remaining(i) \in {granted - age[i], granted - age[i] + Clock}
  BY DEF Inv, ExpiryTellsAge
<1>2. /\ Clock = 2 * Half /\ Half \in Nat /\ LeaseTime \in Nat /\ Block \in Nat
      /\ LeaseTime + Block < Half /\ Never = LeaseTime + Half + 1
  BY ClockFacts
<1>3. age[i] \in 0..LeaseTime + Half /\ Remaining(i) \in 0..Clock-1
  <2>1. /\ age[i] \in 0..Never
        /\ Deadline(i) - now \in Int
    BY <1>2, DeadlineIsInt DEF Inv
  <2>2. Remaining(i) \in 0..Clock-1
    BY <2>1, ClockTurns DEF Remaining
  <2> QED
    BY <1>2, <2>1, <2>2
<1>4. Expired(i) <=> Remaining(i) >= Half
  BY RemainingIsExpiry DEF Inv, Expired
<1> QED
  BY <1>1, <1>2, <1>3, <1>4

-----------------------------------------------------------------------------
(* What DISCOVER looks at.                                                 *)

Less == {p \in Nat \X Nat : p[1] < p[2]}

\* First picks a member of a set of addresses.
LEMMA FirstIsMember ==
    ASSUME NEW S \in SUBSET Address, S # {}
    PROVE  First(S) \in S
<1>1. S \subseteq Nat
  BY TableAssumption DEF Address
<1>2. IsWellFoundedOn(Less, Nat)
  <2>1. Less = OpToRel(<, Nat)
    BY DEF Less, OpToRel
  <2> QED
    BY NatLessThanWellFounded DEF Less, OpToRel
<1>3. PICK i \in S : \A j \in S : ~(<<j, i>> \in Less)
  BY <1>1, <1>2, WFMin
<1>4. ASSUME NEW j \in S
      PROVE  i <= j
  <2>1. i \in Nat /\ j \in Nat
    BY <1>1
  <2>2. ~(j < i)
    BY <1>3, <2>1 DEF Less
  <2> QED
    BY <2>1, <2>2
<1> QED
  BY <1>4 DEF First

\* Nobody may use an address that DISCOVER takes for free or expired.
LEMMA CandidatesAreFree ==
    ASSUME Inv, NEW c \in Client, NEW i \in Candidates(c), NEW other \in Client
    PROVE  left[i][other] = 0
<1> SUFFICES ASSUME left[i][other] # 0 PROVE FALSE
  OBVIOUS
<1>1. i \in Address /\ (lease[i].mac = NoClient \/ Expired(i))
  BY DEF Candidates
<1>2. left[i][other] \in 0..LeaseTime /\ age[i] \in 0..Never
  BY <1>1, DeadlineIsInt DEF Inv
<1>3. LeaseTime \in Nat /\ Half \in Nat /\ Never = LeaseTime + Half + 1
  BY ClockFacts
<1>4. left[i][other] > 0
  BY <1>2, <1>3
<1>5. lease[i].mac = other /\ left[i][other] = LeaseTime - age[i]
  BY <1>1, <1>4 DEF Inv, UseIsLeased
<1>6. age[i] # Never /\ age[i] <= LeaseTime
  BY <1>2, <1>3, <1>4, <1>5
<1>7. ~Expired(i)
  BY <1>1, <1>6, ExpiryIsTimely
<1> QED
  BY <1>1, <1>5, <1>7, ClientAssumption

-----------------------------------------------------------------------------
(* The invariant.                                                          *)

LEMMA InitInv == Init => Inv
<1> SUFFICES ASSUME Init PROVE Inv
  OBVIOUS
<1>1. /\ Clock \in Nat \ {0} /\ LeaseTime \in Nat /\ Never \in Nat
      /\ Clock \div Block \in Nat \ {0}
  <2>1. Clock \in Nat \ {0} /\ Block \in Nat \ {0} /\ Clock % Block = 0
    BY ClockFacts, ClockAssumption
  <2>2. Clock \div Block \in Nat /\ Clock = Block * (Clock \div Block)
    BY <2>1
  <2>3. Clock \div Block # 0
    BY <2>1, <2>2
  <2> QED
    BY <2>1, <2>2, <2>3, ClockFacts
<1>2. /\ 0 \in 0..(Clock \div Block)-1 /\ 0 \in 0..Clock-1
      /\ 0 \in 0..LeaseTime /\ Never \in 0..Never
  BY <1>1
<1>3. LeaseTypeOK
  BY <1>2 DEF Init, LeaseTypeOK
<1>4. ExpiryTellsAge
  BY DEF Init, ExpiryTellsAge
<1>5. UseIsLeased
  BY DEF Init, UseIsLeased
<1> QED
  BY <1>3, <1>4, <1>5 DEF Inv

\* DISCOVER frees at most one address, which nobody may use.
LEMMA DiscoverInv ==
    ASSUME Inv, NEW c \in Client, Discover(c)
    PROVE  Inv'
<1>1. lease' = Freed(c) /\ UNCHANGED <<now, left, age>>
  BY DEF Discover
<1>2. CASE Candidates(c) = {}
  <2>1. lease' = lease
    BY <1>1, <1>2 DEF Freed
  <2> QED
    BY <1>1, <2>1 DEF Inv, LeaseTypeOK, ExpiryTellsAge, UseIsLeased, Remaining, Deadline
<1>3. CASE Candidates(c) # {}
  <2> DEFINE f == First(Candidates(c))
  <2>1. f \in Candidates(c) /\ f \in Address
    BY <1>3, FirstIsMember DEF Candidates
  <2>2. lease' = [lease EXCEPT ![f].mac = NoClient]
    BY <1>1, <1>3 DEF Freed
  <2>3. \A other \in Client : left[f][other] = 0
    BY <2>1, CandidatesAreFree
  <2> HIDE DEF f
  <2>4. LeaseTypeOK'
    BY <1>1, <2>1, <2>2 DEF Inv, LeaseTypeOK
  <2>5. \A i \in Address : /\ lease'[i].expiry = lease[i].expiry
                           /\ i # f => lease'[i].mac = lease[i].mac
    BY <2>2 DEF Inv, LeaseTypeOK
  <2>6. ExpiryTellsAge'
    <3>1. \A i \in Address : Remaining(i)' = Remaining(i)
      BY <1>1, <2>5, Zenon DEF Remaining, Deadline
    <3> QED
      BY <1>1, <3>1 DEF Inv, ExpiryTellsAge
  <2>7. UseIsLeased'
    <3> SUFFICES ASSUME NEW i \in Address, NEW other \in Client, left[i][other] > 0
                 PROVE  /\ lease'[i].mac = other
                        /\ left[i][other] = LeaseTime - age[i]
      BY <1>1 DEF UseIsLeased
    <3>1. i # f
      BY <2>3
    <3> QED
      BY <2>5, <3>1 DEF Inv, UseIsLeased
  <2> QED
    BY <2>4, <2>6, <2>7 DEF Inv
<1> QED
  BY <1>2, <1>3

\* REQUEST: nobody else may use the address, and its expiry is a new one.
LEMMA RequestInv ==
    ASSUME Inv, NEW c \in Client, NEW i \in Address, Request(c, i)
    PROVE  Inv'
<1> DEFINE e == ((now + LeaseTime) % Clock) \div Block
<1>1. /\ lease[i].mac \in {c, NoClient}
      /\ lease' = [lease EXCEPT ![i] = [mac |-> c, expiry |-> e]]
      /\ left' = [left EXCEPT ![i][c] = LeaseTime]
      /\ age' = [age EXCEPT ![i] = 0]
      /\ now' = now
  BY DEF Request
<1>2. /\ lease \in [Address -> [mac : Client \cup {NoClient},
                                expiry : 0..(Clock \div Block)-1]]
      /\ now \in 0..Clock-1
      /\ left \in [Address -> [Client -> 0..LeaseTime]]
      /\ age \in [Address -> 0..Never]
  BY DEF Inv, LeaseTypeOK
<1>3. /\ e \in 0..(Clock \div Block)-1
      /\ (e * Block + Block - 1 - now) % Clock \in LeaseTime..LeaseTime + Block - 1
  BY <1>2, GrantedExpiry
<1> HIDE DEF e
<1>4. LeaseTime \in 0..LeaseTime /\ 0 \in 0..Never /\ LeaseTime \in Nat
  BY ClockFacts
<1>5. LeaseTypeOK'
  BY <1>1, <1>2, <1>3, <1>4 DEF LeaseTypeOK
<1>6. /\ lease'[i].mac = c /\ lease'[i].expiry = e /\ age'[i] = 0
      /\ left'[i][c] = LeaseTime
      /\ \A other \in Client \ {c} : left'[i][other] = left[i][other]
      /\ \A j \in Address \ {i} : /\ lease'[j] = lease[j] /\ age'[j] = age[j]
                                  /\ left'[j] = left[j]
  BY <1>1, <1>2
<1>7. ExpiryTellsAge'
  <2> SUFFICES ASSUME NEW j \in Address, age'[j] # Never
               PROVE  \E granted \in LeaseTime..LeaseTime + Block - 1 :
                          Remaining(j)' \in {granted - age'[j], granted - age'[j] + Clock}
    BY Zenon DEF ExpiryTellsAge
  <2>1. CASE j = i
    <3>0. Block \in Int /\ e * Block \in Int /\ now \in Int
      BY <1>2, <1>3, ClockFacts
    <3>1. Remaining(i)' = (e * Block + Block - 1 - now) % Clock
      <4>1. Deadline(i)' - now' = e * Block + Block - 1 - now
        BY <1>1, <1>6, <3>0 DEF Deadline
      <4> QED
        BY <4>1 DEF Remaining
    <3>2. Remaining(i)' \in LeaseTime..LeaseTime + Block - 1
      BY <1>3, <3>1
    <3>3. LeaseTime \in Int /\ Block \in Int
      BY ClockFacts
    <3>4. Remaining(i)' = Remaining(i)' - age'[i]
      BY <1>6, <3>2, <3>3
    <3> QED
      BY <2>1, <3>2, <3>4
  <2>2. CASE j # i
    <3>1. Remaining(j)' = Remaining(j) /\ age'[j] = age[j]
      BY <1>1, <1>6, <2>2, Zenon DEF Remaining, Deadline
    <3> QED
      BY <3>1 DEF Inv, ExpiryTellsAge
  <2> QED
    BY <2>1, <2>2
<1>8. UseIsLeased'
  <2> SUFFICES ASSUME NEW j \in Address, NEW other \in Client, left'[j][other] > 0
               PROVE  /\ lease'[j].mac = other
                      /\ left'[j][other] = LeaseTime - age'[j]
    BY DEF UseIsLeased
  <2>1. CASE j # i
    BY <1>6, <2>1 DEF Inv, UseIsLeased
  <2>2. CASE j = i /\ other = c
    BY <1>4, <1>6, <2>2
  <2>3. CASE j = i /\ other # c
    <3>1. left[i][other] > 0
      BY <1>6, <2>3
    <3>2. lease[i].mac = other
      BY <3>1 DEF Inv, UseIsLeased
    <3> QED
      BY <1>1, <2>3, <3>2, ClientAssumption
  <2> QED
    BY <2>1, <2>2, <2>3
<1> QED
  BY <1>5, <1>7, <1>8 DEF Inv

\* A tick: the remaining time and the use shrink by what the age grows.
LEMMA TickInv ==
    ASSUME Inv, Tick
    PROVE  Inv'
<1>1. /\ now' = (now + 1) % Clock /\ lease' = lease
      /\ left' = [i \in Address |-> [c \in Client |->
                     IF left[i][c] > 0 THEN left[i][c] - 1 ELSE 0]]
      /\ age' = [i \in Address |-> IF age[i] < Never THEN age[i] + 1 ELSE Never]
  BY DEF Tick
<1>2. /\ Clock \in Nat \ {0} /\ Clock = 2 * Half /\ Half \in Nat /\ LeaseTime \in Nat
      /\ Block \in Nat /\ LeaseTime + Block < Half /\ Never = LeaseTime + Half + 1
  BY ClockFacts
<1>3. /\ left \in [Address -> [Client -> 0..LeaseTime]]
      /\ age \in [Address -> 0..Never]
  BY DEF Inv, LeaseTypeOK
<1>4. ASSUME NEW i \in Address
      PROVE  /\ age'[i] = IF age[i] < Never THEN age[i] + 1 ELSE Never
             /\ age'[i] \in 0..Never
  BY <1>1, <1>2, <1>3
<1>5. ASSUME NEW i \in Address, NEW c \in Client
      PROVE  /\ left'[i][c] = IF left[i][c] > 0 THEN left[i][c] - 1 ELSE 0
             /\ left'[i][c] \in 0..LeaseTime
  BY <1>1, <1>2, <1>3
<1>6. LeaseTypeOK'
  <2>1. now' \in 0..Clock-1
    BY <1>1, <1>2, ClockTurns DEF Inv, LeaseTypeOK
  <2>2. age' \in [Address -> 0..Never]
    BY <1>1, <1>4
  <2>3. left' \in [Address -> [Client -> 0..LeaseTime]]
    BY <1>1, <1>5
  <2> QED
    BY <1>1, <2>1, <2>2, <2>3 DEF Inv, LeaseTypeOK
<1>7. ASSUME NEW i \in Address
      PROVE  /\ Remaining(i) \in 0..Clock-1
             /\ Remaining(i)' = IF Remaining(i) = 0 THEN Clock - 1 ELSE Remaining(i) - 1
  <2> DEFINE d == Deadline(i)
  <2>1. d \in Int /\ now \in 0..Clock-1
    BY DeadlineIsInt DEF Inv
  <2>2. Remaining(i) = (d - now) % Clock /\ Remaining(i)' = (d - now') % Clock
    BY <1>1, Zenon DEF Remaining, Deadline
  <2> HIDE DEF d
  <2>3. (d - now') % Clock = (d - now - 1) % Clock
    <3>1. CASE now + 1 < Clock
      <4>1. now' = now + 1
        BY <1>1, <1>2, <2>1, <3>1, ClockTurns
      <4>2. d - now' = d - now - 1
        BY <2>1, <4>1
      <4> QED
        BY <4>2
    <3>2. CASE ~(now + 1 < Clock)
      <4>1. now = Clock - 1
        BY <1>2, <2>1, <3>2
      <4>2. now' = 0
        BY <1>1, <1>2, <4>1
      <4>3. d - now' = (d - now - 1) + Clock /\ d - now - 1 \in Int
        BY <1>2, <2>1, <4>1, <4>2
      <4> QED
        BY <4>3, ClockTurns
    <3> QED
      BY <3>1, <3>2
  <2>4. d - now \in Int
    BY <2>1, <1>2
  <2> QED
    BY <2>2, <2>3, <2>4, ClockTurns
<1>8. ExpiryTellsAge'
  <2> SUFFICES ASSUME NEW i \in Address, age'[i] # Never
               PROVE  \E granted \in LeaseTime..LeaseTime + Block - 1 :
                          Remaining(i)' \in {granted - age'[i], granted - age'[i] + Clock}
    BY Zenon DEF ExpiryTellsAge
  <2>1. age[i] \in 0..Never /\ age[i] # Never /\ age'[i] = age[i] + 1
    BY <1>2, <1>3, <1>4
  <2>2. PICK granted \in LeaseTime..LeaseTime + Block - 1 :
            Remaining(i) \in {granted - age[i], granted - age[i] + Clock}
    BY <2>1 DEF Inv, ExpiryTellsAge
  <2>3. Remaining(i)' \in {granted - age'[i], granted - age'[i] + Clock}
    BY <1>2, <1>7, <2>1, <2>2
  <2> QED
    BY <2>3
<1>9. UseIsLeased'
  <2> SUFFICES ASSUME NEW i \in Address, NEW c \in Client, left'[i][c] > 0
               PROVE  /\ lease[i].mac = c
                      /\ left'[i][c] = LeaseTime - age'[i]
    BY <1>1 DEF UseIsLeased
  <2>1. /\ left[i][c] \in 0..LeaseTime /\ age[i] \in 0..Never
        /\ left[i][c] > 0 /\ left'[i][c] = left[i][c] - 1
    BY <1>2, <1>3, <1>5
  <2>2. lease[i].mac = c /\ left[i][c] = LeaseTime - age[i]
    BY <2>1 DEF Inv, UseIsLeased
  <2>3. age[i] < Never
    BY <1>2, <2>1, <2>2
  <2> QED
    BY <1>2, <1>4, <2>1, <2>2, <2>3
<1> QED
  BY <1>6, <1>8, <1>9 DEF Inv

LEMMA StepInv == Inv /\ [Next]_vars => Inv'
<1> SUFFICES ASSUME Inv, [Next]_vars PROVE Inv'
  OBVIOUS
<1>1. CASE UNCHANGED vars
  BY <1>1 DEF vars, Inv, LeaseTypeOK, ExpiryTellsAge, UseIsLeased, Remaining, Deadline
<1> QED
  BY <1>1, DiscoverInv, RequestInv, TickInv DEF Next

LEMMA Invariant == Spec => []Inv
  BY InitInv, StepInv, PTL DEF Spec

\* The table, its expiries and the clock keep their types.
THEOREM TypeCorrect == Spec => []LeaseTypeOK
<1>1. Inv => LeaseTypeOK
  BY DEF Inv
<1> QED
  BY <1>1, Invariant, PTL

\* An acknowledged address stays its client's until the time it was granted for
\* is over, whatever others ask for and wherever the clock wraps.
THEOREM LeasesAreKept == Spec => []LeaseKept
<1>1. Inv => LeaseKept
  BY DEF Inv, UseIsLeased, LeaseKept
<1> QED
  BY <1>1, Invariant, PTL

\* An address is only offered to a client when no other may still use it.
THEOREM OffersDisturbNobody == Spec => []OthersNotDisturbed
<1>1. Inv => OthersNotDisturbed
  <2> SUFFICES ASSUME Inv, NEW c \in Client, Offers(c) # {},
                      NEW other \in Client \ {c}
               PROVE  left[Offer(c)][other] = 0
    BY DEF OthersNotDisturbed
  <2>1. CASE Own(c) # {}
    <3>1. Offer(c) \in Own(c)
      BY <2>1, FirstIsMember DEF Offer, Own
    <3>2. Offer(c) \in Address /\ lease[Offer(c)].mac = c
      BY <3>1 DEF Own
    <3>3. left[Offer(c)][other] \in 0..LeaseTime /\ LeaseTime \in Nat
      BY <3>2, DeadlineIsInt, ClockFacts DEF Inv
    <3>4. ~(left[Offer(c)][other] > 0)
      BY <3>2 DEF Inv, UseIsLeased
    <3> QED
      BY <3>3, <3>4
  <2>2. CASE Own(c) = {}
    <3>1. Candidates(c) # {} /\ Offer(c) = First(Candidates(c))
      BY <2>2 DEF Offers, Offer
    <3>2. Offer(c) \in Candidates(c)
      BY <3>1, FirstIsMember DEF Candidates
    <3> QED
      BY <3>2, CandidatesAreFree
  <2> QED
    BY <2>1, <2>2
<1> QED
  BY <1>1, Invariant, PTL

\* A client is left without an offer only while every address is leased, or was
\* so long ago that its old expiry lies in the future again.
THEOREM RefusedOnlyWhenFull == Spec => []RefusedOnlyIfFull
<1>1. Inv => RefusedOnlyIfFull
  <2> SUFFICES ASSUME Inv, NEW c \in Client, Offers(c) = {}, NEW i \in Address
               PROVE  age[i] <= LeaseTime + Block \/ age[i] > LeaseTime + Half
    BY DEF RefusedOnlyIfFull
  <2>1. Own(c) = {} /\ i \notin Candidates(c)
    BY DEF Offers
  <2>2. ~Expired(i)
    BY <2>1 DEF Candidates
  <2>3. /\ age[i] \in 0..Never /\ LeaseTime \in Nat /\ Block \in Nat /\ Half \in Nat
        /\ Never = LeaseTime + Half + 1
    BY DeadlineIsInt, ClockFacts DEF Inv
  <2>4. age[i] # Never => ~(age[i] > LeaseTime + Block)
    BY <2>2, ExpiryIsTimely
  <2> QED
    BY <2>3, <2>4
<1> QED
  BY <1>1, Invariant, PTL

=============================================================================
