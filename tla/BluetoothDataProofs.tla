------------------------- MODULE BluetoothDataProofs -------------------------
(***************************************************************************)
(* What the operators of DeviceManager.tla and HidChannels.tla return, for *)
(* every list and every record: each keeps a list of devices a list of     *)
(* devices of the allowed length, the lookups return a position of the     *)
(* list or 0, the C code's NULL, and what an operation has no business     *)
(* with stays as it was.                                                   *)
(***************************************************************************)
EXTENDS DeviceManager, HidChannels, WellFoundedInduction, TLAPS

-----------------------------------------------------------------------------
(* The list of devices.                                                    *)

Less == {p \in Nat \X Nat : p[1] < p[2]}

\* < on the naturals as a set of pairs, for the library's theorems.
LEMMA LessWellFounded == IsWellFoundedOn(Less, Nat)
<1>1. Less = OpToRel(<, Nat)
  BY DEF Less, OpToRel
<1> QED
  BY NatLessThanWellFounded DEF Less, OpToRel

\* First returns the least of a set of positions, and 0 only for none.
LEMMA FirstIsPosition ==
    ASSUME NEW S \in SUBSET (Nat \ {0})
    PROVE  /\ S # {} => First(S) \in S /\ First(S) # 0
           /\ S = {} => First(S) = 0
           /\ \A j \in S : First(S) <= j
<1>1. CASE S = {}
  BY <1>1 DEF First
<1>2. CASE S # {}
  <2>1. PICK i \in S : \A j \in S : ~(<<j, i>> \in Less)
    BY <1>2, LessWellFounded, WFMin
  <2>2. \A j \in S : i <= j
    <3> TAKE j \in S
    <3>1. i \in Nat /\ j \in Nat
      OBVIOUS
    <3>2. ~(j < i)
      BY <2>1, <3>1 DEF Less
    <3> QED
      BY <3>1, <3>2
  <2> QED
    BY <1>2, <2>2 DEF First
<1> QED
  BY <1>1, <1>2

\* device_manager_find returns a device with the address it was asked for,
\* whenever the list holds one, and NULL otherwise.
LEMMA FindIsCorrect ==
    ASSUME NEW list, NEW D, list \in Seq(D), NEW a
    PROVE  /\ Known(list, a) => /\ Find(list, a) \in DOMAIN list
                                /\ Find(list, a) # 0
                                /\ list[Find(list, a)].address = a
           /\ ~Known(list, a) => Find(list, a) = 0
<1> DEFINE S == {i \in DOMAIN list : list[i].address = a}
<1>1. DOMAIN list = 1..Len(list) /\ Len(list) \in Nat
  OBVIOUS
<1>2. S \in SUBSET (Nat \ {0})
  BY <1>1
<1>3. Find(list, a) = First(S)
  BY DEF Find
<1>4. Known(list, a) <=> S # {}
  BY DEF Known
<1> HIDE DEF S
<1>5. /\ S # {} => First(S) \in S /\ First(S) # 0
      /\ S = {} => First(S) = 0
  BY <1>2, FirstIsPosition
<1> QED
  BY <1>3, <1>4, <1>5 DEF S

\* device_manager_get_connection_target returns a supported device, a bonded
\* one whenever the list holds one, and NULL only if nothing is supported.
LEMMA TargetIsCorrect ==
    ASSUME NEW list, NEW D, list \in Seq(D)
    PROVE  LET i == ConnectionTarget(list) IN
           /\ i # 0 => i \in DOMAIN list /\ list[i].hid_supported
           /\ i = 0 => \A j \in DOMAIN list : ~list[j].hid_supported
           /\ (\E j \in DOMAIN list : list[j].hid_supported /\ list[j].bonded)
                  => i # 0 /\ list[i].bonded
<1> DEFINE B == {i \in DOMAIN list : list[i].hid_supported /\ list[i].bonded}
           A == {i \in DOMAIN list : list[i].hid_supported}
<1>1. DOMAIN list = 1..Len(list) /\ Len(list) \in Nat
  OBVIOUS
<1>2. A \in SUBSET (Nat \ {0}) /\ B \in SUBSET (Nat \ {0})
  BY <1>1
<1>3. ConnectionTarget(list) = IF First(B) # 0 THEN First(B) ELSE First(A)
  BY DEF ConnectionTarget
<1> HIDE DEF A, B
<1>4. /\ A # {} => First(A) \in A /\ First(A) # 0
      /\ A = {} => First(A) = 0
  BY <1>2, FirstIsPosition
<1>5. /\ B # {} => First(B) \in B /\ First(B) # 0
      /\ B = {} => First(B) = 0
  BY <1>2, FirstIsPosition
<1> QED
  BY <1>3, <1>4, <1>5 DEF A, B

-----------------------------------------------------------------------------
\* A list rewritten element by element is a list of the same length.
LEMMA RewrittenList ==
    ASSUME NEW D, NEW max \in Nat, NEW list \in DeviceList(D, max), NEW f,
           f = [i \in DOMAIN list |-> f[i]],
           \A i \in DOMAIN list : f[i] \in D
    PROVE  f \in DeviceList(D, max)
<1>1. DOMAIN list = 1..Len(list) /\ Len(list) \in Nat /\ Len(list) <= max
  BY DEF DeviceList
<1>2. f \in [1..Len(list) -> D]
  BY <1>1
<1>3. f \in Seq(D) /\ Len(f) = Len(list)
  BY <1>1, <1>2
<1> QED
  BY <1>1, <1>3 DEF DeviceList

\* device_manager_upsert keeps the list within its bound.
LEMMA UpsertTyped ==
    ASSUME NEW Addr, NEW Psm, 0 \in Psm, NEW max \in Nat,
           NEW list \in DeviceList(Device(Addr, Psm), max),
           NEW a \in Addr, NEW hid \in BOOLEAN
    PROVE  Upsert(list, max, a, hid) \in DeviceList(Device(Addr, Psm), max)
<1> DEFINE D == Device(Addr, Psm)
<1>1. CASE Known(list, a)
  <2> DEFINE f == [list EXCEPT ![Find(list, a)].hid_supported = hid]
  <2>1. list \in Seq(D)
    BY DEF DeviceList
  <2>2. \A i \in DOMAIN list : list[i] \in D
    BY <2>1
  <2>3. \A i \in DOMAIN list : f[i] \in D
    BY <2>2 DEF Device
  <2>4. f = [i \in DOMAIN list |-> f[i]]
    OBVIOUS
  <2> HIDE DEF f, D
  <2>5. f \in DeviceList(D, max)
    BY <2>3, <2>4, RewrittenList DEF D
  <2> QED
    BY <1>1, <2>5 DEF Upsert, f, D
<1>2. CASE ~Known(list, a) /\ Len(list) = max
  BY <1>2 DEF Upsert
<1>3. CASE ~Known(list, a) /\ Len(list) # max
  <2>1. NewDevice(a, hid) \in D
    BY DEF NewDevice, Device
  <2>2. list \in Seq(D) /\ Len(list) \in Nat /\ Len(list) < max
    BY <1>3 DEF DeviceList
  <2> HIDE DEF D
  <2>3. /\ Append(list, NewDevice(a, hid)) \in Seq(D)
        /\ Len(Append(list, NewDevice(a, hid))) = Len(list) + 1
    BY <2>1, <2>2
  <2> QED
    BY <1>3, <2>2, <2>3 DEF Upsert, DeviceList, D
<1> QED
  BY <1>1, <1>2, <1>3

\* The element-wise operations on the flags keep the list's type and length.
LEMMA FlagsTyped ==
    ASSUME NEW Addr, NEW Psm, NEW max \in Nat,
           NEW list \in DeviceList(Device(Addr, Psm), max), NEW a,
           NEW bonded \in BOOLEAN
    PROVE  /\ ClearConnections(list) \in DeviceList(Device(Addr, Psm), max)
           /\ ClearBonded(list) \in DeviceList(Device(Addr, Psm), max)
           /\ SetBonded(list, a, bonded) \in DeviceList(Device(Addr, Psm), max)
           /\ SetConnected(list, a) \in DeviceList(Device(Addr, Psm), max)
<1> DEFINE D == Device(Addr, Psm)
<1>1. \A i \in DOMAIN list : list[i] \in D
  BY DEF DeviceList
<1>2. ClearConnections(list) \in DeviceList(D, max)
  <2> DEFINE f == ClearConnections(list)
  <2>1. f = [i \in DOMAIN list |-> f[i]] /\ \A i \in DOMAIN list : f[i] \in D
    BY <1>1 DEF ClearConnections, Device
  <2> HIDE DEF f, D
  <2> QED
    BY <2>1, RewrittenList DEF f, D
<1>3. ClearBonded(list) \in DeviceList(D, max)
  <2> DEFINE f == ClearBonded(list)
  <2>1. f = [i \in DOMAIN list |-> f[i]] /\ \A i \in DOMAIN list : f[i] \in D
    BY <1>1 DEF ClearBonded, Device
  <2> HIDE DEF f, D
  <2> QED
    BY <2>1, RewrittenList DEF f, D
<1>4. SetBonded(list, a, bonded) \in DeviceList(D, max)
  <2> DEFINE f == SetBonded(list, a, bonded)
  <2>1. f = [i \in DOMAIN list |-> f[i]] /\ \A i \in DOMAIN list : f[i] \in D
    BY <1>1 DEF SetBonded, Device
  <2> HIDE DEF f, D
  <2> QED
    BY <2>1, RewrittenList DEF f, D
<1>5. SetConnected(list, a) \in DeviceList(D, max)
  <2> DEFINE f == SetConnected(list, a)
  <2>1. f = [i \in DOMAIN list |-> f[i]] /\ \A i \in DOMAIN list : f[i] \in D
    BY <1>1 DEF SetConnected, Device
  <2> HIDE DEF f, D
  <2> QED
    BY <2>1, RewrittenList DEF f, D
<1> QED
  BY <1>2, <1>3, <1>4, <1>5

\* So do those on the PSMs.
LEMMA PsmTyped ==
    ASSUME NEW Addr, NEW Psm, NEW max \in Nat,
           NEW list \in DeviceList(Device(Addr, Psm), max), NEW a,
           NEW psm \in Psm
    PROVE  /\ SetControlPsm(list, a, psm) \in DeviceList(Device(Addr, Psm), max)
           /\ SetInterruptPsm(list, a, psm) \in DeviceList(Device(Addr, Psm), max)
<1> DEFINE D == Device(Addr, Psm)
<1>1. \A i \in DOMAIN list : list[i] \in D
  BY DEF DeviceList
<1>2. SetControlPsm(list, a, psm) \in DeviceList(D, max)
  <2> DEFINE f == SetControlPsm(list, a, psm)
  <2>1. f = [i \in DOMAIN list |-> f[i]] /\ \A i \in DOMAIN list : f[i] \in D
    BY <1>1 DEF SetControlPsm, Device
  <2> HIDE DEF f, D
  <2> QED
    BY <2>1, RewrittenList DEF f, D
<1>3. SetInterruptPsm(list, a, psm) \in DeviceList(D, max)
  <2> DEFINE f == SetInterruptPsm(list, a, psm)
  <2>1. f = [i \in DOMAIN list |-> f[i]] /\ \A i \in DOMAIN list : f[i] \in D
    BY <1>1 DEF SetInterruptPsm, Device
  <2> HIDE DEF f, D
  <2> QED
    BY <2>1, RewrittenList DEF f, D
<1> QED
  BY <1>2, <1>3

\* And the two together.
LEMMA PsmsTyped ==
    ASSUME NEW Addr, NEW Psm, NEW max \in Nat,
           NEW list \in DeviceList(Device(Addr, Psm), max), NEW a,
           NEW control \in Psm, NEW interrupt \in Psm
    PROVE  SetPsms(list, a, control, interrupt)
               \in DeviceList(Device(Addr, Psm), max)
<1>1. SetControlPsm(list, a, control) \in DeviceList(Device(Addr, Psm), max)
  BY PsmTyped
<1> QED
  BY <1>1, PsmTyped DEF SetPsms

-----------------------------------------------------------------------------
(* What the operations leave alone.                                        *)

\* What device_manager_upsert does to the entries of a list: one field of one
\* of them, or a new one behind them.
LEMMA UpsertEntries ==
    ASSUME NEW Addr, NEW Psm, NEW list \in Seq(Device(Addr, Psm)), NEW max \in Nat,
           NEW a \in Addr, NEW hid \in BOOLEAN
    PROVE  LET u == Upsert(list, max, a, hid) IN
           /\ DOMAIN list \subseteq DOMAIN u
           /\ \A i \in DOMAIN list :
                 /\ u[i].address = list[i].address
                 /\ u[i].bonded = list[i].bonded
                 /\ u[i].control_psm = list[i].control_psm
                 /\ u[i].interrupt_psm = list[i].interrupt_psm
                 /\ list[i].address # a => u[i].hid_supported = list[i].hid_supported
                 /\ u[i].hid_supported \in {list[i].hid_supported, hid}
           /\ \A i \in DOMAIN u \ DOMAIN list : u[i] = NewDevice(a, hid)
           /\ Len(list) < max => Known(u, a)
<1> DEFINE u == Upsert(list, max, a, hid)
<1>a. /\ DOMAIN list = 1..Len(list) /\ Len(list) \in Nat
      /\ \A i \in DOMAIN list : list[i] \in Device(Addr, Psm)
  OBVIOUS
<1>1. CASE Known(list, a)
  <2> DEFINE f == Find(list, a)
  <2>1. f \in DOMAIN list /\ list[f].address = a
    BY <1>1, FindIsCorrect
  <2>2. u = [list EXCEPT ![f].hid_supported = hid]
    BY <1>1 DEF Upsert
  <2> HIDE DEF f, u
  <2>3. DOMAIN u = DOMAIN list
    BY <2>2
  <2>4. \A i \in DOMAIN list : i # f => u[i] = list[i]
    BY <2>2
  <2>5. u[f] = [list[f] EXCEPT !.hid_supported = hid]
    BY <2>1, <2>2
  <2>6. /\ u[f].address = a /\ u[f].bonded = list[f].bonded
        /\ u[f].control_psm = list[f].control_psm
        /\ u[f].interrupt_psm = list[f].interrupt_psm
        /\ u[f].hid_supported = hid
    BY <1>a, <2>1, <2>5 DEF Device
  <2>7. Known(u, a)
    BY <2>1, <2>3, <2>6 DEF Known
  <2> QED
    BY <2>1, <2>3, <2>4, <2>6, <2>7 DEF u
<1>2. CASE ~Known(list, a) /\ Len(list) = max
  <2>1. u = list
    BY <1>2 DEF Upsert
  <2> QED
    BY <1>a, <1>2, <2>1
<1>3. CASE ~Known(list, a) /\ Len(list) # max
  <2>1. u = Append(list, NewDevice(a, hid))
    BY <1>3 DEF Upsert
  <2> HIDE DEF u
  <2>2. /\ DOMAIN u = 1..Len(list) + 1
        /\ \A i \in DOMAIN list : u[i] = list[i]
        /\ u[Len(list) + 1] = NewDevice(a, hid)
    BY <1>a, <2>1
  <2>3. DOMAIN list \subseteq DOMAIN u /\ DOMAIN u \ DOMAIN list = {Len(list) + 1}
    BY <1>a, <2>2
  <2>4. Known(u, a)
    BY <1>a, <2>2 DEF Known, NewDevice
  <2> QED
    BY <2>2, <2>3, <2>4 DEF u
<1> QED
  BY <1>1, <1>2, <1>3

\* A list that holds all another one holds: the same addresses and PSMs, in the
\* same places.
Extends(new, list) ==
    /\ DOMAIN list \subseteq DOMAIN new
    /\ \A i \in DOMAIN list :
          /\ new[i].address = list[i].address
          /\ new[i].control_psm = list[i].control_psm
          /\ new[i].interrupt_psm = list[i].interrupt_psm

\* A lookup finds the same device in it.
LEMMA SameDeviceFound ==
    ASSUME NEW D, NEW list \in Seq(D), NEW new \in Seq(D), NEW a,
           DOMAIN list \subseteq DOMAIN new,
           \A i \in DOMAIN list : new[i].address = list[i].address,
           Known(list, a)
    PROVE  /\ Known(new, a) /\ Find(new, a) = Find(list, a)
           /\ Find(list, a) \in DOMAIN list /\ Find(list, a) # 0
<1> DEFINE S == {i \in DOMAIN list : list[i].address = a}
           T == {i \in DOMAIN new : new[i].address = a}
<1>1. /\ DOMAIN list = 1..Len(list) /\ Len(list) \in Nat
      /\ DOMAIN new = 1..Len(new) /\ Len(new) \in Nat
  OBVIOUS
<1>2. /\ S \in SUBSET (Nat \ {0}) /\ T \in SUBSET (Nat \ {0})
      /\ S \subseteq T /\ T \cap DOMAIN list \subseteq S
  BY <1>1
<1>3. S # {} /\ T # {} /\ Known(new, a)
  BY <1>2 DEF Known
<1>4. Find(list, a) = First(S) /\ Find(new, a) = First(T)
  BY DEF Find
<1>5. S \subseteq DOMAIN list
  OBVIOUS
<1> HIDE DEF S, T
<1>6. First(S) \in S /\ First(T) \in T /\ First(T) <= First(S)
  BY <1>2, <1>3, FirstIsPosition
<1>7. First(S) \in Nat /\ First(T) \in Nat /\ First(S) # 0 /\ First(T) # 0
  BY <1>2, <1>6
<1>8. First(S) \in DOMAIN list /\ First(T) \in DOMAIN new
  BY <1>5, <1>6 DEF T
<1>9. First(T) \in DOMAIN list
  BY <1>1, <1>6, <1>7, <1>8
<1>10. First(T) \in S
  BY <1>2, <1>6, <1>9
<1>11. First(S) <= First(T)
  BY <1>2, <1>10, FirstIsPosition
<1>12. First(S) = First(T)
  BY <1>6, <1>7, <1>11
<1> QED
  BY <1>3, <1>4, <1>7, <1>8, <1>12

\* What is no business of an operation
LEMMA OperationsExtend ==
    ASSUME NEW Addr, NEW Psm, NEW list \in Seq(Device(Addr, Psm)), NEW max \in Nat,
           NEW a \in Addr, NEW b \in BOOLEAN
    PROVE  /\ Extends(list, list)
           /\ Extends(Upsert(list, max, a, b), list)
           /\ Extends(SetBonded(list, a, b), list)
           /\ Extends(ClearBonded(list), list)
<1>1. \A i \in DOMAIN list : list[i] \in Device(Addr, Psm)
  OBVIOUS
<1>2. Extends(Upsert(list, max, a, b), list)
  BY UpsertEntries DEF Extends
<1>3. Extends(SetBonded(list, a, b), list)
  BY <1>1 DEF Extends, SetBonded, Device
<1>4. Extends(ClearBonded(list), list)
  BY <1>1 DEF Extends, ClearBonded, Device
<1> QED
  BY <1>2, <1>3, <1>4 DEF Extends

\* The operations on one field of the entries leave the addresses alone.
LEMMA AddressesKept ==
    ASSUME NEW Addr, NEW Psm, NEW list \in Seq(Device(Addr, Psm)), NEW a,
           NEW b, NEW control, NEW interrupt
    PROVE  \A new \in {SetBonded(list, a, b), ClearBonded(list),
                       SetConnected(list, a), ClearConnections(list),
                       SetControlPsm(list, a, control),
                       SetInterruptPsm(list, a, interrupt),
                       SetPsms(list, a, control, interrupt)} :
               /\ DOMAIN new = DOMAIN list
               /\ \A i \in DOMAIN list : new[i].address = list[i].address
<1>1. \A i \in DOMAIN list : list[i] \in Device(Addr, Psm)
  OBVIOUS
<1>2. \A new \in {SetBonded(list, a, b), ClearBonded(list)} :
          /\ DOMAIN new = DOMAIN list
          /\ \A i \in DOMAIN list : new[i].address = list[i].address
  BY <1>1 DEF SetBonded, ClearBonded, Device
<1>3. \A new \in {SetConnected(list, a), ClearConnections(list)} :
          /\ DOMAIN new = DOMAIN list
          /\ \A i \in DOMAIN list : new[i].address = list[i].address
  BY <1>1 DEF SetConnected, ClearConnections, Device
<1>4. \A new \in {SetControlPsm(list, a, control), SetInterruptPsm(list, a, interrupt)} :
          /\ DOMAIN new = DOMAIN list
          /\ \A i \in DOMAIN list : new[i].address = list[i].address
  BY <1>1 DEF SetControlPsm, SetInterruptPsm, Device
<1>5. /\ DOMAIN SetPsms(list, a, control, interrupt) = DOMAIN list
      /\ \A i \in DOMAIN list :
            SetPsms(list, a, control, interrupt)[i].address = list[i].address
  BY <1>1 DEF SetPsms, SetControlPsm, SetInterruptPsm, Device
<1> QED
  BY <1>2, <1>3, <1>4, <1>5

\* The PSMs that are set are those of the device that a lookup finds.
LEMMA PsmsAreSet ==
    ASSUME NEW Addr, NEW Psm, NEW list \in Seq(Device(Addr, Psm)), NEW a,
           NEW control, NEW interrupt, Known(list, a)
    PROVE  LET new == SetPsms(list, a, control, interrupt) IN
           /\ new[Find(list, a)].control_psm = control
           /\ new[Find(list, a)].interrupt_psm = interrupt
<1>1. /\ Find(list, a) \in DOMAIN list /\ list[Find(list, a)].address = a
      /\ list[Find(list, a)] \in Device(Addr, Psm)
  BY FindIsCorrect
<1> QED
  BY <1>1 DEF SetPsms, SetControlPsm, SetInterruptPsm, Device

-----------------------------------------------------------------------------
(* Bonds.                                                                  *)

\* The flags of a list agree with a set of keys: in one direction, and, for
\* keyboards, in both.
BondsIn(list, keys) ==
    \A i \in DOMAIN list : list[i].bonded => list[i].address \in keys
BondsAgree(list, keys) ==
    \A i \in DOMAIN list :
        list[i].hid_supported => (list[i].bonded <=> list[i].address \in keys)

\* The same devices with the same bonds: what the operations on the other
\* fields of the entries leave.
SameBonds(new, list) ==
    /\ DOMAIN new = DOMAIN list
    /\ \A i \in DOMAIN list :
          /\ new[i].address = list[i].address
          /\ new[i].hid_supported = list[i].hid_supported
          /\ new[i].bonded = list[i].bonded

LEMMA OtherFieldsKept ==
    ASSUME NEW Addr, NEW Psm, NEW list \in Seq(Device(Addr, Psm)), NEW a,
           NEW control, NEW interrupt
    PROVE  /\ SameBonds(SetConnected(list, a), list)
           /\ SameBonds(ClearConnections(list), list)
           /\ SameBonds(SetControlPsm(list, a, control), list)
           /\ SameBonds(SetInterruptPsm(list, a, interrupt), list)
           /\ SameBonds(SetPsms(list, a, control, interrupt), list)
<1>1. \A i \in DOMAIN list : list[i] \in Device(Addr, Psm)
  OBVIOUS
<1>2. SameBonds(SetConnected(list, a), list)
  BY <1>1 DEF SameBonds, SetConnected, Device
<1>3. SameBonds(ClearConnections(list), list)
  BY <1>1 DEF SameBonds, ClearConnections, Device
<1>4. SameBonds(SetControlPsm(list, a, control), list)
  BY <1>1 DEF SameBonds, SetControlPsm, Device
<1>5. SameBonds(SetInterruptPsm(list, a, interrupt), list)
  BY <1>1 DEF SameBonds, SetInterruptPsm, Device
<1>6. SameBonds(SetPsms(list, a, control, interrupt), list)
  BY <1>1 DEF SameBonds, SetPsms, SetControlPsm, SetInterruptPsm, Device
<1> QED
  BY <1>2, <1>3, <1>4, <1>5, <1>6

\* What SetBonded and ClearBonded do to the entries
LEMMA BondedEntries ==
    ASSUME NEW Addr, NEW Psm, NEW list \in Seq(Device(Addr, Psm)), NEW a,
           NEW b \in BOOLEAN
    PROVE  /\ \A i \in DOMAIN list :
                 /\ SetBonded(list, a, b)[i].bonded
                        = IF list[i].address = a THEN b ELSE list[i].bonded
                 /\ SetBonded(list, a, b)[i].hid_supported = list[i].hid_supported
                 /\ SetBonded(list, a, b)[i].address = list[i].address
           /\ DOMAIN SetBonded(list, a, b) = DOMAIN list
<1>1. \A i \in DOMAIN list : list[i] \in Device(Addr, Psm)
  OBVIOUS
<1> QED
  BY <1>1 DEF SetBonded, Device

LEMMA BondsCleared ==
    ASSUME NEW Addr, NEW Psm, NEW list \in Seq(Device(Addr, Psm))
    PROVE  \A i \in DOMAIN ClearBonded(list) : ~ClearBonded(list)[i].bonded
<1>1. \A i \in DOMAIN list : list[i] \in Device(Addr, Psm)
  OBVIOUS
<1> QED
  BY <1>1 DEF ClearBonded, Device

\* An update of the flags of one device that follows an update of its key
LEMMA BondsFollowKey ==
    ASSUME NEW Addr, NEW Psm, NEW list \in Seq(Device(Addr, Psm)), NEW a,
           NEW b \in BOOLEAN, NEW keys, NEW new,
           \A x \in Addr : x # a => (x \in new <=> x \in keys)
    PROVE  /\ BondsIn(list, keys) /\ (b => a \in new)
                  => BondsIn(SetBonded(list, a, b), new)
           /\ BondsAgree(list, keys) /\ (b <=> a \in new)
                  => BondsAgree(SetBonded(list, a, b), new)
<1>1. \A i \in DOMAIN list : list[i].address \in Addr
  <2>1. \A i \in DOMAIN list : list[i] \in Device(Addr, Psm)
    OBVIOUS
  <2> QED
    BY <2>1 DEF Device
<1> DEFINE s == SetBonded(list, a, b)
<1>2. /\ \A i \in DOMAIN list :
            /\ s[i].bonded = IF list[i].address = a THEN b ELSE list[i].bonded
            /\ s[i].hid_supported = list[i].hid_supported
            /\ s[i].address = list[i].address
      /\ DOMAIN s = DOMAIN list
  BY BondedEntries
<1> HIDE DEF s
<1>3. ASSUME BondsIn(list, keys), b => a \in new PROVE BondsIn(s, new)
  <2> SUFFICES ASSUME NEW i \in DOMAIN list, s[i].bonded
               PROVE  list[i].address \in new
    BY <1>2 DEF BondsIn
  <2>1. CASE list[i].address = a
    BY <1>2, <1>3, <2>1
  <2>2. CASE list[i].address # a
    BY <1>1, <1>2, <1>3, <2>2 DEF BondsIn
  <2> QED
    BY <2>1, <2>2
<1>4. ASSUME BondsAgree(list, keys), b <=> a \in new PROVE BondsAgree(s, new)
  <2> SUFFICES ASSUME NEW i \in DOMAIN list, list[i].hid_supported
               PROVE  s[i].bonded <=> list[i].address \in new
    BY <1>2 DEF BondsAgree
  <2>1. CASE list[i].address = a
    BY <1>2, <1>4, <2>1
  <2>2. CASE list[i].address # a
    BY <1>1, <1>2, <1>4, <2>2 DEF BondsAgree
  <2> QED
    BY <2>1, <2>2
<1> QED
  BY <1>3, <1>4 DEF s

\* An inquiry result: the flag of a keyboard follows its key.
LEMMA UpsertBonds ==
    ASSUME NEW Addr, NEW Psm, 0 \in Psm, NEW list \in Seq(Device(Addr, Psm)),
           NEW max \in Nat, Len(list) <= max, NEW a \in Addr, NEW hid \in BOOLEAN, NEW keys
    PROVE  LET u == Upsert(list, max, a, hid) IN
           /\ BondsIn(list, keys) => BondsIn(u, keys)
           /\ BondsIn(list, keys) => BondsIn(SetBonded(u, a, a \in keys), keys)
           /\ BondsAgree(list, keys) /\ ~hid => BondsAgree(u, keys)
           /\ BondsAgree(list, keys) => BondsAgree(SetBonded(u, a, a \in keys), keys)
<1> DEFINE u == Upsert(list, max, a, hid)
<1>1. u \in Seq(Device(Addr, Psm))
  BY UpsertTyped DEF DeviceList
<1>2. /\ \A i \in DOMAIN list :
            /\ u[i].address = list[i].address
            /\ u[i].bonded = list[i].bonded
            /\ list[i].address # a => u[i].hid_supported = list[i].hid_supported
            /\ u[i].hid_supported \in {list[i].hid_supported, hid}
      /\ \A i \in DOMAIN u \ DOMAIN list : u[i] = NewDevice(a, hid)
  BY UpsertEntries
<1>3. \A i \in DOMAIN u \ DOMAIN list :
          u[i].address = a /\ u[i].bonded = FALSE /\ u[i].hid_supported = hid
  BY <1>2 DEF NewDevice
<1>a. (a \in keys) \in BOOLEAN
  OBVIOUS
<1> HIDE DEF u
<1>4. ASSUME BondsIn(list, keys) PROVE BondsIn(u, keys)
  <2> SUFFICES ASSUME NEW i \in DOMAIN u, u[i].bonded
               PROVE  u[i].address \in keys
    BY DEF BondsIn
  <2>1. i \in DOMAIN list
    BY <1>3
  <2> QED
    BY <1>2, <1>4, <2>1 DEF BondsIn
<1>5. ASSUME BondsIn(list, keys) PROVE BondsIn(SetBonded(u, a, a \in keys), keys)
  <2>1. BondsIn(u, keys)
    BY <1>4, <1>5
  <2> QED
    BY <1>1, <1>a, <2>1, BondsFollowKey
<1>6. ASSUME BondsAgree(list, keys) PROVE BondsAgree(SetBonded(u, a, a \in keys), keys)
  <2> DEFINE s == SetBonded(u, a, a \in keys)
  <2>1. /\ \A i \in DOMAIN u :
              /\ s[i].bonded = IF u[i].address = a THEN a \in keys ELSE u[i].bonded
              /\ s[i].hid_supported = u[i].hid_supported
              /\ s[i].address = u[i].address
        /\ DOMAIN s = DOMAIN u
    <3>1. \A b \in BOOLEAN :
              /\ \A i \in DOMAIN u :
                    /\ SetBonded(u, a, b)[i].bonded
                           = IF u[i].address = a THEN b ELSE u[i].bonded
                    /\ SetBonded(u, a, b)[i].hid_supported = u[i].hid_supported
                    /\ SetBonded(u, a, b)[i].address = u[i].address
              /\ DOMAIN SetBonded(u, a, b) = DOMAIN u
      BY <1>1, BondedEntries
    <3> QED
      BY <1>a, <3>1, Zenon
  <2> HIDE DEF s
  <2>2. SUFFICES ASSUME NEW i \in DOMAIN u, u[i].hid_supported
                 PROVE  s[i].bonded <=> u[i].address \in keys
    BY <2>1 DEF BondsAgree, s
  <2>3. CASE u[i].address = a
    BY <2>1, <2>3
  <2>4. CASE u[i].address # a
    <3>1. i \in DOMAIN list
      BY <1>3, <2>4
    <3>2. list[i].hid_supported /\ list[i].address = u[i].address
          /\ list[i].bonded = u[i].bonded
      BY <1>2, <2>2, <2>4, <3>1
    <3> QED
      BY <1>6, <2>1, <2>4, <3>1, <3>2 DEF BondsAgree
  <2> QED
    BY <2>3, <2>4
<1>7. ASSUME BondsAgree(list, keys), ~hid PROVE BondsAgree(u, keys)
  <2>1. SUFFICES ASSUME NEW i \in DOMAIN u, u[i].hid_supported
                 PROVE  u[i].bonded <=> u[i].address \in keys
    BY DEF BondsAgree
  <2>2. i \in DOMAIN list
    BY <1>3, <1>7, <2>1
  <2>3. list[i].hid_supported
    BY <1>2, <1>7, <2>1, <2>2
  <2> QED
    BY <1>2, <1>7, <2>2, <2>3 DEF BondsAgree
<1> QED
  BY <1>4, <1>5, <1>6, <1>7 DEF u

-----------------------------------------------------------------------------
(* The record of the HID channels.                                         *)

\* A record is well formed when a channel marked open has an identifier: the
\* code tests the flag and then passes the identifier to L2CAP.
WellFormed(Cid) ==
    {h \in HidChannel(Cid) :
        /\ h.control_open => h.control_cid # NoCid
        /\ h.interrupt_open => h.interrupt_cid # NoCid}

\* The operations on whole channels keep a record well formed.
LEMMA ChannelsWellFormed ==
    ASSUME NEW Cid, NoCid \notin Cid, NEW h \in WellFormed(Cid), NEW c \in Cid
    PROVE  /\ ControlOpened(h, c) \in WellFormed(Cid)
           /\ InterruptOpened(h, c) \in WellFormed(Cid)
           /\ Closed(h, c) \in WellFormed(Cid)
           /\ [h EXCEPT !.control_cid = c] \in WellFormed(Cid)
           /\ [h EXCEPT !.interrupt_cid = c] \in WellFormed(Cid)
<1>1. ControlOpened(h, c) \in WellFormed(Cid)
  BY DEF ControlOpened, WellFormed, HidChannel
<1>2. InterruptOpened(h, c) \in WellFormed(Cid)
  BY DEF InterruptOpened, WellFormed, HidChannel
<1>3. Closed(h, c) \in WellFormed(Cid)
  BY DEF Closed, WellFormed, HidChannel
<1>4. [h EXCEPT !.control_cid = c] \in WellFormed(Cid)
  BY DEF WellFormed, HidChannel
<1>5. [h EXCEPT !.interrupt_cid = c] \in WellFormed(Cid)
  BY DEF WellFormed, HidChannel
<1> QED
  BY <1>1, <1>2, <1>3, <1>4, <1>5

\* So do the initial record, a reset, and the flags of pending requests.
LEMMA FlagsWellFormed ==
    ASSUME NEW Cid, NEW h \in WellFormed(Cid), NEW b \in BOOLEAN
    PROVE  /\ InitialHidChannels \in WellFormed(Cid)
           /\ ResetConnection(h) \in WellFormed(Cid)
           /\ RequestLedSync(h) \in WellFormed(Cid)
           /\ [h EXCEPT !.boot_protocol_request_pending = b] \in WellFormed(Cid)
           /\ [h EXCEPT !.led_report_pending = b] \in WellFormed(Cid)
           /\ [h EXCEPT !.led_can_send_requested = b] \in WellFormed(Cid)
<1>1. InitialHidChannels \in WellFormed(Cid)
  BY DEF InitialHidChannels, WellFormed, HidChannel
<1>2. ResetConnection(h) \in WellFormed(Cid)
  BY DEF ResetConnection, InitialHidChannels, WellFormed, HidChannel
<1>3. RequestLedSync(h) \in WellFormed(Cid)
  BY DEF RequestLedSync, WellFormed, HidChannel
<1>4. [h EXCEPT !.boot_protocol_request_pending = b] \in WellFormed(Cid)
  BY DEF WellFormed, HidChannel
<1>5. [h EXCEPT !.led_report_pending = b] \in WellFormed(Cid)
  BY DEF WellFormed, HidChannel
<1>6. [h EXCEPT !.led_can_send_requested = b] \in WellFormed(Cid)
  BY DEF WellFormed, HidChannel
<1> QED
  BY <1>1, <1>2, <1>3, <1>4, <1>5, <1>6

\* hid_channels_set_leds keeps the five LED bits of any byte.
LEMMA LedsWellFormed ==
    ASSUME NEW Cid, NEW h \in WellFormed(Cid), NEW byte \in 0..255
    PROVE  SetLeds(h, byte) \in WellFormed(Cid)
<1>1. byte % 32 \in 0..31
  OBVIOUS
<1> QED
  BY <1>1 DEF SetLeds, WellFormed, HidChannel

\* A reset leaves no channel, and keeps what the host still wants shown.
LEMMA ResetForgetsConnection ==
    ASSUME NEW Cid, NEW h \in HidChannel(Cid)
    PROVE  LET r == ResetConnection(h) IN
           /\ ~r.control_open /\ ~r.interrupt_open
           /\ r.control_cid = NoCid /\ r.interrupt_cid = NoCid
           /\ ~r.boot_protocol_request_pending /\ ~r.led_can_send_requested
           /\ r.led_state = h.led_state
           /\ r.led_report_pending = h.led_report_pending
  BY DEF ResetConnection, InitialHidChannels, HidChannel

\* Only the closing of the interrupt channel closes the interrupt channel.
LEMMA ClosedKeepsOther ==
    ASSUME NEW Cid, NEW h \in HidChannel(Cid), NEW c \in Cid
    PROVE  /\ ~ClosesInterrupt(h, c) =>
                  Closed(h, c).interrupt_open = h.interrupt_open
           /\ ~ClosesControl(h, c) =>
                  Closed(h, c).control_open = h.control_open
  BY DEF Closed, HidChannel

=============================================================================
