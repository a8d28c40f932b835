---------------------------- MODULE DeviceManager ----------------------------
(***************************************************************************)
(* bt/device_manager.c: the bounded list of discovered devices, in the     *)
(* order they were found.  A device is the record of the fields that steer *)
(* the program: RSSI, name, class of device and the SDP report flags are   *)
(* only shown to the user and are left out.  The class of device appears   *)
(* as the one bit the code takes from it, hid_supported.                   *)
(*                                                                         *)
(* A list is a sequence; a C pointer returned by a lookup is an index into *)
(* it, 0 standing for NULL.                                                *)
(***************************************************************************)
EXTENDS Naturals, Sequences

Device(Addr, Psm) ==
    [address : Addr, hid_supported : BOOLEAN, bonded : BOOLEAN,
     connected : BOOLEAN, control_psm : Psm, interrupt_psm : Psm]

\* The lists of at most max devices of a set D
DeviceList(D, max) == {list \in Seq(D) : Len(list) <= max}

\* The zeroed slot a new device starts from, with its class of device.
NewDevice(a, hid) ==
    [address |-> a, hid_supported |-> hid, bonded |-> FALSE,
     connected |-> FALSE, control_psm |-> 0, interrupt_psm |-> 0]

Known(list, a) == \E i \in DOMAIN list : list[i].address = a

\* The first of a set of positions of a list, or 0.
First(S) ==
    IF S = {} THEN 0 ELSE CHOOSE i \in S : \A j \in S : i <= j

\* device_manager_find
Find(list, a) == First({i \in DOMAIN list : list[i].address = a})

\* device_manager_upsert, for a list of at most max devices: a new device is
\* refused (NULL) when the list is full, and the list is then unchanged.
Upsert(list, max, a, hid) ==
    IF Known(list, a)
    THEN [list EXCEPT ![Find(list, a)].hid_supported = hid]
    ELSE IF Len(list) = max THEN list ELSE Append(list, NewDevice(a, hid))

\* Mutant of ConnectionTarget: bonds are not looked at.
TargetIgnoresBonds(list) ==
    First({i \in DOMAIN list : list[i].hid_supported})

\* device_manager_get_connection_target: a bonded keyboard first, then any.
ConnectionTarget(list) ==
    LET bonded == First({i \in DOMAIN list :
                             list[i].hid_supported /\ list[i].bonded})
        any    == First({i \in DOMAIN list : list[i].hid_supported})
    IN  IF bonded # 0 THEN bonded ELSE any

\* device_manager_clear_connections
ClearConnections(list) ==
    [i \in DOMAIN list |-> [list[i] EXCEPT !.connected = FALSE]]

\* Mutant of ClearBonded: the loop starts one too late.
ClearBondedFromSecond(list) ==
    [i \in DOMAIN list |->
        IF i = 1 THEN list[i] ELSE [list[i] EXCEPT !.bonded = FALSE]]

\* device_manager_clear_bonded
ClearBonded(list) ==
    [i \in DOMAIN list |-> [list[i] EXCEPT !.bonded = FALSE]]

-----------------------------------------------------------------------------
(* What the callers do to the fields of the device with a given address.   *)

SetBonded(list, a, bonded) ==
    [i \in DOMAIN list |->
        IF list[i].address = a THEN [list[i] EXCEPT !.bonded = bonded]
                               ELSE list[i]]

SetConnected(list, a) ==
    [i \in DOMAIN list |->
        IF list[i].address = a THEN [list[i] EXCEPT !.connected = TRUE]
                               ELSE list[i]]

SetControlPsm(list, a, psm) ==
    [i \in DOMAIN list |->
        IF list[i].address = a THEN [list[i] EXCEPT !.control_psm = psm]
                               ELSE list[i]]

SetInterruptPsm(list, a, psm) ==
    [i \in DOMAIN list |->
        IF list[i].address = a THEN [list[i] EXCEPT !.interrupt_psm = psm]
                               ELSE list[i]]

SetPsms(list, a, control, interrupt) ==
    SetInterruptPsm(SetControlPsm(list, a, control), a, interrupt)

=============================================================================
