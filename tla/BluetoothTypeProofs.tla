------------------------- MODULE BluetoothTypeProofs -------------------------
(***************************************************************************)
(* The type invariant of the connection manager, for every set of          *)
(* keyboards, handles and channels, every length of the device list and    *)
(* every environment the constants describe: nothing here assumes that     *)
(* BTstack accepts a call, that a flash write succeeds or that no stale    *)
(* connection completes.                                                   *)
(***************************************************************************)
EXTENDS BluetoothProperties, BluetoothDataProofs

USE DEF stateVars, choiceVars, flashVars, pageVars, linkVars, wireVars

-----------------------------------------------------------------------------
(* Types.  The types of the list and of the channel record are kept by     *)
(* name, so that the lemmas about them are all a step needs to know.       *)

Devices == DeviceList(Device(Addr, Psm), MaxDevices)
Channels == WellFormed(Cid)

\* The type invariant is inductive once a channel marked open has an
\* identifier: CAN_SEND_NOW is only ever asked for on a channel.
TypeInv == TypeOK /\ hid_channels \in Channels

\* The PSMs the program itself puts into the list
LEMMA PsmValues ==
    0 \in Psm /\ StandardControlPsm \in Psm /\ StandardInterruptPsm \in Psm
  BY DEF Psm, StandardControlPsm, StandardInterruptPsm

LEMMA NoCidIsNone == NoCid \notin Cid
  BY CidAssumption DEF NoCid

LEMMA ChannelsAreTyped == \A h \in Channels : h \in HidChannel(Cid)
  BY DEF Channels, WellFormed

\* What the device list's lemmas say of this module's list
LEMMA ListOperations ==
    ASSUME NEW list \in Devices, NEW a \in Addr
    PROVE  /\ <<>> \in Devices
           /\ \A hid \in BOOLEAN : Upsert(list, MaxDevices, a, hid) \in Devices
           /\ \A b \in BOOLEAN : SetBonded(list, a, b) \in Devices
           /\ SetConnected(list, a) \in Devices
           /\ ClearConnections(list) \in Devices
           /\ ClearBonded(list) \in Devices
<1>1. /\ MaxDevices \in Nat /\ 0 \in Psm /\ TRUE \in BOOLEAN
      /\ list \in DeviceList(Device(Addr, Psm), MaxDevices)
  BY MaxDevicesAssumption, PsmValues DEF Devices
<1>2. <<>> \in Devices
  BY <1>1 DEF Devices, DeviceList
<1>3. \A hid \in BOOLEAN : Upsert(list, MaxDevices, a, hid) \in Devices
  BY <1>1, UpsertTyped DEF Devices
<1>4. \A b \in BOOLEAN : SetBonded(list, a, b) \in Devices
  BY <1>1, FlagsTyped DEF Devices
<1>5. /\ SetConnected(list, a) \in Devices
      /\ ClearConnections(list) \in Devices
      /\ ClearBonded(list) \in Devices
  BY <1>1, FlagsTyped DEF Devices
<1> QED
  BY <1>2, <1>3, <1>4, <1>5

\* A lookup that does not return NULL returns a device of the list.
LEMMA Lookups ==
    ASSUME NEW list \in Devices, NEW a
    PROVE  /\ Find(list, a) # 0 => /\ Find(list, a) \in DOMAIN list
                                   /\ list[Find(list, a)].address = a
           /\ LET i == ConnectionTarget(list) IN
              i # 0 => i \in DOMAIN list /\ list[i].address \in Addr
<1>1. list \in Seq(Device(Addr, Psm))
  BY DEF Devices, DeviceList
<1>2. \A i \in DOMAIN list : list[i].address \in Addr
  <2>1. \A i \in DOMAIN list : list[i] \in Device(Addr, Psm)
    BY <1>1
  <2> QED
    BY <2>1 DEF Device
<1> QED
  BY <1>1, <1>2, FindIsCorrect, TargetIsCorrect

LEMMA InquiryTargetTyped ==
    ASSUME TypeInv
    PROVE  InquiryTarget \in Addr \cup {NoAddr}
<1>1. devices \in Devices /\ selected_device \in Addr \cup {NoAddr}
  BY DEF TypeInv, TypeOK, Devices
<1> QED
  BY <1>1, Lookups DEF InquiryTarget

-----------------------------------------------------------------------------
(* The helpers of bluetooth.c.                                             *)

LEMMA GoToTyped ==
    ASSUME NEW state \in BtState, GoTo(state)
    PROVE  current_state' \in BtState /\ pairing_pin_pending' \in BOOLEAN
  BY DEF GoTo

LEMMA StayTyped ==
    ASSUME TypeInv, Stay
    PROVE  current_state' \in BtState /\ pairing_pin_pending' \in BOOLEAN
  BY DEF Stay, TypeInv, TypeOK

LEMMA StartIdleTimerTyped ==
    ASSUME TypeInv, StartIdleTimer
    PROVE  inquiry_timer_armed' \in BOOLEAN
  BY DEF StartIdleTimer

LEMMA RestoredTyped ==
    ASSUME TypeInv, NEW a \in Addr
    PROVE  RestoreSaved(a) \in Devices
<1>1. devices \in Devices
  BY DEF TypeInv, TypeOK, Devices
<1>2. <<>> \in Devices
  BY <1>1, ListOperations
<1>3. \A list \in Devices : Upsert(list, MaxDevices, a, TRUE) \in Devices
  BY ListOperations
<1>4. \A list \in Devices : SetBonded(list, a, a \in link_keys) \in Devices
  <2>1. (a \in link_keys) \in BOOLEAN
    OBVIOUS
  <2> QED
    BY <2>1, ListOperations
<1> QED
  BY <1>1, <1>2, <1>3, <1>4 DEF RestoreSaved

LEMMA BeginConnectionTyped ==
    ASSUME TypeInv, NEW a \in Addr, BeginConnection(a)
    PROVE  /\ devices' \in Devices
           /\ current_state' \in BtState
           /\ pairing_pin_pending' \in BOOLEAN
           /\ connecting_device_addr' \in Addr \cup {NoAddr}
           /\ connection_cancel_requested' \in BOOLEAN
           /\ paging' \subseteq Addr
           /\ inquiry_timer_armed' \in BOOLEAN
<1>1. devices' \in Devices
  BY RestoredTyped DEF BeginConnection
<1> QED
  BY <1>1 DEF TypeInv, TypeOK, BeginConnection, GoTo, RetryWanted, BtState

LEMMA SelectKeyboardTyped ==
    ASSUME TypeInv, NEW a \in Addr, SelectKeyboard(a)
    PROVE  /\ selected_device' \in Addr \cup {NoAddr}
           /\ saved_device' \in Addr \cup {NoAddr}
  BY DEF TypeInv, TypeOK, SelectKeyboard

\* disconnect_acl_after_error, after any move of the state machine
LEMMA DisconnectTyped ==
    ASSUME TypeInv, NEW ACTION Move, NEW h \in Channels,
           Move => current_state' \in BtState /\ pairing_pin_pending' \in BOOLEAN,
           DisconnectAfterError(Move, h)
    PROVE  /\ current_state' \in BtState /\ pairing_pin_pending' \in BOOLEAN
           /\ usb_report' \in {"pressed", "released"}
           /\ closing' \subseteq Handle
           /\ hid_channels' \in Channels
           /\ inquiry_timer_armed' \in BOOLEAN
<1>1. CASE acl_handle # NoHandle
  BY <1>1 DEF DisconnectAfterError, GapDisconnect, TypeInv, TypeOK
<1>2. CASE acl_handle = NoHandle
  <2>1. /\ GoTo("Idle") /\ StartIdleTimer
        /\ hid_channels' = ResetConnection(h)
        /\ closing' = closing
        /\ usb_report' = "released"
    BY <1>2 DEF DisconnectAfterError
  <2>2. current_state' \in BtState /\ pairing_pin_pending' \in BOOLEAN
    BY <2>1, GoToTyped DEF BtState
  <2>3. hid_channels' \in Channels
    BY <2>1, FlagsWellFormed DEF Channels
  <2> QED
    BY <2>1, <2>2, <2>3, StartIdleTimerTyped DEF TypeInv, TypeOK
<1> QED
  BY <1>1, <1>2

LEMMA CreateChannelTyped ==
    ASSUME TypeInv, NEW c \in Cid, NEW psm \in Psm, CreateChannel(c, psm)
    PROVE  channels' \in [Cid -> Channel]
  BY DEF CreateChannel, TypeInv, TypeOK, Channel, LinkTo

LEMMA ScheduleLedReportTyped ==
    ASSUME TypeInv, NEW h \in Channels, NEW state, ScheduleLedReport(h, state)
    PROVE  hid_channels' \in Channels /\ can_send' \subseteq Cid
<1>1. [h EXCEPT !.led_can_send_requested = TRUE] \in Channels
  BY FlagsWellFormed DEF Channels
<1>2. LedReportDue(h, state) => h.control_cid \in Cid
  BY DEF LedReportDue, Channels, WellFormed, HidChannel
<1>3. can_send \subseteq Cid
  BY DEF TypeInv, TypeOK
<1> QED
  BY <1>1, <1>2, <1>3 DEF ScheduleLedReport

\* open_control_channel, on any PSM
LEMMA OpenControlTyped ==
    ASSUME TypeInv, NEW psm \in Psm, OpenControlChannel(psm)
    PROVE  /\ current_state' \in BtState /\ pairing_pin_pending' \in BOOLEAN
           /\ usb_report' \in {"pressed", "released"}
           /\ closing' \subseteq Handle
           /\ hid_channels' \in Channels
           /\ inquiry_timer_armed' \in BOOLEAN
           /\ channels' \in [Cid -> Channel]
<1>a. hid_channels \in Channels
  BY DEF TypeInv
<1>b. GoTo("OpeningControl") =>
          current_state' \in BtState /\ pairing_pin_pending' \in BOOLEAN
  BY GoToTyped DEF BtState
<1>1. ASSUME NEW c \in Cid, CreateChannel(c, psm),
             hid_channels' = [hid_channels EXCEPT !.control_cid = c],
             GoTo("OpeningControl"),
             UNCHANGED <<closing, inquiry_timer_armed, usb_report>>
      PROVE  /\ current_state' \in BtState /\ pairing_pin_pending' \in BOOLEAN
             /\ usb_report' \in {"pressed", "released"}
             /\ closing' \subseteq Handle
             /\ hid_channels' \in Channels
             /\ inquiry_timer_armed' \in BOOLEAN
             /\ channels' \in [Cid -> Channel]
  <2>1. hid_channels' \in Channels
    BY <1>a, <1>1, NoCidIsNone, ChannelsWellFormed DEF Channels
  <2> QED
    BY <1>1, <1>b, <2>1, CreateChannelTyped DEF TypeInv, TypeOK
<1>2. CASE /\ DisconnectAfterError(GoTo("OpeningControl"), hid_channels)
           /\ UNCHANGED channels
  BY <1>a, <1>b, <1>2, DisconnectTyped DEF TypeInv, TypeOK
<1> QED
  BY <1>1, <1>2 DEF OpenControlChannel

\* open_interrupt_channel
LEMMA OpenInterruptTyped ==
    ASSUME TypeInv, OpenInterruptChannel
    PROVE  /\ current_state' \in BtState /\ pairing_pin_pending' \in BOOLEAN
           /\ usb_report' \in {"pressed", "released"}
           /\ closing' \subseteq Handle
           /\ hid_channels' \in Channels
           /\ inquiry_timer_armed' \in BOOLEAN
           /\ channels' \in [Cid -> Channel]
<1> DEFINE dev == ConnectedDevice
<1>a. hid_channels \in Channels /\ devices \in Devices
  BY DEF TypeInv, TypeOK, Devices
<1>b. GoTo("OpeningInterrupt") =>
          current_state' \in BtState /\ pairing_pin_pending' \in BOOLEAN
  BY GoToTyped DEF BtState
<1>c. dev # 0 => devices[dev].interrupt_psm \in Psm
  <2> SUFFICES ASSUME dev # 0 PROVE devices[dev].interrupt_psm \in Psm
    OBVIOUS
  <2>1. dev \in DOMAIN devices
    BY <1>a, Lookups DEF ConnectedDevice
  <2>2. devices \in Seq(Device(Addr, Psm))
    BY <1>a DEF Devices, DeviceList
  <2>3. devices[dev] \in Device(Addr, Psm)
    BY <2>1, <2>2
  <2> QED
    BY <2>3 DEF Device
<1>1. ASSUME NEW c \in Cid, dev # 0,
             CreateChannel(c, devices[dev].interrupt_psm),
             hid_channels' = [hid_channels EXCEPT !.interrupt_cid = c],
             GoTo("OpeningInterrupt"),
             UNCHANGED <<closing, inquiry_timer_armed, usb_report>>
      PROVE  /\ current_state' \in BtState /\ pairing_pin_pending' \in BOOLEAN
             /\ usb_report' \in {"pressed", "released"}
             /\ closing' \subseteq Handle
             /\ hid_channels' \in Channels
             /\ inquiry_timer_armed' \in BOOLEAN
             /\ channels' \in [Cid -> Channel]
  <2>1. hid_channels' \in Channels
    BY <1>a, <1>1, NoCidIsNone, ChannelsWellFormed DEF Channels
  <2>2. channels' \in [Cid -> Channel]
    BY <1>c, <1>1, CreateChannelTyped
  <2> QED
    BY <1>1, <1>b, <2>1, <2>2 DEF TypeInv, TypeOK
<1>2. CASE /\ DisconnectAfterError(GoTo("OpeningInterrupt"), hid_channels)
           /\ UNCHANGED channels
  BY <1>a, <1>b, <1>2, DisconnectTyped DEF TypeInv, TypeOK
<1>3. CASE /\ DisconnectAfterError(Stay, hid_channels)
           /\ UNCHANGED channels
  BY <1>a, <1>3, StayTyped, DisconnectTyped DEF TypeInv, TypeOK
<1> QED
  BY <1>1, <1>2, <1>3 DEF OpenInterruptChannel

-----------------------------------------------------------------------------
(* Every step keeps the types.                                             *)

LEMMA InitTyped == Init => TypeInv
<1> SUFFICES ASSUME NEW saved \in Addr \cup {NoAddr}, NEW keys \in SUBSET Addr,
                    BootsWith(saved, keys)
             PROVE  TypeInv
  BY DEF Init
<1>1. devices \in Devices
  BY MaxDevicesAssumption DEF BootsWith, Devices, DeviceList
<1>2. hid_channels \in Channels
  BY DEF BootsWith, InitialHidChannels, Channels, WellFormed, HidChannel
<1>3. links \in [Handle -> Addr \cup {NoAddr}] /\ channels \in [Cid -> Channel]
  BY PsmValues DEF BootsWith, NoChannel, Channel
<1> QED
  BY <1>1, <1>2, <1>3, ChannelsAreTyped
  DEF BootsWith, TypeInv, TypeOK, BtState, Devices, NoCid

\* Search
LEMMA SearchTyped == TypeInv /\ Search => TypeInv'
<1> SUFFICES ASSUME TypeInv, Search PROVE TypeInv'
  OBVIOUS
<1>1. CASE BtstackWorking
  <2>1. CASE auto_connect_enabled /\ selected_device # NoAddr
    <3>1. BeginConnection(selected_device) /\ selected_device \in Addr
      BY <1>1, <2>1 DEF BtstackWorking, TypeInv, TypeOK
    <3> QED
      BY <1>1, <3>1, BeginConnectionTyped
      DEF BtstackWorking, TypeInv, TypeOK, Devices
  <2>2. CASE ~(auto_connect_enabled /\ selected_device # NoAddr)
    <3>1. GoTo("Idle")
      BY <1>1, <2>2 DEF BtstackWorking
    <3>2. current_state' \in BtState /\ pairing_pin_pending' \in BOOLEAN
      BY <3>1, GoToTyped DEF BtState
    <3> QED
      BY <1>1, <2>2, <3>2 DEF BtstackWorking, TypeInv, TypeOK
  <2> QED
    BY <2>1, <2>2
<1>2. CASE InquiryComplete
  <2>1. CASE InquiryTarget # NoAddr
    <3>1. InquiryTarget \in Addr
      BY <2>1, InquiryTargetTyped
    <3>2. BeginConnection(InquiryTarget)
      BY <1>2, <2>1 DEF InquiryComplete
    <3>3. selected_device' \in Addr \cup {NoAddr}
          /\ saved_device' \in Addr \cup {NoAddr}
      BY <1>2, <2>1, <3>1, SelectKeyboardTyped
      DEF InquiryComplete, TypeInv, TypeOK
    <3> HIDE DEF InquiryTarget
    <3> QED
      BY <1>2, <3>1, <3>2, <3>3, BeginConnectionTyped
      DEF InquiryComplete, TypeInv, TypeOK, Devices
  <2>2. CASE InquiryTarget = NoAddr
    <3>1. GoTo("Idle") /\ StartIdleTimer
      BY <1>2, <2>2 DEF InquiryComplete
    <3>2. /\ current_state' \in BtState /\ pairing_pin_pending' \in BOOLEAN
          /\ inquiry_timer_armed' \in BOOLEAN
      BY <3>1, GoToTyped, StartIdleTimerTyped DEF BtState
    <3> QED
      BY <1>2, <2>2, <3>2 DEF InquiryComplete, TypeInv, TypeOK
  <2> QED
    BY <2>1, <2>2
<1>3. CASE StaleInquiryComplete
  <2>1. devices' \in Devices /\ hid_channels' \in Channels /\ inquiring' \in BOOLEAN
    BY <1>3 DEF StaleInquiryComplete, TypeInv, TypeOK, Devices
  <2> QED
    BY <1>3, <2>1, ChannelsAreTyped
    DEF StaleInquiryComplete, TypeInv, TypeOK, Devices
<1>4. ASSUME NEW a \in Addr, NEW keyboard \in InquiryClass,
             InquiryResult(a, keyboard)
      PROVE  TypeInv'
  <2>1. keyboard \in BOOLEAN /\ (a \in link_keys) \in BOOLEAN
    BY ChoiceAssumption
  <2>2. devices \in Devices
    BY DEF TypeInv, TypeOK, Devices
  <2>3. Upsert(devices, MaxDevices, a, keyboard) \in Devices
    BY <2>1, <2>2, ListOperations
  <2>4. devices' \in Devices
    BY <1>4, <2>1, <2>3, ListOperations DEF InquiryResult
  <2> QED
    BY <1>4, <2>4 DEF InquiryResult, TypeInv, TypeOK, Devices
<1> QED
  BY <1>1, <1>2, <1>3, <1>4 DEF Search

\* Paging
LEMMA PagingTyped == TypeInv /\ Paging => TypeInv'
<1> SUFFICES ASSUME TypeInv, NEW a \in Addr,
                    \/ ConnectionFailed(a)
                    \/ \E h \in Handle :
                           \/ ConnectionEstablished(a, h)
                           \/ CancelledConnectionEstablished(a, h)
                           \/ StaleConnectionComplete(a, h)
             PROVE  TypeInv'
  BY DEF Paging
<1>1. CASE ConnectionFailed(a)
  <2>1. GoTo("Idle") /\ StartIdleTimer
    BY <1>1 DEF ConnectionFailed
  <2>2. /\ current_state' \in BtState /\ pairing_pin_pending' \in BOOLEAN
        /\ inquiry_timer_armed' \in BOOLEAN
    BY <2>1, GoToTyped, StartIdleTimerTyped DEF BtState
  <2> QED
    BY <1>1, <2>2 DEF ConnectionFailed, TypeInv, TypeOK
<1>2. ASSUME NEW h \in Handle, ConnectionEstablished(a, h)
      PROVE  TypeInv'
  <2>1. devices' \in Devices
    BY <1>2, ListOperations DEF ConnectionEstablished, TypeInv, TypeOK, Devices
  <2>2. hid_channels' \in Channels
    BY <1>2, FlagsWellFormed DEF ConnectionEstablished, TypeInv, Channels
  <2>3. links' \in [Handle -> Addr \cup {NoAddr}]
    BY <1>2 DEF ConnectionEstablished, TypeInv, TypeOK
  <2> QED
    BY <1>2, <2>1, <2>2, <2>3, ChannelsAreTyped
    DEF ConnectionEstablished, TypeInv, TypeOK, Devices, BtState
<1>3. ASSUME NEW h \in Handle, CancelledConnectionEstablished(a, h)
      PROVE  TypeInv'
  <2>1. current_state' \in BtState /\ pairing_pin_pending' \in BOOLEAN
    BY <1>3, GoToTyped DEF CancelledConnectionEstablished, BtState
  <2>2. links' \in [Handle -> Addr \cup {NoAddr}]
    BY <1>3 DEF CancelledConnectionEstablished, TypeInv, TypeOK
  <2> QED
    BY <1>3, <2>1, <2>2
    DEF CancelledConnectionEstablished, GapDisconnect, TypeInv, TypeOK
<1>4. ASSUME NEW h \in Handle, StaleConnectionComplete(a, h)
      PROVE  TypeInv'
  <2>1. links' \in [Handle -> Addr \cup {NoAddr}]
    BY <1>4 DEF StaleConnectionComplete, TypeInv, TypeOK
  <2> QED
    BY <1>4, <2>1 DEF StaleConnectionComplete, GapDisconnect, TypeInv, TypeOK
<1> QED
  BY <1>1, <1>2, <1>3, <1>4

\* Discovery
LEMMA DiscoveryTyped == TypeInv /\ Discovery => TypeInv'
<1> SUFFICES ASSUME TypeInv, Discovery PROVE TypeInv'
  OBVIOUS
<1>a. /\ devices \in Devices /\ hid_channels \in Channels
      /\ devices \in DeviceList(Device(Addr, Psm), MaxDevices)
      /\ MaxDevices \in Nat
  BY MaxDevicesAssumption DEF TypeInv, TypeOK, Devices
<1>1. CASE LinkSecured
  <2>1. devices' \in Devices
    BY <1>1, <1>a, PsmValues, PsmsTyped DEF LinkSecured, StartSdpDiscovery, Devices
  <2>2. CASE /\ sdp_query' = acl_handle /\ GoTo("ServiceDiscovery")
             /\ UNCHANGED <<closing, inquiry_timer_armed, hid_channels, usb_report>>
    <3>1. current_state' \in BtState /\ pairing_pin_pending' \in BOOLEAN
      BY <2>2, GoToTyped DEF BtState
    <3> QED
      BY <1>1, <2>1, <2>2, <3>1 DEF LinkSecured, TypeInv, TypeOK, Devices
  <2>3. CASE /\ DisconnectAfterError(GoTo("ServiceDiscovery"), hid_channels)
             /\ UNCHANGED sdp_query
    <3>1. GoTo("ServiceDiscovery") =>
              current_state' \in BtState /\ pairing_pin_pending' \in BOOLEAN
      BY GoToTyped DEF BtState
    <3> QED
      BY <1>1, <1>a, <2>1, <2>3, <3>1, DisconnectTyped, ChannelsAreTyped
      DEF LinkSecured, TypeInv, TypeOK, Devices
  <2> QED
    BY <1>1, <2>2, <2>3 DEF LinkSecured, StartSdpDiscovery
<1>2. CASE SecurityFailed
  <2>1. DisconnectAfterError(Stay, hid_channels)
    BY <1>2 DEF SecurityFailed
  <2> QED
    BY <1>2, <1>a, <2>1, StayTyped, DisconnectTyped, ChannelsAreTyped
    DEF SecurityFailed, TypeInv, TypeOK
<1>3. ASSUME NEW psm \in ControlPsm, SdpControlAttribute(psm)
      PROVE  TypeInv'
  <2>1. psm \in Psm
    BY DEF Psm
  <2>2. devices' \in Devices
    BY <1>3, <1>a, <2>1, PsmTyped DEF SdpControlAttribute, SdpAttribute, Devices
  <2> QED
    BY <1>3, <2>2 DEF SdpControlAttribute, SdpAttribute, TypeInv, TypeOK, Devices
<1>4. ASSUME NEW psm \in InterruptPsm, SdpInterruptAttribute(psm)
      PROVE  TypeInv'
  <2>1. psm \in Psm
    BY DEF Psm
  <2>2. devices' \in Devices
    BY <1>4, <1>a, <2>1, PsmTyped DEF SdpInterruptAttribute, SdpAttribute, Devices
  <2> QED
    BY <1>4, <2>2 DEF SdpInterruptAttribute, SdpAttribute, TypeInv, TypeOK, Devices
<1>5. ASSUME NEW ok \in BOOLEAN, SdpComplete(ok)
      PROVE  TypeInv'
  <2> DEFINE dev == ConnectedDevice
  <2>1. CASE ok /\ dev # 0
    <3>1. /\ devices' \in Devices
          /\ DOMAIN devices' = DOMAIN devices
          /\ OpenControlChannel(devices'[dev].control_psm)
      <4>1. /\ \/ devices' = devices
               \/ devices' = SetPsms(devices, connected_device_addr,
                                     StandardControlPsm, StandardInterruptPsm)
            /\ OpenControlChannel(devices'[dev].control_psm)
        BY <1>5, <2>1 DEF SdpComplete
      <4>2. SetPsms(devices, connected_device_addr, StandardControlPsm,
                    StandardInterruptPsm) \in Devices
        BY <1>a, PsmValues, PsmsTyped DEF Devices
      <4> QED
        BY <1>a, <4>1, <4>2 DEF SetPsms, SetControlPsm, SetInterruptPsm
    <3>2. devices'[dev].control_psm \in Psm
      <4>1. dev \in DOMAIN devices'
        BY <1>a, <2>1, <3>1, Lookups DEF ConnectedDevice
      <4>2. devices' \in Seq(Device(Addr, Psm))
        BY <3>1 DEF Devices, DeviceList
      <4>3. devices'[dev] \in Device(Addr, Psm)
        BY <4>1, <4>2
      <4> QED
        BY <4>3 DEF Device
    <3>3. /\ current_state' \in BtState /\ pairing_pin_pending' \in BOOLEAN
          /\ usb_report' \in {"pressed", "released"}
          /\ closing' \subseteq Handle
          /\ hid_channels' \in Channels
          /\ inquiry_timer_armed' \in BOOLEAN
          /\ channels' \in [Cid -> Channel]
      BY <3>1, <3>2, OpenControlTyped
    <3> QED
      BY <1>5, <3>1, <3>3, ChannelsAreTyped
      DEF SdpComplete, TypeInv, TypeOK, Devices
  <2>2. CASE ~(ok /\ dev # 0)
    <3>1. /\ DisconnectAfterError(Stay, hid_channels)
          /\ UNCHANGED <<devices, channels>>
      BY <1>5, <2>2 DEF SdpComplete
    <3> QED
      BY <1>5, <1>a, <3>1, StayTyped, DisconnectTyped, ChannelsAreTyped
      DEF SdpComplete, TypeInv, TypeOK
  <2> QED
    BY <2>1, <2>2
<1> QED
  BY <1>1, <1>2, <1>3, <1>4, <1>5 DEF Discovery

\* HidTraffic
LEMMA HidTrafficTyped == TypeInv /\ HidTraffic => TypeInv'
<1> SUFFICES ASSUME TypeInv, HidTraffic PROVE TypeInv'
  OBVIOUS
<1>a. hid_channels \in Channels /\ channels \in [Cid -> Channel]
  BY DEF TypeInv, TypeOK
<1>b. \A c \in Cid : /\ [channels EXCEPT ![c] = NoChannel] \in [Cid -> Channel]
                     /\ [channels EXCEPT ![c].open = TRUE] \in [Cid -> Channel]
  BY <1>a, PsmValues DEF NoChannel, Channel
<1>1. ASSUME NEW c \in Cid, ChannelOpened(c)
      PROVE  TypeInv'
  <2> DEFINE dev == ConnectedDevice
  <2>1. channels' \in [Cid -> Channel]
    BY <1>1, <1>b DEF ChannelOpened
  <2>2. CASE /\ DisconnectAfterError(Stay, hid_channels)
             /\ UNCHANGED can_send
    BY <1>1, <1>a, <2>1, <2>2, StayTyped, DisconnectTyped, ChannelsAreTyped
    DEF ChannelOpened, TypeInv, TypeOK
  <2>3. CASE ControlChannelOpened(c)
    <3>1. ControlOpened(hid_channels, c) \in Channels
      BY <1>a, NoCidIsNone, ChannelsWellFormed DEF Channels
    <3>2. GoTo("SettingBootProtocol") =>
              current_state' \in BtState /\ pairing_pin_pending' \in BOOLEAN
      BY GoToTyped DEF BtState
    <3>3. CASE /\ hid_channels' = ControlOpened(hid_channels, c)
               /\ can_send' = can_send \cup {c}
               /\ GoTo("SettingBootProtocol")
               /\ UNCHANGED <<closing, inquiry_timer_armed, usb_report>>
      BY <1>1, <2>1, <3>1, <3>2, <3>3, ChannelsAreTyped
      DEF ChannelOpened, TypeInv, TypeOK
    <3>4. CASE /\ DisconnectAfterError(GoTo("SettingBootProtocol"),
                                       ControlOpened(hid_channels, c))
               /\ UNCHANGED can_send
      BY <1>1, <2>1, <3>1, <3>2, <3>4, DisconnectTyped, ChannelsAreTyped
      DEF ChannelOpened, TypeInv, TypeOK
    <3> QED
      BY <2>3, <3>3, <3>4 DEF ControlChannelOpened
  <2>4. CASE InterruptChannelOpened(c)
    <3> DEFINE h == RequestLedSync(InterruptOpened(hid_channels, c))
    <3>1. h \in Channels
      BY <1>a, NoCidIsNone, ChannelsWellFormed, FlagsWellFormed DEF Channels
    <3>2. current_state' \in BtState /\ pairing_pin_pending' \in BOOLEAN
      BY <2>4, GoToTyped DEF InterruptChannelOpened, BtState
    <3>3. ScheduleLedReport(h, "HIDConnected")
      BY <2>4 DEF InterruptChannelOpened
    <3> HIDE DEF h
    <3>4. hid_channels' \in Channels /\ can_send' \subseteq Cid
      BY <3>1, <3>3, ScheduleLedReportTyped
    <3> QED
      BY <1>1, <2>1, <2>4, <3>2, <3>4, ChannelsAreTyped
      DEF ChannelOpened, InterruptChannelOpened, TypeInv, TypeOK
  <2>5. CASE UNCHANGED <<stateVars, hid_channels, can_send, closing,
                         inquiry_timer_armed, usb_report>>
    BY <1>1, <1>a, <2>1, <2>5, ChannelsAreTyped DEF ChannelOpened, TypeInv, TypeOK
  <2> QED
    BY <1>1, <2>2, <2>3, <2>4, <2>5 DEF ChannelOpened
<1>2. ASSUME NEW c \in Cid, ChannelOpenFailed(c)
      PROVE  TypeInv'
  <2>1. channels' \in [Cid -> Channel] /\ DisconnectAfterError(Stay, hid_channels)
    BY <1>2, <1>b DEF ChannelOpenFailed
  <2> QED
    BY <1>2, <1>a, <2>1, StayTyped, DisconnectTyped, ChannelsAreTyped
    DEF ChannelOpenFailed, TypeInv, TypeOK
<1>3. ASSUME NEW c \in Cid, ChannelClosed(c)
      PROVE  TypeInv'
  <2>1. channels' \in [Cid -> Channel]
    BY <1>3, <1>b DEF ChannelClosed
  <2>2. hid_channels' \in Channels
    BY <1>3, <1>a, NoCidIsNone, ChannelsWellFormed DEF ChannelClosed, Channels
  <2>3. closing' \subseteq Handle
    BY <1>3 DEF ChannelClosed, EndsConnection, GapDisconnect, TypeInv, TypeOK
  <2>4. /\ usb_report' \in {"pressed", "released"}
        /\ handshake_due' \in Cid \cup {NoCid}
        /\ can_send' \subseteq Cid
    BY <1>3 DEF ChannelClosed, TypeInv, TypeOK
  <2> QED
    BY <1>3, <2>1, <2>2, <2>3, <2>4, ChannelsAreTyped
    DEF ChannelClosed, TypeInv, TypeOK
<1>4. ASSUME NEW c \in Cid, SendSetProtocol(c)
      PROVE  TypeInv'
  <2> DEFINE sent == [hid_channels EXCEPT !.boot_protocol_request_pending = FALSE]
  <2>1. sent \in Channels
    BY <1>a, FlagsWellFormed DEF Channels
  <2>2. can_send' \subseteq Cid
    BY <1>4 DEF SendSetProtocol, CanSend, TypeInv, TypeOK
  <2>3. CASE /\ hid_channels' = sent
             /\ handshake_due' = c
             /\ UNCHANGED <<stateVars, closing, inquiry_timer_armed, usb_report>>
    BY <1>4, <2>1, <2>2, <2>3, ChannelsAreTyped DEF SendSetProtocol, TypeInv, TypeOK
  <2>4. CASE DisconnectAfterError(Stay, sent) /\ UNCHANGED handshake_due
    <3> HIDE DEF sent
    <3> QED
      BY <1>4, <2>1, <2>2, <2>4, StayTyped, DisconnectTyped, ChannelsAreTyped
      DEF SendSetProtocol, TypeInv, TypeOK
  <2> QED
    BY <1>4, <2>3, <2>4 DEF SendSetProtocol
<1>5. ASSUME NEW c \in Cid, SendLedReport(c)
      PROVE  TypeInv'
  <2> DEFINE asked == [hid_channels EXCEPT !.led_can_send_requested = FALSE]
  <2>1. asked \in Channels
    BY <1>a, FlagsWellFormed DEF Channels
  <2>2. [asked EXCEPT !.led_report_pending = FALSE] \in Channels
    BY <2>1, FlagsWellFormed DEF Channels
  <2>3. hid_channels' \in Channels
    BY <1>5, <2>1, <2>2 DEF SendLedReport
  <2>4. can_send' \subseteq Cid
    BY <1>5 DEF SendLedReport, CanSend, TypeInv, TypeOK
  <2>5. keyboard_leds' \in 0..31 \cup {NoLeds}
    BY <1>5, <1>a, ChannelsAreTyped DEF SendLedReport, HidChannel, TypeInv, TypeOK
  <2> QED
    BY <1>5, <2>3, <2>4, <2>5, ChannelsAreTyped DEF SendLedReport, TypeInv, TypeOK
<1>6. ASSUME NEW c \in Cid, CanSendIgnored(c)
      PROVE  TypeInv'
  <2>1. can_send' \subseteq Cid
    BY <1>6 DEF CanSendIgnored, CanSend, TypeInv, TypeOK
  <2> QED
    BY <1>6, <2>1 DEF CanSendIgnored, TypeInv, TypeOK
<1>7. ASSUME NEW ok \in BOOLEAN, Handshake(ok)
      PROVE  TypeInv'
  <2>1. CASE OpenInterruptChannel
    BY <1>7, <2>1, OpenInterruptTyped, ChannelsAreTyped
    DEF Handshake, TypeInv, TypeOK
  <2>2. CASE DisconnectAfterError(Stay, hid_channels) /\ UNCHANGED channels
    BY <1>7, <1>a, <2>2, StayTyped, DisconnectTyped, ChannelsAreTyped
    DEF Handshake, TypeInv, TypeOK
  <2> QED
    BY <1>7, <2>1, <2>2 DEF Handshake
<1>8. CASE HandshakeIgnored
  BY <1>8 DEF HandshakeIgnored, TypeInv, TypeOK
<1>9. ASSUME NEW report \in {"pressed", "released"}, InterruptReport(report)
      PROVE  TypeInv'
  BY <1>9 DEF InterruptReport, TypeInv, TypeOK
<1> QED
  BY <1>1, <1>2, <1>3, <1>4, <1>5, <1>6, <1>7, <1>8, <1>9 DEF HidTraffic

\* PairingEvents
LEMMA PairingTyped == TypeInv /\ PairingEvents => TypeInv'
<1> SUFFICES ASSUME TypeInv, PairingEvents PROVE TypeInv'
  OBVIOUS
<1>a. devices \in Devices
  BY DEF TypeInv, TypeOK, Devices
<1>1. ASSUME NEW a \in Addr, PinCodeRequest(a)
      PROVE  TypeInv'
  <2>1. devices' \in Devices
    BY <1>1, <1>a, ListOperations DEF PinCodeRequest
  <2>2. link_keys' \subseteq Addr /\ pairing_pin_pending' \in BOOLEAN
    BY <1>1 DEF PinCodeRequest, TypeInv, TypeOK
  <2>3. UNCHANGED <<current_state, choiceVars, saved_device, pageVars,
                    linkVars, wireVars, closing, sdp_query, inquiring,
                    inquiry_timer_armed, hid_channels, usb_report>>
    BY <1>1 DEF PinCodeRequest
  <2> QED
    BY <2>1, <2>2, <2>3 DEF TypeInv, TypeOK, Devices
<1>2. ASSUME NEW a \in Addr, LinkKeyNotification(a)
      PROVE  TypeInv'
  <2>1. devices' \in Devices
    BY <1>2, <1>a, ListOperations, ChoiceAssumption DEF LinkKeyNotification
  <2> QED
    BY <1>2, <2>1 DEF LinkKeyNotification, TypeInv, TypeOK, Devices
<1>3. CASE PairingPinTimeout
  <2>1. pairing_pin_pending' \in BOOLEAN /\ devices' \in Devices
    BY <1>3, <1>a DEF PairingPinTimeout
  <2> QED
    BY <1>3, <2>1 DEF PairingPinTimeout, TypeInv, TypeOK, Devices
<1> QED
  BY <1>1, <1>2, <1>3 DEF PairingEvents

\* ControlRequests
LEMMA RequestsTyped == TypeInv /\ ControlRequests => TypeInv'
<1> SUFFICES ASSUME TypeInv, ControlRequests PROVE TypeInv'
  OBVIOUS
<1>a. devices \in Devices
  BY DEF TypeInv, TypeOK, Devices
<1>b. StartInquiry => current_state' \in BtState /\ pairing_pin_pending' \in BOOLEAN
  BY GoToTyped DEF StartInquiry, BtState
<1>c. EndConnection => closing' \subseteq Handle /\ connection_cancel_requested' \in BOOLEAN
  BY DEF EndConnection, GapDisconnect, CancelPendingConnection, TypeInv, TypeOK
<1>1. CASE ExecuteScan
  <2>1. devices' \in Devices
    BY <1>1, MaxDevicesAssumption DEF ExecuteScan, Devices, DeviceList
  <2> QED
    BY <1>1, <1>b, <2>1 DEF ExecuteScan, StartInquiry, TypeInv, TypeOK, Devices
<1>2. ASSUME NEW a \in Addr, ExecuteConnect(a)
      PROVE  TypeInv'
  <2>1. SelectKeyboard(a) /\ BeginConnection(a)
    BY <1>2 DEF ExecuteConnect
  <2> QED
    BY <1>2, <2>1, SelectKeyboardTyped, BeginConnectionTyped
    DEF ExecuteConnect, TypeInv, TypeOK, Devices
<1>3. CASE ExecuteDisconnect
  <2>1. /\ auto_connect_enabled' \in BOOLEAN /\ devices' \in Devices
        /\ closing' \subseteq Handle /\ connection_cancel_requested' \in BOOLEAN
    BY <1>3, <1>a, <1>c DEF ExecuteDisconnect
  <2> QED
    BY <1>3, <2>1 DEF ExecuteDisconnect, TypeInv, TypeOK, Devices
<1>4. CASE ExecuteReconnect
  <2> DEFINE i == ConnectionTarget(devices)
             target == IF selected_device # NoAddr THEN selected_device
                       ELSE IF i # 0 THEN devices[i].address ELSE NoAddr
  <2>1. target \in Addr \cup {NoAddr}
    BY <1>a, Lookups DEF TypeInv, TypeOK
  <2>2. CASE UNCHANGED <<stateVars, selected_device, saved_device, pageVars,
                         inquiring, inquiry_timer_armed, devices>>
    BY <1>4, <2>2 DEF ExecuteReconnect, TypeInv, TypeOK
  <2>3. CASE /\ StartInquiry
             /\ UNCHANGED <<selected_device, saved_device, pageVars, devices>>
    BY <1>4, <1>b, <2>3 DEF ExecuteReconnect, StartInquiry, TypeInv, TypeOK
  <2>4. CASE /\ target # NoAddr
             /\ IF selected_device = NoAddr
                THEN SelectKeyboard(target)
                ELSE UNCHANGED <<selected_device, saved_device>>
             /\ BeginConnection(target)
             /\ UNCHANGED inquiring
    <3>1. target \in Addr
      BY <2>1, <2>4
    <3>2. /\ selected_device' \in Addr \cup {NoAddr}
          /\ saved_device' \in Addr \cup {NoAddr}
      BY <2>4, <3>1, SelectKeyboardTyped DEF TypeInv, TypeOK
    <3> HIDE DEF target
    <3> QED
      BY <1>4, <2>4, <3>1, <3>2, BeginConnectionTyped
      DEF ExecuteReconnect, TypeInv, TypeOK, Devices
  <2> QED
    BY <1>4, <2>2, <2>3, <2>4 DEF ExecuteReconnect
<1>5. CASE ExecuteForget
  <2>1. devices' \in Devices
    BY <1>5, <1>a, MaxDevicesAssumption, FlagsTyped DEF ExecuteForget, Devices
  <2> QED
    BY <1>5, <1>c, <2>1 DEF ExecuteForget, TypeInv, TypeOK, Devices
<1> QED
  BY <1>1, <1>2, <1>3, <1>4, <1>5 DEF ControlRequests

\* Next: the groups above and the actions outside them
LEMMA StepTyped == TypeInv /\ [Next]_vars => TypeInv'
<1> SUFFICES ASSUME TypeInv, [Next]_vars PROVE TypeInv'
  OBVIOUS
<1>a. devices \in Devices /\ hid_channels \in Channels
  BY DEF TypeInv, TypeOK, Devices
<1>1. CASE Search \/ Paging \/ Discovery \/ HidTraffic
           \/ PairingEvents \/ ControlRequests
  BY <1>1, SearchTyped, PagingTyped, DiscoveryTyped, HidTrafficTyped,
     PairingTyped, RequestsTyped
<1>2. CASE InquiryTimer
  <2>1. CASE BeginConnection(selected_device) /\ selected_device # NoAddr
    <3>1. selected_device \in Addr
      BY <2>1 DEF TypeInv, TypeOK
    <3> QED
      BY <1>2, <2>1, <3>1, BeginConnectionTyped
      DEF InquiryTimer, TypeInv, TypeOK, Devices
  <2>2. CASE /\ inquiry_timer_armed' = FALSE
             /\ UNCHANGED <<stateVars, pageVars, devices>>
    <3>1. inquiry_timer_armed' \in BOOLEAN /\ devices' \in Devices
      BY <1>a, <2>2
    <3>2. UNCHANGED <<choiceVars, flashVars, linkVars, wireVars, closing,
                      sdp_query, inquiring, hid_channels, usb_report>>
      BY <1>2 DEF InquiryTimer
    <3> QED
      BY <2>2, <3>1, <3>2 DEF TypeInv, TypeOK, Devices
  <2> QED
    BY <1>2, <2>1, <2>2 DEF InquiryTimer
<1>3. ASSUME NEW h \in Handle, DisconnectionComplete(h)
      PROVE  TypeInv'
  <2>1. devices' \in Devices
    BY <1>3, <1>a, MaxDevicesAssumption, FlagsTyped
    DEF DisconnectionComplete, Devices
  <2>2. hid_channels' \in Channels
    BY <1>3, <1>a, FlagsWellFormed DEF DisconnectionComplete, Channels
  <2>3. /\ current_state' \in BtState /\ pairing_pin_pending' \in BOOLEAN
        /\ inquiry_timer_armed' \in BOOLEAN
    BY <1>3, GoToTyped, StartIdleTimerTyped DEF DisconnectionComplete, BtState
  <2>4. links' \in [Handle -> Addr \cup {NoAddr}] /\ closing' \subseteq Handle
    BY <1>3 DEF DisconnectionComplete, TypeInv, TypeOK
  <2> QED
    BY <1>3, <2>1, <2>2, <2>3, <2>4, ChannelsAreTyped
    DEF DisconnectionComplete, TypeInv, TypeOK, Devices
<1>4. ASSUME NEW byte \in LedReport, SetKeyboardLeds(byte)
      PROVE  TypeInv'
  <2>1. hid_channels' \in Channels
    BY <1>4, <1>a, LedAssumption, LedsWellFormed DEF SetKeyboardLeds, Channels
  <2> QED
    BY <1>4, <2>1, ChannelsAreTyped DEF SetKeyboardLeds, TypeInv, TypeOK
<1>5. CASE ScheduleLedReportTask
  <2>1. ScheduleLedReport(hid_channels, current_state)
    BY <1>5 DEF ScheduleLedReportTask
  <2>2. hid_channels' \in Channels /\ can_send' \subseteq Cid
    BY <1>a, <2>1, ScheduleLedReportTyped
  <2> QED
    BY <1>5, <2>2, ChannelsAreTyped DEF ScheduleLedReportTask, TypeInv, TypeOK
<1>6. CASE PowerCycle
  <2>1. devices' \in Devices
    BY <1>6, MaxDevicesAssumption DEF PowerCycle, Devices, DeviceList
  <2>2. hid_channels' \in Channels
    BY <1>6, <1>a, FlagsWellFormed DEF PowerCycle, Channels
  <2>3. links' \in [Handle -> Addr \cup {NoAddr}] /\ channels' \in [Cid -> Channel]
    BY <1>6, PsmValues DEF PowerCycle, NoChannel, Channel
  <2> QED
    BY <1>6, <2>1, <2>2, <2>3, ChannelsAreTyped
    DEF PowerCycle, TypeInv, TypeOK, BtState, Devices, NoCid
<1>7. CASE UNCHANGED vars
  BY <1>7 DEF vars, TypeInv, TypeOK
<1> QED
  BY <1>1, <1>2, <1>3, <1>4, <1>5, <1>6, <1>7 DEF Next

\* Every variable keeps its type; in particular the device list never grows
\* past the array that holds it and every connection handle, address and CID
\* the program stores is one the stack gave it.
THEOREM TypeCorrect == Spec => []TypeOK
<1>1. TypeInv => TypeOK
  BY DEF TypeInv
<1> QED
  BY <1>1, InitTyped, StepTyped, PTL DEF Spec

=============================================================================
