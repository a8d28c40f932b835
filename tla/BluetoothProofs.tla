--------------------------- MODULE BluetoothProofs ---------------------------
(***************************************************************************)
(* Safety of the connection manager, from its type invariant.  The         *)
(* inductive invariant ties three properties together: a retry is always   *)
(* scheduled in Idle because no handler takes the path that waits for a    *)
(* disconnection there, and that is so because nothing of a connection is  *)
(* left in Idle; no key stays pressed for the same reason.                 *)
(***************************************************************************)
EXTENDS BluetoothTypeProofs

USE DEF stateVars, choiceVars, flashVars, pageVars, linkVars, wireVars

Safe == NothingLeft /\ RetryScheduled /\ KeysReleased

BeforeConnection == {"Initializing", "Idle", "Inquiry", "Connecting"}

\* A step that touches none of what the invariant talks about
LEMMA Untouched ==
    ASSUME Safe,
           UNCHANGED <<current_state, acl_handle, auto_connect_enabled,
                       selected_device, inquiry_timer_armed, usb_report>>,
           hid_channels'.interrupt_open = hid_channels.interrupt_open
    PROVE  Safe'
  BY DEF Safe, NothingLeft, RetryScheduled, KeysReleased

\* A step on a link or into one, that leaves the USB report alone
LEMMA OnLink ==
    ASSUME Safe, current_state' \in BtState \ BeforeConnection,
           hid_channels'.interrupt_open \/ usb_report' = "released"
    PROVE  Safe'
  BY DEF Safe, NothingLeft, RetryScheduled, KeysReleased, BtState, BeforeConnection

\* begin_connection, where nothing of a connection is left
LEMMA BeginSafe ==
    ASSUME TypeInv, Safe, NEW a, BeginConnection(a),
           current_state \in BeforeConnection,
           UNCHANGED <<acl_handle, hid_channels, usb_report>>
    PROVE  Safe'
<1>1. acl_handle' = NoHandle /\ ~hid_channels'.interrupt_open
      /\ usb_report' = "released"
  BY DEF Safe, NothingLeft, KeysReleased, BeforeConnection
<1>2. \/ current_state' = "Connecting"
      \/ current_state' = "Idle" /\ inquiry_timer_armed' = RetryWanted
  BY DEF BeginConnection, GoTo
<1>3. RetryScheduled'
  BY <1>2 DEF RetryScheduled, RetryWanted
<1> QED
  BY <1>1, <1>3 DEF Safe, NothingLeft, KeysReleased

\* Back to Idle with the retry timer started
LEMMA IdleSafe ==
    ASSUME GoTo("Idle"), StartIdleTimer, acl_handle' = NoHandle,
           ~hid_channels'.interrupt_open, usb_report' = "released"
    PROVE  Safe'
<1>1. RetryScheduled'
  BY DEF StartIdleTimer, RetryWanted, RetryScheduled
<1> QED
  BY <1>1 DEF Safe, NothingLeft, KeysReleased

\* disconnect_acl_after_error: with a link the state is not Idle and stays so
\* until the disconnection completes; without one everything is reset.
LEMMA DisconnectSafe ==
    ASSUME TypeInv, Safe, NEW ACTION Move, NEW h \in Channels,
           Move => \/ UNCHANGED current_state
                   \/ current_state' \in BtState \ BeforeConnection,
           UNCHANGED acl_handle,
           DisconnectAfterError(Move, h)
    PROVE  Safe'
<1>1. CASE acl_handle # NoHandle
  <2>1. Move /\ usb_report' = "released"
    BY <1>1 DEF DisconnectAfterError
  <2>2. current_state \in BtState \ BeforeConnection
    BY <1>1 DEF Safe, NothingLeft, TypeInv, TypeOK, BeforeConnection
  <2> QED
    BY <2>1, <2>2, OnLink
<1>2. CASE acl_handle = NoHandle
  <2>1. /\ GoTo("Idle") /\ StartIdleTimer
        /\ hid_channels' = ResetConnection(h)
        /\ usb_report' = "released"
    BY <1>2 DEF DisconnectAfterError
  <2>2. ~hid_channels'.interrupt_open
    BY <2>1, ChannelsAreTyped, ResetForgetsConnection
  <2> QED
    BY <1>2, <2>1, <2>2, IdleSafe
<1> QED
  BY <1>1, <1>2

\* schedule_keyboard_led_report does not open or close the interrupt channel.
LEMMA ScheduleKeepsInterrupt ==
    ASSUME NEW h \in Channels, NEW state, ScheduleLedReport(h, state)
    PROVE  hid_channels'.interrupt_open = h.interrupt_open
<1>1. h \in HidChannel(Cid)
  BY ChannelsAreTyped
<1>2. [h EXCEPT !.led_can_send_requested = TRUE].interrupt_open = h.interrupt_open
  BY <1>1 DEF HidChannel
<1> QED
  BY <1>2 DEF ScheduleLedReport

\* The states a link goes through, and the moves into them
LEMMA LinkMoves ==
    /\ GoTo("ServiceDiscovery") => current_state' \in BtState \ BeforeConnection
    /\ GoTo("OpeningControl") => current_state' \in BtState \ BeforeConnection
    /\ GoTo("SettingBootProtocol") => current_state' \in BtState \ BeforeConnection
    /\ GoTo("OpeningInterrupt") => current_state' \in BtState \ BeforeConnection
    /\ GoTo("HIDConnected") => current_state' \in BtState \ BeforeConnection
    /\ GoTo("Connected") => current_state' \in BtState \ BeforeConnection
    /\ Stay => UNCHANGED current_state
  BY DEF GoTo, Stay, BtState, BeforeConnection

-----------------------------------------------------------------------------
(* The actions.                                                            *)

LEMMA InitSafe == Init => Safe
  BY DEF Init, BootsWith, Safe, NothingLeft, RetryScheduled, KeysReleased,
     InitialHidChannels

\* Search
LEMMA SearchSafe == TypeInv /\ Safe /\ Search => Safe'
<1> SUFFICES ASSUME TypeInv, Safe, Search PROVE Safe'
  OBVIOUS
<1>1. CASE BtstackWorking
  <2>1. CASE auto_connect_enabled /\ selected_device # NoAddr
    BY <1>1, <2>1, BeginSafe DEF BtstackWorking, BeforeConnection
  <2>2. CASE ~(auto_connect_enabled /\ selected_device # NoAddr)
    BY <1>1, <2>2
    DEF BtstackWorking, GoTo, Safe, NothingLeft, RetryScheduled, KeysReleased
  <2> QED
    BY <2>1, <2>2
<1>2. CASE InquiryComplete
  <2>1. CASE InquiryTarget # NoAddr
    BY <1>2, <2>1, BeginSafe DEF InquiryComplete, BeforeConnection
  <2>2. CASE InquiryTarget = NoAddr
    BY <1>2, <2>2, IdleSafe DEF InquiryComplete, Safe, NothingLeft, KeysReleased
  <2> QED
    BY <2>1, <2>2
<1>3. CASE StaleInquiryComplete
  BY <1>3, Untouched DEF StaleInquiryComplete
<1>4. ASSUME NEW a \in Addr, NEW keyboard \in InquiryClass,
             InquiryResult(a, keyboard)
      PROVE  Safe'
  BY <1>4, Untouched DEF InquiryResult
<1> QED
  BY <1>1, <1>2, <1>3, <1>4 DEF Search

\* Paging
LEMMA PagingSafe == TypeInv /\ Safe /\ Paging => Safe'
<1> SUFFICES ASSUME TypeInv, Safe, NEW a \in Addr,
                    \/ ConnectionFailed(a)
                    \/ \E h \in Handle :
                           \/ ConnectionEstablished(a, h)
                           \/ CancelledConnectionEstablished(a, h)
                           \/ StaleConnectionComplete(a, h)
             PROVE  Safe'
  BY DEF Paging
<1>1. CASE ConnectionFailed(a)
  BY <1>1, IdleSafe DEF ConnectionFailed, Safe, NothingLeft, KeysReleased
<1>2. ASSUME NEW h \in Handle, ConnectionEstablished(a, h)
      PROVE  Safe'
  <2>1. usb_report' = "released"
    BY <1>2 DEF ConnectionEstablished, Safe, NothingLeft, KeysReleased
  <2> QED
    BY <1>2, <2>1, OnLink DEF ConnectionEstablished, BtState, BeforeConnection
<1>3. ASSUME NEW h \in Handle, CancelledConnectionEstablished(a, h)
      PROVE  Safe'
  <2>1. usb_report' = "released"
    BY <1>3 DEF CancelledConnectionEstablished, Safe, NothingLeft, KeysReleased
  <2> QED
    BY <1>3, <2>1, OnLink, LinkMoves DEF CancelledConnectionEstablished
<1>4. ASSUME NEW h \in Handle, StaleConnectionComplete(a, h)
      PROVE  Safe'
  BY <1>4, Untouched DEF StaleConnectionComplete
<1> QED
  BY <1>1, <1>2, <1>3, <1>4

\* open_control_channel and open_interrupt_channel
LEMMA OpenControlSafe ==
    ASSUME TypeInv, Safe, NEW psm, OpenControlChannel(psm), UNCHANGED acl_handle
    PROVE  Safe'
<1>1. hid_channels \in Channels /\ hid_channels \in HidChannel(Cid)
  BY ChannelsAreTyped DEF TypeInv
<1>2. ASSUME NEW c \in Cid, GoTo("OpeningControl"), UNCHANGED usb_report,
             hid_channels' = [hid_channels EXCEPT !.control_cid = c]
      PROVE  Safe'
  <2>1. hid_channels'.interrupt_open = hid_channels.interrupt_open
    BY <1>1, <1>2 DEF HidChannel
  <2>2. hid_channels'.interrupt_open \/ usb_report' = "released"
    BY <1>2, <2>1 DEF Safe, KeysReleased
  <2> QED
    BY <1>2, <2>2, OnLink, LinkMoves
<1>3. CASE DisconnectAfterError(GoTo("OpeningControl"), hid_channels)
  BY <1>1, <1>3, LinkMoves, DisconnectSafe
<1> QED
  BY <1>2, <1>3 DEF OpenControlChannel

LEMMA OpenInterruptSafe ==
    ASSUME TypeInv, Safe, OpenInterruptChannel, UNCHANGED acl_handle
    PROVE  Safe'
<1>1. hid_channels \in Channels /\ hid_channels \in HidChannel(Cid)
  BY ChannelsAreTyped DEF TypeInv
<1>2. ASSUME NEW c \in Cid, GoTo("OpeningInterrupt"), UNCHANGED usb_report,
             hid_channels' = [hid_channels EXCEPT !.interrupt_cid = c]
      PROVE  Safe'
  <2>1. hid_channels'.interrupt_open = hid_channels.interrupt_open
    BY <1>1, <1>2 DEF HidChannel
  <2>2. hid_channels'.interrupt_open \/ usb_report' = "released"
    BY <1>2, <2>1 DEF Safe, KeysReleased
  <2> QED
    BY <1>2, <2>2, OnLink, LinkMoves
<1>3. CASE DisconnectAfterError(GoTo("OpeningInterrupt"), hid_channels)
  BY <1>1, <1>3, LinkMoves, DisconnectSafe
<1>4. CASE DisconnectAfterError(Stay, hid_channels)
  BY <1>1, <1>4, LinkMoves, DisconnectSafe
<1> QED
  BY <1>2, <1>3, <1>4 DEF OpenInterruptChannel

\* Discovery
LEMMA DiscoverySafe == TypeInv /\ Safe /\ Discovery => Safe'
<1> SUFFICES ASSUME TypeInv, Safe, Discovery PROVE Safe'
  OBVIOUS
<1>a. hid_channels \in Channels
  BY DEF TypeInv
<1>1. CASE LinkSecured
  <2>1. CASE /\ GoTo("ServiceDiscovery")
             /\ UNCHANGED <<closing, inquiry_timer_armed, hid_channels, usb_report>>
    <3>1. hid_channels'.interrupt_open \/ usb_report' = "released"
      BY <2>1 DEF Safe, KeysReleased
    <3> QED
      BY <2>1, <3>1, OnLink, LinkMoves
  <2>2. CASE DisconnectAfterError(GoTo("ServiceDiscovery"), hid_channels)
    <3>1. UNCHANGED acl_handle
      BY <1>1 DEF LinkSecured
    <3> QED
      BY <1>a, <2>2, <3>1, LinkMoves, DisconnectSafe
  <2> QED
    BY <1>1, <2>1, <2>2 DEF LinkSecured, StartSdpDiscovery
<1>2. CASE SecurityFailed
  <2>1. DisconnectAfterError(Stay, hid_channels) /\ UNCHANGED acl_handle
    BY <1>2 DEF SecurityFailed
  <2> QED
    BY <1>a, <2>1, LinkMoves, DisconnectSafe
<1>3. ASSUME NEW list, SdpAttribute(list)
      PROVE  Safe'
  BY <1>3, Untouched DEF SdpAttribute
<1>4. ASSUME NEW ok \in BOOLEAN, SdpComplete(ok)
      PROVE  Safe'
  <2>1. UNCHANGED acl_handle
    BY <1>4 DEF SdpComplete
  <2>2. CASE ok /\ ConnectedDevice # 0
    <3>1. OpenControlChannel(devices'[ConnectedDevice].control_psm)
      BY <1>4, <2>2 DEF SdpComplete
    <3> QED
      BY <2>1, <3>1, OpenControlSafe
  <2>3. CASE DisconnectAfterError(Stay, hid_channels)
    BY <1>a, <2>1, <2>3, LinkMoves, DisconnectSafe
  <2> QED
    BY <1>4, <2>2, <2>3 DEF SdpComplete
<1> QED
  BY <1>1, <1>2, <1>3, <1>4
  DEF Discovery, SdpControlAttribute, SdpInterruptAttribute

\* HidTraffic
LEMMA HidTrafficSafe == TypeInv /\ Safe /\ HidTraffic => Safe'
<1> SUFFICES ASSUME TypeInv, Safe, HidTraffic PROVE Safe'
  OBVIOUS
<1>a. hid_channels \in Channels /\ hid_channels \in HidChannel(Cid)
  BY ChannelsAreTyped DEF TypeInv
<1>1. ASSUME NEW c \in Cid, ChannelOpened(c)
      PROVE  Safe'
  <2>a. UNCHANGED <<acl_handle, choiceVars>>
    BY <1>1 DEF ChannelOpened
  <2>1. CASE DisconnectAfterError(Stay, hid_channels)
    BY <1>a, <2>a, <2>1, LinkMoves, DisconnectSafe
  <2>2. CASE ControlChannelOpened(c)
    <3> DEFINE opened == ControlOpened(hid_channels, c)
    <3>1. opened \in Channels /\ opened.interrupt_open = hid_channels.interrupt_open
      BY <1>a, NoCidIsNone, ChannelsWellFormed DEF Channels, ControlOpened, HidChannel
    <3>2. CASE /\ hid_channels' = opened
               /\ GoTo("SettingBootProtocol")
               /\ UNCHANGED usb_report
      <4>1. hid_channels'.interrupt_open \/ usb_report' = "released"
        BY <3>1, <3>2 DEF Safe, KeysReleased
      <4> QED
        BY <3>2, <4>1, OnLink, LinkMoves
    <3>3. CASE DisconnectAfterError(GoTo("SettingBootProtocol"), opened)
      <4> HIDE DEF opened
      <4> QED
        BY <2>a, <3>1, <3>3, LinkMoves, DisconnectSafe
    <3> QED
      BY <2>2, <3>2, <3>3 DEF ControlChannelOpened
  <2>3. CASE InterruptChannelOpened(c)
    <3> DEFINE h == RequestLedSync(InterruptOpened(hid_channels, c))
    <3>1. h \in Channels
      BY <1>a, NoCidIsNone, ChannelsWellFormed, FlagsWellFormed DEF Channels
    <3>2. h.interrupt_open
      BY <1>a DEF InterruptOpened, RequestLedSync, HidChannel
    <3>3. ScheduleLedReport(h, "HIDConnected") /\ GoTo("HIDConnected")
      BY <2>3 DEF InterruptChannelOpened
    <3> HIDE DEF h
    <3>4. hid_channels'.interrupt_open
      BY <3>1, <3>2, <3>3, ScheduleKeepsInterrupt
    <3> QED
      BY <3>3, <3>4, OnLink, LinkMoves
  <2>4. CASE UNCHANGED <<stateVars, hid_channels, can_send, closing,
                         inquiry_timer_armed, usb_report>>
    BY <2>a, <2>4, Untouched
  <2> QED
    BY <1>1, <2>1, <2>2, <2>3, <2>4 DEF ChannelOpened
<1>2. ASSUME NEW c \in Cid, ChannelOpenFailed(c)
      PROVE  Safe'
  <2>1. DisconnectAfterError(Stay, hid_channels) /\ UNCHANGED acl_handle
    BY <1>2 DEF ChannelOpenFailed
  <2> QED
    BY <1>a, <2>1, LinkMoves, DisconnectSafe
<1>3. ASSUME NEW c \in Cid, ChannelClosed(c)
      PROVE  Safe'
  <2>1. /\ hid_channels' = Closed(hid_channels, c)
        /\ usb_report' = IF ClosesInterrupt(hid_channels, c) THEN "released"
                                                             ELSE usb_report
        /\ UNCHANGED <<current_state, acl_handle, auto_connect_enabled,
                       selected_device, inquiry_timer_armed>>
    BY <1>3 DEF ChannelClosed
  <2>2. CASE ~ClosesInterrupt(hid_channels, c)
    <3>1. hid_channels'.interrupt_open = hid_channels.interrupt_open
      BY <1>a, <2>1, <2>2, ClosedKeepsOther
    <3> QED
      BY <2>1, <2>2, <3>1, Untouched
  <2>3. CASE ClosesInterrupt(hid_channels, c)
    <3>1. ~hid_channels'.interrupt_open
      BY <1>a, <2>1, <2>3 DEF Closed, HidChannel
    <3> QED
      BY <2>1, <2>3, <3>1 DEF Safe, NothingLeft, RetryScheduled, KeysReleased
  <2> QED
    BY <2>2, <2>3
<1>4. ASSUME NEW c \in Cid, SendSetProtocol(c)
      PROVE  Safe'
  <2> DEFINE sent == [hid_channels EXCEPT !.boot_protocol_request_pending = FALSE]
  <2>a. UNCHANGED <<acl_handle, choiceVars>>
    BY <1>4 DEF SendSetProtocol
  <2>1. sent \in Channels /\ sent.interrupt_open = hid_channels.interrupt_open
    BY <1>a, FlagsWellFormed DEF Channels, HidChannel
  <2>2. CASE /\ hid_channels' = sent
             /\ UNCHANGED <<stateVars, closing, inquiry_timer_armed, usb_report>>
    BY <2>a, <2>1, <2>2, Untouched
  <2>3. CASE DisconnectAfterError(Stay, sent)
    <3> HIDE DEF sent
    <3> QED
      BY <2>a, <2>1, <2>3, LinkMoves, DisconnectSafe
  <2> QED
    BY <1>4, <2>2, <2>3 DEF SendSetProtocol
<1>5. ASSUME NEW c \in Cid, SendLedReport(c)
      PROVE  Safe'
  <2>1. hid_channels'.interrupt_open = hid_channels.interrupt_open
    BY <1>5, <1>a DEF SendLedReport, HidChannel
  <2> QED
    BY <1>5, <2>1, Untouched DEF SendLedReport
<1>6. ASSUME NEW c \in Cid, CanSendIgnored(c)
      PROVE  Safe'
  BY <1>6, Untouched DEF CanSendIgnored
<1>7. ASSUME NEW ok \in BOOLEAN, Handshake(ok)
      PROVE  Safe'
  <2>1. UNCHANGED acl_handle
    BY <1>7 DEF Handshake
  <2>2. CASE OpenInterruptChannel
    BY <2>1, <2>2, OpenInterruptSafe
  <2>3. CASE DisconnectAfterError(Stay, hid_channels)
    BY <1>a, <2>1, <2>3, LinkMoves, DisconnectSafe
  <2> QED
    BY <1>7, <2>2, <2>3 DEF Handshake
<1>8. CASE HandshakeIgnored
  BY <1>8, Untouched DEF HandshakeIgnored
<1>9. ASSUME NEW report \in {"pressed", "released"}, InterruptReport(report)
      PROVE  Safe'
  BY <1>9 DEF InterruptReport, Safe, NothingLeft, RetryScheduled, KeysReleased
<1> QED
  BY <1>1, <1>2, <1>3, <1>4, <1>5, <1>6, <1>7, <1>8, <1>9 DEF HidTraffic

\* ControlRequests
LEMMA RequestsSafe == TypeInv /\ Safe /\ ControlRequests => Safe'
<1> SUFFICES ASSUME TypeInv, Safe, ControlRequests PROVE Safe'
  OBVIOUS
<1>a. ASSUME StartInquiry, current_state = "Idle",
             UNCHANGED <<acl_handle, hid_channels, usb_report>>
      PROVE  Safe'
  BY <1>a DEF StartInquiry, GoTo, Safe, NothingLeft, RetryScheduled, KeysReleased
<1>b. ASSUME ~auto_connect_enabled',
             UNCHANGED <<current_state, acl_handle, hid_channels, usb_report>>
      PROVE  Safe'
  BY <1>b DEF Safe, NothingLeft, RetryScheduled, KeysReleased
<1>1. CASE ExecuteScan
  BY <1>1, <1>a DEF ExecuteScan
<1>2. ASSUME NEW a \in Addr, ExecuteConnect(a)
      PROVE  Safe'
  BY <1>2, BeginSafe DEF ExecuteConnect, BeforeConnection
<1>3. CASE ExecuteDisconnect
  BY <1>3, <1>b DEF ExecuteDisconnect
<1>4. CASE ExecuteReconnect
  <2>1. UNCHANGED <<acl_handle, hid_channels, usb_report>>
    BY <1>4 DEF ExecuteReconnect
  <2>2. CASE acl_handle # NoHandle \/ current_state # "Idle"
    <3>1. UNCHANGED stateVars
      BY <1>4, <2>2 DEF ExecuteReconnect
    <3>2. current_state # "Idle"
      BY <2>2 DEF Safe, NothingLeft
    <3> QED
      BY <2>1, <3>1, <3>2 DEF Safe, NothingLeft, RetryScheduled, KeysReleased
  <2>3. CASE ~(acl_handle # NoHandle \/ current_state # "Idle")
    <3>1. \/ StartInquiry
          \/ \E a \in Addr \cup {NoAddr} : BeginConnection(a)
      <4> DEFINE i == ConnectionTarget(devices)
                 target == IF selected_device # NoAddr THEN selected_device
                           ELSE IF i # 0 THEN devices[i].address ELSE NoAddr
      <4>1. target \in Addr \cup {NoAddr}
        BY Lookups DEF TypeInv, TypeOK, Devices
      <4>2. StartInquiry \/ BeginConnection(target)
        BY <1>4, <2>3 DEF ExecuteReconnect
      <4> HIDE DEF target
      <4> QED
        BY <4>1, <4>2
    <3>2. current_state \in BeforeConnection
      BY <2>3 DEF BeforeConnection
    <3> QED
      BY <1>a, <2>1, <2>3, <3>1, <3>2, BeginSafe
  <2> QED
    BY <2>2, <2>3
<1>5. CASE ExecuteForget
  BY <1>5, <1>b DEF ExecuteForget
<1> QED
  BY <1>1, <1>2, <1>3, <1>4, <1>5 DEF ControlRequests

\* Next: the groups above and the actions outside them
LEMMA StepSafe == TypeInv /\ Safe /\ [Next]_vars => Safe'
<1> SUFFICES ASSUME TypeInv, Safe, [Next]_vars PROVE Safe'
  OBVIOUS
<1>a. hid_channels \in Channels /\ hid_channels \in HidChannel(Cid)
  BY ChannelsAreTyped DEF TypeInv
<1>1. CASE Search \/ Paging \/ Discovery \/ HidTraffic \/ ControlRequests
  BY <1>1, SearchSafe, PagingSafe, DiscoverySafe, HidTrafficSafe, RequestsSafe
<1>2. CASE PairingEvents
  BY <1>2, Untouched
  DEF PairingEvents, PinCodeRequest, LinkKeyNotification, PairingPinTimeout
<1>3. CASE InquiryTimer
  <2>1. UNCHANGED <<acl_handle, hid_channels, usb_report, choiceVars>>
    BY <1>3 DEF InquiryTimer
  <2>2. CASE BeginConnection(selected_device) /\ current_state = "Idle"
    BY <2>1, <2>2, BeginSafe DEF BeforeConnection
  <2>3. CASE /\ ~(/\ current_state = "Idle"
                  /\ auto_connect_enabled
                  /\ selected_device # NoAddr)
             /\ UNCHANGED stateVars
    BY <2>1, <2>3 DEF Safe, NothingLeft, RetryScheduled, KeysReleased
  <2> QED
    BY <1>3, <2>2, <2>3 DEF InquiryTimer
<1>4. ASSUME NEW h \in Handle, DisconnectionComplete(h)
      PROVE  Safe'
  <2>1. ~hid_channels'.interrupt_open
    BY <1>4, <1>a, ResetForgetsConnection DEF DisconnectionComplete
  <2> QED
    BY <1>4, <2>1, IdleSafe DEF DisconnectionComplete
<1>5. ASSUME NEW byte \in LedReport, SetKeyboardLeds(byte)
      PROVE  Safe'
  <2>1. hid_channels'.interrupt_open = hid_channels.interrupt_open
    BY <1>5, <1>a DEF SetKeyboardLeds, SetLeds, HidChannel
  <2> QED
    BY <1>5, <2>1, Untouched DEF SetKeyboardLeds
<1>6. CASE ScheduleLedReportTask
  <2>1. hid_channels'.interrupt_open = hid_channels.interrupt_open
    BY <1>6, <1>a, ScheduleKeepsInterrupt DEF ScheduleLedReportTask
  <2> QED
    BY <1>6, <2>1, Untouched DEF ScheduleLedReportTask
<1>7. CASE PowerCycle
  BY <1>7
  DEF PowerCycle, Safe, NothingLeft, RetryScheduled, KeysReleased, InitialHidChannels
<1>8. CASE UNCHANGED vars
  BY <1>8, Untouched DEF vars
<1> QED
  BY <1>1, <1>2, <1>3, <1>4, <1>5, <1>6, <1>7, <1>8 DEF Next

LEMMA Invariant == Spec => [](TypeInv /\ Safe)
<1>1. Init => TypeInv /\ Safe
  BY InitTyped, InitSafe
<1>2. TypeInv /\ Safe /\ [Next]_vars => (TypeInv /\ Safe)'
  BY StepTyped, StepSafe
<1> QED
  BY <1>1, <1>2, PTL DEF Spec

-----------------------------------------------------------------------------
\* The adapter is never idle, willing to reconnect and without the timer that
\* makes it retry, whatever call was refused on the way back to Idle.
THEOREM RetryAlwaysScheduled == Spec => []RetryScheduled
<1>1. Safe => RetryScheduled
  BY DEF Safe
<1> QED
  BY <1>1, Invariant, PTL

\* No key stays pressed on the USB host once no interrupt channel is open.
THEOREM KeysAlwaysReleased == Spec => []KeysReleased
<1>1. Safe => KeysReleased
  BY DEF Safe
<1> QED
  BY <1>1, Invariant, PTL

\* Before a connection and after its end nothing of one is left.
THEOREM NothingEverLeft == Spec => []NothingLeft
<1>1. Safe => NothingLeft
  BY DEF Safe
<1> QED
  BY <1>1, Invariant, PTL

-----------------------------------------------------------------------------
(* What a step may never do: page anyone but the selected keyboard, or     *)
(* anyone at all while automatic connection is off.                        *)

PagesOnlySelected ==
    \A a \in paging' \ paging : auto_connect_enabled' /\ a = selected_device'

LEMMA BeginPages ==
    ASSUME NEW a, BeginConnection(a), auto_connect_enabled', a = selected_device'
    PROVE  PagesOnlySelected
  BY DEF BeginConnection, PagesOnlySelected

LEMMA NoPage ==
    ASSUME paging' \subseteq paging
    PROVE  PagesOnlySelected
  BY DEF PagesOnlySelected

\* GAP_EVENT_INQUIRY_COMPLETE connects the selected keyboard, or selects one.
LEMMA InquiryTargetSelected ==
    ASSUME TypeInv, InquiryTarget # NoAddr
    PROVE  /\ auto_connect_enabled
           /\ selected_device # NoAddr => InquiryTarget = selected_device
<1>1. devices \in Devices
  BY DEF TypeInv, TypeOK, Devices
<1> QED
  BY <1>1, Lookups DEF InquiryTarget

LEMMA StepPages == TypeInv /\ [Next]_vars => PagesOnlySelected
<1> SUFFICES ASSUME TypeInv, [Next]_vars PROVE PagesOnlySelected
  OBVIOUS
<1>1. CASE Search
  <2>1. CASE BtstackWorking
    <3>1. UNCHANGED choiceVars
      BY <2>1 DEF BtstackWorking
    <3>2. CASE auto_connect_enabled /\ selected_device # NoAddr
      BY <2>1, <3>1, <3>2, BeginPages DEF BtstackWorking
    <3>3. CASE ~(auto_connect_enabled /\ selected_device # NoAddr)
      BY <2>1, <3>3, NoPage DEF BtstackWorking
    <3> QED
      BY <3>2, <3>3
  <2>2. CASE InquiryComplete
    <3>1. CASE InquiryTarget # NoAddr
      <4>1. auto_connect_enabled'
        BY <2>2, <3>1, InquiryTargetSelected DEF InquiryComplete
      <4>2. selected_device' = InquiryTarget
        BY <2>2, <3>1, InquiryTargetSelected DEF InquiryComplete, SelectKeyboard
      <4>3. BeginConnection(InquiryTarget)
        BY <2>2, <3>1 DEF InquiryComplete
      <4> QED
        BY <4>1, <4>2, <4>3, BeginPages
    <3>2. CASE InquiryTarget = NoAddr
      BY <2>2, <3>2, NoPage DEF InquiryComplete
    <3> QED
      BY <3>1, <3>2
  <2>3. CASE StaleInquiryComplete
    BY <2>3, NoPage DEF StaleInquiryComplete
  <2>4. ASSUME NEW a \in Addr, NEW keyboard \in InquiryClass,
               InquiryResult(a, keyboard)
        PROVE  PagesOnlySelected
    BY <2>4, NoPage DEF InquiryResult
  <2> QED
    BY <1>1, <2>1, <2>2, <2>3, <2>4 DEF Search
<1>2. CASE Paging
  BY <1>2, NoPage
  DEF Paging, ConnectionFailed, ConnectionEstablished,
      CancelledConnectionEstablished, StaleConnectionComplete
<1>3. CASE Discovery
  BY <1>3, NoPage
  DEF Discovery, LinkSecured, SecurityFailed, SdpControlAttribute,
      SdpInterruptAttribute, SdpAttribute, SdpComplete
<1>4. CASE HidTraffic
  BY <1>4, NoPage
  DEF HidTraffic, ChannelOpened, ChannelOpenFailed, ChannelClosed,
      SendSetProtocol, SendLedReport, CanSendIgnored, Handshake,
      HandshakeIgnored, InterruptReport
<1>5. CASE PairingEvents
  BY <1>5, NoPage
  DEF PairingEvents, PinCodeRequest, LinkKeyNotification, PairingPinTimeout
<1>6. CASE ControlRequests
  <2>1. CASE ExecuteScan \/ ExecuteDisconnect \/ ExecuteForget
    BY <2>1, NoPage DEF ExecuteScan, ExecuteDisconnect, ExecuteForget
  <2>2. ASSUME NEW a \in Addr, ExecuteConnect(a)
        PROVE  PagesOnlySelected
    BY <2>2, BeginPages DEF ExecuteConnect, SelectKeyboard
  <2>3. CASE ExecuteReconnect
    <3> DEFINE i == ConnectionTarget(devices)
               target == IF selected_device # NoAddr THEN selected_device
                         ELSE IF i # 0 THEN devices[i].address ELSE NoAddr
    <3>1. auto_connect_enabled'
      BY <2>3 DEF ExecuteReconnect
    <3>2. \/ UNCHANGED pageVars
          \/ BeginConnection(target) /\ selected_device' = target
      BY <2>3 DEF ExecuteReconnect, SelectKeyboard
    <3> HIDE DEF target
    <3> QED
      BY <3>1, <3>2, BeginPages, NoPage
  <2> QED
    BY <1>6, <2>1, <2>2, <2>3 DEF ControlRequests
<1>7. CASE InquiryTimer
  BY <1>7, BeginPages, NoPage DEF InquiryTimer
<1>8. CASE \E h \in Handle : DisconnectionComplete(h)
  BY <1>8, NoPage DEF DisconnectionComplete
<1>9. CASE \E byte \in LedReport : SetKeyboardLeds(byte)
  BY <1>9, NoPage DEF SetKeyboardLeds
<1>10. CASE ScheduleLedReportTask \/ PowerCycle \/ UNCHANGED vars
  BY <1>10, NoPage DEF ScheduleLedReportTask, PowerCycle, vars
<1> QED
  BY <1>1, <1>2, <1>3, <1>4, <1>5, <1>6, <1>7, <1>8, <1>9, <1>10 DEF Next

\* After DISCONNECT or FORGET nothing is paged until the user asks for it, and
\* never a keyboard other than the selected one.
THEOREM SuspensionHonoured == Spec => SuspendedMeansSuspended
<1>1. TypeInv /\ [Next]_vars
          => [\A a \in paging' \ paging :
                  auto_connect_enabled' /\ a = selected_device']_vars
  BY StepPages DEF PagesOnlySelected
<1> QED
  BY <1>1, Invariant, PTL DEF Spec, SuspendedMeansSuspended

-----------------------------------------------------------------------------
(* Bonds and link keys.  A flag of the list says "bonded" only where flash  *)
(* has a key, whatever writes fail; where none fails the two agree on every *)
(* keyboard of the list, which is what the choice of a keyboard relies on.  *)

KeysAgree == BondsAgree(devices, link_keys)

\* What a step preserves
BondsKept ==
    /\ BondsIn(devices, link_keys) => BondsIn(devices', link_keys')
    /\ FALSE \notin StoreResults /\ KeysAgree => KeysAgree'

LEMMA BondsUntouched ==
    ASSUME UNCHANGED <<devices, link_keys>>
    PROVE  BondsKept
  BY DEF BondsKept, KeysAgree

\* A step that rewrites other fields of the list
LEMMA BondsLeftAlone ==
    ASSUME SameBonds(devices', devices), UNCHANGED link_keys
    PROVE  BondsKept
  BY DEF BondsKept, KeysAgree, SameBonds, BondsIn, BondsAgree

LEMMA DevicesAreTyped ==
    ASSUME TypeInv
    PROVE  /\ devices \in Devices
           /\ devices \in Seq(Device(Addr, Psm))
           /\ Len(devices) <= MaxDevices
  BY DEF TypeInv, TypeOK, Devices, DeviceList

\* begin_connection gives the saved keyboard the flag its key calls for.
LEMMA RestoredBonds ==
    ASSUME TypeInv, NEW a \in Addr
    PROVE  /\ BondsIn(devices, link_keys) => BondsIn(RestoreSaved(a), link_keys)
           /\ KeysAgree => BondsAgree(RestoreSaved(a), link_keys)
<1>1. /\ MaxDevices \in Nat /\ 0 \in Psm /\ TRUE \in BOOLEAN
      /\ devices \in Seq(Device(Addr, Psm)) /\ Len(devices) <= MaxDevices
  BY MaxDevicesAssumption, PsmValues, DevicesAreTyped
<1> DEFINE room == IF Len(devices) = MaxDevices THEN <<>> ELSE devices
           restored == SetBonded(Upsert(room, MaxDevices, a, TRUE), a, a \in link_keys)
<1>2. room \in Seq(Device(Addr, Psm)) /\ Len(room) <= MaxDevices
  BY <1>1
<1>3. /\ BondsIn(devices, link_keys) => BondsIn(room, link_keys)
      /\ KeysAgree => BondsAgree(room, link_keys)
  BY DEF BondsIn, BondsAgree, KeysAgree
<1>4. RestoreSaved(a) \in {restored, devices}
  BY DEF RestoreSaved
<1> HIDE DEF room
<1>5. /\ BondsIn(room, link_keys) => BondsIn(restored, link_keys)
      /\ BondsAgree(room, link_keys) => BondsAgree(restored, link_keys)
  BY <1>1, <1>2, UpsertBonds
<1> HIDE DEF restored
<1> QED
  BY <1>3, <1>4, <1>5 DEF KeysAgree

LEMMA BeginBonds ==
    ASSUME TypeInv, NEW a \in Addr, BeginConnection(a), UNCHANGED link_keys
    PROVE  BondsKept
<1>1. devices' = RestoreSaved(a)
  BY DEF BeginConnection
<1>2. KeysAgree' <=> BondsAgree(devices', link_keys')
  BY DEF KeysAgree
<1> QED
  BY <1>1, <1>2, RestoredBonds DEF BondsKept

LEMMA SearchBonds == TypeInv /\ Search => BondsKept
<1> SUFFICES ASSUME TypeInv, Search PROVE BondsKept
  OBVIOUS
<1>1. CASE BtstackWorking
  <2>1. CASE auto_connect_enabled /\ selected_device # NoAddr
    <3>1. BeginConnection(selected_device) /\ selected_device \in Addr
      BY <1>1, <2>1 DEF BtstackWorking, TypeInv, TypeOK
    <3> QED
      BY <1>1, <3>1, BeginBonds DEF BtstackWorking
  <2>2. CASE ~(auto_connect_enabled /\ selected_device # NoAddr)
    BY <1>1, <2>2, BondsUntouched DEF BtstackWorking
  <2> QED
    BY <2>1, <2>2
<1>2. CASE InquiryComplete
  <2>1. CASE InquiryTarget # NoAddr
    <3>1. InquiryTarget \in Addr
      BY <2>1, InquiryTargetTyped
    <3>2. BeginConnection(InquiryTarget) /\ UNCHANGED link_keys
      BY <1>2, <2>1 DEF InquiryComplete
    <3> QED
      BY <3>1, <3>2, BeginBonds
  <2>2. CASE InquiryTarget = NoAddr
    BY <1>2, <2>2, BondsUntouched DEF InquiryComplete
  <2> QED
    BY <2>1, <2>2
<1>3. CASE StaleInquiryComplete
  BY <1>3, BondsUntouched DEF StaleInquiryComplete
<1>4. ASSUME NEW a \in Addr, NEW keyboard \in InquiryClass,
             InquiryResult(a, keyboard)
      PROVE  BondsKept
  <2> DEFINE list == Upsert(devices, MaxDevices, a, keyboard)
  <2>1. /\ MaxDevices \in Nat /\ 0 \in Psm /\ keyboard \in BOOLEAN
        /\ devices \in Seq(Device(Addr, Psm)) /\ Len(devices) <= MaxDevices
    BY MaxDevicesAssumption, ChoiceAssumption, PsmValues, DevicesAreTyped
  <2>2. /\ devices' = IF keyboard THEN SetBonded(list, a, a \in link_keys) ELSE list
        /\ UNCHANGED link_keys
    BY <1>4 DEF InquiryResult
  <2>3. /\ BondsIn(devices, link_keys) => BondsIn(list, link_keys)
        /\ BondsIn(devices, link_keys)
               => BondsIn(SetBonded(list, a, a \in link_keys), link_keys)
        /\ BondsAgree(devices, link_keys) /\ ~keyboard => BondsAgree(list, link_keys)
        /\ BondsAgree(devices, link_keys)
               => BondsAgree(SetBonded(list, a, a \in link_keys), link_keys)
    BY <2>1, UpsertBonds
  <2> HIDE DEF list
  <2>4. CASE keyboard
    BY <2>2, <2>3, <2>4 DEF BondsKept, KeysAgree
  <2>5. CASE ~keyboard
    BY <2>2, <2>3, <2>5 DEF BondsKept, KeysAgree
  <2> QED
    BY <2>4, <2>5
<1> QED
  BY <1>1, <1>2, <1>3, <1>4 DEF Search

LEMMA PairingBonds == TypeInv /\ PairingEvents => BondsKept
<1> SUFFICES ASSUME TypeInv, PairingEvents PROVE BondsKept
  OBVIOUS
<1>a. devices \in Seq(Device(Addr, Psm)) /\ TRUE \in BOOLEAN /\ FALSE \in BOOLEAN
  BY DevicesAreTyped
<1>1. ASSUME NEW a \in Addr, PinCodeRequest(a)
      PROVE  BondsKept
  <2>1. CASE a \notin link_keys
    <3>1. link_keys' = link_keys /\ devices' = devices
      BY <1>1, <2>1 DEF PinCodeRequest
    <3> QED
      BY <3>1, BondsUntouched
  <2>2. CASE a \in link_keys
    <3>1. link_keys' = link_keys \ {a} /\ devices' = SetBonded(devices, a, FALSE)
      BY <1>1, <2>2 DEF PinCodeRequest
    <3>2. \A x \in Addr : x # a => (x \in link_keys' <=> x \in link_keys)
      BY <3>1
    <3>3. a \notin link_keys'
      BY <3>1
    <3>4. /\ BondsIn(devices, link_keys) => BondsIn(SetBonded(devices, a, FALSE), link_keys')
          /\ BondsAgree(devices, link_keys)
                 => BondsAgree(SetBonded(devices, a, FALSE), link_keys')
      BY <1>a, <3>2, <3>3, BondsFollowKey
    <3> QED
      BY <3>1, <3>4 DEF BondsKept, KeysAgree
  <2> QED
    BY <2>1, <2>2
<1>2. ASSUME NEW a \in Addr, LinkKeyNotification(a)
      PROVE  BondsKept
  <2>1. CASE /\ link_keys' = link_keys \cup {a}
             /\ devices' = SetBonded(devices, a, TRUE)
    <3>1. /\ \A x \in Addr : x # a => (x \in link_keys' <=> x \in link_keys)
          /\ a \in link_keys'
      BY <2>1
    <3>2. /\ BondsIn(devices, link_keys) => BondsIn(SetBonded(devices, a, TRUE), link_keys')
          /\ BondsAgree(devices, link_keys)
                 => BondsAgree(SetBonded(devices, a, TRUE), link_keys')
      BY <1>a, <3>1, BondsFollowKey
    <3> QED
      BY <2>1, <3>2 DEF BondsKept, KeysAgree
  <2>2. CASE /\ FALSE \in StoreResults
             /\ link_keys' = link_keys
             /\ devices' = SetBonded(devices, a, FALSE)
    <3>1. BondsIn(devices, link_keys) => BondsIn(SetBonded(devices, a, FALSE), link_keys')
      BY <1>a, <2>2, BondsFollowKey
    <3> QED
      BY <2>2, <3>1 DEF BondsKept
  <2>3. PICK verified \in StoreResults :
            /\ link_keys' = IF verified THEN link_keys \cup {a} ELSE link_keys
            /\ devices' = SetBonded(devices, a, verified)
    BY <1>2 DEF LinkKeyNotification
  <2>4. verified = TRUE \/ verified = FALSE
    BY ChoiceAssumption
  <2> QED
    BY <2>1, <2>2, <2>3, <2>4, Zenon
<1>3. CASE PairingPinTimeout
  BY <1>3, BondsUntouched DEF PairingPinTimeout
<1> QED
  BY <1>1, <1>2, <1>3 DEF PairingEvents

LEMMA RequestsBonds == TypeInv /\ ControlRequests => BondsKept
<1> SUFFICES ASSUME TypeInv, ControlRequests PROVE BondsKept
  OBVIOUS
<1>1. CASE ExecuteScan
  <2>1. devices' = <<>> /\ UNCHANGED link_keys
    BY <1>1 DEF ExecuteScan
  <2> QED
    BY <2>1 DEF BondsKept, KeysAgree, BondsIn, BondsAgree
<1>2. ASSUME NEW a \in Addr, ExecuteConnect(a)
      PROVE  BondsKept
  BY <1>2, BeginBonds DEF ExecuteConnect
<1>3. CASE ExecuteDisconnect
  BY <1>3, BondsUntouched DEF ExecuteDisconnect
<1>4. CASE ExecuteReconnect
  <2> DEFINE i == ConnectionTarget(devices)
             target == IF selected_device # NoAddr THEN selected_device
                       ELSE IF i # 0 THEN devices[i].address ELSE NoAddr
  <2>1. target \in Addr \cup {NoAddr}
    BY Lookups, DevicesAreTyped DEF TypeInv, TypeOK
  <2>2. UNCHANGED link_keys /\ (UNCHANGED devices \/ (target # NoAddr /\ BeginConnection(target)))
    BY <1>4 DEF ExecuteReconnect
  <2> HIDE DEF target
  <2> QED
    BY <2>1, <2>2, BondsUntouched, BeginBonds
<1>5. CASE ExecuteForget
  <2>1. link_keys' = {} /\ devices' = ClearBonded(devices)
    BY <1>5 DEF ExecuteForget
  <2>2. \A i \in DOMAIN devices' : ~devices'[i].bonded
    BY <2>1, DevicesAreTyped, BondsCleared
  <2> QED
    BY <2>1, <2>2 DEF BondsKept, KeysAgree, BondsIn, BondsAgree
<1> QED
  BY <1>1, <1>2, <1>3, <1>4, <1>5 DEF ControlRequests

LEMMA StepBonds == TypeInv /\ [Next]_vars => BondsKept
<1> SUFFICES ASSUME TypeInv, [Next]_vars PROVE BondsKept
  OBVIOUS
<1>a. devices \in Seq(Device(Addr, Psm))
  BY DevicesAreTyped
<1>1. CASE Search \/ PairingEvents \/ ControlRequests
  BY <1>1, SearchBonds, PairingBonds, RequestsBonds
<1>2. CASE Paging
  <2>1. ASSUME NEW a \in Addr, NEW h \in Handle, ConnectionEstablished(a, h)
        PROVE  BondsKept
    <3>1. devices' = SetConnected(devices, a) /\ UNCHANGED link_keys
      BY <2>1 DEF ConnectionEstablished
    <3> QED
      BY <1>a, <3>1, BondsLeftAlone, OtherFieldsKept
  <2>2. ASSUME NEW a \in Addr, NEW h \in Handle,
               \/ ConnectionFailed(a)
               \/ CancelledConnectionEstablished(a, h)
               \/ StaleConnectionComplete(a, h)
        PROVE  BondsKept
    BY <2>2, BondsUntouched
    DEF ConnectionFailed, CancelledConnectionEstablished, StaleConnectionComplete
  <2>3. ASSUME NEW a \in Addr, ConnectionFailed(a)
        PROVE  BondsKept
    BY <2>3, BondsUntouched DEF ConnectionFailed
  <2> QED
    BY <1>2, <2>1, <2>2, <2>3 DEF Paging
<1>3. CASE Discovery
  <2>1. UNCHANGED link_keys
    BY <1>3
    DEF Discovery, LinkSecured, SecurityFailed, SdpControlAttribute,
        SdpInterruptAttribute, SdpAttribute, SdpComplete
  <2>2. \/ devices' = devices
        \/ \E control, interrupt :
               devices' \in {SetPsms(devices, connected_device_addr, control, interrupt),
                             SetControlPsm(devices, connected_device_addr, control),
                             SetInterruptPsm(devices, connected_device_addr, interrupt)}
    BY <1>3
    DEF Discovery, LinkSecured, StartSdpDiscovery, SecurityFailed,
        SdpControlAttribute, SdpInterruptAttribute, SdpAttribute, SdpComplete
  <2>3. CASE devices' = devices
    BY <2>1, <2>3, BondsUntouched
  <2>4. ASSUME NEW control, NEW interrupt,
               devices' \in {SetPsms(devices, connected_device_addr, control, interrupt),
                             SetControlPsm(devices, connected_device_addr, control),
                             SetInterruptPsm(devices, connected_device_addr, interrupt)}
        PROVE  BondsKept
    <3>1. SameBonds(devices', devices)
      BY <1>a, <2>4, OtherFieldsKept
    <3> QED
      BY <2>1, <3>1, BondsLeftAlone
  <2> QED
    BY <2>2, <2>3, <2>4
<1>4. CASE HidTraffic
  BY <1>4, BondsUntouched
  DEF HidTraffic, ChannelOpened, ChannelOpenFailed, ChannelClosed,
      SendSetProtocol, SendLedReport, CanSendIgnored, Handshake,
      HandshakeIgnored, InterruptReport
<1>5. CASE InquiryTimer
  <2>1. CASE BeginConnection(selected_device) /\ selected_device # NoAddr
    BY <1>5, <2>1, BeginBonds DEF InquiryTimer, TypeInv, TypeOK
  <2>2. CASE UNCHANGED devices
    BY <1>5, <2>2, BondsUntouched DEF InquiryTimer
  <2> QED
    BY <1>5, <2>1, <2>2 DEF InquiryTimer
<1>6. CASE \E h \in Handle : DisconnectionComplete(h)
  <2>1. devices' = ClearConnections(devices) /\ UNCHANGED link_keys
    BY <1>6 DEF DisconnectionComplete
  <2> QED
    BY <1>a, <2>1, BondsLeftAlone, OtherFieldsKept
<1>7. CASE \/ \E byte \in LedReport : SetKeyboardLeds(byte)
           \/ ScheduleLedReportTask
           \/ UNCHANGED vars
  BY <1>7, BondsUntouched DEF SetKeyboardLeds, ScheduleLedReportTask, vars
<1>8. CASE PowerCycle
  <2>1. devices' = <<>> /\ UNCHANGED link_keys
    BY <1>8 DEF PowerCycle
  <2> QED
    BY <2>1 DEF BondsKept, KeysAgree, BondsIn, BondsAgree
<1> QED
  BY <1>1, <1>2, <1>3, <1>4, <1>5, <1>6, <1>7, <1>8 DEF Next

LEMMA InitBonds == Init => BondsIn(devices, link_keys) /\ KeysAgree
  BY DEF Init, BootsWith, BondsIn, BondsAgree, KeysAgree

\* A device is only preferred as bonded while its key is in flash, in spite of
\* FORGET, of a key dropped at a PIN request and of writes that fail.
THEOREM BondsHaveKeys == Spec => []BondedHasKey
<1>1. Init => BondsIn(devices, link_keys)
  BY InitBonds
<1>2. TypeInv /\ BondsIn(devices, link_keys) /\ [Next]_vars
          => BondsIn(devices, link_keys)'
  BY StepBonds DEF BondsKept
<1>3. BondsIn(devices, link_keys) => BondedHasKey
  BY DEF BondsIn, BondedHasKey
<1> QED
  BY <1>1, <1>2, <1>3, Invariant, PTL DEF Spec

-----------------------------------------------------------------------------
(* The selected keyboard: who chooses it, and where it is kept.            *)

\* The four things a step can do to the selection
SelectionMove ==
    \/ UNCHANGED <<selected_device, saved_device>>
    \/ \E a \in Addr : ExecuteConnect(a) /\ SelectKeyboard(a)
    \/ LET i == ConnectionTarget(devices) IN
       i # 0 /\ SelectKeyboard(devices[i].address)
    \/ selected_device' = NoAddr /\ saved_device' = NoAddr
    \/ PowerCycle

LEMMA StepSelects == [Next]_vars => SelectionMove
<1> SUFFICES ASSUME [Next]_vars PROVE SelectionMove
  OBVIOUS
<1>a. ASSUME UNCHANGED <<selected_device, saved_device>> PROVE SelectionMove
  BY <1>a DEF SelectionMove
<1>1. CASE Search
  <2>1. CASE InquiryComplete
    <3>1. CASE InquiryTarget # NoAddr /\ selected_device = NoAddr
      <4>1. SelectKeyboard(InquiryTarget)
        BY <2>1, <3>1 DEF InquiryComplete
      <4>2. ConnectionTarget(devices) # 0
            /\ InquiryTarget = devices[ConnectionTarget(devices)].address
        BY <3>1 DEF InquiryTarget
      <4> HIDE DEF InquiryTarget
      <4> QED
        BY <4>1, <4>2 DEF SelectionMove
    <3>2. CASE ~(InquiryTarget # NoAddr /\ selected_device = NoAddr)
      BY <1>a, <2>1, <3>2 DEF InquiryComplete
    <3> QED
      BY <3>1, <3>2
  <2> QED
    BY <1>1, <1>a, <2>1
    DEF Search, BtstackWorking, StaleInquiryComplete, InquiryResult
<1>2. CASE Paging
  BY <1>2, <1>a
  DEF Paging, ConnectionFailed, ConnectionEstablished,
      CancelledConnectionEstablished, StaleConnectionComplete
<1>3. CASE Discovery
  BY <1>3, <1>a
  DEF Discovery, LinkSecured, SecurityFailed, SdpControlAttribute,
      SdpInterruptAttribute, SdpAttribute, SdpComplete
<1>4. CASE HidTraffic
  BY <1>4, <1>a
  DEF HidTraffic, ChannelOpened, ChannelOpenFailed, ChannelClosed,
      SendSetProtocol, SendLedReport, CanSendIgnored, Handshake,
      HandshakeIgnored, InterruptReport
<1>5. CASE PairingEvents
  BY <1>5, <1>a
  DEF PairingEvents, PinCodeRequest, LinkKeyNotification, PairingPinTimeout
<1>6. CASE ControlRequests
  <2>1. CASE ExecuteScan \/ ExecuteDisconnect
    BY <2>1, <1>a DEF ExecuteScan, ExecuteDisconnect
  <2>2. ASSUME NEW a \in Addr, ExecuteConnect(a)
        PROVE  SelectionMove
    <3>1. SelectKeyboard(a)
      BY <2>2 DEF ExecuteConnect
    <3> QED
      BY <2>2, <3>1 DEF SelectionMove
  <2>3. CASE ExecuteReconnect
    <3> DEFINE i == ConnectionTarget(devices)
               target == IF selected_device # NoAddr THEN selected_device
                         ELSE IF i # 0 THEN devices[i].address ELSE NoAddr
    <3>1. \/ UNCHANGED <<selected_device, saved_device>>
          \/ selected_device = NoAddr /\ target # NoAddr /\ SelectKeyboard(target)
      BY <2>3 DEF ExecuteReconnect
    <3>2. CASE selected_device = NoAddr /\ target # NoAddr /\ SelectKeyboard(target)
      <4>1. i # 0 /\ target = devices[i].address
        BY <3>2
      <4> HIDE DEF target
      <4> QED
        BY <3>2, <4>1 DEF SelectionMove
    <3> HIDE DEF target
    <3> QED
      BY <1>a, <3>1, <3>2
  <2>4. CASE ExecuteForget
    BY <2>4 DEF ExecuteForget, SelectionMove
  <2> QED
    BY <1>6, <2>1, <2>2, <2>3, <2>4 DEF ControlRequests
<1>7. CASE PowerCycle
  BY <1>7 DEF SelectionMove
<1> QED
  BY <1>1, <1>2, <1>3, <1>4, <1>5, <1>6, <1>7, <1>a
  DEF Next, InquiryTimer, DisconnectionComplete, SetKeyboardLeds,
      ScheduleLedReportTask, vars

\* Where no flash write fails, the keyboard in flash is the one in use, so that
\* a reboot reconnects to the same one.
THEOREM SelectionAlwaysSaved ==
    ASSUME FALSE \notin StoreResults
    PROVE  Spec => []SelectionPersisted
<1>1. Init => SelectionPersisted
  BY DEF Init, BootsWith, SelectionPersisted
<1>2. SelectionPersisted /\ [Next]_vars => SelectionPersisted'
  <2> SUFFICES ASSUME SelectionPersisted, [Next]_vars PROVE SelectionPersisted'
    OBVIOUS
  <2>1. SelectionMove
    BY StepSelects
  <2>2. \A a : SelectKeyboard(a) => selected_device' = a /\ saved_device' = a
    BY ChoiceAssumption DEF SelectKeyboard
  <2> QED
    BY <2>1, <2>2 DEF SelectionMove, SelectionPersisted, PowerCycle
<1> QED
  BY <1>1, <1>2, PTL DEF Spec

\* What a step that selects a keyboard may never do
PrefersKeyed ==
    selected_device = NoAddr /\ selected_device' \notin link_keys \cup {NoAddr}
        => \/ \A i \in DOMAIN devices :
                 devices[i].hid_supported => devices[i].address \notin link_keys
           \/ \E a \in Addr : ExecuteConnect(a)
           \/ PowerCycle

\* A keyboard chosen without the user naming it is one that flash has a key
\* for, if the list holds any, where no write fails.
THEOREM KeyedAlwaysPreferred ==
    ASSUME FALSE \notin StoreResults
    PROVE  Spec => KeyedKeyboardPreferred
<1>1. Init => KeysAgree
  BY InitBonds
<1>2. TypeInv /\ KeysAgree /\ [Next]_vars => KeysAgree'
  BY StepBonds DEF BondsKept
<1>3. TypeInv /\ KeysAgree /\ [Next]_vars => [PrefersKeyed]_vars
  <2> SUFFICES ASSUME TypeInv, KeysAgree, [Next]_vars PROVE PrefersKeyed
    OBVIOUS
  <2>1. SelectionMove
    BY StepSelects
  <2>2. CASE LET i == ConnectionTarget(devices) IN
             i # 0 /\ SelectKeyboard(devices[i].address)
    <3> DEFINE i == ConnectionTarget(devices)
    <3>1. /\ i # 0 /\ selected_device' = devices[i].address
      BY <2>2 DEF SelectKeyboard
    <3>2. /\ i \in DOMAIN devices /\ devices[i].hid_supported
          /\ (\E j \in DOMAIN devices : devices[j].hid_supported /\ devices[j].bonded)
                 => devices[i].bonded
      BY <3>1, DevicesAreTyped, TargetIsCorrect
    <3> HIDE DEF i
    <3>3. CASE devices[i].bonded
      <4>1. devices[i].address \in link_keys
        BY <3>2, <3>3 DEF KeysAgree, BondsAgree
      <4> QED
        BY <3>1, <4>1 DEF PrefersKeyed
    <3>4. CASE ~devices[i].bonded
      <4>1. \A j \in DOMAIN devices :
                devices[j].hid_supported => devices[j].address \notin link_keys
        BY <3>2, <3>4 DEF KeysAgree, BondsAgree
      <4> QED
        BY <4>1 DEF PrefersKeyed
    <3> QED
      BY <3>3, <3>4
  <2>3. CASE UNCHANGED <<selected_device, saved_device>>
    BY <2>3 DEF PrefersKeyed
  <2>4. CASE selected_device' = NoAddr
    BY <2>4 DEF PrefersKeyed
  <2> QED
    BY <2>1, <2>2, <2>3, <2>4 DEF SelectionMove, PrefersKeyed
<1> QED
  BY <1>1, <1>2, <1>3, Invariant, PTL DEF Spec, KeyedKeyboardPreferred, PrefersKeyed

-----------------------------------------------------------------------------
(* The LEDs.  Everything but the sending of a report leaves alone what the  *)
(* keyboard shows, what it should show and whether a report is due; the     *)
(* HID connection starts with a report due.                                 *)

LedsMove ==
    \/ current_state' # "HIDConnected"
    \/ hid_channels'.led_report_pending
    \/ keyboard_leds' = hid_channels'.led_state
    \/ /\ current_state' = current_state
       /\ keyboard_leds' = keyboard_leds
       /\ hid_channels'.led_state = hid_channels.led_state
       /\ hid_channels'.led_report_pending = hid_channels.led_report_pending

LEMMA LedsFollow ==
    ASSUME LedFidelity, LedsMove
    PROVE  LedFidelity'
  BY DEF LedsMove, LedFidelity

\* A step that keeps the record of the channels
LEMMA LedsUntouched ==
    ASSUME UNCHANGED keyboard_leds, UNCHANGED hid_channels,
           UNCHANGED current_state \/ current_state' # "HIDConnected"
    PROVE  LedsMove
  BY DEF LedsMove

\* The records that have the LEDs of another one
SameLeds(h, g) ==
    h.led_state = g.led_state /\ h.led_report_pending = g.led_report_pending

LEMMA LedsKept ==
    ASSUME NEW h \in HidChannel(Cid), NEW c \in Cid, NEW b \in BOOLEAN
    PROVE  /\ SameLeds([h EXCEPT !.control_cid = c], h)
           /\ SameLeds([h EXCEPT !.interrupt_cid = c], h)
           /\ SameLeds([h EXCEPT !.boot_protocol_request_pending = b], h)
           /\ SameLeds([h EXCEPT !.led_can_send_requested = b], h)
           /\ SameLeds(ControlOpened(h, c), h)
           /\ SameLeds(InterruptOpened(h, c), h)
           /\ SameLeds(Closed(h, c), h)
<1>1. /\ SameLeds([h EXCEPT !.control_cid = c], h)
      /\ SameLeds([h EXCEPT !.interrupt_cid = c], h)
      /\ SameLeds([h EXCEPT !.boot_protocol_request_pending = b], h)
      /\ SameLeds([h EXCEPT !.led_can_send_requested = b], h)
  BY DEF SameLeds, HidChannel
<1>2. SameLeds(ControlOpened(h, c), h) /\ SameLeds(InterruptOpened(h, c), h)
  BY DEF SameLeds, HidChannel, ControlOpened, InterruptOpened
<1>3. SameLeds(Closed(h, c), h)
  BY DEF SameLeds, HidChannel, Closed
<1> QED
  BY <1>1, <1>2, <1>3

LEMMA DisconnectLeds ==
    ASSUME NEW ACTION Move, NEW h, SameLeds(h, hid_channels),
           Move => UNCHANGED current_state \/ current_state' # "HIDConnected",
           UNCHANGED keyboard_leds,
           DisconnectAfterError(Move, h)
    PROVE  LedsMove
<1>1. CASE acl_handle # NoHandle
  BY <1>1 DEF DisconnectAfterError, LedsMove, SameLeds
<1>2. CASE acl_handle = NoHandle
  BY <1>2 DEF DisconnectAfterError, GoTo, LedsMove
<1> QED
  BY <1>1, <1>2

LEMMA ScheduleLeds ==
    ASSUME NEW h \in Channels, NEW state, ScheduleLedReport(h, state)
    PROVE  SameLeds(hid_channels', h)
<1>1. h \in HidChannel(Cid)
  BY ChannelsAreTyped
<1>2. SameLeds([h EXCEPT !.led_can_send_requested = TRUE], h) /\ SameLeds(h, h)
  BY <1>1 DEF SameLeds, HidChannel
<1> QED
  BY <1>2 DEF ScheduleLedReport

\* The moves of the handlers, none of them into the HID connection
LEMMA MovesBeforeHid ==
    /\ Stay => UNCHANGED current_state \/ current_state' # "HIDConnected"
    /\ \A s : s # "HIDConnected" /\ GoTo(s) => current_state' # "HIDConnected"
  BY DEF Stay, GoTo

LEMMA DiscoveryLeds == TypeInv /\ Discovery => LedsMove
<1> SUFFICES ASSUME TypeInv, Discovery PROVE LedsMove
  OBVIOUS
<1>a. /\ hid_channels \in HidChannel(Cid) /\ SameLeds(hid_channels, hid_channels)
      /\ UNCHANGED keyboard_leds
  BY ChannelsAreTyped
  DEF TypeInv, SameLeds, Discovery, LinkSecured, SecurityFailed,
      SdpControlAttribute, SdpInterruptAttribute, SdpAttribute, SdpComplete
<1>1. ASSUME NEW s, s # "HIDConnected", DisconnectAfterError(GoTo(s), hid_channels)
      PROVE  LedsMove
  BY <1>a, <1>1, DisconnectLeds, MovesBeforeHid
<1>2. ASSUME DisconnectAfterError(Stay, hid_channels)
      PROVE  LedsMove
  BY <1>a, <1>2, DisconnectLeds, MovesBeforeHid
<1>3. CASE LinkSecured
  <2>1. CASE GoTo("ServiceDiscovery")
    BY <2>1 DEF GoTo, LedsMove
  <2> QED
    BY <1>1, <1>3, <2>1 DEF LinkSecured, StartSdpDiscovery
<1>4. CASE SecurityFailed
  BY <1>2, <1>4 DEF SecurityFailed
<1>5. ASSUME NEW list, SdpAttribute(list)
      PROVE  LedsMove
  BY <1>5, LedsUntouched DEF SdpAttribute
<1>6. ASSUME NEW ok \in BOOLEAN, SdpComplete(ok)
      PROVE  LedsMove
  <2>1. CASE GoTo("OpeningControl")
    BY <2>1 DEF GoTo, LedsMove
  <2> QED
    BY <1>1, <1>2, <1>6, <2>1 DEF SdpComplete, OpenControlChannel
<1> QED
  BY <1>3, <1>4, <1>5, <1>6
  DEF Discovery, SdpControlAttribute, SdpInterruptAttribute

LEMMA HidTrafficLeds == TypeInv /\ HidTraffic => LedsMove
<1> SUFFICES ASSUME TypeInv, HidTraffic PROVE LedsMove
  OBVIOUS
<1>a. /\ hid_channels \in HidChannel(Cid) /\ hid_channels \in Channels
      /\ SameLeds(hid_channels, hid_channels)
      /\ FALSE \in BOOLEAN
  BY ChannelsAreTyped DEF TypeInv, SameLeds
<1>1. ASSUME NEW s, s # "HIDConnected", NEW h, SameLeds(h, hid_channels),
             UNCHANGED keyboard_leds, DisconnectAfterError(GoTo(s), h)
      PROVE  LedsMove
  BY <1>1, DisconnectLeds, MovesBeforeHid
<1>2. ASSUME NEW h, SameLeds(h, hid_channels), UNCHANGED keyboard_leds,
             DisconnectAfterError(Stay, h)
      PROVE  LedsMove
  BY <1>2, DisconnectLeds, MovesBeforeHid
<1>3. ASSUME NEW s, s # "HIDConnected", GoTo(s)
      PROVE  LedsMove
  BY <1>3 DEF GoTo, LedsMove
<1>4. ASSUME NEW c \in Cid, ChannelOpened(c)
      PROVE  LedsMove
  <2>1. UNCHANGED keyboard_leds
    BY <1>4 DEF ChannelOpened
  <2>2. CASE ControlChannelOpened(c)
    <3>1. SameLeds(ControlOpened(hid_channels, c), hid_channels)
      BY <1>a, LedsKept
    <3> QED
      BY <1>1, <1>3, <2>1, <2>2, <3>1 DEF ControlChannelOpened
  <2>3. CASE InterruptChannelOpened(c)
    <3> DEFINE h == RequestLedSync(InterruptOpened(hid_channels, c))
    <3>1. h \in Channels
      BY <1>a, NoCidIsNone, ChannelsWellFormed, FlagsWellFormed DEF Channels
    <3>2. h.led_report_pending
      BY <1>a DEF InterruptOpened, RequestLedSync, HidChannel
    <3>3. ScheduleLedReport(h, "HIDConnected")
      BY <2>3 DEF InterruptChannelOpened
    <3> HIDE DEF h
    <3>4. hid_channels'.led_report_pending
      BY <3>1, <3>2, <3>3, ScheduleLeds DEF SameLeds
    <3> QED
      BY <3>4 DEF LedsMove
  <2>4. CASE UNCHANGED <<stateVars, hid_channels>>
    BY <2>1, <2>4, LedsUntouched
  <2> QED
    BY <1>2, <1>4, <1>a, <2>1, <2>2, <2>3, <2>4 DEF ChannelOpened
<1>5. ASSUME NEW c \in Cid, ChannelOpenFailed(c)
      PROVE  LedsMove
  BY <1>2, <1>5, <1>a DEF ChannelOpenFailed
<1>6. ASSUME NEW c \in Cid, ChannelClosed(c)
      PROVE  LedsMove
  <2>1. SameLeds(Closed(hid_channels, c), hid_channels)
    BY <1>a, LedsKept
  <2> QED
    BY <1>6, <2>1 DEF ChannelClosed, LedsMove, SameLeds
<1>7. ASSUME NEW c \in Cid, SendSetProtocol(c)
      PROVE  LedsMove
  <2> DEFINE sent == [hid_channels EXCEPT !.boot_protocol_request_pending = FALSE]
  <2>1. SameLeds(sent, hid_channels) /\ UNCHANGED keyboard_leds
    BY <1>7, <1>a, LedsKept DEF SendSetProtocol
  <2>2. \/ hid_channels' = sent /\ UNCHANGED stateVars
        \/ DisconnectAfterError(Stay, sent)
    BY <1>7 DEF SendSetProtocol
  <2> HIDE DEF sent
  <2> QED
    BY <1>2, <2>1, <2>2 DEF LedsMove, SameLeds
<1>8. ASSUME NEW c \in Cid, SendLedReport(c)
      PROVE  LedsMove
  <2> DEFINE asked == [hid_channels EXCEPT !.led_can_send_requested = FALSE]
  <2>1. SameLeds(asked, hid_channels) /\ asked \in HidChannel(Cid)
    BY <1>a, LedsKept DEF HidChannel
  <2>2. CASE /\ hid_channels' = [asked EXCEPT !.led_report_pending = FALSE]
             /\ keyboard_leds' = hid_channels.led_state
    <3>1. hid_channels'.led_state = asked.led_state
      BY <2>1, <2>2 DEF HidChannel
    <3> QED
      BY <2>1, <2>2, <3>1 DEF LedsMove, SameLeds
  <2>3. CASE hid_channels' = asked /\ UNCHANGED keyboard_leds
    BY <1>8, <2>1, <2>3 DEF SendLedReport, LedsMove, SameLeds
  <2> QED
    BY <1>8, <2>2, <2>3 DEF SendLedReport
<1>9. ASSUME NEW c \in Cid, CanSendIgnored(c)
      PROVE  LedsMove
  BY <1>9, LedsUntouched DEF CanSendIgnored
<1>10. ASSUME NEW ok \in BOOLEAN, Handshake(ok)
       PROVE  LedsMove
  <2>1. UNCHANGED keyboard_leds
    BY <1>10 DEF Handshake
  <2> QED
    BY <1>1, <1>2, <1>3, <1>10, <1>a, <2>1 DEF Handshake, OpenInterruptChannel
<1>11. CASE HandshakeIgnored
  BY <1>11, LedsUntouched DEF HandshakeIgnored
<1>12. ASSUME NEW report, InterruptReport(report)
       PROVE  LedsMove
  BY <1>12, LedsUntouched DEF InterruptReport
<1> QED
  BY <1>4, <1>5, <1>6, <1>7, <1>8, <1>9, <1>10, <1>11, <1>12 DEF HidTraffic

LEMMA StepLeds == TypeInv /\ [Next]_vars => LedsMove
<1> SUFFICES ASSUME TypeInv, [Next]_vars PROVE LedsMove
  OBVIOUS
<1>a. hid_channels \in HidChannel(Cid) /\ hid_channels \in Channels
  BY ChannelsAreTyped DEF TypeInv
<1>b. ASSUME NEW a, BeginConnection(a) PROVE current_state' # "HIDConnected"
  BY <1>b DEF BeginConnection, GoTo
<1>1. CASE Discovery \/ HidTraffic
  BY <1>1, DiscoveryLeds, HidTrafficLeds
<1>2. CASE Search
  BY <1>2, <1>b, LedsUntouched
  DEF Search, BtstackWorking, InquiryComplete, StaleInquiryComplete,
      InquiryResult, GoTo
<1>3. CASE Paging
  <2>1. ASSUME NEW a \in Addr, NEW h \in Handle, ConnectionEstablished(a, h)
        PROVE  LedsMove
    BY <2>1 DEF ConnectionEstablished, LedsMove
  <2>2. ASSUME NEW a \in Addr, NEW h \in Handle,
               \/ CancelledConnectionEstablished(a, h)
               \/ StaleConnectionComplete(a, h)
        PROVE  LedsMove
    BY <2>2, LedsUntouched DEF CancelledConnectionEstablished, StaleConnectionComplete, GoTo
  <2>3. ASSUME NEW a \in Addr, ConnectionFailed(a)
        PROVE  LedsMove
    BY <2>3 DEF ConnectionFailed, GoTo, LedsMove
  <2> QED
    BY <1>3, <2>1, <2>2, <2>3 DEF Paging
<1>4. CASE PairingEvents
  BY <1>4, LedsUntouched
  DEF PairingEvents, PinCodeRequest, LinkKeyNotification, PairingPinTimeout
<1>5. CASE ControlRequests
  BY <1>5, <1>b, LedsUntouched
  DEF ControlRequests, ExecuteScan, ExecuteConnect, ExecuteDisconnect,
      ExecuteReconnect, ExecuteForget, StartInquiry, GoTo
<1>6. CASE InquiryTimer
  BY <1>6, <1>b, LedsUntouched DEF InquiryTimer
<1>7. CASE \E h \in Handle : DisconnectionComplete(h)
  BY <1>7 DEF DisconnectionComplete, GoTo, LedsMove
<1>8. ASSUME NEW byte \in LedReport, SetKeyboardLeds(byte)
      PROVE  LedsMove
  <2>1. hid_channels' = SetLeds(hid_channels, byte)
    BY <1>8 DEF SetKeyboardLeds
  <2>2. hid_channels' = hid_channels \/ hid_channels'.led_report_pending
    <3> HIDE DEF HidChannel
    <3>1. \A x : [hid_channels EXCEPT !.led_state = x,
                                      !.led_report_pending = TRUE].led_report_pending
      BY <1>a DEF HidChannel
    <3> QED
      BY <2>1, <3>1, Zenon DEF SetLeds
  <2> QED
    BY <1>8, <2>2, LedsUntouched DEF SetKeyboardLeds, LedsMove
<1>9. CASE ScheduleLedReportTask
  <2>1. SameLeds(hid_channels', hid_channels)
    BY <1>9, <1>a, ScheduleLeds DEF ScheduleLedReportTask
  <2> QED
    BY <1>9, <2>1 DEF ScheduleLedReportTask, LedsMove, SameLeds
<1>10. CASE PowerCycle
  BY <1>10 DEF PowerCycle, LedsMove
<1>11. CASE UNCHANGED vars
  BY <1>11, LedsUntouched DEF vars
<1> QED
  BY <1>1, <1>2, <1>3, <1>4, <1>5, <1>6, <1>7, <1>8, <1>9, <1>10, <1>11 DEF Next

\* When no LED report is pending the keyboard shows the host's LEDs, also after
\* a reconnection or a report superseded while it waited to be sent.
THEOREM LedsAlwaysFaithful == Spec => []LedFidelity
<1>1. Init => LedFidelity
  BY DEF Init, BootsWith, LedFidelity
<1>2. TypeInv /\ LedFidelity /\ [Next]_vars => LedFidelity'
  BY StepLeds, LedsFollow
<1> QED
  BY <1>1, <1>2, Invariant, PTL DEF Spec

=============================================================================
