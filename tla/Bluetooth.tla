------------------------------ MODULE Bluetooth ------------------------------
(***************************************************************************)
(* bt/bluetooth.c: the connection manager of the adapter.  It is a set of  *)
(* callbacks run by BTstack (HCI, L2CAP, SDP and GAP events, two timers),  *)
(* the control requests executed by bluetooth_task and the LED report the  *)
(* USB side asks for.  Everything runs in one cooperative loop, so one     *)
(* callback, one request or one LED scheduling is one step; what varies is *)
(* the order in which the stack, the keyboard, the user and the USB host   *)
(* make them happen.                                                       *)
(*                                                                         *)
(* BTstack, the controller and the keyboard are external: the variables    *)
(* paging, inquiring, links, closing, sdp_query, channels, can_send and    *)
(* handshake_due hold what they owe the program, and decide which events   *)
(* may arrive.  An event the program answers by an early return that       *)
(* changes nothing is a stuttering step and has no action.                 *)
(***************************************************************************)
EXTENDS Naturals, Sequences, BtState, HidChannels, DeviceManager

CONSTANTS
    Addr,            \* Bluetooth addresses of the keyboards in range
    NoAddr,          \* "no device": an address whose valid flag is FALSE
    Handle,          \* connection handles of the controller
    NoHandle,        \* HCI_CON_HANDLE_INVALID
    Cid,             \* local L2CAP channel identifiers (0 is NoCid)
    NoLeds,          \* no LED report was sent on this connection
    ControlPsm,      \* control PSMs an SDP record may name
    InterruptPsm,    \* interrupt PSMs an SDP record may name
    LedReport,       \* LED output report bytes the USB host sends
    InquiryClass,    \* is an inquiry result a keyboard, by its class?
    MaxDevices,      \* DEVICE_MANAGER_MAX_DEVICES
    Command,         \* control requests that are submitted
    CallResults,     \* may a BTstack call be accepted (TRUE), refused (FALSE)
    StoreResults,    \* may a flash write succeed (TRUE), fail (FALSE)
    AllowStale,      \* may a connection nobody waits for complete
    SyncCanSend,     \* may CAN_SEND_NOW arrive inside the call that asks for it
    MayLosePower     \* may the adapter be unplugged

StandardControlPsm   == 17       \* 0x0011
StandardInterruptPsm == 19       \* 0x0013

Psm == ControlPsm \cup InterruptPsm
       \cup {0, StandardControlPsm, StandardInterruptPsm}

ASSUME AddrAssumption   == NoAddr \notin Addr
ASSUME HandleAssumption == NoHandle \notin Handle
ASSUME CidAssumption    == Cid \subseteq Nat \ {0}
ASSUME PsmAssumption    == ControlPsm \cup InterruptPsm \subseteq 0..65535
ASSUME LedAssumption    == LedReport \subseteq 0..255 /\ NoLeds \notin 0..31
ASSUME MaxDevicesAssumption == MaxDevices \in Nat \ {0}
ASSUME ChoiceAssumption ==
    /\ InquiryClass \subseteq BOOLEAN
    /\ CallResults \subseteq BOOLEAN
    /\ StoreResults \subseteq BOOLEAN
    /\ {AllowStale, SyncCanSend, MayLosePower} \subseteq BOOLEAN

-----------------------------------------------------------------------------
VARIABLES
    (* The program's state; a ..._valid flag and its address are one value.  *)
    current_state,
    pairing_pin_pending,         \* and its 30 s timer, armed exactly as long
    acl_handle,
    connected_device_addr,
    connecting_device_addr,
    connection_cancel_requested,
    inquiry_timer_armed,         \* the 5 s automatic-reconnection timer
    auto_connect_enabled,
    selected_device,
    devices,                     \* device_manager
    hid_channels,
    usb_report,                  \* the newest report queued for the USB host
    (* Flash. *)
    saved_device,
    link_keys,                   \* the addresses a link key is stored for; the
                                 \* database (16 keys) is taken never to be full
    (* BTstack, the controller and the keyboard. *)
    inquiring,                   \* an inquiry is running
    paging,                      \* addresses a create-connection is out for
    links,                       \* the peer of each ACL link that is up
    closing,                     \* links a disconnection was requested for
    sdp_query,                   \* the link an SDP query runs on
    channels,                    \* L2CAP channels, being opened or open
    can_send,                    \* channels a CAN_SEND_NOW event is owed on
    handshake_due,               \* channel SET_PROTOCOL waits for an answer on
    keyboard_leds                \* LED bits last sent on this connection

stateVars  == <<current_state, pairing_pin_pending>>
choiceVars == <<selected_device, auto_connect_enabled>>
flashVars  == <<saved_device, link_keys>>
pageVars   == <<connecting_device_addr, connection_cancel_requested, paging>>
linkVars   == <<acl_handle, connected_device_addr, links>>
wireVars   == <<channels, can_send, handshake_due, keyboard_leds>>
vars == <<stateVars, choiceVars, flashVars, pageVars, linkVars, wireVars,
          closing, sdp_query, inquiring, inquiry_timer_armed, devices,
          hid_channels, usb_report>>

Channel == [link : Handle \cup {NoHandle}, psm : Psm, open : BOOLEAN]
NoChannel == [link |-> NoHandle, psm |-> 0, open |-> FALSE]

\* The adapter just switched on with this flash content: the static
\* initialisers, bluetooth_init and load_selected_device.
BootsWith(saved, keys) ==
    /\ current_state = "Initializing"
    /\ pairing_pin_pending = FALSE
    /\ acl_handle = NoHandle
    /\ connected_device_addr = NoAddr
    /\ connecting_device_addr = NoAddr
    /\ connection_cancel_requested = FALSE
    /\ inquiry_timer_armed = FALSE
    /\ auto_connect_enabled = TRUE
    /\ selected_device = saved
    /\ devices = <<>>
    /\ hid_channels = InitialHidChannels
    /\ usb_report = "released"
    /\ saved_device = saved
    /\ link_keys = keys
    /\ inquiring = FALSE
    /\ paging = {}
    /\ links = [h \in Handle |-> NoAddr]
    /\ closing = {}
    /\ sdp_query = NoHandle
    /\ channels = [c \in Cid |-> NoChannel]
    /\ can_send = {}
    /\ handshake_due = NoCid
    /\ keyboard_leds = NoLeds

\* Whatever an earlier session left in flash.
Init ==
    \E saved \in Addr \cup {NoAddr}, keys \in SUBSET Addr :
        BootsWith(saved, keys)

-----------------------------------------------------------------------------
(* Helpers of the C file that several handlers call.                       *)

\* Mutant of GoTo: the PIN prompt is not removed.
GoToKeepingPrompt(state) ==
    current_state' = state /\ UNCHANGED pairing_pin_pending

\* transition_to_state: leaving authentication removes the PIN prompt.
GoTo(state) ==
    /\ current_state' = state
    /\ pairing_pin_pending' =
           (pairing_pin_pending /\ state = "Authenticating")

Stay == UNCHANGED stateVars

RetryWanted == auto_connect_enabled' /\ selected_device' # NoAddr

\* Mutant of StartIdleTimer: the way back to Idle forgets to schedule a retry.
NoIdleTimer == UNCHANGED inquiry_timer_armed

\* start_idle_timer
StartIdleTimer ==
    inquiry_timer_armed' = (inquiry_timer_armed \/ RetryWanted)

\* Mutant of RestoreSaved: a full list is not cleared.
RestoreIfRoom(a) ==
    IF a = selected_device' /\ ~Known(devices, a)
    THEN SetBonded(Upsert(devices, MaxDevices, a, TRUE), a, a \in link_keys)
    ELSE devices

\* The saved keyboard must be in the list to be connected; it takes the
\* place of every discovered device when the list is full.
RestoreSaved(a) ==
    IF a = selected_device' /\ ~Known(devices, a)
    THEN LET room == IF Len(devices) = MaxDevices THEN <<>> ELSE devices
         IN  SetBonded(Upsert(room, MaxDevices, a, TRUE), a, a \in link_keys)
    ELSE devices

\* begin_connection; every caller has checked or set the Idle or Inquiry state.
BeginConnection(a) ==
    /\ devices' = RestoreSaved(a)
    /\ connection_cancel_requested' = FALSE
    /\ \E accepted \in CallResults :
           IF accepted
           THEN /\ GoTo("Connecting")
                /\ connecting_device_addr' = a
                /\ paging' = paging \cup {a}
                /\ inquiry_timer_armed' = FALSE
           ELSE /\ GoTo("Idle")
                /\ connecting_device_addr' = NoAddr
                /\ inquiry_timer_armed' = RetryWanted
                /\ UNCHANGED paging

\* Mutant of CancelPendingConnection: without the test for a pending page.
CancelWithoutPage == connection_cancel_requested' = TRUE

\* cancel_pending_connection: whether the command is refused or not, the
\* completion of the page is still to come.
CancelPendingConnection ==
    connection_cancel_requested' =
        (\/ connection_cancel_requested
         \/ current_state = "Connecting" /\ connecting_device_addr # NoAddr)

\* gap_disconnect
GapDisconnect(h) == closing' = closing \cup {h}

\* Mutant of DisconnectAfterError: Idle before the disconnection has completed.
IdleBeforeDisconnection(Move, h) ==
    /\ usb_report' = "released"
    /\ IF acl_handle # NoHandle THEN GapDisconnect(acl_handle)
                                ELSE UNCHANGED closing
    /\ GoTo("Idle")
    /\ StartIdleTimer
    /\ hid_channels' = h

\* disconnect_acl_after_error.  Move is what the handler did to the state
\* before the error and h the channel record it built: with a link, both stay
\* until its disconnection completes.
DisconnectAfterError(Move, h) ==
    /\ usb_report' = "released"
    /\ IF acl_handle # NoHandle
       THEN /\ GapDisconnect(acl_handle)
            /\ Move
            /\ hid_channels' = h
            /\ UNCHANGED inquiry_timer_armed
       ELSE /\ GoTo("Idle")
            /\ StartIdleTimer
            /\ hid_channels' = ResetConnection(h)
            /\ UNCHANGED closing

\* Mutant of SelectKeyboard: the selection is not written to flash.
SelectUnsaved(a) == selected_device' = a /\ UNCHANGED saved_device

\* The selected address is kept in RAM and, if the write succeeds, in flash.
SelectKeyboard(a) ==
    /\ selected_device' = a
    /\ \E stored \in StoreResults :
           saved_device' = IF stored THEN a ELSE saved_device

\* The links to a device (at most one), and get_connected_device.
LinkTo(a) == {h \in Handle : a # NoAddr /\ links[h] = a}
ConnectedDevice == Find(devices, connected_device_addr)

-----------------------------------------------------------------------------
(* L2CAP, and the handlers' steps that open the HID channels.              *)

\* l2cap_create_channel, accepted: the identifier is free, and is written to
\* the caller's variable before the channel is open.
CreateChannel(c, psm) ==
    /\ channels[c] = NoChannel
    /\ \E h \in LinkTo(connected_device_addr) :
           channels' = [channels EXCEPT ![c] =
                            [link |-> h, psm |-> psm, open |-> FALSE]]

CreateMayFail ==
    \/ FALSE \in CallResults
    \/ LinkTo(connected_device_addr) = {}
    \/ \A c \in Cid : channels[c] # NoChannel

\* open_control_channel, with the PSM the device list holds.
OpenControlChannel(psm) ==
    \/ /\ TRUE \in CallResults
       /\ \E c \in Cid :
              /\ CreateChannel(c, psm)
              /\ hid_channels' = [hid_channels EXCEPT !.control_cid = c]
       /\ GoTo("OpeningControl")
       /\ UNCHANGED <<closing, inquiry_timer_armed, usb_report>>
    \/ /\ CreateMayFail
       /\ DisconnectAfterError(GoTo("OpeningControl"), hid_channels)
       /\ UNCHANGED channels

\* open_interrupt_channel
OpenInterruptChannel ==
    LET dev == ConnectedDevice IN
    IF dev = 0 \/ devices[dev].interrupt_psm = 0
    THEN /\ DisconnectAfterError(Stay, hid_channels)
         /\ UNCHANGED channels
    ELSE \/ /\ TRUE \in CallResults
            /\ \E c \in Cid :
                   /\ CreateChannel(c, devices[dev].interrupt_psm)
                   /\ hid_channels' = [hid_channels EXCEPT !.interrupt_cid = c]
            /\ GoTo("OpeningInterrupt")
            /\ UNCHANGED <<closing, inquiry_timer_armed, usb_report>>
         \/ /\ CreateMayFail
            /\ DisconnectAfterError(GoTo("OpeningInterrupt"), hid_channels)
            /\ UNCHANGED channels

LedReportDue(h, state) ==
    /\ h.led_report_pending
    /\ ~h.led_can_send_requested
    /\ h.control_open
    /\ state = "HIDConnected"

\* schedule_keyboard_led_report.  BTstack may emit the event before the call
\* returns (SyncCanSend): the handler then finds nothing to send, and the flag
\* is set when the event is already gone.
ScheduleLedReport(h, state) ==
    LET requested == [h EXCEPT !.led_can_send_requested = TRUE] IN
    IF ~LedReportDue(h, state)
    THEN hid_channels' = h /\ UNCHANGED can_send
    ELSE \/ /\ TRUE \in CallResults
            /\ hid_channels' = requested
            /\ can_send' = can_send \cup {h.control_cid}
         \/ /\ TRUE \in CallResults
            /\ SyncCanSend
            /\ hid_channels' = requested
            /\ UNCHANGED can_send
         \/ /\ FALSE \in CallResults
            /\ hid_channels' = h
            /\ UNCHANGED can_send

-----------------------------------------------------------------------------
(* Starting up and searching.                                              *)

\* BTSTACK_EVENT_STATE, HCI_STATE_WORKING
BtstackWorking ==
    /\ current_state = "Initializing"
    /\ UNCHANGED choiceVars
    /\ IF auto_connect_enabled /\ selected_device # NoAddr
       THEN BeginConnection(selected_device)
       ELSE /\ GoTo("Idle")
            /\ UNCHANGED <<devices, pageVars, inquiry_timer_armed>>
    /\ UNCHANGED <<flashVars, linkVars, wireVars, closing, sdp_query,
                   inquiring, hid_channels, usb_report>>

\* GAP_EVENT_INQUIRY_RESULT
InquiryResult(a, keyboard) ==
    /\ inquiring
    /\ LET list == Upsert(devices, MaxDevices, a, keyboard)
       IN  devices' = IF keyboard THEN SetBonded(list, a, a \in link_keys)
                                  ELSE list
    /\ UNCHANGED <<stateVars, choiceVars, flashVars, pageVars, linkVars,
                   wireVars, closing, sdp_query, inquiring,
                   inquiry_timer_armed, hid_channels, usb_report>>

\* Mutant of InquiryTarget: a suspended automatic connection is not noticed.
InquiryTargetAlways ==
    LET i == IF selected_device # NoAddr
             THEN Find(devices, selected_device)
             ELSE ConnectionTarget(devices)
    IN  IF i # 0 /\ devices[i].hid_supported THEN devices[i].address ELSE NoAddr

\* The keyboard an inquiry was for: the selected one if it was found, else,
\* without a selection, the list's choice.
InquiryTarget ==
    LET i == IF selected_device # NoAddr
             THEN Find(devices, selected_device)
             ELSE ConnectionTarget(devices)
    IN  IF auto_connect_enabled /\ i # 0 /\ devices[i].hid_supported
        THEN devices[i].address
        ELSE NoAddr

\* GAP_EVENT_INQUIRY_COMPLETE
InquiryComplete ==
    /\ inquiring
    /\ current_state = "Inquiry"
    /\ inquiring' = FALSE
    /\ UNCHANGED auto_connect_enabled
    /\ LET target == InquiryTarget IN
       IF target # NoAddr
       THEN /\ IF selected_device = NoAddr
               THEN SelectKeyboard(target)
               ELSE UNCHANGED <<selected_device, saved_device>>
            /\ BeginConnection(target)
       ELSE /\ UNCHANGED <<selected_device, saved_device, devices, pageVars>>
            /\ GoTo("Idle")
            /\ StartIdleTimer
    /\ UNCHANGED <<link_keys, linkVars, wireVars, closing, sdp_query,
                   hid_channels, usb_report>>

\* GAP_EVENT_INQUIRY_COMPLETE in a state that no longer waits for it
StaleInquiryComplete ==
    /\ inquiring
    /\ current_state # "Inquiry"
    /\ inquiring' = FALSE
    /\ UNCHANGED <<stateVars, choiceVars, flashVars, pageVars, linkVars,
                   wireVars, closing, sdp_query, inquiry_timer_armed,
                   devices, hid_channels, usb_report>>

-----------------------------------------------------------------------------
(* HCI_EVENT_CONNECTION_COMPLETE, the handler's four ways.                 *)

\* The handle a completed page to a reports: a new one, or the existing link's.
CompletesOn(a, h) ==
    IF LinkTo(a) # {} THEN h \in LinkTo(a) ELSE links[h] = NoAddr

ConnectionEstablished(a, h) ==
    /\ a \in paging
    /\ CompletesOn(a, h)
    /\ current_state = "Connecting"
    /\ ~connection_cancel_requested
    /\ paging' = paging \ {a}
    /\ links' = [links EXCEPT ![h] = a]
    /\ acl_handle' = h
    /\ connected_device_addr' = a
    /\ connecting_device_addr' = NoAddr
    /\ hid_channels' = ResetConnection(hid_channels)
    /\ devices' = SetConnected(devices, a)
    /\ current_state' = "Authenticating"     \* by way of Connected
    /\ pairing_pin_pending' = FALSE
    /\ UNCHANGED <<choiceVars, flashVars, connection_cancel_requested,
                   wireVars, closing, sdp_query, inquiring,
                   inquiry_timer_armed, usb_report>>

\* Mutant of CancelledConnectionEstablished: the link is not closed again.
CancelledLinkKept(a, h) ==
    /\ a \in paging
    /\ CompletesOn(a, h)
    /\ current_state = "Connecting"
    /\ connection_cancel_requested
    /\ paging' = paging \ {a}
    /\ links' = [links EXCEPT ![h] = a]
    /\ acl_handle' = h
    /\ connecting_device_addr' = NoAddr
    /\ connection_cancel_requested' = FALSE
    /\ GoTo("Connected")
    /\ UNCHANGED <<choiceVars, flashVars, connected_device_addr, wireVars,
                   closing, sdp_query, inquiring, inquiry_timer_armed, devices,
                   hid_channels, usb_report>>

\* The page succeeded although it was cancelled: the link is closed again.
CancelledConnectionEstablished(a, h) ==
    /\ a \in paging
    /\ CompletesOn(a, h)
    /\ current_state = "Connecting"
    /\ connection_cancel_requested
    /\ paging' = paging \ {a}
    /\ links' = [links EXCEPT ![h] = a]
    /\ acl_handle' = h
    /\ connecting_device_addr' = NoAddr
    /\ connection_cancel_requested' = FALSE
    /\ GoTo("Connected")
    /\ GapDisconnect(h)
    /\ UNCHANGED <<choiceVars, flashVars, connected_device_addr, wireVars,
                   sdp_query, inquiring, inquiry_timer_armed, devices,
                   hid_channels, usb_report>>

ConnectionFailed(a) ==
    /\ a \in paging
    /\ current_state = "Connecting"
    /\ UNCHANGED choiceVars
    /\ paging' = paging \ {a}
    /\ connecting_device_addr' = NoAddr
    /\ connection_cancel_requested' = FALSE
    /\ GoTo("Idle")
    /\ StartIdleTimer
    /\ UNCHANGED <<flashVars, linkVars, wireVars, closing,
                   sdp_query, inquiring, devices, hid_channels, usb_report>>

\* A completion nobody waits for is "ignored": a new link is closed.
StaleConnectionComplete(a, h) ==
    /\ AllowStale
    /\ CompletesOn(a, h)
    /\ current_state \notin {"Initializing", "Connecting"}
    /\ paging' = paging \ {a}
    /\ links' = [links EXCEPT ![h] = a]
    /\ GapDisconnect(h)
    /\ UNCHANGED <<stateVars, choiceVars, flashVars, acl_handle,
                   connected_device_addr, connecting_device_addr,
                   connection_cancel_requested, wireVars, sdp_query,
                   inquiring, inquiry_timer_armed, devices, hid_channels,
                   usb_report>>

-----------------------------------------------------------------------------
(* Authentication and service discovery.                                   *)

\* Mutant of Authenticating: the state is not looked at.
LinkIsUp ==
    /\ acl_handle # NoHandle
    /\ links[acl_handle] # NoAddr

\* Security events of the current link, while it is being authenticated.
Authenticating ==
    /\ current_state = "Authenticating"
    /\ acl_handle # NoHandle
    /\ links[acl_handle] # NoAddr

\* start_sdp_discovery
StartSdpDiscovery ==
    /\ devices' = SetPsms(devices, connected_device_addr, 0, 0)
    /\ \/ /\ TRUE \in CallResults
          /\ sdp_query = NoHandle
          /\ sdp_query' = acl_handle
          /\ GoTo("ServiceDiscovery")
          /\ UNCHANGED <<closing, inquiry_timer_armed, hid_channels, usb_report>>
       \/ /\ FALSE \in CallResults \/ sdp_query # NoHandle
          /\ DisconnectAfterError(GoTo("ServiceDiscovery"), hid_channels)
          /\ UNCHANGED sdp_query

\* GAP_EVENT_SECURITY_LEVEL or HCI_EVENT_ENCRYPTION_CHANGE reporting success
LinkSecured ==
    /\ Authenticating
    /\ UNCHANGED choiceVars
    /\ StartSdpDiscovery
    /\ UNCHANGED <<flashVars, pageVars, linkVars, wireVars,
                   inquiring>>

\* The same events, or HCI_EVENT_AUTHENTICATION_COMPLETE, reporting failure
SecurityFailed ==
    /\ Authenticating
    /\ UNCHANGED choiceVars
    /\ DisconnectAfterError(Stay, hid_channels)
    /\ UNCHANGED <<flashVars, pageVars, linkVars, wireVars,
                   sdp_query, inquiring, devices>>

\* SDP_EVENT_QUERY_ATTRIBUTE_VALUE: the last byte of an attribute that names
\* the PSM of one of the two channels
SdpAttribute(list) ==
    /\ sdp_query # NoHandle
    /\ devices' = list
    /\ UNCHANGED <<stateVars, choiceVars, flashVars, pageVars, linkVars,
                   wireVars, closing, sdp_query, inquiring,
                   inquiry_timer_armed, hid_channels, usb_report>>

SdpControlAttribute(psm) ==
    SdpAttribute(SetControlPsm(devices, connected_device_addr, psm))

SdpInterruptAttribute(psm) ==
    SdpAttribute(SetInterruptPsm(devices, connected_device_addr, psm))

\* SDP_EVENT_QUERY_COMPLETE.  A record without both PSMs stands for the
\* standard ones.
SdpComplete(ok) ==
    /\ sdp_query # NoHandle
    /\ UNCHANGED choiceVars
    /\ sdp_query' = NoHandle
    /\ LET dev == ConnectedDevice
           missing == \/ devices[dev].control_psm = 0
                      \/ devices[dev].interrupt_psm = 0
       IN  IF ok /\ dev # 0
           THEN /\ devices' = IF missing
                              THEN SetPsms(devices, connected_device_addr,
                                           StandardControlPsm,
                                           StandardInterruptPsm)
                              ELSE devices
                /\ OpenControlChannel(devices'[dev].control_psm)
           ELSE /\ DisconnectAfterError(Stay, hid_channels)
                /\ UNCHANGED <<devices, channels>>
    /\ UNCHANGED <<flashVars, pageVars, linkVars, can_send,
                   handshake_due, keyboard_leds, inquiring>>

-----------------------------------------------------------------------------
(* L2CAP events of the two HID channels.                                   *)

Opening(c) == channels[c].link # NoHandle /\ ~channels[c].open

\* L2CAP_EVENT_CHANNEL_OPENED with an error status
ChannelOpenFailed(c) ==
    /\ Opening(c)
    /\ UNCHANGED choiceVars
    /\ channels' = [channels EXCEPT ![c] = NoChannel]
    /\ DisconnectAfterError(Stay, hid_channels)
    /\ UNCHANGED <<flashVars, pageVars, linkVars, can_send,
                   handshake_due, keyboard_leds, sdp_query, inquiring, devices>>

\* Success on the control PSM: SET_PROTOCOL is to be sent.
ControlChannelOpened(c) ==
    /\ LET opened == ControlOpened(hid_channels, c) IN
       \/ /\ TRUE \in CallResults
          /\ hid_channels' = opened
          /\ can_send' = can_send \cup {c}
          /\ GoTo("SettingBootProtocol")
          /\ UNCHANGED <<closing, inquiry_timer_armed, usb_report>>
       \/ /\ FALSE \in CallResults
          /\ DisconnectAfterError(GoTo("SettingBootProtocol"), opened)
          /\ UNCHANGED can_send

\* Success on the interrupt PSM: the keyboard is usable, its LEDs are synced.
InterruptChannelOpened(c) ==
    /\ GoTo("HIDConnected")
    /\ ScheduleLedReport(RequestLedSync(InterruptOpened(hid_channels, c)),
                         "HIDConnected")
    /\ UNCHANGED <<closing, inquiry_timer_armed, usb_report>>

\* L2CAP_EVENT_CHANNEL_OPENED.  The PSM tells the channels apart, the control
\* PSM first.
ChannelOpened(c) ==
    /\ Opening(c)
    /\ UNCHANGED choiceVars
    /\ channels' = [channels EXCEPT ![c].open = TRUE]
    /\ LET dev == ConnectedDevice IN
       IF dev = 0
       THEN DisconnectAfterError(Stay, hid_channels) /\ UNCHANGED can_send
       ELSE IF channels[c].psm = devices[dev].control_psm
       THEN ControlChannelOpened(c)
       ELSE IF channels[c].psm = devices[dev].interrupt_psm
       THEN InterruptChannelOpened(c)
       ELSE UNCHANGED <<stateVars, hid_channels, can_send, closing,
                        inquiry_timer_armed, usb_report>>
    /\ UNCHANGED <<flashVars, pageVars, linkVars, handshake_due,
                   keyboard_leds, sdp_query, inquiring, devices>>

CanSend(c) == c \in can_send /\ can_send' = can_send \ {c}

\* L2CAP_EVENT_CAN_SEND_NOW, SET_PROTOCOL first
SendSetProtocol(c) ==
    /\ CanSend(c)
    /\ c = hid_channels.control_cid
    /\ hid_channels.boot_protocol_request_pending
    /\ UNCHANGED choiceVars
    /\ LET sent == [hid_channels EXCEPT !.boot_protocol_request_pending = FALSE]
       IN  \/ /\ TRUE \in CallResults
              /\ hid_channels' = sent
              /\ handshake_due' = c
              /\ UNCHANGED <<stateVars, closing, inquiry_timer_armed, usb_report>>
           \/ /\ FALSE \in CallResults
              /\ DisconnectAfterError(Stay, sent)
              /\ UNCHANGED handshake_due
    /\ UNCHANGED <<flashVars, pageVars, linkVars, channels,
                   keyboard_leds, sdp_query, inquiring, devices>>

\* Mutant of SendLedReport: the request is not taken back.
SendKeepsRequest(c) ==
    /\ CanSend(c)
    /\ c = hid_channels.control_cid
    /\ ~hid_channels.boot_protocol_request_pending
    /\ hid_channels.led_can_send_requested
    /\ hid_channels' = [hid_channels EXCEPT !.led_report_pending = FALSE]
    /\ keyboard_leds' = hid_channels.led_state
    /\ UNCHANGED <<stateVars, choiceVars, flashVars, pageVars, linkVars,
                   channels, handshake_due, closing, sdp_query, inquiring,
                   inquiry_timer_armed, devices, usb_report>>

\* L2CAP_EVENT_CAN_SEND_NOW, the LED report; a refused one stays pending
SendLedReport(c) ==
    /\ CanSend(c)
    /\ c = hid_channels.control_cid
    /\ ~hid_channels.boot_protocol_request_pending
    /\ hid_channels.led_can_send_requested
    /\ LET asked == [hid_channels EXCEPT !.led_can_send_requested = FALSE]
       IN  \/ /\ TRUE \in CallResults
              /\ hid_channels' = [asked EXCEPT !.led_report_pending = FALSE]
              /\ keyboard_leds' = hid_channels.led_state
           \/ /\ FALSE \in CallResults
              /\ hid_channels' = asked
              /\ UNCHANGED keyboard_leds
    /\ UNCHANGED <<stateVars, choiceVars, flashVars, pageVars, linkVars,
                   channels, handshake_due, closing, sdp_query, inquiring,
                   inquiry_timer_armed, devices, usb_report>>

\* The event for a request the program has dropped since
CanSendIgnored(c) ==
    /\ CanSend(c)
    /\ \/ c # hid_channels.control_cid
       \/ /\ ~hid_channels.boot_protocol_request_pending
          /\ ~hid_channels.led_can_send_requested
    /\ UNCHANGED <<stateVars, choiceVars, flashVars, pageVars, linkVars,
                   channels, handshake_due, keyboard_leds, closing, sdp_query,
                   inquiring, inquiry_timer_armed, devices, hid_channels,
                   usb_report>>

\* L2CAP_DATA_PACKET on the control channel: the answer to SET_PROTOCOL
Handshake(ok) ==
    /\ handshake_due # NoCid
    /\ handshake_due = hid_channels.control_cid
    /\ current_state = "SettingBootProtocol"
    /\ UNCHANGED choiceVars
    /\ handshake_due' = NoCid
    /\ IF ok
       THEN OpenInterruptChannel
       ELSE DisconnectAfterError(Stay, hid_channels) /\ UNCHANGED channels
    /\ UNCHANGED <<flashVars, pageVars, linkVars, can_send,
                   keyboard_leds, sdp_query, inquiring, devices>>

\* The same answer when it is not, or no longer, waited for
HandshakeIgnored ==
    /\ handshake_due # NoCid
    /\ \/ handshake_due # hid_channels.control_cid
       \/ current_state # "SettingBootProtocol"
    /\ handshake_due' = NoCid
    /\ UNCHANGED <<stateVars, choiceVars, flashVars, pageVars, linkVars,
                   channels, can_send, keyboard_leds, closing, sdp_query,
                   inquiring, inquiry_timer_armed, devices, hid_channels,
                   usb_report>>

\* L2CAP_DATA_PACKET on the interrupt channel: a valid boot keyboard report
InterruptReport(report) ==
    /\ hid_channels.interrupt_open
    /\ channels[hid_channels.interrupt_cid].open
    /\ usb_report' = report
    /\ UNCHANGED <<stateVars, choiceVars, flashVars, pageVars, linkVars,
                   wireVars, closing, sdp_query, inquiring,
                   inquiry_timer_armed, devices, hid_channels>>

\* Mutant of EndsConnection: only the interrupt channel counts.
InterruptEndsConnection(c) ==
    ClosesInterrupt(hid_channels, c) /\ acl_handle # NoHandle

\* The closed channel is one of the two, on a link that can be disconnected.
EndsConnection(c) ==
    /\ ClosesControl(hid_channels, c) \/ ClosesInterrupt(hid_channels, c)
    /\ current_state # "Disconnected"
    /\ acl_handle # NoHandle

\* L2CAP_EVENT_CHANNEL_CLOSED.  The state is left to the disconnection that
\* the loss of either channel asks for.
ChannelClosed(c) ==
    /\ channels[c].open
    /\ channels' = [channels EXCEPT ![c] = NoChannel]
    /\ can_send' = can_send \ {c}
    /\ handshake_due' = IF handshake_due = c THEN NoCid ELSE handshake_due
    /\ hid_channels' = Closed(hid_channels, c)
    /\ usb_report' = IF ClosesInterrupt(hid_channels, c) THEN "released"
                                                         ELSE usb_report
    /\ IF EndsConnection(c) THEN GapDisconnect(acl_handle)
                            ELSE UNCHANGED closing
    /\ UNCHANGED <<stateVars, choiceVars, flashVars, pageVars, linkVars,
                   keyboard_leds, sdp_query, inquiring, inquiry_timer_armed,
                   devices>>

-----------------------------------------------------------------------------
(* The end of a link, and pairing.                                         *)

\* HCI_EVENT_DISCONNECTION_COMPLETE.  BTstack ends the link's channels and its
\* SDP query before it reports the disconnection.  The handler does not look
\* at the handle.
DisconnectionComplete(h) ==
    /\ links[h] # NoAddr
    /\ \A c \in Cid : channels[c].link # h
    /\ sdp_query # h
    /\ links' = [links EXCEPT ![h] = NoAddr]
    /\ closing' = closing \ {h}
    /\ keyboard_leds' = NoLeds
    /\ GoTo("Idle")                               \* by way of Disconnected
    /\ devices' = ClearConnections(devices)
    /\ usb_report' = "released"
    /\ hid_channels' = ResetConnection(hid_channels)
    /\ acl_handle' = NoHandle
    /\ UNCHANGED choiceVars
    /\ StartIdleTimer
    /\ UNCHANGED <<flashVars, pageVars, connected_device_addr, channels,
                   can_send, handshake_due, sdp_query, inquiring>>

\* A keyboard may pair while its link is set up (security mode 3) or up.
Pairing(a) == a \in paging \/ LinkTo(a) # {}

\* HCI_EVENT_PIN_CODE_REQUEST: a key the peer no longer shares is dropped and
\* the PIN is shown for 30 seconds.
PinCodeRequest(a) ==
    /\ Pairing(a)
    /\ link_keys' = link_keys \ {a}
    /\ devices' = IF a \in link_keys THEN SetBonded(devices, a, FALSE)
                                     ELSE devices
    /\ pairing_pin_pending' = TRUE
    /\ UNCHANGED <<current_state, choiceVars, saved_device, pageVars,
                   linkVars, wireVars, closing, sdp_query, inquiring,
                   inquiry_timer_armed, hid_channels, usb_report>>

\* HCI_EVENT_LINK_KEY_NOTIFICATION.  The key is already stored, or is written
\* and read back; when that fails the device is not bonded.
LinkKeyNotification(a) ==
    /\ Pairing(a)
    /\ \E verified \in StoreResults :
           /\ link_keys' = IF verified THEN link_keys \cup {a} ELSE link_keys
           /\ devices' = SetBonded(devices, a, verified)
    /\ UNCHANGED <<stateVars, choiceVars, saved_device, pageVars, linkVars,
                   wireVars, closing, sdp_query, inquiring,
                   inquiry_timer_armed, hid_channels, usb_report>>

\* pairing_pin_timeout
PairingPinTimeout ==
    /\ pairing_pin_pending
    /\ pairing_pin_pending' = FALSE
    /\ UNCHANGED <<current_state, choiceVars, flashVars, pageVars, linkVars,
                   wireVars, closing, sdp_query, inquiring,
                   inquiry_timer_armed, devices, hid_channels, usb_report>>

\* inquiry_timer_handler
InquiryTimer ==
    /\ inquiry_timer_armed
    /\ UNCHANGED choiceVars
    /\ IF /\ current_state = "Idle"
          /\ auto_connect_enabled
          /\ selected_device # NoAddr
       THEN BeginConnection(selected_device)
       ELSE /\ inquiry_timer_armed' = FALSE
            /\ UNCHANGED <<stateVars, pageVars, devices>>
    /\ UNCHANGED <<flashVars, linkVars, wireVars, closing, sdp_query,
                   inquiring, hid_channels, usb_report>>

-----------------------------------------------------------------------------
(* execute_control_request.                                                *)

\* Mutant of StartInquiry: the retry timer keeps running.
InquiryKeepsTimer ==
    /\ GoTo("Inquiry")
    /\ inquiring' = TRUE
    /\ UNCHANGED inquiry_timer_armed

\* start_inquiry, in the Idle state
StartInquiry ==
    /\ GoTo("Inquiry")
    /\ inquiry_timer_armed' = FALSE
    /\ inquiring' = TRUE

ExecuteScan ==
    /\ "scan" \in Command
    /\ current_state = "Idle"
    /\ auto_connect_enabled' = FALSE
    /\ devices' = <<>>
    /\ StartInquiry
    /\ UNCHANGED <<selected_device, flashVars, pageVars, linkVars, wireVars,
                   closing, sdp_query, hid_channels, usb_report>>

ExecuteConnect(a) ==
    /\ "connect" \in Command
    /\ Known(devices, a)
    /\ devices[Find(devices, a)].hid_supported
    /\ current_state = "Idle"
    /\ auto_connect_enabled' = TRUE
    /\ SelectKeyboard(a)
    /\ BeginConnection(a)
    /\ UNCHANGED <<link_keys, linkVars, wireVars, closing, sdp_query,
                   inquiring, hid_channels, usb_report>>

\* The end of the connection, or of the attempt to make one
EndConnection ==
    IF acl_handle # NoHandle
    THEN GapDisconnect(acl_handle) /\ UNCHANGED connection_cancel_requested
    ELSE CancelPendingConnection /\ UNCHANGED closing

ExecuteDisconnect ==
    /\ "disconnect" \in Command
    /\ auto_connect_enabled' = FALSE
    /\ EndConnection
    /\ UNCHANGED <<stateVars, selected_device, flashVars, linkVars, wireVars,
                   connecting_device_addr, paging, sdp_query, inquiring,
                   inquiry_timer_armed, devices, hid_channels, usb_report>>

\* With a link, or outside Idle, only automatic reconnection is resumed.
ExecuteReconnect ==
    /\ "reconnect" \in Command
    /\ auto_connect_enabled' = TRUE
    /\ LET i == ConnectionTarget(devices)
           target == IF selected_device # NoAddr THEN selected_device
                     ELSE IF i # 0 THEN devices[i].address ELSE NoAddr
       IN  IF acl_handle # NoHandle \/ current_state # "Idle"
           THEN UNCHANGED <<stateVars, selected_device, saved_device, pageVars,
                            inquiring, inquiry_timer_armed, devices>>
           ELSE IF target = NoAddr
           THEN /\ StartInquiry
                /\ UNCHANGED <<selected_device, saved_device, pageVars, devices>>
           ELSE /\ IF selected_device = NoAddr
                   THEN SelectKeyboard(target)
                   ELSE UNCHANGED <<selected_device, saved_device>>
                /\ BeginConnection(target)
                /\ UNCHANGED inquiring
    /\ UNCHANGED <<link_keys, linkVars, wireVars, closing, sdp_query,
                   hid_channels, usb_report>>

ExecuteForget ==
    /\ "forget" \in Command
    /\ auto_connect_enabled' = FALSE
    /\ selected_device' = NoAddr
    /\ saved_device' = NoAddr
    /\ link_keys' = {}
    /\ devices' = ClearBonded(devices)
    /\ EndConnection
    /\ UNCHANGED <<stateVars, linkVars, wireVars, connecting_device_addr,
                   paging, sdp_query, inquiring, inquiry_timer_armed,
                   hid_channels, usb_report>>

-----------------------------------------------------------------------------
(* The USB side and the power supply.                                      *)

\* bluetooth_set_keyboard_leds, from the USB host's output report
SetKeyboardLeds(byte) ==
    /\ hid_channels' = SetLeds(hid_channels, byte)
    /\ UNCHANGED <<stateVars, choiceVars, flashVars, pageVars, linkVars,
                   wireVars, closing, sdp_query, inquiring,
                   inquiry_timer_armed, devices, usb_report>>

\* bluetooth_task, after it has polled BTstack
ScheduleLedReportTask ==
    /\ LedReportDue(hid_channels, current_state)
    /\ ScheduleLedReport(hid_channels, current_state)
    /\ UNCHANGED <<stateVars, choiceVars, flashVars, pageVars, linkVars,
                   channels, handshake_due, keyboard_leds, closing, sdp_query,
                   inquiring, inquiry_timer_armed, devices, usb_report>>

\* The adapter is unplugged and plugged in again.
PowerCycle ==
    /\ MayLosePower
    /\ UNCHANGED flashVars
    /\ current_state' = "Initializing"
    /\ pairing_pin_pending' = FALSE
    /\ acl_handle' = NoHandle
    /\ connected_device_addr' = NoAddr
    /\ connecting_device_addr' = NoAddr
    /\ connection_cancel_requested' = FALSE
    /\ inquiry_timer_armed' = FALSE
    /\ auto_connect_enabled' = TRUE
    /\ selected_device' = saved_device
    /\ devices' = <<>>
    /\ hid_channels' = InitialHidChannels
    /\ usb_report' = "released"
    /\ inquiring' = FALSE
    /\ paging' = {}
    /\ links' = [h \in Handle |-> NoAddr]
    /\ closing' = {}
    /\ sdp_query' = NoHandle
    /\ channels' = [c \in Cid |-> NoChannel]
    /\ can_send' = {}
    /\ handshake_due' = NoCid
    /\ keyboard_leds' = NoLeds

-----------------------------------------------------------------------------
Search ==
    \/ BtstackWorking
    \/ InquiryComplete
    \/ StaleInquiryComplete
    \/ \E a \in Addr, keyboard \in InquiryClass : InquiryResult(a, keyboard)

Paging ==
    \E a \in Addr :
        \/ ConnectionFailed(a)
        \/ \E h \in Handle :
               \/ ConnectionEstablished(a, h)
               \/ CancelledConnectionEstablished(a, h)
               \/ StaleConnectionComplete(a, h)

Discovery ==
    \/ LinkSecured
    \/ SecurityFailed
    \/ \E psm \in ControlPsm : SdpControlAttribute(psm)
    \/ \E psm \in InterruptPsm : SdpInterruptAttribute(psm)
    \/ \E ok \in BOOLEAN : SdpComplete(ok)

HidTraffic ==
    \/ \E c \in Cid :
           \/ ChannelOpened(c)
           \/ ChannelOpenFailed(c)
           \/ ChannelClosed(c)
           \/ SendSetProtocol(c)
           \/ SendLedReport(c)
           \/ CanSendIgnored(c)
    \/ \E ok \in BOOLEAN : Handshake(ok)
    \/ HandshakeIgnored
    \/ \E report \in {"pressed", "released"} : InterruptReport(report)

PairingEvents ==
    \/ \E a \in Addr : PinCodeRequest(a) \/ LinkKeyNotification(a)
    \/ PairingPinTimeout

ControlRequests ==
    \/ ExecuteScan
    \/ \E a \in Addr : ExecuteConnect(a)
    \/ ExecuteDisconnect
    \/ ExecuteReconnect
    \/ ExecuteForget

Next ==
    \/ Search
    \/ Paging
    \/ Discovery
    \/ HidTraffic
    \/ PairingEvents
    \/ ControlRequests
    \/ InquiryTimer
    \/ \E h \in Handle : DisconnectionComplete(h)
    \/ \E byte \in LedReport : SetKeyboardLeds(byte)
    \/ ScheduleLedReportTask
    \/ PowerCycle

Spec == Init /\ [][Next]_vars

(***************************************************************************)
(* Fairness.  main.c runs bluetooth_task again and again, which polls the  *)
(* timers and BTstack and then schedules the LED report: what the program  *)
(* does by itself, and what the stack owes it, eventually happens.  That a *)
(* keyboard answers, and stays in range until it has, is an assumption     *)
(* about the keyboard: it may fail any number of times, but a step that is *)
(* attempted again and again succeeds again and again.                     *)
(***************************************************************************)

\* The end of a link after gap_disconnect: its channels, its query, itself
TearDown ==
    \/ \E c \in Cid : /\ channels[c].link \in closing
                      /\ ChannelClosed(c) \/ ChannelOpenFailed(c)
    \/ sdp_query \in closing /\ SdpComplete(FALSE)
    \/ \E h \in closing : DisconnectionComplete(h)

StackFairness ==
    /\ WF_vars(BtstackWorking)
    /\ WF_vars(InquiryComplete)
    /\ WF_vars(Paging)
    /\ WF_vars(InquiryTimer)
    /\ WF_vars(TearDown)
    /\ WF_vars(ScheduleLedReportTask)
    /\ WF_vars(\E c \in Cid : SendLedReport(c))

Answered(Event) == acl_handle \notin closing /\ Event

KeyboardFairness ==
    /\ SF_vars(\E a \in Addr, h \in Handle : ConnectionEstablished(a, h))
    /\ SF_vars(Answered(LinkSecured))
    /\ SF_vars(Answered(SdpComplete(TRUE)))
    /\ SF_vars(Answered(/\ current_state = "OpeningControl"
                        /\ \E c \in Cid : ChannelOpened(c)))
    /\ SF_vars(Answered(\E c \in Cid : SendSetProtocol(c)))
    /\ SF_vars(Answered(Handshake(TRUE)))
    /\ SF_vars(Answered(/\ current_state = "OpeningInterrupt"
                        /\ \E c \in Cid : ChannelOpened(c)))

FairSpec == Spec /\ StackFairness /\ KeyboardFairness

=============================================================================
