-------------------------- MODULE BluetoothLinkProofs --------------------------
(***************************************************************************)
(* What the connection manager knows of its link, for every set of         *)
(* keyboards, handles and channels, where no connection completes that     *)
(* nobody waits for (AllowStale = FALSE; with one most of the properties   *)
(* fail).  The properties hold each other up: the                          *)
(* program's handle is the link there is because no handler takes the way  *)
(* back to Idle that is meant for "no link", and that is so because every  *)
(* channel, query and event the stack owes belongs to the link.            *)
(*                                                                         *)
(* Four invariants, each on top of those before it: Link and Wires (the    *)
(* link and what is owed on it), DevicesKnown (the list), Stages (what     *)
(* each state waits for), PsmsApart (what tells the channels apart).       *)
(***************************************************************************)
EXTENDS BluetoothProofs

USE DEF stateVars, choiceVars, flashVars, pageVars, linkVars, wireVars

\* The states in which there may be a channel
ChannelStates ==
    {"OpeningControl", "SettingBootProtocol", "OpeningInterrupt", "HIDConnected"}

Link == LinkTracked /\ PageAccounted /\ NoRetryWhileBusy /\ PromptScope

\* Every channel is one of the link, in a state that expects channels.
ChannelsOnLink ==
    \A c \in Cid :
        /\ channels[c].open => channels[c].link # NoHandle
        /\ channels[c].link # NoHandle =>
               channels[c].link = acl_handle /\ current_state \in ChannelStates

\* So is an SDP query, while services are being discovered.
QueryOnLink ==
    sdp_query # NoHandle =>
        sdp_query = acl_handle /\ current_state = "ServiceDiscovery"

\* An event is owed on an open channel only.
OwedOnOpen ==
    /\ \A c \in can_send : channels[c].open
    /\ handshake_due # NoCid => channels[handshake_due].open

\* The control channel that the program marks open is open.
ControlIsOpen ==
    hid_channels.control_open =>
        /\ hid_channels.control_cid \in Cid
        /\ channels[hid_channels.control_cid].open

Wires == ChannelsOnLink /\ QueryOnLink /\ OwedOnOpen /\ ControlIsOpen

-----------------------------------------------------------------------------
(* The link, the page and the retry timer.                                 *)

LEMMA LinkUntouched ==
    ASSUME Link,
           UNCHANGED <<current_state, linkVars, pageVars, inquiry_timer_armed>>,
           pairing_pin_pending' => pairing_pin_pending
    PROVE  Link'
  BY DEF Link, LinkTracked, PageAccounted, NoRetryWhileBusy, PromptScope

\* A step of the state machine on the link
LEMMA LinkMove ==
    ASSUME Link, acl_handle # NoHandle, current_state # "Connected",
           current_state' \in LinkStates \ {"Connected"},
           UNCHANGED <<linkVars, pageVars, inquiry_timer_armed>>
    PROVE  Link'
<1>1. LinkTracked'
  BY DEF Link, LinkTracked, LinkStates
<1>2. PageAccounted'
  BY DEF Link, LinkTracked, PageAccounted, LinkStates
<1>3. NoRetryWhileBusy'
  BY DEF Link, LinkTracked, NoRetryWhileBusy, LinkStates
<1> QED
  BY <1>1, <1>2, <1>3 DEF Link, PromptScope

\* disconnect_acl_after_error, which is only ever called with a link
LEMMA LinkDisconnect ==
    ASSUME Link, acl_handle # NoHandle, NEW ACTION Move, NEW h,
           Move => \/ Stay
                   \/ /\ current_state # "Connected"
                      /\ current_state' \in LinkStates \ {"Connected"},
           UNCHANGED <<linkVars, pageVars>>,
           DisconnectAfterError(Move, h)
    PROVE  Link'
<1>1. Move /\ UNCHANGED inquiry_timer_armed
  BY DEF DisconnectAfterError
<1>2. CASE Stay
  BY <1>1, <1>2, LinkUntouched DEF Stay
<1>3. CASE /\ current_state # "Connected"
           /\ current_state' \in LinkStates \ {"Connected"}
  BY <1>1, <1>3, LinkMove
<1> QED
  BY <1>1, <1>2, <1>3

\* Without a link, and without a page
LEMMA NoLink ==
    ASSUME TypeInv, Link, current_state \notin LinkStates
    PROVE  acl_handle = NoHandle /\ \A h \in Handle : links[h] = NoAddr
  BY HandleAssumption DEF Link, LinkTracked

LEMMA NoPagePending ==
    ASSUME Link, current_state # "Connecting"
    PROVE  /\ connecting_device_addr = NoAddr /\ paging = {}
           /\ ~connection_cancel_requested
  BY DEF Link, PageAccounted

LEMMA ToIdle ==
    ASSUME GoTo("Idle"), acl_handle' = NoHandle,
           \A h \in Handle : links'[h] = NoAddr,
           connecting_device_addr' = NoAddr, paging' = {},
           ~connection_cancel_requested'
    PROVE  Link'
<1>1. current_state' = "Idle" /\ ~pairing_pin_pending'
  BY DEF GoTo
<1> QED
  BY <1>1, HandleAssumption
  DEF Link, LinkTracked, PageAccounted, NoRetryWhileBusy, PromptScope, LinkStates

\* begin_connection, where there is neither a link nor a page
LEMMA BeginLink ==
    ASSUME TypeInv, Link, NEW a \in Addr, BeginConnection(a),
           current_state \in {"Initializing", "Idle", "Inquiry"},
           UNCHANGED linkVars
    PROVE  Link'
<1>1. acl_handle' = NoHandle /\ \A h \in Handle : links'[h] = NoAddr
  BY NoLink DEF LinkStates
<1>2. paging = {} /\ ~connection_cancel_requested'
  BY NoPagePending DEF BeginConnection
<1>3. CASE /\ GoTo("Connecting")
           /\ connecting_device_addr' = a
           /\ paging' = paging \cup {a}
           /\ inquiry_timer_armed' = FALSE
  <2>1. a # NoAddr
    BY AddrAssumption
  <2>2. current_state' = "Connecting" /\ paging' = {a}
    BY <1>2, <1>3 DEF GoTo
  <2>3. LinkTracked'
    BY <1>1, <2>2, HandleAssumption DEF LinkTracked, LinkStates
  <2>4. PageAccounted'
    BY <1>3, <2>1, <2>2 DEF PageAccounted
  <2> QED
    BY <1>3, <2>2, <2>3, <2>4 DEF Link, NoRetryWhileBusy, PromptScope
<1>4. CASE /\ GoTo("Idle")
           /\ connecting_device_addr' = NoAddr
           /\ UNCHANGED paging
  BY <1>1, <1>2, <1>4, ToIdle
<1> QED
  BY <1>3, <1>4 DEF BeginConnection

LEMMA InitLink == Init => Link
  BY HandleAssumption
  DEF Init, BootsWith, Link, LinkTracked, PageAccounted, NoRetryWhileBusy,
      PromptScope, LinkStates

\* Search
LEMMA SearchLink == TypeInv /\ Link /\ Search => Link'
<1> SUFFICES ASSUME TypeInv, Link, Search PROVE Link'
  OBVIOUS
<1>1. CASE BtstackWorking
  <2>1. CASE auto_connect_enabled /\ selected_device # NoAddr
    <3>1. BeginConnection(selected_device) /\ selected_device \in Addr
      BY <1>1, <2>1 DEF BtstackWorking, TypeInv, TypeOK
    <3> QED
      BY <1>1, <3>1, BeginLink DEF BtstackWorking
  <2>2. CASE ~(auto_connect_enabled /\ selected_device # NoAddr)
    <3>1. GoTo("Idle") /\ UNCHANGED <<linkVars, pageVars>>
      BY <1>1, <2>2 DEF BtstackWorking
    <3>2. current_state \notin LinkStates /\ current_state # "Connecting"
      BY <1>1 DEF BtstackWorking, LinkStates
    <3> QED
      BY <3>1, <3>2, NoLink, NoPagePending, ToIdle
  <2> QED
    BY <2>1, <2>2
<1>2. CASE InquiryComplete
  <2>1. CASE InquiryTarget # NoAddr
    <3>1. InquiryTarget \in Addr
      BY <2>1, InquiryTargetTyped
    <3>2. BeginConnection(InquiryTarget) /\ UNCHANGED linkVars
          /\ current_state = "Inquiry"
      BY <1>2, <2>1 DEF InquiryComplete
    <3> HIDE DEF InquiryTarget
    <3> QED
      BY <3>1, <3>2, BeginLink
  <2>2. CASE InquiryTarget = NoAddr
    <3>1. GoTo("Idle") /\ UNCHANGED <<linkVars, pageVars>>
      BY <1>2, <2>2 DEF InquiryComplete
    <3>2. current_state \notin LinkStates /\ current_state # "Connecting"
      BY <1>2 DEF InquiryComplete, LinkStates
    <3> QED
      BY <3>1, <3>2, NoLink, NoPagePending, ToIdle
  <2> QED
    BY <2>1, <2>2
<1>3. CASE StaleInquiryComplete
  BY <1>3, LinkUntouched DEF StaleInquiryComplete
<1>4. ASSUME NEW a \in Addr, NEW keyboard \in InquiryClass,
             InquiryResult(a, keyboard)
      PROVE  Link'
  BY <1>4, LinkUntouched DEF InquiryResult
<1> QED
  BY <1>1, <1>2, <1>3, <1>4 DEF Search

\* HCI_EVENT_CONNECTION_COMPLETE: the page was the only one, and the link it
\* makes is the only one.
LEMMA PageMakesLink ==
    ASSUME TypeInv, Link, current_state = "Connecting",
           NEW a \in Addr, a \in paging, NEW h \in Handle,
           links' = [links EXCEPT ![h] = a], acl_handle' = h,
           paging' = paging \ {a}, connecting_device_addr' = NoAddr,
           ~connection_cancel_requested', UNCHANGED inquiry_timer_armed,
           current_state' \in LinkStates,
           current_state' # "Connected" => connected_device_addr' = a
    PROVE  Link'
<1>1. h # NoHandle /\ a # NoAddr
  BY HandleAssumption, AddrAssumption
<1>2. \A g \in Handle : links[g] = NoAddr
  BY NoLink DEF LinkStates
<1>3. links \in [Handle -> Addr \cup {NoAddr}]
  BY DEF TypeInv, TypeOK
<1>4. LinkTracked'
  BY <1>1, <1>2, <1>3 DEF LinkTracked
<1>5. paging' = {}
  BY DEF Link, PageAccounted
<1>6. PageAccounted'
  BY <1>5 DEF PageAccounted, LinkStates
<1>7. NoRetryWhileBusy'
  BY DEF Link, NoRetryWhileBusy
<1> QED
  BY <1>4, <1>6, <1>7 DEF Link, PromptScope

LEMMA PagingLink == ~AllowStale /\ TypeInv /\ Link /\ Paging => Link'
<1> SUFFICES ASSUME ~AllowStale, TypeInv, Link, Paging PROVE Link'
  OBVIOUS
<1>1. ASSUME NEW a \in Addr, ConnectionFailed(a)
      PROVE  Link'
  <2>1. current_state \notin LinkStates /\ paging' = {}
    BY <1>1 DEF ConnectionFailed, LinkStates, Link, PageAccounted
  <2> QED
    BY <1>1, <2>1, NoLink, ToIdle DEF ConnectionFailed
<1>2. ASSUME NEW a \in Addr, NEW h \in Handle, ConnectionEstablished(a, h)
      PROVE  Link'
  BY <1>2, PageMakesLink DEF ConnectionEstablished, LinkStates
<1>3. ASSUME NEW a \in Addr, NEW h \in Handle, CancelledConnectionEstablished(a, h)
      PROVE  Link'
  BY <1>3, PageMakesLink DEF CancelledConnectionEstablished, GoTo, LinkStates
<1> QED
  BY <1>1, <1>2, <1>3 DEF Paging, StaleConnectionComplete

\* What is owed to the program shows that there is a link.
LEMMA WiresShowLink ==
    ASSUME TypeInv, Wires
    PROVE  /\ sdp_query # NoHandle =>
                  acl_handle # NoHandle /\ current_state = "ServiceDiscovery"
           /\ \A c \in Cid : channels[c].link # NoHandle \/ channels[c].open =>
                  acl_handle # NoHandle /\ current_state \in ChannelStates
           /\ \A c \in can_send :
                  c \in Cid /\ acl_handle # NoHandle /\ current_state \in ChannelStates
<1>1. can_send \subseteq Cid
  BY DEF TypeInv, TypeOK
<1>2. \A c \in Cid : channels[c].link # NoHandle \/ channels[c].open =>
          acl_handle # NoHandle /\ current_state \in ChannelStates
  BY DEF Wires, ChannelsOnLink
<1> QED
  BY <1>1, <1>2 DEF Wires, QueryOnLink, OwedOnOpen

LEMMA MovesOnLink ==
    /\ \A s : GoTo(s) => current_state' = s
    /\ {"ServiceDiscovery", "OpeningControl", "SettingBootProtocol",
        "OpeningInterrupt", "HIDConnected"} \subseteq LinkStates \ {"Connected"}
    /\ ChannelStates \subseteq LinkStates \ {"Connected"}
  BY DEF GoTo, LinkStates, ChannelStates

\* Discovery
LEMMA DiscoveryLink == TypeInv /\ Link /\ Wires /\ Discovery => Link'
<1> SUFFICES ASSUME TypeInv, Link, Wires, Discovery PROVE Link'
  OBVIOUS
<1>1. CASE LinkSecured
  <2>1. /\ acl_handle # NoHandle /\ current_state # "Connected"
        /\ UNCHANGED <<linkVars, pageVars>>
    BY <1>1 DEF LinkSecured, Authenticating
  <2>2. GoTo("ServiceDiscovery") => current_state' \in LinkStates \ {"Connected"}
    BY MovesOnLink
  <2>3. CASE GoTo("ServiceDiscovery") /\ UNCHANGED inquiry_timer_armed
    BY <2>1, <2>2, <2>3, LinkMove
  <2>4. CASE DisconnectAfterError(GoTo("ServiceDiscovery"), hid_channels)
    BY <2>1, <2>2, <2>4, LinkDisconnect
  <2> QED
    BY <1>1, <2>3, <2>4 DEF LinkSecured, StartSdpDiscovery
<1>2. CASE SecurityFailed
  <2>1. /\ acl_handle # NoHandle /\ UNCHANGED <<linkVars, pageVars>>
        /\ DisconnectAfterError(Stay, hid_channels)
    BY <1>2 DEF SecurityFailed, Authenticating
  <2> QED
    BY <2>1, LinkDisconnect
<1>3. ASSUME NEW list, SdpAttribute(list)
      PROVE  Link'
  BY <1>3, LinkUntouched DEF SdpAttribute
<1>4. ASSUME NEW ok \in BOOLEAN, SdpComplete(ok)
      PROVE  Link'
  <2>1. /\ acl_handle # NoHandle /\ current_state # "Connected"
        /\ UNCHANGED <<linkVars, pageVars>>
    BY <1>4, WiresShowLink DEF SdpComplete
  <2>2. GoTo("OpeningControl") => current_state' \in LinkStates \ {"Connected"}
    BY MovesOnLink
  <2>3. CASE GoTo("OpeningControl") /\ UNCHANGED inquiry_timer_armed
    BY <2>1, <2>2, <2>3, LinkMove
  <2>4. CASE DisconnectAfterError(GoTo("OpeningControl"), hid_channels)
    BY <2>1, <2>2, <2>4, LinkDisconnect
  <2>5. CASE DisconnectAfterError(Stay, hid_channels)
    BY <2>1, <2>5, LinkDisconnect
  <2> QED
    BY <1>4, <2>3, <2>4, <2>5 DEF SdpComplete, OpenControlChannel
<1> QED
  BY <1>1, <1>2, <1>3, <1>4
  DEF Discovery, SdpControlAttribute, SdpInterruptAttribute

\* HidTraffic
LEMMA HidTrafficLink == TypeInv /\ Link /\ Wires /\ HidTraffic => Link'
<1> SUFFICES ASSUME TypeInv, Link, Wires, HidTraffic PROVE Link'
  OBVIOUS
<1>a. ASSUME NEW s \in {"SettingBootProtocol", "OpeningInterrupt", "HIDConnected"},
             GoTo(s), acl_handle # NoHandle, current_state \in ChannelStates,
             UNCHANGED <<linkVars, pageVars, inquiry_timer_armed>>
      PROVE  Link'
  BY <1>a, MovesOnLink, LinkMove
<1>b. ASSUME NEW s \in {"SettingBootProtocol", "OpeningInterrupt"}, NEW h,
             DisconnectAfterError(GoTo(s), h),
             acl_handle # NoHandle, current_state \in ChannelStates,
             UNCHANGED <<linkVars, pageVars>>
      PROVE  Link'
  <2>1. current_state # "Connected"
        /\ (GoTo(s) => current_state' \in LinkStates \ {"Connected"})
    BY <1>b, MovesOnLink
  <2> QED
    BY <1>b, <2>1, LinkDisconnect
<1>c. ASSUME NEW h, DisconnectAfterError(Stay, h), acl_handle # NoHandle,
             UNCHANGED <<linkVars, pageVars>>
      PROVE  Link'
  BY <1>c, LinkDisconnect
<1>1. ASSUME NEW c \in Cid, ChannelOpened(c)
      PROVE  Link'
  <2>1. /\ acl_handle # NoHandle /\ current_state \in ChannelStates
        /\ UNCHANGED <<linkVars, pageVars>>
    BY <1>1, WiresShowLink DEF ChannelOpened, Opening
  <2>2. CASE ControlChannelOpened(c)
    BY <1>a, <1>b, <2>1, <2>2 DEF ControlChannelOpened
  <2>3. CASE InterruptChannelOpened(c)
    BY <1>a, <2>1, <2>3 DEF InterruptChannelOpened
  <2>4. CASE UNCHANGED <<stateVars, inquiry_timer_armed>>
    BY <2>1, <2>4, LinkUntouched
  <2> QED
    BY <1>1, <1>c, <2>1, <2>2, <2>3, <2>4 DEF ChannelOpened
<1>2. ASSUME NEW c \in Cid, ChannelOpenFailed(c)
      PROVE  Link'
  <2>1. acl_handle # NoHandle
    BY <1>2, WiresShowLink DEF ChannelOpenFailed, Opening
  <2> QED
    BY <1>2, <1>c, <2>1 DEF ChannelOpenFailed
<1>3. ASSUME NEW c \in Cid,
             ChannelClosed(c) \/ SendLedReport(c) \/ CanSendIgnored(c)
      PROVE  Link'
  <2>1. UNCHANGED <<stateVars, linkVars, pageVars, inquiry_timer_armed>>
    BY <1>3 DEF ChannelClosed, SendLedReport, CanSendIgnored
  <2> QED
    BY <2>1, LinkUntouched
<1>4. ASSUME NEW c \in Cid, SendSetProtocol(c)
      PROVE  Link'
  <2>1. acl_handle # NoHandle /\ UNCHANGED <<linkVars, pageVars>>
    BY <1>4, WiresShowLink DEF SendSetProtocol, CanSend
  <2>2. CASE UNCHANGED <<stateVars, inquiry_timer_armed>>
    BY <2>1, <2>2, LinkUntouched
  <2> QED
    BY <1>4, <1>c, <2>1, <2>2 DEF SendSetProtocol
<1>5. ASSUME NEW ok \in BOOLEAN, Handshake(ok)
      PROVE  Link'
  <2>1. /\ acl_handle # NoHandle /\ current_state \in ChannelStates
        /\ UNCHANGED <<linkVars, pageVars>>
    BY <1>5 DEF Handshake, Link, LinkTracked, LinkStates, ChannelStates
  <2> QED
    BY <1>5, <1>a, <1>b, <1>c, <2>1 DEF Handshake, OpenInterruptChannel
<1>6. CASE HandshakeIgnored
  BY <1>6, LinkUntouched DEF HandshakeIgnored
<1>7. ASSUME NEW report, InterruptReport(report)
      PROVE  Link'
  BY <1>7, LinkUntouched DEF InterruptReport
<1> QED
  BY <1>1, <1>2, <1>3, <1>4, <1>5, <1>6, <1>7 DEF HidTraffic

\* A PIN is only asked for while there is a page or a link.
LEMMA PairingEventsLink == TypeInv /\ Link /\ PairingEvents => Link'
<1> SUFFICES ASSUME TypeInv, Link, PairingEvents PROVE Link'
  OBVIOUS
<1>1. ASSUME NEW a \in Addr, PinCodeRequest(a)
      PROVE  Link'
  <2>1. current_state \in LinkStates \cup {"Connecting"}
    <3>1. CASE a \in paging
      BY <3>1 DEF Link, PageAccounted
    <3>2. CASE LinkTo(a) # {}
      BY <3>2, HandleAssumption DEF LinkTo, Link, LinkTracked
    <3> QED
      BY <1>1, <3>1, <3>2 DEF PinCodeRequest, Pairing
  <2>2. PromptScope'
    BY <1>1, <2>1 DEF PinCodeRequest, PromptScope
  <2> QED
    BY <1>1, <2>2
    DEF PinCodeRequest, Link, LinkTracked, PageAccounted, NoRetryWhileBusy
<1> QED
  BY <1>1, LinkUntouched DEF PairingEvents, LinkKeyNotification, PairingPinTimeout

\* ControlRequests
LEMMA RequestsLink == TypeInv /\ Link /\ ControlRequests => Link'
<1> SUFFICES ASSUME TypeInv, Link, ControlRequests PROVE Link'
  OBVIOUS
<1>a. ASSUME StartInquiry, current_state = "Idle", UNCHANGED <<linkVars, pageVars>>
      PROVE  Link'
  <2>1. current_state' = "Inquiry" /\ ~pairing_pin_pending' /\ ~inquiry_timer_armed'
    BY <1>a DEF StartInquiry, GoTo
  <2> QED
    BY <1>a, <2>1, NoLink, NoPagePending
    DEF Link, LinkTracked, PageAccounted, NoRetryWhileBusy, PromptScope, LinkStates
<1>b. ASSUME EndConnection,
             UNCHANGED <<stateVars, linkVars, connecting_device_addr, paging,
                         inquiry_timer_armed>>
      PROVE  Link'
  <2>1. connection_cancel_requested' =>
            connection_cancel_requested \/ current_state = "Connecting"
    BY <1>b DEF EndConnection, CancelPendingConnection
  <2> QED
    BY <1>b, <2>1
    DEF Link, LinkTracked, PageAccounted, NoRetryWhileBusy, PromptScope
<1>1. CASE ExecuteScan
  BY <1>1, <1>a DEF ExecuteScan
<1>2. ASSUME NEW a \in Addr, ExecuteConnect(a)
      PROVE  Link'
  BY <1>2, BeginLink DEF ExecuteConnect
<1>3. CASE ExecuteDisconnect \/ ExecuteForget
  BY <1>3, <1>b DEF ExecuteDisconnect, ExecuteForget
<1>4. CASE ExecuteReconnect
  <2> DEFINE i == ConnectionTarget(devices)
             target == IF selected_device # NoAddr THEN selected_device
                       ELSE IF i # 0 THEN devices[i].address ELSE NoAddr
  <2>1. target \in Addr \cup {NoAddr}
    BY Lookups, DevicesAreTyped DEF TypeInv, TypeOK
  <2>2. /\ UNCHANGED linkVars
        /\ \/ UNCHANGED <<stateVars, pageVars, inquiry_timer_armed>>
           \/ current_state = "Idle" /\ StartInquiry /\ UNCHANGED pageVars
           \/ current_state = "Idle" /\ target # NoAddr /\ BeginConnection(target)
    BY <1>4 DEF ExecuteReconnect
  <2> HIDE DEF target
  <2> QED
    BY <1>a, <2>1, <2>2, BeginLink, LinkUntouched
<1> QED
  BY <1>1, <1>2, <1>3, <1>4 DEF ControlRequests

LEMMA StepLink == ~AllowStale /\ TypeInv /\ Link /\ Wires /\ [Next]_vars => Link'
<1> SUFFICES ASSUME ~AllowStale, TypeInv, Link, Wires, [Next]_vars PROVE Link'
  OBVIOUS
<1>1. CASE \/ Search \/ Paging \/ Discovery \/ HidTraffic \/ PairingEvents
           \/ ControlRequests
  BY <1>1, SearchLink, PagingLink, DiscoveryLink, HidTrafficLink,
     PairingEventsLink, RequestsLink
<1>2. CASE InquiryTimer
  <2>1. CASE /\ current_state = "Idle" /\ selected_device # NoAddr
             /\ BeginConnection(selected_device)
    BY <1>2, <2>1, BeginLink DEF InquiryTimer, TypeInv, TypeOK
  <2>2. CASE ~inquiry_timer_armed' /\ UNCHANGED <<stateVars, pageVars>>
    BY <1>2, <2>2
    DEF InquiryTimer, Link, LinkTracked, PageAccounted, NoRetryWhileBusy, PromptScope
  <2> QED
    BY <1>2, <2>1, <2>2 DEF InquiryTimer
<1>3. ASSUME NEW h \in Handle, DisconnectionComplete(h)
      PROVE  Link'
  <2>1. h = acl_handle /\ current_state # "Connecting"
    BY <1>3, HandleAssumption DEF DisconnectionComplete, Link, LinkTracked, LinkStates
  <2>2. \A g \in Handle : links'[g] = NoAddr
    BY <1>3, <2>1 DEF DisconnectionComplete, Link, LinkTracked, TypeInv, TypeOK
  <2> QED
    BY <1>3, <2>1, <2>2, NoPagePending, ToIdle DEF DisconnectionComplete
<1>4. CASE \/ \E byte \in LedReport : SetKeyboardLeds(byte)
           \/ ScheduleLedReportTask
           \/ UNCHANGED vars
  BY <1>4, LinkUntouched DEF SetKeyboardLeds, ScheduleLedReportTask, vars
<1>5. CASE PowerCycle
  BY <1>5, HandleAssumption
  DEF PowerCycle, Link, LinkTracked, PageAccounted, NoRetryWhileBusy,
      PromptScope, LinkStates
<1> QED
  BY <1>1, <1>2, <1>3, <1>4, <1>5 DEF Next

-----------------------------------------------------------------------------
(* The channels, the query and the events that are owed.                   *)

LEMMA WiresUntouched ==
    ASSUME Wires,
           UNCHANGED <<current_state, acl_handle, sdp_query, channels>>,
           can_send' \subseteq can_send, handshake_due' \in {handshake_due, NoCid},
           hid_channels'.control_open =>
               /\ hid_channels.control_open
               /\ hid_channels'.control_cid = hid_channels.control_cid
    PROVE  Wires'
  BY DEF Wires, ChannelsOnLink, QueryOnLink, OwedOnOpen, ControlIsOpen

\* Without a channel nothing is owed but the answer to a query.
LEMMA NoChannels ==
    ASSUME TypeInv, Wires, \A c \in Cid : channels[c].link = NoHandle
    PROVE  /\ \A c \in Cid : ~channels[c].open
           /\ can_send = {} /\ handshake_due = NoCid
           /\ ~hid_channels.control_open
<1>1. \A c \in Cid : ~channels[c].open
  BY DEF Wires, ChannelsOnLink
<1>2. can_send \subseteq Cid /\ handshake_due \in Cid \cup {NoCid}
  BY DEF TypeInv, TypeOK
<1> QED
  BY <1>1, <1>2 DEF Wires, OwedOnOpen, ControlIsOpen

LEMMA OutsideChannelStates ==
    ASSUME Wires, current_state \notin ChannelStates
    PROVE  \A c \in Cid : channels[c].link = NoHandle
  BY DEF Wires, ChannelsOnLink

\* A step outside the states with channels, or after the last of them
LEMMA WiresGone ==
    ASSUME TypeInv, Wires, \A c \in Cid : channels[c].link = NoHandle,
           UNCHANGED <<channels, can_send, handshake_due>>,
           ~hid_channels'.control_open,
           sdp_query' # NoHandle =>
               sdp_query' = acl_handle' /\ current_state' = "ServiceDiscovery"
    PROVE  Wires'
  BY NoChannels DEF Wires, ChannelsOnLink, QueryOnLink, OwedOnOpen, ControlIsOpen

\* The same where the record of the channels is kept
LEMMA WiresOff ==
    ASSUME TypeInv, Wires,
           current_state \notin ChannelStates \cup {"ServiceDiscovery"},
           UNCHANGED <<wireVars, sdp_query, hid_channels>>
    PROVE  Wires'
<1>1. \A c \in Cid : channels[c].link = NoHandle
  BY OutsideChannelStates
<1>2. ~hid_channels'.control_open
  BY <1>1, NoChannels
<1>3. sdp_query' = NoHandle
  BY DEF Wires, QueryOnLink
<1> QED
  BY <1>1, <1>2, <1>3, WiresGone

\* disconnect_acl_after_error, with a link: the record is the handler's.
LEMMA WiresDisconnect ==
    ASSUME acl_handle # NoHandle, NEW ACTION Move, NEW h,
           DisconnectAfterError(Move, h)
    PROVE  Move /\ hid_channels' = h
  BY DEF DisconnectAfterError

\* l2cap_create_channel makes a channel of the link.
LEMMA CreatedOnLink ==
    ASSUME TypeInv, Link, NEW c \in Cid, NEW psm, CreateChannel(c, psm)
    PROVE  /\ channels[c] = NoChannel /\ acl_handle # NoHandle
           /\ channels' = [channels EXCEPT ![c] =
                               [link |-> acl_handle, psm |-> psm, open |-> FALSE]]
<1>1. PICK h \in LinkTo(connected_device_addr) :
          channels' = [channels EXCEPT ![c] =
                           [link |-> h, psm |-> psm, open |-> FALSE]]
  BY DEF CreateChannel
<1>2. h = acl_handle /\ h # NoHandle
  BY HandleAssumption DEF LinkTo, Link, LinkTracked
<1> QED
  BY <1>1, <1>2 DEF CreateChannel

LEMMA WiresCreate ==
    ASSUME TypeInv, Link, Wires, NEW c \in Cid, NEW psm, CreateChannel(c, psm),
           current_state' \in ChannelStates, UNCHANGED <<acl_handle, can_send>>,
           handshake_due' \in {handshake_due, NoCid}, sdp_query' = NoHandle,
           hid_channels'.control_open =>
               /\ hid_channels.control_open
               /\ hid_channels'.control_cid = hid_channels.control_cid
    PROVE  Wires'
<1>1. /\ channels[c] = NoChannel /\ acl_handle # NoHandle
      /\ channels' = [channels EXCEPT ![c] =
                          [link |-> acl_handle, psm |-> psm, open |-> FALSE]]
  BY CreatedOnLink
<1>2. channels \in [Cid -> Channel] /\ can_send \subseteq Cid
      /\ handshake_due \in Cid \cup {NoCid}
  BY DEF TypeInv, TypeOK
<1>3. /\ channels'[c].link = acl_handle /\ ~channels'[c].open /\ ~channels[c].open
      /\ \A d \in Cid : d # c => channels'[d] = channels[d]
  BY <1>1, <1>2 DEF NoChannel
<1>4. \A d \in Cid : channels[d].open => channels'[d].open
  BY <1>3
<1>5. ChannelsOnLink'
  BY <1>1, <1>3 DEF Wires, ChannelsOnLink
<1>6. OwedOnOpen'
  BY <1>2, <1>4 DEF Wires, OwedOnOpen
<1>7. ControlIsOpen'
  BY <1>4 DEF Wires, ControlIsOpen
<1> QED
  BY <1>5, <1>6, <1>7 DEF Wires, QueryOnLink

\* The end of a channel, or of the attempt to open it
LEMMA WiresRemove ==
    ASSUME TypeInv, Wires, NEW c \in Cid,
           channels' = [channels EXCEPT ![c] = NoChannel],
           UNCHANGED <<current_state, acl_handle, sdp_query>>,
           can_send' \subseteq can_send, handshake_due' \in {handshake_due, NoCid},
           channels[c].open => c \notin can_send' /\ handshake_due' # c,
           hid_channels'.control_open =>
               /\ hid_channels.control_open
               /\ hid_channels'.control_cid = hid_channels.control_cid
               /\ channels[c].open => hid_channels.control_cid # c
    PROVE  Wires'
<1>1. channels \in [Cid -> Channel] /\ can_send \subseteq Cid
      /\ handshake_due \in Cid \cup {NoCid}
  BY DEF TypeInv, TypeOK
<1>2. /\ channels'[c].link = NoHandle /\ ~channels'[c].open
      /\ \A d \in Cid : d # c => channels'[d] = channels[d]
  BY <1>1 DEF NoChannel
<1>3. ChannelsOnLink'
  BY <1>2 DEF Wires, ChannelsOnLink
<1>4. OwedOnOpen'
  BY <1>1, <1>2 DEF Wires, OwedOnOpen
<1>5. ControlIsOpen'
  BY <1>2 DEF Wires, ControlIsOpen
<1> QED
  BY <1>3, <1>4, <1>5 DEF Wires, QueryOnLink

\* A channel that was being opened is open.
LEMMA WiresOpen ==
    ASSUME TypeInv, Wires, NEW c \in Cid, Opening(c),
           channels' = [channels EXCEPT ![c].open = TRUE],
           UNCHANGED <<acl_handle, sdp_query>>, current_state' \in ChannelStates,
           can_send' \subseteq can_send \cup {c, hid_channels.control_cid},
           hid_channels.control_cid \in can_send' =>
               \/ hid_channels.control_cid \in can_send \cup {c}
               \/ hid_channels.control_open,
           UNCHANGED handshake_due,
           hid_channels'.control_open =>
               \/ /\ hid_channels.control_open
                  /\ hid_channels'.control_cid = hid_channels.control_cid
               \/ hid_channels'.control_cid = c
    PROVE  Wires'
<1>1. channels \in [Cid -> Channel] /\ can_send \subseteq Cid
      /\ handshake_due \in Cid \cup {NoCid}
  BY DEF TypeInv, TypeOK
<1>2. /\ channels'[c].link = channels[c].link /\ channels'[c].open
      /\ \A d \in Cid : d # c => channels'[d] = channels[d]
  BY <1>1 DEF Channel
<1>3. channels[c].link # NoHandle /\ acl_handle # NoHandle
      /\ current_state \in ChannelStates
  BY WiresShowLink DEF Opening
<1>4. \A d \in Cid : channels[d].open => channels'[d].open
  BY <1>2
<1>5. ChannelsOnLink'
  BY <1>2, <1>3 DEF Wires, ChannelsOnLink
<1>6. OwedOnOpen'
  BY <1>1, <1>2, <1>4 DEF Wires, OwedOnOpen, ControlIsOpen
<1>7. ControlIsOpen'
  BY <1>2, <1>4 DEF Wires, ControlIsOpen
<1>8. sdp_query = NoHandle
  BY <1>3 DEF Wires, QueryOnLink, ChannelStates
<1> QED
  BY <1>5, <1>6, <1>7, <1>8 DEF Wires, QueryOnLink

LEMMA InitWires == Init => Wires
  BY DEF Init, BootsWith, Wires, ChannelsOnLink, QueryOnLink, OwedOnOpen,
     ControlIsOpen, NoChannel, InitialHidChannels

\* What an operation on the record does to the control channel
LEMMA ControlKept ==
    ASSUME NEW h \in HidChannel(Cid), NEW c \in Cid, NEW b \in BOOLEAN
    PROVE  /\ \A g \in {[h EXCEPT !.interrupt_cid = c],
                        [h EXCEPT !.boot_protocol_request_pending = b],
                        [h EXCEPT !.led_report_pending = b],
                        [h EXCEPT !.led_can_send_requested = b],
                        InterruptOpened(h, c), RequestLedSync(h)} :
                  g.control_open = h.control_open /\ g.control_cid = h.control_cid
           /\ [h EXCEPT !.control_cid = c].control_open = h.control_open
           /\ ControlOpened(h, c).control_cid = c
           /\ Closed(h, c).control_open =>
                  /\ h.control_open /\ Closed(h, c).control_cid = h.control_cid
                  /\ c # h.control_cid \/ c = NoCid
<1>1. \A g \in {[h EXCEPT !.interrupt_cid = c],
                [h EXCEPT !.boot_protocol_request_pending = b],
                [h EXCEPT !.led_report_pending = b],
                [h EXCEPT !.led_can_send_requested = b],
                InterruptOpened(h, c), RequestLedSync(h)} :
          g.control_open = h.control_open /\ g.control_cid = h.control_cid
  BY DEF HidChannel, InterruptOpened, RequestLedSync
<1>2. /\ [h EXCEPT !.control_cid = c].control_open = h.control_open
      /\ ControlOpened(h, c).control_cid = c
  BY DEF HidChannel, ControlOpened
<1>3. Closed(h, c).control_open =>
          /\ h.control_open /\ Closed(h, c).control_cid = h.control_cid
          /\ c # h.control_cid \/ c = NoCid
  BY DEF Closed, ClosesControl, ClosesInterrupt, HidChannel
<1> QED
  BY <1>1, <1>2, <1>3

LEMMA ScheduleControl ==
    ASSUME NEW h \in HidChannel(Cid), NEW state, ScheduleLedReport(h, state)
    PROVE  /\ hid_channels'.control_open = h.control_open
           /\ hid_channels'.control_cid = h.control_cid
           /\ \/ can_send' = can_send
              \/ h.control_open /\ can_send' = can_send \cup {h.control_cid}
<1>1. LET g == [h EXCEPT !.led_can_send_requested = TRUE] IN
      g.control_open = h.control_open /\ g.control_cid = h.control_cid
  BY DEF HidChannel
<1> QED
  BY <1>1 DEF ScheduleLedReport, LedReportDue

\* Discovery
LEMMA DiscoveryWires == TypeInv /\ Link /\ Wires /\ Discovery => Wires'
<1> SUFFICES ASSUME TypeInv, Link, Wires, Discovery PROVE Wires'
  OBVIOUS
<1>a. hid_channels \in HidChannel(Cid) /\ FALSE \in BOOLEAN
  BY ChannelsAreTyped DEF TypeInv
<1>1. CASE LinkSecured
  <2>1. /\ \A c \in Cid : channels[c].link = NoHandle
        /\ UNCHANGED <<wireVars, acl_handle>> /\ acl_handle # NoHandle
        /\ sdp_query = NoHandle
    BY <1>1, OutsideChannelStates
    DEF LinkSecured, Authenticating, ChannelStates, Wires, QueryOnLink
  <2>2. CASE /\ sdp_query' = acl_handle /\ GoTo("ServiceDiscovery")
             /\ UNCHANGED hid_channels
    BY <2>1, <2>2, NoChannels, MovesOnLink, WiresGone
  <2>3. CASE /\ DisconnectAfterError(GoTo("ServiceDiscovery"), hid_channels)
             /\ UNCHANGED sdp_query
    <3>1. hid_channels' = hid_channels
      BY <2>1, <2>3, WiresDisconnect
    <3> QED
      BY <2>1, <2>3, <3>1, NoChannels, WiresGone
  <2> QED
    BY <1>1, <2>2, <2>3 DEF LinkSecured, StartSdpDiscovery
<1>2. CASE SecurityFailed
  <2>1. acl_handle # NoHandle /\ DisconnectAfterError(Stay, hid_channels)
    BY <1>2 DEF SecurityFailed, Authenticating
  <2>2. Stay /\ hid_channels' = hid_channels
    BY <2>1, WiresDisconnect
  <2> QED
    BY <1>2, <2>2, WiresUntouched DEF SecurityFailed, Stay
<1>3. ASSUME NEW list, SdpAttribute(list)
      PROVE  Wires'
  BY <1>3, WiresUntouched DEF SdpAttribute
<1>4. ASSUME NEW ok \in BOOLEAN, SdpComplete(ok)
      PROVE  Wires'
  <2>1. /\ acl_handle # NoHandle /\ current_state = "ServiceDiscovery"
        /\ UNCHANGED <<acl_handle, can_send, handshake_due>> /\ sdp_query' = NoHandle
    BY <1>4, WiresShowLink DEF SdpComplete
  <2>2. \A c \in Cid : channels[c].link = NoHandle
    BY <2>1, OutsideChannelStates DEF ChannelStates
  <2>3. ASSUME NEW psm, NEW c \in Cid, CreateChannel(c, psm), GoTo("OpeningControl"),
               hid_channels' = [hid_channels EXCEPT !.control_cid = c]
        PROVE  Wires'
    <3>1. ~hid_channels'.control_open
      BY <1>a, <2>2, <2>3, NoChannels, ControlKept
    <3>2. current_state' \in ChannelStates
      BY <2>3 DEF GoTo, ChannelStates
    <3> QED
      BY <2>1, <2>3, <3>1, <3>2, WiresCreate
  <2>4. ASSUME NEW ACTION Move, DisconnectAfterError(Move, hid_channels),
               UNCHANGED channels
        PROVE  Wires'
    <3>1. hid_channels' = hid_channels
      BY <2>1, <2>4 DEF DisconnectAfterError
    <3> QED
      BY <2>1, <2>2, <2>4, <3>1, NoChannels, WiresGone
  <2>5. CASE DisconnectAfterError(Stay, hid_channels) /\ UNCHANGED channels
    BY <2>4, <2>5
  <2>6. ASSUME NEW psm, OpenControlChannel(psm)
        PROVE  Wires'
    BY <2>3, <2>4, <2>6 DEF OpenControlChannel
  <2> QED
    BY <1>4, <2>5, <2>6 DEF SdpComplete
<1> QED
  BY <1>1, <1>2, <1>3, <1>4
  DEF Discovery, SdpControlAttribute, SdpInterruptAttribute

\* L2CAP_EVENT_CHANNEL_OPENED
LEMMA OpenedWires ==
    ASSUME TypeInv, Link, Wires, NEW c \in Cid, ChannelOpened(c)
    PROVE  Wires'
<1>a. hid_channels \in HidChannel(Cid) /\ hid_channels \in Channels
  BY ChannelsAreTyped DEF TypeInv
<1>1. /\ acl_handle # NoHandle /\ current_state \in ChannelStates /\ Opening(c)
      /\ channels' = [channels EXCEPT ![c].open = TRUE]
      /\ UNCHANGED <<acl_handle, sdp_query, handshake_due>>
  BY WiresShowLink DEF ChannelOpened, Opening
<1>2. ASSUME UNCHANGED <<current_state, can_send>>, UNCHANGED hid_channels
      PROVE  Wires'
  BY <1>1, <1>2, WiresOpen
<1>3. CASE ControlChannelOpened(c)
  <2> DEFINE opened == ControlOpened(hid_channels, c)
  <2>1. opened.control_cid = c
    BY <1>a, ControlKept
  <2>2. /\ hid_channels' = opened
        /\ can_send' \in {can_send, can_send \cup {c}}
        /\ GoTo("SettingBootProtocol")
    BY <1>1, <1>3 DEF ControlChannelOpened, DisconnectAfterError
  <2>3. current_state' \in ChannelStates
    BY <2>2 DEF GoTo, ChannelStates
  <2> HIDE DEF opened
  <2> QED
    BY <1>1, <2>1, <2>2, <2>3, WiresOpen
<1>4. CASE InterruptChannelOpened(c)
  <2> DEFINE g == InterruptOpened(hid_channels, c)
             h == RequestLedSync(g)
  <2>1. h \in Channels /\ g \in HidChannel(Cid)
    <3>1. g \in Channels
      BY <1>a, NoCidIsNone, ChannelsWellFormed DEF Channels
    <3> QED
      BY <3>1, FlagsWellFormed, ChannelsAreTyped DEF Channels
  <2>2. h \in HidChannel(Cid)
    BY <2>1, ChannelsAreTyped
  <2>3. /\ h.control_open = hid_channels.control_open
        /\ h.control_cid = hid_channels.control_cid
    <3>1. g.control_open = hid_channels.control_open /\ g.control_cid = hid_channels.control_cid
      BY <1>a DEF InterruptOpened, HidChannel
    <3>2. h.control_open = g.control_open /\ h.control_cid = g.control_cid
      BY <2>1 DEF RequestLedSync, HidChannel
    <3> QED
      BY <3>1, <3>2
  <2>4. ScheduleLedReport(h, "HIDConnected") /\ GoTo("HIDConnected")
    BY <1>4 DEF InterruptChannelOpened
  <2> HIDE DEF h
  <2>5. /\ hid_channels'.control_open = hid_channels.control_open
        /\ hid_channels'.control_cid = hid_channels.control_cid
        /\ \/ can_send' = can_send
           \/ /\ hid_channels.control_open
              /\ can_send' = can_send \cup {hid_channels.control_cid}
    BY <2>2, <2>3, <2>4, ScheduleControl
  <2>6. current_state' \in ChannelStates
    BY <2>4 DEF GoTo, ChannelStates
  <2> QED
    BY <1>1, <2>5, <2>6, WiresOpen
<1>5. CASE DisconnectAfterError(Stay, hid_channels) /\ UNCHANGED can_send
  <2>1. hid_channels' = hid_channels /\ current_state' = current_state
    BY <1>1, <1>5 DEF DisconnectAfterError, Stay
  <2> QED
    BY <1>2, <1>5, <2>1
<1> QED
  BY <1>2, <1>3, <1>4, <1>5 DEF ChannelOpened

\* HidTraffic
LEMMA HidTrafficWires == TypeInv /\ Link /\ Wires /\ HidTraffic => Wires'
<1> SUFFICES ASSUME TypeInv, Link, Wires, HidTraffic PROVE Wires'
  OBVIOUS
<1>a. hid_channels \in HidChannel(Cid) /\ FALSE \in BOOLEAN
  BY ChannelsAreTyped DEF TypeInv
<1>1. ASSUME NEW c \in Cid, ChannelOpenFailed(c)
      PROVE  Wires'
  <2>1. acl_handle # NoHandle /\ ~channels[c].open
    BY <1>1, WiresShowLink DEF ChannelOpenFailed, Opening
  <2>2. Stay /\ hid_channels' = hid_channels
    BY <1>1, <2>1, WiresDisconnect DEF ChannelOpenFailed
  <2> QED
    BY <1>1, <2>1, <2>2, WiresRemove DEF ChannelOpenFailed, Stay
<1>2. ASSUME NEW c \in Cid, ChannelClosed(c)
      PROVE  Wires'
  <2>1. c # NoCid
    BY NoCidIsNone
  <2>2. hid_channels'.control_open =>
            /\ hid_channels.control_open
            /\ hid_channels'.control_cid = hid_channels.control_cid
            /\ hid_channels.control_cid # c
    BY <1>2, <1>a, <2>1, ControlKept DEF ChannelClosed
  <2>3. /\ channels' = [channels EXCEPT ![c] = NoChannel]
        /\ can_send' = can_send \ {c}
        /\ handshake_due' \in {handshake_due, NoCid} /\ handshake_due' # c
        /\ UNCHANGED <<current_state, acl_handle, sdp_query>>
    BY <1>2, <2>1 DEF ChannelClosed
  <2> QED
    BY <2>2, <2>3, WiresRemove
<1>3. ASSUME NEW c \in Cid, SendSetProtocol(c)
      PROVE  Wires'
  <2> DEFINE sent == [hid_channels EXCEPT !.boot_protocol_request_pending = FALSE]
  <2>1. /\ sent.control_open = hid_channels.control_open
        /\ sent.control_cid = hid_channels.control_cid
    BY <1>a, ControlKept
  <2>2. /\ acl_handle # NoHandle /\ channels[c].open
        /\ can_send' \subseteq can_send
        /\ UNCHANGED <<acl_handle, sdp_query, channels>>
    BY <1>3, WiresShowLink DEF SendSetProtocol, CanSend, Wires, OwedOnOpen
  <2>3. /\ hid_channels' = sent /\ UNCHANGED current_state
        /\ handshake_due' \in {handshake_due, c}
    BY <1>3, <2>2 DEF SendSetProtocol, DisconnectAfterError, Stay
  <2> HIDE DEF sent
  <2>4. ChannelsOnLink' /\ QueryOnLink' /\ ControlIsOpen'
    BY <2>1, <2>2, <2>3 DEF Wires, ChannelsOnLink, QueryOnLink, ControlIsOpen
  <2>5. OwedOnOpen'
    BY <2>2, <2>3 DEF Wires, OwedOnOpen
  <2> QED
    BY <2>4, <2>5 DEF Wires
<1>4. ASSUME NEW c \in Cid, SendLedReport(c)
      PROVE  Wires'
  <2> DEFINE asked == [hid_channels EXCEPT !.led_can_send_requested = FALSE]
  <2>1. /\ asked.control_open = hid_channels.control_open
        /\ asked.control_cid = hid_channels.control_cid
        /\ asked \in HidChannel(Cid)
    BY <1>a DEF HidChannel
  <2>2. hid_channels' \in {asked, [asked EXCEPT !.led_report_pending = FALSE]}
    BY <1>4 DEF SendLedReport
  <2> HIDE DEF asked
  <2>3. /\ hid_channels'.control_open = hid_channels.control_open
        /\ hid_channels'.control_cid = hid_channels.control_cid
    BY <2>1, <2>2 DEF HidChannel
  <2>4. /\ can_send' \subseteq can_send
        /\ UNCHANGED <<current_state, acl_handle, sdp_query, channels, handshake_due>>
    BY <1>4 DEF SendLedReport, CanSend
  <2> QED
    BY <2>3, <2>4, WiresUntouched
<1>5. ASSUME NEW c \in Cid, CanSendIgnored(c)
      PROVE  Wires'
  BY <1>5, WiresUntouched DEF CanSendIgnored, CanSend
<1>6. ASSUME NEW ok \in BOOLEAN, Handshake(ok)
      PROVE  Wires'
  <2>1. /\ acl_handle # NoHandle /\ handshake_due' = NoCid
        /\ UNCHANGED <<acl_handle, can_send, sdp_query>> /\ sdp_query = NoHandle
        /\ current_state = "SettingBootProtocol"
    BY <1>6 DEF Handshake, Link, LinkTracked, LinkStates, Wires, QueryOnLink
  <2>2. ASSUME NEW c \in Cid, NEW psm, CreateChannel(c, psm), GoTo("OpeningInterrupt"),
               hid_channels' = [hid_channels EXCEPT !.interrupt_cid = c]
        PROVE  Wires'
    <3>1. /\ hid_channels'.control_open = hid_channels.control_open
          /\ hid_channels'.control_cid = hid_channels.control_cid
      BY <1>a, <2>2, ControlKept
    <3>2. current_state' \in ChannelStates
      BY <2>2 DEF GoTo, ChannelStates
    <3> QED
      BY <2>1, <2>2, <3>1, <3>2, WiresCreate
  <2>3. ASSUME DisconnectAfterError(GoTo("OpeningInterrupt"), hid_channels),
               UNCHANGED channels
        PROVE  Wires'
    <3>1. /\ hid_channels' = hid_channels /\ current_state' \in ChannelStates
          /\ current_state \in ChannelStates
      BY <2>1, <2>3 DEF DisconnectAfterError, GoTo, ChannelStates
    <3> QED
      BY <2>1, <2>3, <3>1
      DEF Wires, ChannelsOnLink, QueryOnLink, OwedOnOpen, ControlIsOpen
  <2>4. ASSUME DisconnectAfterError(Stay, hid_channels), UNCHANGED channels
        PROVE  Wires'
    BY <2>1, <2>4, WiresUntouched DEF DisconnectAfterError, Stay
  <2> QED
    BY <1>6, <2>2, <2>3, <2>4 DEF Handshake, OpenInterruptChannel
<1>7. CASE HandshakeIgnored
  BY <1>7, WiresUntouched DEF HandshakeIgnored
<1>8. ASSUME NEW report, InterruptReport(report)
      PROVE  Wires'
  BY <1>8, WiresUntouched DEF InterruptReport
<1> QED
  BY <1>1, <1>2, <1>3, <1>4, <1>5, <1>6, <1>7, <1>8, OpenedWires DEF HidTraffic

\* The other steps: before there is a channel, or beside the channels
LEMMA StepWires == ~AllowStale /\ TypeInv /\ Link /\ Wires /\ [Next]_vars => Wires'
<1> SUFFICES ASSUME ~AllowStale, TypeInv, Link, Wires, [Next]_vars PROVE Wires'
  OBVIOUS
<1>a. hid_channels \in HidChannel(Cid)
  BY ChannelsAreTyped DEF TypeInv
<1>b. {"Initializing", "Idle", "Inquiry", "Connecting"}
          \cap (ChannelStates \cup {"ServiceDiscovery"}) = {}
  BY DEF ChannelStates
<1>1. CASE Discovery \/ HidTraffic
  BY <1>1, DiscoveryWires, HidTrafficWires
<1>2. CASE Search
  BY <1>2, <1>b, WiresOff, WiresUntouched
  DEF Search, BtstackWorking, InquiryComplete, StaleInquiryComplete, InquiryResult
<1>3. CASE Paging
  <2>1. ASSUME NEW a \in Addr, NEW h \in Handle, ConnectionEstablished(a, h)
        PROVE  Wires'
    <3>1. \A c \in Cid : channels[c].link = NoHandle
      BY <2>1, <1>b, OutsideChannelStates DEF ConnectionEstablished
    <3>2. ~hid_channels'.control_open
      BY <2>1, <1>a, ResetForgetsConnection DEF ConnectionEstablished
    <3>3. UNCHANGED <<channels, can_send, handshake_due, sdp_query>>
          /\ sdp_query = NoHandle
      BY <2>1 DEF ConnectionEstablished, Wires, QueryOnLink
    <3> QED
      BY <3>1, <3>2, <3>3, WiresGone
  <2>2. ASSUME NEW a \in Addr, NEW h \in Handle, CancelledConnectionEstablished(a, h)
        PROVE  Wires'
    BY <2>2, <1>b, WiresOff DEF CancelledConnectionEstablished
  <2>3. ASSUME NEW a \in Addr, ConnectionFailed(a)
        PROVE  Wires'
    BY <2>3, <1>b, WiresOff DEF ConnectionFailed
  <2> QED
    BY <1>3, <2>1, <2>2, <2>3 DEF Paging, StaleConnectionComplete
<1>4. CASE PairingEvents
  BY <1>4, WiresUntouched
  DEF PairingEvents, PinCodeRequest, LinkKeyNotification, PairingPinTimeout
<1>5. CASE ControlRequests
  <2>1. CASE ExecuteScan \/ \E a \in Addr : ExecuteConnect(a)
    BY <2>1, <1>b, WiresOff DEF ExecuteScan, ExecuteConnect
  <2>2. CASE ExecuteDisconnect \/ ExecuteForget
    BY <2>2, WiresUntouched DEF ExecuteDisconnect, ExecuteForget
  <2>3. CASE ExecuteReconnect
    <3>1. UNCHANGED <<wireVars, sdp_query, hid_channels, acl_handle>>
      BY <2>3 DEF ExecuteReconnect
    <3>2. UNCHANGED current_state \/ current_state = "Idle"
      BY <2>3 DEF ExecuteReconnect
    <3> QED
      BY <1>b, <3>1, <3>2, WiresOff, WiresUntouched
  <2> QED
    BY <1>5, <2>1, <2>2, <2>3 DEF ControlRequests
<1>6. CASE InquiryTimer
  <2>1. UNCHANGED <<wireVars, sdp_query, hid_channels, acl_handle>>
    BY <1>6 DEF InquiryTimer
  <2>2. UNCHANGED current_state \/ current_state = "Idle"
    BY <1>6 DEF InquiryTimer
  <2> QED
    BY <1>b, <2>1, <2>2, WiresOff, WiresUntouched
<1>7. ASSUME NEW h \in Handle, DisconnectionComplete(h)
      PROVE  Wires'
  <2>1. h = acl_handle
    BY <1>7 DEF DisconnectionComplete, Link, LinkTracked
  <2>2. (\A c \in Cid : channels[c].link = NoHandle) /\ sdp_query = NoHandle
    BY <1>7, <2>1 DEF DisconnectionComplete, Wires, ChannelsOnLink, QueryOnLink
  <2>3. ~hid_channels'.control_open
    BY <1>7, <1>a, ResetForgetsConnection DEF DisconnectionComplete
  <2> QED
    BY <1>7, <2>2, <2>3, WiresGone DEF DisconnectionComplete
<1>8. ASSUME NEW byte \in LedReport, SetKeyboardLeds(byte)
      PROVE  Wires'
  <2>1. /\ hid_channels'.control_open = hid_channels.control_open
        /\ hid_channels'.control_cid = hid_channels.control_cid
    BY <1>8, <1>a DEF SetKeyboardLeds, SetLeds, HidChannel
  <2> QED
    BY <1>8, <2>1, WiresUntouched DEF SetKeyboardLeds
<1>9. CASE ScheduleLedReportTask
  <2>1. /\ hid_channels'.control_open = hid_channels.control_open
        /\ hid_channels'.control_cid = hid_channels.control_cid
        /\ \/ can_send' = can_send
           \/ /\ hid_channels.control_open
              /\ can_send' = can_send \cup {hid_channels.control_cid}
    BY <1>9, <1>a, ScheduleControl DEF ScheduleLedReportTask
  <2>2. UNCHANGED <<current_state, acl_handle, sdp_query, channels, handshake_due>>
    BY <1>9 DEF ScheduleLedReportTask
  <2> QED
    BY <2>1, <2>2
    DEF Wires, ChannelsOnLink, QueryOnLink, OwedOnOpen, ControlIsOpen
<1>10. CASE PowerCycle
  BY <1>10
  DEF PowerCycle, Wires, ChannelsOnLink, QueryOnLink, OwedOnOpen,
      ControlIsOpen, NoChannel, InitialHidChannels
<1>11. CASE UNCHANGED vars
  BY <1>11, WiresUntouched DEF vars
<1> QED
  BY <1>1, <1>2, <1>3, <1>4, <1>5, <1>6, <1>7, <1>8, <1>9, <1>10, <1>11 DEF Next

LEMMA LinkInvariant ==
    ASSUME ~AllowStale
    PROVE  Spec => [](TypeInv /\ Link /\ Wires)
<1>1. Init => TypeInv /\ Link /\ Wires
  BY InitTyped, InitLink, InitWires
<1>2. TypeInv /\ Link /\ Wires /\ [Next]_vars => (TypeInv /\ Link /\ Wires)'
  BY StepTyped, StepLink, StepWires
<1> QED
  BY <1>1, <1>2, PTL DEF Spec

-----------------------------------------------------------------------------
\* The program's handle is the link there is: between Connected and
\* HIDConnected it names the only link that is up, and there is none elsewhere.
THEOREM LinkAlwaysTracked ==
    ASSUME ~AllowStale
    PROVE  Spec => []LinkTracked
<1>1. Link => LinkTracked
  BY DEF Link
<1> QED
  BY <1>1, LinkInvariant, PTL

\* One page at a time, exactly while the program is Connecting, and a
\* cancellation is pending only while there is a page to cancel.
THEOREM PagesAlwaysAccounted ==
    ASSUME ~AllowStale
    PROVE  Spec => []PageAccounted
<1>1. Link => PageAccounted
  BY DEF Link
<1> QED
  BY <1>1, LinkInvariant, PTL

\* The retry timer only ever runs in Idle, where its handler can use it.
THEOREM RetryOnlyWhenIdle ==
    ASSUME ~AllowStale
    PROVE  Spec => []NoRetryWhileBusy
<1>1. Link => NoRetryWhileBusy
  BY DEF Link
<1> QED
  BY <1>1, LinkInvariant, PTL

\* The PIN prompt never outlives the page or the link it belongs to.
THEOREM PromptAlwaysScoped ==
    ASSUME ~AllowStale
    PROVE  Spec => []PromptScope
<1>1. Link => PromptScope
  BY DEF Link
<1> QED
  BY <1>1, LinkInvariant, PTL

\* What becomes of a cancellation in one step
CancelStep ==
    connection_cancel_requested /\ ~PowerCycle =>
        \/ connection_cancel_requested'
        \/ current_state' = "Idle"
        \/ current_state' = "Connected" /\ acl_handle' \in closing'

LEMMA StepCancels == ~AllowStale /\ TypeInv /\ Link /\ [Next]_vars => CancelStep
<1> SUFFICES ASSUME ~AllowStale, TypeInv, Link, [Next]_vars,
                    connection_cancel_requested, ~PowerCycle
             PROVE  \/ connection_cancel_requested'
                    \/ current_state' = "Idle"
                    \/ current_state' = "Connected" /\ acl_handle' \in closing'
  BY DEF CancelStep
<1>a. current_state = "Connecting"
  BY DEF Link, PageAccounted
<1>1. CASE Search
  BY <1>1, <1>a
  DEF Search, BtstackWorking, InquiryComplete, StaleInquiryComplete, InquiryResult
<1>2. CASE Paging
  BY <1>2, <1>a
  DEF Paging, ConnectionFailed, ConnectionEstablished, GoTo, GapDisconnect,
      CancelledConnectionEstablished, StaleConnectionComplete
<1>3. CASE Discovery
  BY <1>3
  DEF Discovery, LinkSecured, SecurityFailed, SdpControlAttribute,
      SdpInterruptAttribute, SdpAttribute, SdpComplete
<1>4. CASE HidTraffic
  BY <1>4
  DEF HidTraffic, ChannelOpened, ChannelOpenFailed, ChannelClosed,
      SendSetProtocol, SendLedReport, CanSendIgnored, Handshake,
      HandshakeIgnored, InterruptReport
<1>5. CASE PairingEvents
  BY <1>5
  DEF PairingEvents, PinCodeRequest, LinkKeyNotification, PairingPinTimeout
<1>6. CASE ControlRequests
  BY <1>6, <1>a
  DEF ControlRequests, ExecuteScan, ExecuteConnect, ExecuteDisconnect,
      ExecuteReconnect, ExecuteForget, EndConnection, CancelPendingConnection
<1> QED
  BY <1>1, <1>2, <1>3, <1>4, <1>5, <1>6, <1>a
  DEF Next, InquiryTimer, DisconnectionComplete, SetKeyboardLeds,
      ScheduleLedReportTask, vars

\* A page that DISCONNECT or FORGET cancelled never becomes a connection that
\* is used: it ends in Idle, or on a link that is being closed.
THEOREM CancelAlwaysHonoured ==
    ASSUME ~AllowStale
    PROVE  Spec => CancelHonoured
<1>1. TypeInv /\ Link /\ [Next]_vars => [CancelStep]_vars
  BY StepCancels
<1> QED
  BY <1>1, LinkInvariant, PTL DEF Spec, CancelHonoured, CancelStep

-----------------------------------------------------------------------------
(* The device that is being connected is in the list.                      *)

OnLinkStates == LinkStates \ {"Connected"}

DevicesKnown ==
    /\ current_state \in OnLinkStates => Known(devices, connected_device_addr)
    /\ current_state = "Connecting" => Known(devices, connecting_device_addr)

\* A list that holds the addresses another one holds, where it holds them
Holds(new, list) ==
    /\ DOMAIN list \subseteq DOMAIN new
    /\ \A i \in DOMAIN list : new[i].address = list[i].address

LEMMA KnownUntouched ==
    ASSUME DevicesKnown, Holds(devices', devices),
           UNCHANGED <<connected_device_addr, connecting_device_addr>>,
           current_state' \in OnLinkStates => current_state \in OnLinkStates,
           current_state' = "Connecting" => current_state = "Connecting"
    PROVE  DevicesKnown'
  BY DEF DevicesKnown, Holds, Known

\* Outside the connection nothing is asked of the list.
LEMMA KnownOff ==
    ASSUME current_state' \in {"Initializing", "Idle", "Inquiry", "Connected"}
    PROVE  DevicesKnown'
  BY DEF DevicesKnown, OnLinkStates, LinkStates

LEMMA ListsHold ==
    ASSUME TypeInv
    PROVE  /\ Holds(devices, devices)
           /\ \A new : Extends(new, devices) => Holds(new, devices)
           /\ \A a, control, interrupt :
                  /\ Holds(SetConnected(devices, a), devices)
                  /\ Holds(SetControlPsm(devices, a, control), devices)
                  /\ Holds(SetInterruptPsm(devices, a, interrupt), devices)
                  /\ Holds(SetPsms(devices, a, control, interrupt), devices)
<1>1. \A new : SameBonds(new, devices) \/ Extends(new, devices) => Holds(new, devices)
  BY DEF Holds, Extends, SameBonds
<1>2. Holds(devices, devices)
  BY DEF Holds
<1>3. ASSUME NEW a, NEW control, NEW interrupt
      PROVE  /\ Holds(SetConnected(devices, a), devices)
             /\ Holds(SetControlPsm(devices, a, control), devices)
             /\ Holds(SetInterruptPsm(devices, a, interrupt), devices)
             /\ Holds(SetPsms(devices, a, control, interrupt), devices)
  <2>1. devices \in Seq(Device(Addr, Psm))
    BY DevicesAreTyped
  <2>2. /\ SameBonds(SetConnected(devices, a), devices)
        /\ SameBonds(SetControlPsm(devices, a, control), devices)
        /\ SameBonds(SetInterruptPsm(devices, a, interrupt), devices)
        /\ SameBonds(SetPsms(devices, a, control, interrupt), devices)
    BY <2>1, OtherFieldsKept
  <2> QED
    BY <1>1, <2>2
<1> QED
  BY <1>1, <1>2, <1>3

\* begin_connection puts the keyboard it connects into the list.
LEMMA RestoredIsKnown ==
    ASSUME TypeInv, NEW a \in Addr, a = selected_device'
    PROVE  Known(RestoreSaved(a), a)
<1>1. CASE Known(devices, a)
  BY <1>1 DEF RestoreSaved
<1>2. CASE ~Known(devices, a)
  <2> DEFINE room == IF Len(devices) = MaxDevices THEN <<>> ELSE devices
             list == Upsert(room, MaxDevices, a, TRUE)
             b == a \in link_keys
  <2>1. /\ devices \in Seq(Device(Addr, Psm)) /\ Len(devices) <= MaxDevices
        /\ MaxDevices \in Nat \ {0} /\ 0 \in Psm /\ b \in BOOLEAN /\ TRUE \in BOOLEAN
    BY MaxDevicesAssumption, PsmValues, DevicesAreTyped
  <2>2. room \in Seq(Device(Addr, Psm)) /\ Len(room) < MaxDevices
    <3>1. Len(devices) \in Nat
      BY <2>1
    <3>2. CASE Len(devices) = MaxDevices
      BY <2>1, <3>2
    <3>3. CASE Len(devices) # MaxDevices
      BY <2>1, <3>1, <3>3
    <3> QED
      BY <3>2, <3>3
  <2>3. RestoreSaved(a) = SetBonded(list, a, b)
    BY <1>2 DEF RestoreSaved
  <2> HIDE DEF room
  <2>4. room \in DeviceList(Device(Addr, Psm), MaxDevices)
    BY <2>1, <2>2 DEF DeviceList
  <2>5. list \in Seq(Device(Addr, Psm))
    BY <2>1, <2>4, UpsertTyped DEF DeviceList
  <2>6. Known(list, a)
    BY <2>1, <2>2, UpsertEntries
  <2> HIDE DEF list, b
  <2>7. Known(SetBonded(list, a, b), a)
    <3>1. /\ DOMAIN SetBonded(list, a, b) = DOMAIN list
          /\ \A i \in DOMAIN list : SetBonded(list, a, b)[i].address = list[i].address
      BY <2>1, <2>5, BondedEntries
    <3> QED
      BY <2>6, <3>1 DEF Known
  <2> QED
    BY <2>3, <2>7
<1> QED
  BY <1>1, <1>2

LEMMA KnownBegin ==
    ASSUME TypeInv, NEW a \in Addr, BeginConnection(a), a = selected_device'
    PROVE  DevicesKnown'
<1>1. Known(devices', a)
  BY RestoredIsKnown DEF BeginConnection
<1>2. \/ current_state' = "Idle"
      \/ current_state' = "Connecting" /\ connecting_device_addr' = a
  BY DEF BeginConnection, GoTo
<1> QED
  BY <1>1, <1>2, KnownOff DEF DevicesKnown, OnLinkStates, LinkStates

\* What the events of the link do to the state machine
LEMMA LinkEventsMove ==
    ASSUME TypeInv, Link, Wires, Discovery \/ HidTraffic
    PROVE  /\ \/ UNCHANGED current_state
              \/ current_state \in OnLinkStates /\ current_state' \in OnLinkStates
           /\ UNCHANGED <<connected_device_addr, connecting_device_addr>>
<1>a. /\ \A s \in {"ServiceDiscovery", "OpeningControl", "SettingBootProtocol",
                   "OpeningInterrupt", "HIDConnected"} :
             GoTo(s) => current_state' \in OnLinkStates
      /\ ChannelStates \subseteq OnLinkStates
      /\ {"Authenticating", "ServiceDiscovery"} \subseteq OnLinkStates
  BY MovesOnLink DEF OnLinkStates, LinkStates
<1>1. CASE Discovery
  <2>1. UNCHANGED <<connected_device_addr, connecting_device_addr>>
    BY <1>1
    DEF Discovery, LinkSecured, SecurityFailed, SdpControlAttribute,
        SdpInterruptAttribute, SdpAttribute, SdpComplete
  <2>2. \/ UNCHANGED current_state
        \/ current_state \in OnLinkStates /\ current_state' \in OnLinkStates
    BY <1>1, <1>a, WiresShowLink
    DEF Discovery, LinkSecured, StartSdpDiscovery, SecurityFailed, Authenticating,
        SdpControlAttribute, SdpInterruptAttribute, SdpAttribute, SdpComplete,
        OpenControlChannel, DisconnectAfterError, Stay
  <2> QED
    BY <2>1, <2>2
<1>2. CASE HidTraffic
  <2>1. UNCHANGED <<connected_device_addr, connecting_device_addr>>
    BY <1>2
    DEF HidTraffic, ChannelOpened, ChannelOpenFailed, ChannelClosed,
        SendSetProtocol, SendLedReport, CanSendIgnored, Handshake,
        HandshakeIgnored, InterruptReport
  <2>2. ASSUME NEW c \in Cid, ChannelOpened(c) \/ ChannelOpenFailed(c)
        PROVE  \/ UNCHANGED current_state
               \/ current_state \in OnLinkStates /\ current_state' \in OnLinkStates
    <3>1. acl_handle # NoHandle /\ current_state \in ChannelStates
      BY <2>2, WiresShowLink DEF ChannelOpened, ChannelOpenFailed, Opening
    <3> QED
      BY <2>2, <3>1, <1>a
      DEF ChannelOpened, ControlChannelOpened, InterruptChannelOpened,
          ChannelOpenFailed, DisconnectAfterError, Stay
  <2>3. ASSUME NEW c \in Cid, SendSetProtocol(c)
        PROVE  UNCHANGED current_state
    <3>1. acl_handle # NoHandle
      BY <2>3, WiresShowLink DEF SendSetProtocol, CanSend
    <3> QED
      BY <2>3, <3>1 DEF SendSetProtocol, DisconnectAfterError, Stay
  <2>4. ASSUME NEW c \in Cid,
               ChannelClosed(c) \/ SendLedReport(c) \/ CanSendIgnored(c)
        PROVE  UNCHANGED current_state
    BY <2>4 DEF ChannelClosed, SendLedReport, CanSendIgnored
  <2>5. ASSUME NEW ok \in BOOLEAN, Handshake(ok)
        PROVE  \/ UNCHANGED current_state
               \/ current_state \in OnLinkStates /\ current_state' \in OnLinkStates
    <3>1. acl_handle # NoHandle /\ current_state \in ChannelStates
      BY <2>5 DEF Handshake, Link, LinkTracked, LinkStates, ChannelStates
    <3> QED
      BY <2>5, <3>1, <1>a DEF Handshake, OpenInterruptChannel, DisconnectAfterError, Stay
  <2>6. HandshakeIgnored \/ (\E report : InterruptReport(report))
            => UNCHANGED current_state
    BY DEF HandshakeIgnored, InterruptReport
  <2> QED
    BY <1>2, <2>1, <2>2, <2>3, <2>4, <2>5, <2>6 DEF HidTraffic
<1> QED
  BY <1>1, <1>2

LEMMA LinkEventsList ==
    ASSUME TypeInv, Discovery \/ HidTraffic
    PROVE  Holds(devices', devices)
<1>1. CASE HidTraffic
  <2>1. UNCHANGED devices
    BY <1>1
    DEF HidTraffic, ChannelOpened, ChannelOpenFailed, ChannelClosed,
        SendSetProtocol, SendLedReport, CanSendIgnored, Handshake,
        HandshakeIgnored, InterruptReport
  <2> QED
    BY <2>1, ListsHold
<1>2. CASE Discovery
  <2>1. \/ devices' = devices
        \/ \E control, interrupt :
               devices' \in {SetPsms(devices, connected_device_addr, control, interrupt),
                             SetControlPsm(devices, connected_device_addr, control),
                             SetInterruptPsm(devices, connected_device_addr, interrupt)}
    BY <1>2
    DEF Discovery, LinkSecured, StartSdpDiscovery, SecurityFailed,
        SdpControlAttribute, SdpInterruptAttribute, SdpAttribute, SdpComplete
  <2>2. ASSUME NEW control, NEW interrupt,
               devices' \in {SetPsms(devices, connected_device_addr, control, interrupt),
                             SetControlPsm(devices, connected_device_addr, control),
                             SetInterruptPsm(devices, connected_device_addr, interrupt)}
        PROVE  Holds(devices', devices)
    BY <2>2, ListsHold
  <2> QED
    BY <2>1, <2>2, ListsHold
<1> QED
  BY <1>1, <1>2

\* The steps beside the connection: what they do to the list extends it.
LEMMA BesideExtends ==
    ASSUME TypeInv,
           \/ \E a \in Addr, keyboard \in InquiryClass : InquiryResult(a, keyboard)
           \/ PairingEvents
           \/ ExecuteForget
    PROVE  Extends(devices', devices)
<1>a. /\ devices \in Seq(Device(Addr, Psm)) /\ devices \in Devices
      /\ MaxDevices \in Nat /\ TRUE \in BOOLEAN /\ FALSE \in BOOLEAN
  BY MaxDevicesAssumption, DevicesAreTyped
<1>b. Extends(devices, devices)
  BY DEF Extends
<1>1. ASSUME NEW a \in Addr, NEW keyboard \in InquiryClass, InquiryResult(a, keyboard)
      PROVE  Extends(devices', devices)
  <2> DEFINE list == Upsert(devices, MaxDevices, a, keyboard)
             b == a \in link_keys
  <2>1. keyboard \in BOOLEAN /\ b \in BOOLEAN
    BY ChoiceAssumption
  <2>2. list \in Seq(Device(Addr, Psm)) /\ Extends(list, devices)
    <3>1. list \in Devices
      BY <1>a, <2>1, ListOperations
    <3> QED
      BY <1>a, <2>1, <3>1, OperationsExtend DEF Devices, DeviceList
  <2>3. devices' \in {list, SetBonded(list, a, b)}
    BY <1>1 DEF InquiryResult
  <2> HIDE DEF list, b
  <2>4. Extends(SetBonded(list, a, b), list)
    BY <1>a, <2>1, <2>2, OperationsExtend
  <2> QED
    BY <2>2, <2>3, <2>4 DEF Extends
<1>2. ASSUME NEW a \in Addr, PinCodeRequest(a)
      PROVE  Extends(devices', devices)
  <2>1. devices' \in {devices, SetBonded(devices, a, FALSE)}
    BY <1>2 DEF PinCodeRequest
  <2> QED
    BY <1>a, <1>b, <2>1, OperationsExtend
<1>3. ASSUME NEW a \in Addr, LinkKeyNotification(a)
      PROVE  Extends(devices', devices)
  <2>1. PICK verified \in StoreResults : devices' = SetBonded(devices, a, verified)
    BY <1>3 DEF LinkKeyNotification
  <2>2. verified \in BOOLEAN
    BY ChoiceAssumption
  <2> QED
    BY <1>a, <2>1, <2>2, OperationsExtend
<1>4. CASE PairingPinTimeout
  BY <1>b, <1>4 DEF PairingPinTimeout
<1>5. CASE ExecuteForget
  <2>1. devices' = ClearBonded(devices)
    BY <1>5 DEF ExecuteForget
  <2>2. Extends(ClearBonded(devices), devices)
    <3>1. \A i \in DOMAIN devices : devices[i] \in Device(Addr, Psm)
      BY <1>a
    <3> QED
      BY <3>1 DEF Extends, ClearBonded, Device
  <2> QED
    BY <2>1, <2>2
<1> QED
  BY <1>1, <1>2, <1>3, <1>4, <1>5 DEF PairingEvents

LEMMA InitKnown == Init => DevicesKnown
  BY DEF Init, BootsWith, DevicesKnown, OnLinkStates, LinkStates

LEMMA StepKnown ==
    ~AllowStale /\ TypeInv /\ Link /\ Wires /\ DevicesKnown /\ [Next]_vars
        => DevicesKnown'
<1> SUFFICES ASSUME ~AllowStale, TypeInv, Link, Wires, DevicesKnown, [Next]_vars
             PROVE  DevicesKnown'
  OBVIOUS
<1>1. CASE Discovery \/ HidTraffic
  <2>1. current_state' \in OnLinkStates => current_state \in OnLinkStates
    BY <1>1, LinkEventsMove
  <2>2. current_state' = "Connecting" => current_state = "Connecting"
    BY <1>1, LinkEventsMove DEF OnLinkStates, LinkStates
  <2> QED
    BY <1>1, <2>1, <2>2, LinkEventsMove, LinkEventsList, KnownUntouched
<1>2. CASE Search
  <2>1. CASE BtstackWorking
    <3>1. CASE auto_connect_enabled /\ selected_device # NoAddr
      <4>1. BeginConnection(selected_device) /\ selected_device \in Addr
            /\ selected_device' = selected_device
        BY <2>1, <3>1 DEF BtstackWorking, TypeInv, TypeOK
      <4> QED
        BY <4>1, KnownBegin
    <3>2. CASE ~(auto_connect_enabled /\ selected_device # NoAddr)
      BY <2>1, <3>2, KnownOff DEF BtstackWorking, GoTo
    <3> QED
      BY <3>1, <3>2
  <2>2. CASE InquiryComplete
    <3>1. CASE InquiryTarget # NoAddr
      <4>1. /\ BeginConnection(InquiryTarget)
            /\ selected_device' = InquiryTarget /\ InquiryTarget \in Addr
        BY <2>2, <3>1, InquiryTargetTyped, InquiryTargetSelected
        DEF InquiryComplete, SelectKeyboard
      <4> HIDE DEF InquiryTarget
      <4> QED
        BY <4>1, KnownBegin
    <3>2. CASE InquiryTarget = NoAddr
      BY <2>2, <3>2, KnownOff DEF InquiryComplete, GoTo
    <3> QED
      BY <3>1, <3>2
  <2>3. CASE StaleInquiryComplete
    BY <2>3, ListsHold, KnownUntouched DEF StaleInquiryComplete
  <2>4. ASSUME NEW a \in Addr, NEW keyboard \in InquiryClass, InquiryResult(a, keyboard)
        PROVE  DevicesKnown'
    BY <2>4, BesideExtends, ListsHold, KnownUntouched DEF InquiryResult
  <2> QED
    BY <1>2, <2>1, <2>2, <2>3, <2>4 DEF Search
<1>3. CASE Paging
  <2>1. ASSUME NEW a \in Addr, NEW h \in Handle, ConnectionEstablished(a, h)
        PROVE  DevicesKnown'
    <3>1. Known(devices, a)
      BY <2>1 DEF ConnectionEstablished, Link, PageAccounted, DevicesKnown
    <3>2. Holds(devices', devices)
      BY <2>1, ListsHold DEF ConnectionEstablished
    <3>3. Known(devices', a)
      BY <3>1, <3>2 DEF Holds, Known
    <3> QED
      BY <2>1, <3>3 DEF ConnectionEstablished, DevicesKnown
  <2>2. ASSUME NEW a \in Addr, NEW h \in Handle, CancelledConnectionEstablished(a, h)
        PROVE  DevicesKnown'
    BY <2>2, KnownOff DEF CancelledConnectionEstablished, GoTo
  <2>3. ASSUME NEW a \in Addr, ConnectionFailed(a)
        PROVE  DevicesKnown'
    BY <2>3, KnownOff DEF ConnectionFailed, GoTo
  <2> QED
    BY <1>3, <2>1, <2>2, <2>3 DEF Paging, StaleConnectionComplete
<1>4. CASE PairingEvents
  <2>1. UNCHANGED <<current_state, connected_device_addr, connecting_device_addr>>
    BY <1>4 DEF PairingEvents, PinCodeRequest, LinkKeyNotification, PairingPinTimeout
  <2> QED
    BY <1>4, <2>1, BesideExtends, ListsHold, KnownUntouched
<1>5. CASE ControlRequests
  <2>1. CASE ExecuteScan
    BY <2>1, KnownOff DEF ExecuteScan, StartInquiry, GoTo
  <2>2. ASSUME NEW a \in Addr, ExecuteConnect(a)
        PROVE  DevicesKnown'
    BY <2>2, KnownBegin DEF ExecuteConnect, SelectKeyboard
  <2>3. CASE ExecuteDisconnect
    BY <2>3, ListsHold, KnownUntouched DEF ExecuteDisconnect
  <2>4. CASE ExecuteReconnect
    <3> DEFINE i == ConnectionTarget(devices)
               target == IF selected_device # NoAddr THEN selected_device
                         ELSE IF i # 0 THEN devices[i].address ELSE NoAddr
    <3>1. target \in Addr \cup {NoAddr}
      BY Lookups, DevicesAreTyped DEF TypeInv, TypeOK
    <3>2. \/ UNCHANGED <<stateVars, connecting_device_addr, devices>>
          \/ StartInquiry
          \/ target # NoAddr /\ BeginConnection(target) /\ selected_device' = target
      BY <2>4 DEF ExecuteReconnect, SelectKeyboard
    <3>3. UNCHANGED connected_device_addr
      BY <2>4 DEF ExecuteReconnect
    <3> HIDE DEF target
    <3>4. CASE StartInquiry
      BY <3>4, KnownOff DEF StartInquiry, GoTo
    <3> QED
      BY <3>1, <3>2, <3>3, <3>4, KnownBegin, ListsHold, KnownUntouched
  <2>5. CASE ExecuteForget
    <3>1. UNCHANGED <<current_state, connected_device_addr, connecting_device_addr>>
      BY <2>5 DEF ExecuteForget
    <3> QED
      BY <2>5, <3>1, BesideExtends, ListsHold, KnownUntouched
  <2> QED
    BY <1>5, <2>1, <2>2, <2>3, <2>4, <2>5 DEF ControlRequests
<1>6. CASE InquiryTimer
  <2>1. CASE selected_device # NoAddr /\ BeginConnection(selected_device)
    BY <1>6, <2>1, KnownBegin DEF InquiryTimer, TypeInv, TypeOK
  <2>2. CASE UNCHANGED <<stateVars, pageVars, devices>>
    BY <1>6, <2>2, ListsHold, KnownUntouched DEF InquiryTimer
  <2> QED
    BY <1>6, <2>1, <2>2 DEF InquiryTimer
<1>7. CASE \E h \in Handle : DisconnectionComplete(h)
  BY <1>7, KnownOff DEF DisconnectionComplete, GoTo
<1>8. CASE \/ \E byte \in LedReport : SetKeyboardLeds(byte)
           \/ ScheduleLedReportTask
           \/ UNCHANGED vars
  BY <1>8, ListsHold, KnownUntouched DEF SetKeyboardLeds, ScheduleLedReportTask, vars
<1>9. CASE PowerCycle
  BY <1>9, KnownOff DEF PowerCycle
<1> QED
  BY <1>1, <1>2, <1>3, <1>4, <1>5, <1>6, <1>7, <1>8, <1>9 DEF Next

LEMMA KnownInvariant ==
    ASSUME ~AllowStale
    PROVE  Spec => []DevicesKnown
<1>1. Init => DevicesKnown
  BY InitKnown
<1>2. TypeInv /\ Link /\ Wires /\ DevicesKnown /\ [Next]_vars => DevicesKnown'
  BY StepKnown
<1> QED
  BY <1>1, <1>2, LinkInvariant, PTL DEF Spec

-----------------------------------------------------------------------------
\* From authentication on the device being connected is in the list, so that no
\* handler meets a NULL: the list is never cleared or full at the wrong moment.
THEOREM ConnectedAlwaysKnown ==
    ASSUME ~AllowStale
    PROVE  Spec => []ConnectedDeviceKnown
<1>1. DevicesKnown => ConnectedDeviceKnown
  BY DEF DevicesKnown, ConnectedDeviceKnown, OnLinkStates
<1> QED
  BY <1>1, KnownInvariant, PTL

-----------------------------------------------------------------------------
(* The stages of a connection.  In each of them what the program waits for *)
(* is owed to it, and its record of the channels is that of live channels; *)
(* once the link is being closed nothing more is claimed.                  *)

Closing == acl_handle \in closing

Dev == devices[ConnectedDevice]

\* A channel is only opened for the stage that waits for it, on its PSM.
OneOpening ==
    \A c \in Cid : Opening(c) =>
        \/ /\ current_state = "OpeningControl"
           /\ c = hid_channels.control_cid
           /\ channels[c].psm = Dev.control_psm
        \/ /\ current_state = "OpeningInterrupt"
           /\ c = hid_channels.interrupt_cid
           /\ channels[c].psm = Dev.interrupt_psm

\* SET_PROTOCOL is due, then its answer is, and never both.
SetProtocolOnce ==
    /\ handshake_due # NoCid =>
           /\ current_state = "SettingBootProtocol"
           /\ handshake_due = hid_channels.control_cid
           /\ ~hid_channels.boot_protocol_request_pending
    /\ hid_channels.boot_protocol_request_pending =>
           /\ current_state = "SettingBootProtocol"
           /\ hid_channels.control_cid \in can_send \/ Closing
    /\ current_state = "SettingBootProtocol" =>
           \/ hid_channels.boot_protocol_request_pending
           \/ handshake_due # NoCid
           \/ Closing

\* The channels of the earlier stages are still there.
OpenOrClosing ==
    /\ current_state \in {"SettingBootProtocol", "OpeningInterrupt", "HIDConnected"} =>
           hid_channels.control_open \/ Closing
    /\ current_state = "HIDConnected" => hid_channels.interrupt_open \/ Closing

Awaited ==
    /\ current_state = "Inquiry" => inquiring
    /\ current_state = "Connected" => Closing
    /\ current_state = "ServiceDiscovery" => sdp_query = acl_handle \/ Closing
    /\ current_state = "OpeningControl" =>
           \/ hid_channels.control_cid \in Cid /\ Opening(hid_channels.control_cid)
           \/ Closing
    /\ current_state = "OpeningInterrupt" =>
           \/ hid_channels.interrupt_cid \in Cid /\ Opening(hid_channels.interrupt_cid)
           \/ Closing

Stages == OneOpening /\ SetProtocolOnce /\ OpenOrClosing /\ CidsAreLive /\ Awaited

\* Two records that agree on the channels
SameChannels(h, g) ==
    /\ h.control_cid = g.control_cid /\ h.interrupt_cid = g.interrupt_cid
    /\ h.control_open = g.control_open /\ h.interrupt_open = g.interrupt_open
    /\ h.boot_protocol_request_pending = g.boot_protocol_request_pending

\* A step that leaves the PSMs of the device being connected
SameDev ==
    /\ Dev'.control_psm = Dev.control_psm
    /\ Dev'.interrupt_psm = Dev.interrupt_psm

\* A step that touches neither the state nor the channels
LEMMA StagesQuiet ==
    ASSUME Stages,
           UNCHANGED <<current_state, acl_handle, channels, handshake_due, sdp_query>>,
           closing \subseteq closing',
           SameChannels(hid_channels', hid_channels),
           hid_channels.boot_protocol_request_pending
           /\ hid_channels.control_cid \in can_send
               => hid_channels.control_cid \in can_send',
           inquiring' = inquiring \/ current_state # "Inquiry",
           current_state \in {"OpeningControl", "OpeningInterrupt"} => SameDev
    PROVE  Stages'
<1>1. OneOpening'
  BY DEF Stages, OneOpening, Opening, SameChannels, SameDev
<1>2. SetProtocolOnce'
  BY DEF Stages, SetProtocolOnce, SameChannels, Closing
<1>3. OpenOrClosing'
  BY DEF Stages, OpenOrClosing, SameChannels, Closing
<1>4. CidsAreLive'
  BY DEF Stages, CidsAreLive, SameChannels
<1>5. Awaited'
  BY DEF Stages, Awaited, Opening, SameChannels, Closing
<1> QED
  BY <1>1, <1>2, <1>3, <1>4, <1>5 DEF Stages

\* The same with the list and the channels' record as they were
LEMMA StagesBeside ==
    ASSUME Stages,
           UNCHANGED <<current_state, acl_handle, channels, handshake_due,
                       sdp_query, can_send, connected_device_addr, devices,
                       hid_channels>>,
           closing \subseteq closing',
           inquiring' = inquiring \/ current_state # "Inquiry"
    PROVE  Stages'
<1>1. SameDev
  BY DEF SameDev, Dev, ConnectedDevice
<1>2. SameChannels(hid_channels', hid_channels)
  BY DEF SameChannels
<1>3. hid_channels.boot_protocol_request_pending
      /\ hid_channels.control_cid \in can_send
          => hid_channels.control_cid \in can_send'
  OBVIOUS
<1> QED
  BY <1>1, <1>2, <1>3, StagesQuiet

\* Without a link the record of the channels is empty.
LEMMA NoLinkNoChannels ==
    ASSUME TypeInv, Link, Wires, Stages, acl_handle = NoHandle
    PROVE  /\ \A c \in Cid : channels[c].link = NoHandle
           /\ can_send = {} /\ handshake_due = NoCid /\ sdp_query = NoHandle
           /\ hid_channels.control_cid = NoCid /\ hid_channels.interrupt_cid = NoCid
           /\ ~hid_channels.boot_protocol_request_pending
<1>1. current_state \notin LinkStates
  BY DEF Link, LinkTracked
<1>2. \A c \in Cid : channels[c].link = NoHandle
  BY <1>1, OutsideChannelStates DEF LinkStates, ChannelStates
<1>3. sdp_query = NoHandle
  BY DEF Wires, QueryOnLink
<1>4. acl_handle \notin closing
  BY HandleAssumption DEF TypeInv, TypeOK
<1>5. ~hid_channels.boot_protocol_request_pending
  BY <1>1 DEF Stages, SetProtocolOnce, LinkStates
<1>6. hid_channels.control_cid = NoCid /\ hid_channels.interrupt_cid = NoCid
  BY <1>4 DEF Stages, CidsAreLive
<1> QED
  BY <1>2, <1>3, <1>5, <1>6, NoChannels

\* A step after which there is no channel
LEMMA StagesNone ==
    ASSUME \A c \in Cid : channels'[c].link = NoHandle,
           handshake_due' = NoCid, ~hid_channels'.boot_protocol_request_pending,
           current_state' \notin ChannelStates,
           \/ hid_channels'.control_cid = NoCid /\ hid_channels'.interrupt_cid = NoCid
           \/ acl_handle' \in closing',
           current_state' = "Inquiry" => inquiring',
           current_state' = "Connected" => acl_handle' \in closing',
           current_state' = "ServiceDiscovery" =>
               sdp_query' = acl_handle' \/ acl_handle' \in closing'
    PROVE  Stages'
  BY DEF Stages, OneOpening, Opening, SetProtocolOnce, OpenOrClosing, CidsAreLive,
     Awaited, Closing, ChannelStates

\* A step without a link, or the one that makes the link, keeping the record
LEMMA StagesOff ==
    ASSUME TypeInv, Link, Wires, Stages, acl_handle = NoHandle,
           UNCHANGED <<wireVars, hid_channels>>,
           current_state' \in {"Initializing", "Idle", "Inquiry", "Connecting",
                               "Connected"},
           current_state' = "Inquiry" => inquiring',
           current_state' = "Connected" => acl_handle' \in closing'
    PROVE  Stages'
<1>1. current_state' \notin ChannelStates /\ current_state' # "ServiceDiscovery"
  BY DEF ChannelStates
<1> QED
  BY <1>1, NoLinkNoChannels, StagesNone

\* A step after which the link is being closed
LEMMA StagesClosing ==
    ASSUME acl_handle' \in closing', current_state' # "Inquiry",
           OneOpening',
           handshake_due' # NoCid =>
               /\ current_state' = "SettingBootProtocol"
               /\ handshake_due' = hid_channels'.control_cid
               /\ ~hid_channels'.boot_protocol_request_pending,
           hid_channels'.boot_protocol_request_pending =>
               current_state' = "SettingBootProtocol"
    PROVE  Stages'
  BY DEF Stages, SetProtocolOnce, OpenOrClosing, CidsAreLive, Awaited, Closing

\* disconnect_acl_after_error, with a link
LEMMA DisconnectCloses ==
    ASSUME acl_handle # NoHandle, UNCHANGED acl_handle, NEW ACTION Move, NEW h,
           DisconnectAfterError(Move, h)
    PROVE  /\ Move /\ hid_channels' = h
           /\ acl_handle' \in closing' /\ closing \subseteq closing'
  BY DEF DisconnectAfterError, GapDisconnect

LEMMA InitStages == Init => Stages
  BY HandleAssumption
  DEF Init, BootsWith, Stages, OneOpening, Opening, SetProtocolOnce, OpenOrClosing,
      CidsAreLive, Awaited, NoChannel, InitialHidChannels

\* The lookup and the PSMs survive what is done to the list beside the
\* connection.
LEMMA DevStays ==
    ASSUME TypeInv, TypeInv', DevicesKnown, current_state \in OnLinkStates,
           UNCHANGED connected_device_addr
    PROVE  /\ ConnectedDevice # 0
           /\ Holds(devices', devices) => ConnectedDevice' = ConnectedDevice
           /\ Extends(devices', devices) => SameDev
<1>1. /\ devices \in Seq(Device(Addr, Psm)) /\ devices' \in Seq(Device(Addr, Psm))
      /\ Known(devices, connected_device_addr)
  BY DEF TypeInv, TypeOK, DeviceList, DevicesKnown
<1>2. ConnectedDevice \in DOMAIN devices /\ ConnectedDevice # 0
  BY <1>1, FindIsCorrect DEF ConnectedDevice
<1>3. ASSUME Holds(devices', devices)
      PROVE  ConnectedDevice' = ConnectedDevice
  BY <1>1, <1>3, SameDeviceFound DEF Holds, ConnectedDevice
<1>4. ASSUME Extends(devices', devices)
      PROVE  SameDev
  <2>1. ConnectedDevice' = ConnectedDevice
    BY <1>3, <1>4 DEF Extends, Holds
  <2> QED
    BY <1>2, <1>4, <2>1 DEF Extends, SameDev, Dev
<1> QED
  BY <1>2, <1>3, <1>4

\* A step beside the connection that adds to the list
LEMMA StagesExtended ==
    ASSUME TypeInv, TypeInv', DevicesKnown, Stages,
           UNCHANGED <<current_state, acl_handle, connected_device_addr, channels,
                       handshake_due, sdp_query, can_send, hid_channels, inquiring>>,
           closing \subseteq closing',
           Extends(devices', devices)
    PROVE  Stages'
<1>1. SameChannels(hid_channels', hid_channels)
  BY DEF SameChannels
<1>2. current_state \in {"OpeningControl", "OpeningInterrupt"} => SameDev
  BY DevStays DEF OnLinkStates, LinkStates
<1>3. hid_channels.boot_protocol_request_pending
      /\ hid_channels.control_cid \in can_send
          => hid_channels.control_cid \in can_send'
  OBVIOUS
<1> QED
  BY <1>1, <1>2, <1>3, StagesQuiet

LEMMA SearchStages ==
    TypeInv /\ TypeInv' /\ Link /\ Wires /\ DevicesKnown /\ Stages /\ Search => Stages'
<1> SUFFICES ASSUME TypeInv, TypeInv', Link, Wires, DevicesKnown, Stages, Search
             PROVE  Stages'
  OBVIOUS
<1>a. current_state \in {"Initializing", "Inquiry"} => acl_handle = NoHandle
  BY NoLink DEF LinkStates
<1>b. ASSUME current_state \in {"Initializing", "Inquiry"},
             UNCHANGED <<wireVars, hid_channels>>,
             current_state' \in {"Idle", "Connecting"}
      PROVE  Stages'
  BY <1>a, <1>b, StagesOff
<1>c. ASSUME NEW a, BeginConnection(a) \/ GoTo("Idle")
      PROVE  current_state' \in {"Idle", "Connecting"}
  BY <1>c DEF BeginConnection, GoTo
<1>1. CASE BtstackWorking
  BY <1>1, <1>b, <1>c DEF BtstackWorking
<1>2. CASE InquiryComplete
  <2>1. BeginConnection(InquiryTarget) \/ GoTo("Idle")
    BY <1>2 DEF InquiryComplete
  <2> QED
    BY <1>2, <1>b, <1>c, <2>1 DEF InquiryComplete
<1>3. CASE StaleInquiryComplete
  BY <1>3, StagesBeside DEF StaleInquiryComplete
<1>4. ASSUME NEW a \in Addr, NEW keyboard \in InquiryClass, InquiryResult(a, keyboard)
      PROVE  Stages'
  <2>1. UNCHANGED <<current_state, acl_handle, connected_device_addr, channels,
                    handshake_due, sdp_query, closing, can_send, hid_channels,
                    inquiring>>
    BY <1>4 DEF InquiryResult
  <2>2. Extends(devices', devices)
    BY <1>4, BesideExtends
  <2> QED
    BY <2>1, <2>2, StagesExtended
<1> QED
  BY <1>1, <1>2, <1>3, <1>4 DEF Search

LEMMA PagingStages ==
    ~AllowStale /\ TypeInv /\ Link /\ Wires /\ Stages /\ Paging => Stages'
<1> SUFFICES ASSUME ~AllowStale, TypeInv, Link, Wires, Stages, Paging PROVE Stages'
  OBVIOUS
<1>a. current_state = "Connecting" => acl_handle = NoHandle
  BY NoLink DEF LinkStates
<1>1. ASSUME NEW a \in Addr, NEW h \in Handle, ConnectionEstablished(a, h)
      PROVE  Stages'
  <2>1. acl_handle = NoHandle
    BY <1>a, <1>1 DEF ConnectionEstablished
  <2>2. /\ \A c \in Cid : channels[c].link = NoHandle
        /\ handshake_due = NoCid
    BY <2>1, NoLinkNoChannels
  <2>3. /\ UNCHANGED <<channels, handshake_due>>
        /\ current_state' = "Authenticating"
        /\ hid_channels' = ResetConnection(hid_channels)
    BY <1>1 DEF ConnectionEstablished
  <2>4. /\ ~hid_channels'.boot_protocol_request_pending
        /\ hid_channels'.control_cid = NoCid /\ hid_channels'.interrupt_cid = NoCid
    BY <2>3 DEF ResetConnection, InitialHidChannels
  <2> QED
    BY <2>2, <2>3, <2>4, StagesNone DEF ChannelStates
<1>2. ASSUME NEW a \in Addr, NEW h \in Handle, CancelledConnectionEstablished(a, h)
      PROVE  Stages'
  <2>1. /\ acl_handle = NoHandle /\ acl_handle' \in closing'
        /\ current_state' = "Connected" /\ UNCHANGED <<wireVars, hid_channels>>
    BY <1>a, <1>2 DEF CancelledConnectionEstablished, GoTo, GapDisconnect
  <2> QED
    BY <2>1, StagesOff
<1>3. ASSUME NEW a \in Addr, ConnectionFailed(a)
      PROVE  Stages'
  BY <1>a, <1>3, StagesOff DEF ConnectionFailed, GoTo
<1> QED
  BY <1>1, <1>2, <1>3 DEF Paging, StaleConnectionComplete

\* Before the first channel
LEMMA BareLink ==
    ASSUME TypeInv, Wires, Stages, current_state \notin ChannelStates
    PROVE  /\ \A c \in Cid : channels[c].link = NoHandle
           /\ handshake_due = NoCid
           /\ ~hid_channels.boot_protocol_request_pending
           /\ \/ hid_channels.control_cid = NoCid /\ hid_channels.interrupt_cid = NoCid
              \/ Closing
<1>1. \A c \in Cid : channels[c].link = NoHandle
  BY OutsideChannelStates
<1>2. handshake_due = NoCid
  BY <1>1, NoChannels
<1>3. ~hid_channels.boot_protocol_request_pending
  BY DEF Stages, SetProtocolOnce, ChannelStates
<1>4. /\ hid_channels.control_cid \in Cid \cup {NoCid}
      /\ hid_channels.interrupt_cid \in Cid \cup {NoCid}
  BY ChannelsAreTyped DEF TypeInv, HidChannel
<1>5. \/ hid_channels.control_cid = NoCid /\ hid_channels.interrupt_cid = NoCid
      \/ Closing
  BY <1>1, <1>4 DEF Stages, CidsAreLive, Closing
<1> QED
  BY <1>1, <1>2, <1>3, <1>5

\* open_control_channel
LEMMA OpenControlStages ==
    ASSUME TypeInv, Link, Wires, Stages, current_state = "ServiceDiscovery",
           acl_handle # NoHandle, UNCHANGED <<acl_handle, handshake_due>>,
           NEW psm, OpenControlChannel(psm), psm = Dev'.control_psm
    PROVE  Stages'
<1>a. /\ \A c \in Cid : channels[c].link = NoHandle
      /\ handshake_due = NoCid
      /\ ~hid_channels.boot_protocol_request_pending
      /\ \/ hid_channels.control_cid = NoCid /\ hid_channels.interrupt_cid = NoCid
         \/ Closing
  BY BareLink DEF ChannelStates
<1>b. hid_channels \in HidChannel(Cid) /\ channels \in [Cid -> Channel]
  BY ChannelsAreTyped DEF TypeInv, TypeOK
<1>1. ASSUME NEW c \in Cid, CreateChannel(c, psm), UNCHANGED closing,
             hid_channels' = [hid_channels EXCEPT !.control_cid = c],
             GoTo("OpeningControl")
      PROVE  Stages'
  <2>1. channels' = [channels EXCEPT ![c] =
                         [link |-> acl_handle, psm |-> psm, open |-> FALSE]]
    BY <1>1, CreatedOnLink
  <2>2. /\ channels'[c].link = acl_handle /\ channels'[c].psm = psm
        /\ ~channels'[c].open
        /\ \A d \in Cid : d # c => channels'[d] = channels[d]
    BY <2>1, <1>b
  <2>3. /\ hid_channels'.control_cid = c
        /\ hid_channels'.interrupt_cid = hid_channels.interrupt_cid
        /\ hid_channels'.boot_protocol_request_pending
               = hid_channels.boot_protocol_request_pending
    BY <1>1, <1>b DEF HidChannel
  <2>4. current_state' = "OpeningControl"
    BY <1>1 DEF GoTo
  <2>5. OneOpening'
    BY <1>a, <2>2, <2>3, <2>4 DEF OneOpening, Opening
  <2>6. SetProtocolOnce'
    BY <1>a, <2>3, <2>4 DEF SetProtocolOnce
  <2>7. OpenOrClosing'
    BY <2>4 DEF OpenOrClosing
  <2>8. CidsAreLive'
    BY <1>1, <1>a, <2>2, <2>3 DEF CidsAreLive, Closing
  <2>9. Awaited'
    BY <2>2, <2>3, <2>4 DEF Awaited, Opening
  <2> QED
    BY <2>5, <2>6, <2>7, <2>8, <2>9 DEF Stages
<1>2. ASSUME DisconnectAfterError(GoTo("OpeningControl"), hid_channels),
             UNCHANGED channels
      PROVE  Stages'
  <2>1. /\ GoTo("OpeningControl") /\ hid_channels' = hid_channels
        /\ acl_handle' \in closing'
    BY <1>2, DisconnectCloses
  <2>2. current_state' = "OpeningControl"
    BY <2>1 DEF GoTo
  <2>3. OneOpening'
    BY <1>2, <1>a DEF OneOpening, Opening
  <2> QED
    BY <1>a, <2>1, <2>2, <2>3, StagesClosing
<1> QED
  BY <1>1, <1>2 DEF OpenControlChannel

LEMMA DiscoveryStages ==
    TypeInv /\ TypeInv' /\ Link /\ Wires /\ DevicesKnown /\ Stages /\ Discovery
        => Stages'
<1> SUFFICES ASSUME TypeInv, TypeInv', Link, Wires, DevicesKnown, Stages, Discovery
             PROVE  Stages'
  OBVIOUS
<1>1. CASE LinkSecured
  <2>1. /\ current_state = "Authenticating" /\ acl_handle # NoHandle
        /\ UNCHANGED <<acl_handle, wireVars>>
    BY <1>1 DEF LinkSecured, Authenticating
  <2>2. /\ \A c \in Cid : channels[c].link = NoHandle
        /\ handshake_due = NoCid
        /\ ~hid_channels.boot_protocol_request_pending
        /\ \/ hid_channels.control_cid = NoCid /\ hid_channels.interrupt_cid = NoCid
           \/ Closing
    BY <2>1, BareLink DEF ChannelStates
  <2>3. CASE /\ sdp_query' = acl_handle /\ GoTo("ServiceDiscovery")
             /\ UNCHANGED <<closing, hid_channels>>
    <3>1. current_state' = "ServiceDiscovery"
      BY <2>3 DEF GoTo
    <3> QED
      BY <2>1, <2>2, <2>3, <3>1, StagesNone DEF Closing, ChannelStates
  <2>4. CASE DisconnectAfterError(GoTo("ServiceDiscovery"), hid_channels)
    <3>1. /\ GoTo("ServiceDiscovery") /\ hid_channels' = hid_channels
          /\ acl_handle' \in closing'
      BY <2>1, <2>4, DisconnectCloses
    <3>2. current_state' = "ServiceDiscovery"
      BY <3>1 DEF GoTo
    <3> QED
      BY <2>1, <2>2, <3>1, <3>2, StagesNone DEF ChannelStates
  <2> QED
    BY <1>1, <2>3, <2>4 DEF LinkSecured, StartSdpDiscovery
<1>2. CASE SecurityFailed
  <2>1. /\ acl_handle # NoHandle /\ DisconnectAfterError(Stay, hid_channels)
        /\ UNCHANGED <<acl_handle, wireVars, sdp_query, connected_device_addr,
                       devices, inquiring>>
    BY <1>2 DEF SecurityFailed, Authenticating
  <2>2. Stay /\ hid_channels' = hid_channels /\ closing \subseteq closing'
    BY <2>1, DisconnectCloses
  <2> QED
    BY <2>1, <2>2, StagesBeside DEF Stay
<1>3. ASSUME NEW list, SdpAttribute(list)
      PROVE  Stages'
  <2>1. current_state = "ServiceDiscovery"
    BY <1>3, WiresShowLink DEF SdpAttribute
  <2>2. /\ UNCHANGED <<current_state, acl_handle, channels, handshake_due,
                       sdp_query, closing, can_send, hid_channels>>
    BY <1>3 DEF SdpAttribute
  <2>3. SameChannels(hid_channels', hid_channels)
    BY <2>2 DEF SameChannels
  <2> QED
    BY <2>1, <2>2, <2>3, StagesQuiet
<1>4. ASSUME NEW ok \in BOOLEAN, SdpComplete(ok)
      PROVE  Stages'
  <2>1. /\ current_state = "ServiceDiscovery" /\ acl_handle # NoHandle
        /\ UNCHANGED <<acl_handle, handshake_due, connected_device_addr>>
    BY <1>4, WiresShowLink DEF SdpComplete
  <2>2. CASE DisconnectAfterError(Stay, hid_channels) /\ UNCHANGED channels
    <3>1. /\ Stay /\ hid_channels' = hid_channels /\ acl_handle' \in closing'
      BY <2>1, <2>2, DisconnectCloses
    <3>2. current_state' = "ServiceDiscovery"
      BY <2>1, <3>1 DEF Stay
    <3>3. /\ \A c \in Cid : channels[c].link = NoHandle
          /\ handshake_due = NoCid
          /\ ~hid_channels.boot_protocol_request_pending
      BY <2>1, BareLink DEF ChannelStates
    <3> QED
      BY <2>1, <2>2, <3>1, <3>2, <3>3, StagesNone DEF ChannelStates
  <2>3. CASE OpenControlChannel(devices'[ConnectedDevice].control_psm)
    <3>1. Holds(devices', devices)
      BY LinkEventsList
    <3>2. ConnectedDevice' = ConnectedDevice
      BY <2>1, <3>1, DevStays DEF OnLinkStates, LinkStates
    <3>3. devices'[ConnectedDevice].control_psm = Dev'.control_psm
      BY <3>2 DEF Dev
    <3> QED
      BY <2>1, <2>3, <3>3, OpenControlStages
  <2> QED
    BY <1>4, <2>2, <2>3 DEF SdpComplete
<1> QED
  BY <1>1, <1>2, <1>3, <1>4
  DEF Discovery, SdpControlAttribute, SdpInterruptAttribute

LEMMA RecordOpened ==
    ASSUME NEW h \in HidChannel(Cid), NEW c \in Cid
    PROVE  /\ ControlOpened(h, c).control_cid = c
           /\ ControlOpened(h, c).control_open
           /\ ControlOpened(h, c).boot_protocol_request_pending
           /\ ControlOpened(h, c).interrupt_cid = h.interrupt_cid
  BY DEF ControlOpened, HidChannel

LEMMA ScheduleChannels ==
    ASSUME NEW h \in HidChannel(Cid), NEW state, ScheduleLedReport(h, state)
    PROVE  SameChannels(hid_channels', h) /\ can_send \subseteq can_send'
<1>1. SameChannels(h, h) /\ SameChannels([h EXCEPT !.led_can_send_requested = TRUE], h)
  BY DEF SameChannels, HidChannel
<1> QED
  BY <1>1 DEF ScheduleLedReport

\* The channel being opened is the only one, and nothing else is under way.
LEMMA OpeningAlone ==
    ASSUME TypeInv, Wires, Stages, NEW c \in Cid, Opening(c)
    PROVE  /\ \A d \in Cid : Opening(d) => d = c
           /\ current_state \in {"OpeningControl", "OpeningInterrupt"}
           /\ handshake_due = NoCid
           /\ ~hid_channels.boot_protocol_request_pending
           /\ acl_handle # NoHandle /\ channels[c].link = acl_handle
<1>1. /\ \A d \in Cid : Opening(d) => d = c
      /\ current_state \in {"OpeningControl", "OpeningInterrupt"}
  BY DEF Stages, OneOpening
<1>2. handshake_due = NoCid /\ ~hid_channels.boot_protocol_request_pending
  BY <1>1 DEF Stages, SetProtocolOnce
<1>3. acl_handle # NoHandle /\ channels[c].link = acl_handle
  BY DEF Opening, Wires, ChannelsOnLink
<1> QED
  BY <1>1, <1>2, <1>3

LEMMA ControlOpenedStages ==
    ASSUME TypeInv, Wires, Stages, NEW c \in Cid, Opening(c),
           channels' = [channels EXCEPT ![c].open = TRUE],
           UNCHANGED <<acl_handle, handshake_due>>,
           ControlChannelOpened(c)
    PROVE  Stages'
<1> DEFINE opened == ControlOpened(hid_channels, c)
<1>a. hid_channels \in HidChannel(Cid) /\ channels \in [Cid -> Channel]
  BY ChannelsAreTyped DEF TypeInv, TypeOK
<1>b. /\ \A d \in Cid : Opening(d) => d = c
      /\ handshake_due = NoCid
      /\ acl_handle # NoHandle /\ channels[c].link = acl_handle
  BY OpeningAlone
<1>c. /\ opened.control_cid = c /\ opened.control_open
      /\ opened.boot_protocol_request_pending
      /\ opened.interrupt_cid = hid_channels.interrupt_cid
  BY <1>a, RecordOpened
<1>d. /\ channels'[c].open
      /\ \A d \in Cid : channels'[d].link = channels[d].link
      /\ \A d \in Cid : d # c => channels'[d] = channels[d]
  BY <1>a DEF Channel
<1>e. \A d \in Cid : ~Opening(d)'
  BY <1>b, <1>d DEF Opening
<1> HIDE DEF opened
<1>1. OneOpening'
  BY <1>e DEF OneOpening
<1>2. CASE /\ hid_channels' = opened /\ can_send' = can_send \cup {c}
           /\ GoTo("SettingBootProtocol") /\ UNCHANGED closing
  <2>1. current_state' = "SettingBootProtocol"
    BY <1>2 DEF GoTo
  <2>2. SetProtocolOnce'
    BY <1>2, <1>b, <1>c, <2>1 DEF SetProtocolOnce
  <2>3. OpenOrClosing'
    BY <1>2, <1>c, <2>1 DEF OpenOrClosing
  <2>4. hid_channels.interrupt_cid \in Cid \cup {NoCid}
    BY <1>a DEF HidChannel
  <2>5. CidsAreLive'
    BY <1>2, <1>b, <1>c, <1>d, <2>4 DEF Stages, CidsAreLive
  <2>6. Awaited'
    BY <2>1 DEF Awaited
  <2> QED
    BY <1>1, <2>2, <2>3, <2>5, <2>6 DEF Stages
<1>3. CASE DisconnectAfterError(GoTo("SettingBootProtocol"), opened)
  <2>1. GoTo("SettingBootProtocol") /\ acl_handle' \in closing'
    BY <1>3, <1>b, DisconnectCloses
  <2>2. current_state' = "SettingBootProtocol"
    BY <2>1 DEF GoTo
  <2> QED
    BY <1>1, <1>b, <2>1, <2>2, StagesClosing
<1> QED
  BY <1>2, <1>3 DEF ControlChannelOpened, opened

LEMMA InterruptOpenedStages ==
    ASSUME TypeInv, Wires, Stages, NEW c \in Cid, Opening(c),
           current_state = "OpeningInterrupt",
           channels' = [channels EXCEPT ![c].open = TRUE],
           UNCHANGED <<acl_handle, handshake_due>>,
           InterruptChannelOpened(c)
    PROVE  Stages'
<1> DEFINE g == InterruptOpened(hid_channels, c)
           h == RequestLedSync(g)
<1>a. hid_channels \in HidChannel(Cid) /\ channels \in [Cid -> Channel]
  BY ChannelsAreTyped DEF TypeInv, TypeOK
<1>b. /\ \A d \in Cid : Opening(d) => d = c
      /\ handshake_due = NoCid /\ ~hid_channels.boot_protocol_request_pending
      /\ acl_handle # NoHandle /\ channels[c].link = acl_handle
  BY OpeningAlone
<1>c. g \in HidChannel(Cid) /\ h \in HidChannel(Cid)
  BY <1>a DEF InterruptOpened, RequestLedSync, HidChannel
<1>d. /\ h.control_cid = hid_channels.control_cid
      /\ h.control_open = hid_channels.control_open
      /\ h.interrupt_cid = c /\ h.interrupt_open
      /\ h.boot_protocol_request_pending = hid_channels.boot_protocol_request_pending
  BY <1>a DEF InterruptOpened, RequestLedSync, HidChannel
<1>e. /\ channels'[c].open
      /\ \A d \in Cid : channels'[d].link = channels[d].link
      /\ \A d \in Cid : d # c => channels'[d] = channels[d]
  BY <1>a DEF Channel
<1>f. \A d \in Cid : ~Opening(d)'
  BY <1>b, <1>e DEF Opening
<1>1. /\ ScheduleLedReport(h, "HIDConnected") /\ GoTo("HIDConnected")
      /\ UNCHANGED closing
  BY DEF InterruptChannelOpened
<1> HIDE DEF h
<1>2. SameChannels(hid_channels', h)
  BY <1>1, <1>c, ScheduleChannels
<1>3. current_state' = "HIDConnected"
  BY <1>1 DEF GoTo
<1>4. OneOpening'
  BY <1>f DEF OneOpening
<1>5. SetProtocolOnce'
  BY <1>b, <1>d, <1>2, <1>3 DEF SetProtocolOnce, SameChannels
<1>6. OpenOrClosing'
  BY <1>1, <1>d, <1>2, <1>3 DEF Stages, OpenOrClosing, SameChannels, Closing
<1>7. hid_channels.control_cid \in Cid \cup {NoCid}
  BY <1>a DEF HidChannel
<1>8. CidsAreLive'
  BY <1>1, <1>b, <1>d, <1>e, <1>2, <1>7 DEF Stages, CidsAreLive, SameChannels
<1>9. Awaited'
  BY <1>3 DEF Awaited
<1> QED
  BY <1>4, <1>5, <1>6, <1>8, <1>9 DEF Stages

\* L2CAP_EVENT_CHANNEL_OPENED
LEMMA OpenedStages ==
    ASSUME TypeInv, TypeInv', DevicesKnown, Wires, Stages,
           NEW c \in Cid, ChannelOpened(c)
    PROVE  Stages'
<1>1. /\ Opening(c) /\ channels' = [channels EXCEPT ![c].open = TRUE]
      /\ UNCHANGED <<acl_handle, handshake_due, connected_device_addr>>
  BY DEF ChannelOpened
<1>2. ConnectedDevice # 0
  BY <1>1, OpeningAlone, DevStays DEF OnLinkStates, LinkStates
<1>3. \/ /\ current_state = "OpeningControl"
         /\ channels[c].psm = devices[ConnectedDevice].control_psm
      \/ /\ current_state = "OpeningInterrupt"
         /\ channels[c].psm = devices[ConnectedDevice].interrupt_psm
  BY <1>1 DEF Stages, OneOpening, Dev
<1>4. \/ ControlChannelOpened(c)
      \/ current_state = "OpeningInterrupt" /\ InterruptChannelOpened(c)
  BY <1>2, <1>3 DEF ChannelOpened
<1> QED
  BY <1>1, <1>4, ControlOpenedStages, InterruptOpenedStages

\* L2CAP_EVENT_CHANNEL_CLOSED
LEMMA ClosedStages ==
    ASSUME TypeInv, Wires, Stages, NEW c \in Cid, ChannelClosed(c),
           devices' = devices
    PROVE  Stages'
<1> DEFINE h == Closed(hid_channels, c)
<1>a. hid_channels \in HidChannel(Cid) /\ channels \in [Cid -> Channel]
  BY ChannelsAreTyped DEF TypeInv, TypeOK
<1>b. c # NoCid
  BY NoCidIsNone
<1>c. /\ acl_handle # NoHandle /\ channels[c].open
      /\ current_state \in ChannelStates
  BY WiresShowLink DEF ChannelClosed
<1>d. /\ channels' = [channels EXCEPT ![c] = NoChannel]
      /\ handshake_due' = IF handshake_due = c THEN NoCid ELSE handshake_due
      /\ can_send' = can_send \ {c}
      /\ hid_channels' = h
      /\ UNCHANGED <<current_state, acl_handle, sdp_query, inquiring,
                     connected_device_addr>>
  BY DEF ChannelClosed
<1>e. /\ ~Opening(c)'
      /\ \A d \in Cid : d # c => channels'[d] = channels[d]
  BY <1>a, <1>d DEF Opening, NoChannel
<1>f. /\ c # hid_channels.control_cid =>
             /\ h.control_cid = hid_channels.control_cid
             /\ h.control_open = hid_channels.control_open
             /\ h.boot_protocol_request_pending
                    = hid_channels.boot_protocol_request_pending
      /\ c # hid_channels.interrupt_cid =>
             /\ h.interrupt_cid = hid_channels.interrupt_cid
             /\ h.interrupt_open = hid_channels.interrupt_open
      /\ c = hid_channels.control_cid =>
             h.control_cid = NoCid /\ ~h.boot_protocol_request_pending
  BY <1>a, <1>b DEF Closed, ClosesControl, ClosesInterrupt, HidChannel
<1> HIDE DEF h
<1>g. UNCHANGED Dev
  BY <1>d DEF Dev, ConnectedDevice
<1>1. OneOpening'
  <2> SUFFICES ASSUME NEW d \in Cid, Opening(d)'
               PROVE  \/ /\ current_state = "OpeningControl"
                         /\ d = h.control_cid
                         /\ channels'[d].psm = Dev.control_psm
                      \/ /\ current_state = "OpeningInterrupt"
                         /\ d = h.interrupt_cid
                         /\ channels'[d].psm = Dev.interrupt_psm
    BY <1>d, <1>g DEF OneOpening
  <2>1. d # c /\ channels'[d] = channels[d] /\ Opening(d)
    BY <1>e DEF Opening
  <2> QED
    BY <2>1, <1>f DEF Stages, OneOpening
<1>2. /\ handshake_due' # NoCid =>
             /\ current_state' = "SettingBootProtocol"
             /\ handshake_due' = hid_channels'.control_cid
             /\ ~hid_channels'.boot_protocol_request_pending
      /\ hid_channels'.boot_protocol_request_pending =>
             /\ current_state' = "SettingBootProtocol"
             /\ hid_channels.boot_protocol_request_pending
             /\ c # hid_channels.control_cid
  BY <1>d, <1>f DEF Stages, SetProtocolOnce
<1>3. CASE c \in {hid_channels.control_cid, hid_channels.interrupt_cid}
  <2>1. EndsConnection(c)
    BY <1>3, <1>b, <1>c DEF EndsConnection, ClosesControl, ClosesInterrupt, ChannelStates
  <2>2. acl_handle' \in closing'
    BY <2>1, <1>d DEF ChannelClosed, GapDisconnect
  <2>3. current_state' # "Inquiry"
    BY <1>c, <1>d DEF ChannelStates
  <2> QED
    BY <1>1, <1>2, <2>2, <2>3, StagesClosing
<1>4. CASE c \notin {hid_channels.control_cid, hid_channels.interrupt_cid}
  <2>1. SameChannels(h, hid_channels)
    BY <1>4, <1>f DEF SameChannels
  <2>2. handshake_due' = handshake_due
    BY <1>4, <1>d DEF Stages, SetProtocolOnce
  <2>3. closing \subseteq closing'
    BY DEF ChannelClosed, GapDisconnect
  <2>4. SetProtocolOnce'
    BY <1>4, <1>d, <2>1, <2>2, <2>3 DEF Stages, SetProtocolOnce, SameChannels, Closing
  <2>5. OpenOrClosing'
    BY <1>d, <2>1, <2>3 DEF Stages, OpenOrClosing, SameChannels, Closing
  <2>6. /\ hid_channels.control_cid \in Cid \cup {NoCid}
        /\ hid_channels.interrupt_cid \in Cid \cup {NoCid}
    BY <1>a DEF HidChannel
  <2>7. CidsAreLive'
    BY <1>4, <1>d, <1>e, <2>1, <2>3, <2>6 DEF Stages, CidsAreLive, SameChannels
  <2>8. Awaited'
    <3>1. \A d \in Cid : Opening(d) => Opening(d)'
      BY <1>c, <1>e DEF Opening
    <3> QED
      BY <1>d, <2>1, <2>3, <3>1 DEF Stages, Awaited, SameChannels, Closing
  <2> QED
    BY <1>1, <2>4, <2>5, <2>7, <2>8 DEF Stages
<1> QED
  BY <1>3, <1>4

\* L2CAP_EVENT_CAN_SEND_NOW, for SET_PROTOCOL
LEMMA SetProtocolStages ==
    ASSUME TypeInv, Wires, Stages, NEW c \in Cid, SendSetProtocol(c)
    PROVE  Stages'
<1> DEFINE sent == [hid_channels EXCEPT !.boot_protocol_request_pending = FALSE]
<1>a. hid_channels \in HidChannel(Cid) /\ c # NoCid
  BY ChannelsAreTyped, NoCidIsNone DEF TypeInv
<1>b. /\ current_state = "SettingBootProtocol" /\ handshake_due = NoCid
      /\ c = hid_channels.control_cid
      /\ \A d \in Cid : ~Opening(d)
  BY DEF SendSetProtocol, Stages, SetProtocolOnce, OneOpening
<1>c. /\ sent.control_cid = hid_channels.control_cid
      /\ sent.interrupt_cid = hid_channels.interrupt_cid
      /\ sent.control_open = hid_channels.control_open
      /\ ~sent.boot_protocol_request_pending
  BY <1>a DEF HidChannel
<1>d. acl_handle # NoHandle /\ UNCHANGED <<acl_handle, channels>>
  BY WiresShowLink DEF SendSetProtocol, CanSend
<1> HIDE DEF sent
<1>1. OneOpening'
  BY <1>b, <1>d DEF OneOpening, Opening
<1>2. CASE hid_channels' = sent /\ handshake_due' = c /\ UNCHANGED <<stateVars, closing>>
  <2>1. SetProtocolOnce'
    BY <1>2, <1>a, <1>b, <1>c DEF SetProtocolOnce
  <2>2. OpenOrClosing'
    BY <1>2, <1>b, <1>c, <1>d DEF Stages, OpenOrClosing, Closing
  <2>3. CidsAreLive'
    BY <1>2, <1>c, <1>d DEF Stages, CidsAreLive
  <2>4. Awaited'
    BY <1>2, <1>b DEF Awaited
  <2> QED
    BY <1>1, <2>1, <2>2, <2>3, <2>4 DEF Stages
<1>3. CASE DisconnectAfterError(Stay, sent) /\ UNCHANGED handshake_due
  <2>1. Stay /\ hid_channels' = sent /\ acl_handle' \in closing'
    BY <1>3, <1>d, DisconnectCloses
  <2>2. current_state' = "SettingBootProtocol"
    BY <1>b, <2>1 DEF Stay
  <2> QED
    BY <1>1, <1>3, <1>b, <2>1, <2>2, StagesClosing
<1> QED
  BY <1>2, <1>3 DEF SendSetProtocol, sent

\* The answer to SET_PROTOCOL
LEMMA HandshakeStages ==
    ASSUME TypeInv, Link, Wires, Stages, NEW ok \in BOOLEAN, Handshake(ok)
    PROVE  Stages'
<1>a. hid_channels \in HidChannel(Cid) /\ channels \in [Cid -> Channel]
  BY ChannelsAreTyped DEF TypeInv, TypeOK
<1>b. /\ current_state = "SettingBootProtocol" /\ handshake_due' = NoCid
      /\ ~hid_channels.boot_protocol_request_pending
      /\ \A d \in Cid : ~Opening(d)
      /\ UNCHANGED <<acl_handle, devices, connected_device_addr>>
  BY DEF Handshake, Stages, SetProtocolOnce, OneOpening
<1>c. acl_handle # NoHandle
  BY <1>b DEF Link, LinkTracked, LinkStates
<1>1. ASSUME NEW ACTION Move, DisconnectAfterError(Move, hid_channels),
             Move => current_state' # "Inquiry",
             UNCHANGED channels
      PROVE  Stages'
  <2>1. Move /\ hid_channels' = hid_channels /\ acl_handle' \in closing'
    BY <1>1, <1>b, <1>c, DisconnectCloses
  <2>2. OneOpening'
    BY <1>1, <1>b DEF OneOpening, Opening
  <2> QED
    BY <1>1, <1>b, <2>1, <2>2, StagesClosing
<1>2. ASSUME NEW c \in Cid, CreateChannel(c, Dev.interrupt_psm),
             hid_channels' = [hid_channels EXCEPT !.interrupt_cid = c],
             GoTo("OpeningInterrupt"), UNCHANGED closing
      PROVE  Stages'
  <2>1. channels' = [channels EXCEPT ![c] =
                         [link |-> acl_handle, psm |-> Dev.interrupt_psm, open |-> FALSE]]
    BY <1>2, CreatedOnLink
  <2>2. /\ channels'[c].link = acl_handle /\ channels'[c].psm = Dev.interrupt_psm
        /\ ~channels'[c].open
        /\ \A d \in Cid : d # c => channels'[d] = channels[d]
    BY <2>1, <1>a
  <2>3. /\ hid_channels'.interrupt_cid = c
        /\ hid_channels'.control_cid = hid_channels.control_cid
        /\ hid_channels'.control_open = hid_channels.control_open
        /\ hid_channels'.boot_protocol_request_pending
               = hid_channels.boot_protocol_request_pending
    BY <1>2, <1>a DEF HidChannel
  <2>4. current_state' = "OpeningInterrupt"
    BY <1>2 DEF GoTo
  <2>5. UNCHANGED Dev
    BY <1>b DEF Dev, ConnectedDevice
  <2>6. OneOpening'
    BY <1>b, <2>2, <2>3, <2>4, <2>5 DEF OneOpening, Opening
  <2>7. SetProtocolOnce'
    BY <1>b, <2>3, <2>4 DEF SetProtocolOnce
  <2>8. OpenOrClosing'
    BY <1>2, <1>b, <2>3, <2>4 DEF Stages, OpenOrClosing, Closing
  <2>9. hid_channels.control_cid \in Cid \cup {NoCid}
    BY <1>a DEF HidChannel
  <2>10. CidsAreLive'
    BY <1>2, <1>b, <1>c, <2>2, <2>3, <2>9 DEF Stages, CidsAreLive
  <2>11. Awaited'
    BY <1>c, <2>2, <2>3, <2>4, <1>b DEF Awaited, Opening
  <2> QED
    BY <2>6, <2>7, <2>8, <2>10, <2>11 DEF Stages
<1>3. Stay => current_state' # "Inquiry"
  BY <1>b DEF Stay
<1>4. GoTo("OpeningInterrupt") => current_state' # "Inquiry"
  BY DEF GoTo
<1>5. CASE OpenInterruptChannel
  <2>1. CASE DisconnectAfterError(Stay, hid_channels) /\ UNCHANGED channels
    BY <1>1, <1>3, <2>1
  <2>2. CASE DisconnectAfterError(GoTo("OpeningInterrupt"), hid_channels)
             /\ UNCHANGED channels
    BY <1>1, <1>4, <2>2
  <2>3. CASE \E c \in Cid :
                 /\ CreateChannel(c, Dev.interrupt_psm)
                 /\ hid_channels' = [hid_channels EXCEPT !.interrupt_cid = c]
                 /\ GoTo("OpeningInterrupt") /\ UNCHANGED closing
    BY <1>2, <2>3
  <2> QED
    BY <1>5, <2>1, <2>2, <2>3 DEF OpenInterruptChannel, Dev
<1>6. CASE DisconnectAfterError(Stay, hid_channels) /\ UNCHANGED channels
  BY <1>1, <1>3, <1>6
<1> QED
  BY <1>5, <1>6 DEF Handshake

LEMMA HidTrafficStages ==
    TypeInv /\ TypeInv' /\ Link /\ Wires /\ DevicesKnown /\ Stages /\ HidTraffic
        => Stages'
<1> SUFFICES ASSUME TypeInv, TypeInv', Link, Wires, DevicesKnown, Stages, HidTraffic
             PROVE  Stages'
  OBVIOUS
<1>a. UNCHANGED <<devices, connected_device_addr>>
  BY DEF HidTraffic, ChannelOpened, ChannelOpenFailed, ChannelClosed,
     SendSetProtocol, SendLedReport, CanSendIgnored, Handshake,
     HandshakeIgnored, InterruptReport
<1>b. hid_channels \in HidChannel(Cid) /\ channels \in [Cid -> Channel]
  BY ChannelsAreTyped DEF TypeInv, TypeOK
<1>1. ASSUME NEW c \in Cid, ChannelOpened(c)
      PROVE  Stages'
  BY <1>1, OpenedStages
<1>2. ASSUME NEW c \in Cid, ChannelOpenFailed(c)
      PROVE  Stages'
  <2>1. /\ \A d \in Cid : Opening(d) => d = c
        /\ current_state \in {"OpeningControl", "OpeningInterrupt"}
        /\ handshake_due = NoCid
        /\ ~hid_channels.boot_protocol_request_pending
        /\ acl_handle # NoHandle
    BY <1>2, OpeningAlone DEF ChannelOpenFailed
  <2>2. Stay /\ hid_channels' = hid_channels /\ acl_handle' \in closing'
    BY <1>2, <2>1, DisconnectCloses DEF ChannelOpenFailed
  <2>3. /\ channels'[c].link = NoHandle
        /\ \A d \in Cid : d # c => channels'[d] = channels[d]
    BY <1>2, <1>b DEF ChannelOpenFailed, NoChannel
  <2>4. OneOpening'
    BY <2>1, <2>3 DEF OneOpening, Opening
  <2>5. current_state' # "Inquiry" /\ handshake_due' = NoCid
    BY <1>2, <2>1, <2>2 DEF ChannelOpenFailed, Stay
  <2> QED
    BY <2>1, <2>2, <2>4, <2>5, StagesClosing
<1>3. ASSUME NEW c \in Cid, ChannelClosed(c)
      PROVE  Stages'
  BY <1>3, <1>a, ClosedStages
<1>4. ASSUME NEW c \in Cid, SendSetProtocol(c)
      PROVE  Stages'
  BY <1>4, SetProtocolStages
<1>5. ASSUME NEW c \in Cid, SendLedReport(c) \/ CanSendIgnored(c)
      PROVE  Stages'
  <2>1. UNCHANGED <<current_state, acl_handle, channels, handshake_due, sdp_query,
                    closing, inquiring>>
    BY <1>5 DEF SendLedReport, CanSendIgnored
  <2>2. SameChannels(hid_channels', hid_channels)
    BY <1>5, <1>b DEF SendLedReport, CanSendIgnored, SameChannels, HidChannel
  <2>3. hid_channels.boot_protocol_request_pending
        /\ hid_channels.control_cid \in can_send
            => hid_channels.control_cid \in can_send'
    BY <1>5 DEF SendLedReport, CanSendIgnored, CanSend
  <2>4. SameDev
    BY <1>a DEF SameDev, Dev, ConnectedDevice
  <2> QED
    BY <2>1, <2>2, <2>3, <2>4, StagesQuiet
<1>6. ASSUME NEW ok \in BOOLEAN, Handshake(ok)
      PROVE  Stages'
  BY <1>6, HandshakeStages
<1>7. ~HandshakeIgnored
  BY DEF HandshakeIgnored, Stages, SetProtocolOnce
<1>8. ASSUME NEW report, InterruptReport(report)
      PROVE  Stages'
  BY <1>8, StagesBeside DEF InterruptReport
<1> QED
  BY <1>1, <1>2, <1>3, <1>4, <1>5, <1>6, <1>7, <1>8 DEF HidTraffic

LEMMA RequestsStages ==
    TypeInv /\ TypeInv' /\ Link /\ Wires /\ DevicesKnown /\ Stages /\ ControlRequests
        => Stages'
<1> SUFFICES ASSUME TypeInv, TypeInv', Link, Wires, DevicesKnown, Stages,
                    ControlRequests
             PROVE  Stages'
  OBVIOUS
<1>a. ASSUME current_state = "Idle", UNCHANGED <<wireVars, hid_channels>>,
             StartInquiry \/ \E a : BeginConnection(a)
      PROVE  Stages'
  <2>1. acl_handle = NoHandle
    BY <1>a, NoLink DEF LinkStates
  <2>2. /\ current_state' \in {"Idle", "Inquiry", "Connecting"}
        /\ current_state' = "Inquiry" => inquiring'
    BY <1>a DEF StartInquiry, BeginConnection, GoTo
  <2> QED
    BY <1>a, <2>1, <2>2, StagesOff
<1>1. CASE ExecuteScan
  BY <1>1, <1>a DEF ExecuteScan
<1>2. ASSUME NEW a \in Addr, ExecuteConnect(a)
      PROVE  Stages'
  BY <1>2, <1>a DEF ExecuteConnect
<1>3. CASE ExecuteDisconnect
  <2>1. closing \subseteq closing'
    BY <1>3 DEF ExecuteDisconnect, EndConnection, GapDisconnect
  <2> QED
    BY <1>3, <2>1, StagesBeside DEF ExecuteDisconnect
<1>4. CASE ExecuteReconnect
  <2>1. \/ UNCHANGED <<stateVars, inquiring, devices>>
        \/ current_state = "Idle" /\ (StartInquiry \/ \E a : BeginConnection(a))
    BY <1>4 DEF ExecuteReconnect
  <2>2. UNCHANGED <<linkVars, wireVars, closing, sdp_query, hid_channels>>
    BY <1>4 DEF ExecuteReconnect
  <2>3. CASE UNCHANGED <<stateVars, inquiring, devices>>
    BY <2>2, <2>3, StagesBeside
  <2> QED
    BY <1>a, <2>1, <2>2, <2>3
<1>5. CASE ExecuteForget
  <2>1. closing \subseteq closing'
    BY <1>5 DEF ExecuteForget, EndConnection, GapDisconnect
  <2>2. Extends(devices', devices)
    BY <1>5, BesideExtends
  <2> QED
    BY <1>5, <2>1, <2>2, StagesExtended DEF ExecuteForget
<1> QED
  BY <1>1, <1>2, <1>3, <1>4, <1>5 DEF ControlRequests

LEMMA StepStages ==
    ~AllowStale /\ TypeInv /\ TypeInv' /\ Link /\ Wires /\ DevicesKnown /\ Stages
    /\ [Next]_vars
        => Stages'
<1> SUFFICES ASSUME ~AllowStale, TypeInv, TypeInv', Link, Wires, DevicesKnown,
                    Stages, [Next]_vars
             PROVE  Stages'
  OBVIOUS
<1>a. hid_channels \in HidChannel(Cid)
  BY ChannelsAreTyped DEF TypeInv
<1>1. CASE Search \/ Paging \/ Discovery \/ HidTraffic \/ ControlRequests
  BY <1>1, SearchStages, PagingStages, DiscoveryStages, HidTrafficStages,
     RequestsStages
<1>2. CASE PairingEvents
  <2>1. UNCHANGED <<current_state, linkVars, wireVars, sdp_query, closing,
                    inquiring, hid_channels>>
    BY <1>2 DEF PairingEvents, PinCodeRequest, LinkKeyNotification, PairingPinTimeout
  <2>2. Extends(devices', devices)
    BY <1>2, BesideExtends
  <2> QED
    BY <2>1, <2>2, StagesExtended
<1>3. CASE InquiryTimer
  <2>1. CASE current_state = "Idle" /\ BeginConnection(selected_device)
    <3>1. acl_handle = NoHandle /\ current_state' \in {"Idle", "Connecting"}
      BY <2>1, NoLink DEF LinkStates, BeginConnection, GoTo
    <3> QED
      BY <1>3, <3>1, StagesOff DEF InquiryTimer
  <2>2. CASE UNCHANGED <<stateVars, devices>>
    BY <1>3, <2>2, StagesBeside DEF InquiryTimer
  <2> QED
    BY <1>3, <2>1, <2>2 DEF InquiryTimer
<1>4. ASSUME NEW h \in Handle, DisconnectionComplete(h)
      PROVE  Stages'
  <2>1. h = acl_handle
    BY <1>4 DEF DisconnectionComplete, Link, LinkTracked
  <2>2. \A c \in Cid : channels[c].link = NoHandle
    BY <1>4, <2>1 DEF DisconnectionComplete, Wires, ChannelsOnLink
  <2>3. handshake_due = NoCid
    BY <2>2, NoChannels
  <2>4. /\ UNCHANGED <<channels, handshake_due>> /\ current_state' = "Idle"
        /\ hid_channels' = ResetConnection(hid_channels)
    BY <1>4 DEF DisconnectionComplete, GoTo
  <2>5. /\ ~hid_channels'.boot_protocol_request_pending
        /\ hid_channels'.control_cid = NoCid /\ hid_channels'.interrupt_cid = NoCid
    BY <2>4 DEF ResetConnection, InitialHidChannels
  <2> QED
    BY <2>2, <2>3, <2>4, <2>5, StagesNone DEF ChannelStates
<1>5. CASE (\E byte \in LedReport : SetKeyboardLeds(byte)) \/ ScheduleLedReportTask
  <2>1. UNCHANGED <<current_state, linkVars, devices, channels, handshake_due,
                    closing, sdp_query, inquiring>>
    BY <1>5 DEF SetKeyboardLeds, ScheduleLedReportTask
  <2>2. SameChannels(hid_channels', hid_channels) /\ can_send \subseteq can_send'
    <3>1. ASSUME NEW byte, SetKeyboardLeds(byte)
          PROVE  SameChannels(hid_channels', hid_channels) /\ can_send \subseteq can_send'
      BY <3>1, <1>a DEF SetKeyboardLeds, SetLeds, SameChannels, HidChannel
    <3> QED
      BY <1>5, <1>a, <3>1, ScheduleChannels DEF ScheduleLedReportTask
  <2>3. SameDev
    BY <2>1 DEF SameDev, Dev, ConnectedDevice
  <2> QED
    BY <2>1, <2>2, <2>3, StagesQuiet
<1>6. CASE PowerCycle
  <2>1. /\ \A c \in Cid : channels'[c].link = NoHandle
        /\ handshake_due' = NoCid
    BY <1>6 DEF PowerCycle, NoChannel
  <2>2. /\ ~hid_channels'.boot_protocol_request_pending
        /\ hid_channels'.control_cid = NoCid /\ hid_channels'.interrupt_cid = NoCid
        /\ current_state' = "Initializing"
    BY <1>6 DEF PowerCycle, InitialHidChannels
  <2> QED
    BY <2>1, <2>2, StagesNone DEF ChannelStates
<1>7. CASE UNCHANGED vars
  BY <1>7, StagesBeside DEF vars
<1> QED
  BY <1>1, <1>2, <1>3, <1>4, <1>5, <1>6, <1>7 DEF Next

LEMMA StagesInvariant ==
    ASSUME ~AllowStale
    PROVE  Spec => []Stages
<1>1. Init => Stages
  BY InitStages
<1>2. TypeInv /\ TypeInv' /\ Link /\ Wires /\ DevicesKnown /\ Stages
      /\ [Next]_vars
          => Stages'
  BY StepStages
<1> QED
  BY <1>1, <1>2, LinkInvariant, KnownInvariant, PTL DEF Spec

-----------------------------------------------------------------------------
\* A HID connection that lost one of its channels is being closed: no keyboard
\* stays connected that can only type, or only be told its LEDs.
THEOREM HalfOpenAlwaysCloses ==
    ASSUME ~AllowStale
    PROVE  Spec => []HalfOpenIsClosing
<1>1. Stages => HalfOpenIsClosing
  BY DEF Stages, OpenOrClosing, HalfOpenIsClosing, Closing
<1> QED
  BY <1>1, StagesInvariant, PTL

\* A CID in the program's record is that of a channel of the link, or the link
\* is being closed: no identifier outlives its channel and is used for another.
THEOREM CidsAlwaysLive ==
    ASSUME ~AllowStale
    PROVE  Spec => []CidsAreLive
<1>1. Stages => CidsAreLive
  BY DEF Stages
<1> QED
  BY <1>1, StagesInvariant, PTL

\* In every state what the program waits for is owed to it by the stack or the
\* keyboard, or the link is being closed: no state is a dead end.
THEOREM NeverAwaitsInVain ==
    ASSUME ~AllowStale
    PROVE  Spec => []NothingAwaitedInVain
<1>1. TypeInv /\ Link /\ Stages => NothingAwaitedInVain
  <2> SUFFICES ASSUME TypeInv, Link, Stages, ~Closing
               PROVE  NothingAwaitedInVain
    BY DEF NothingAwaitedInVain, Closing
  <2>1. current_state = "Inquiry" => inquiring
    BY DEF Stages, Awaited
  <2>2. current_state = "Connecting" => paging # {}
    BY DEF Link, PageAccounted
  <2>3. current_state # "Connected"
    BY DEF Stages, Awaited
  <2>4. current_state = "ServiceDiscovery" => sdp_query = acl_handle
    BY DEF Stages, Awaited
  <2>5. current_state = "OpeningControl" =>
            \E c \in Cid : c = hid_channels.control_cid /\ Opening(c)
    BY DEF Stages, Awaited
  <2>6. current_state = "SettingBootProtocol" =>
            hid_channels.control_cid \in can_send \/ handshake_due # NoCid
    BY DEF Stages, SetProtocolOnce
  <2>7. current_state = "OpeningInterrupt" =>
            \E c \in Cid : c = hid_channels.interrupt_cid /\ Opening(c)
    BY DEF Stages, Awaited
  <2> QED
    BY <2>1, <2>2, <2>3, <2>4, <2>5, <2>6, <2>7 DEF NothingAwaitedInVain
<1> QED
  BY <1>1, LinkInvariant, StagesInvariant, PTL

-----------------------------------------------------------------------------
(* The order of the states.  It depends on the keyboard naming two PSMs:   *)
(* l2cap_packet_handler tells the channels apart by them.                  *)

SettingUp == {"OpeningControl", "SettingBootProtocol", "OpeningInterrupt"}

\* While services are discovered the PSMs are those of the query so far; then
\* they tell the channels apart.
PsmsApart ==
    /\ current_state = "ServiceDiscovery" =>
           /\ Dev.control_psm \in ControlPsm \cup {0}
           /\ Dev.interrupt_psm \in InterruptPsm \cup {0}
    /\ current_state \in SettingUp => Dev.control_psm # Dev.interrupt_psm

TransitionStep ==
    \/ TransitionAllowed(current_state, current_state')
    \/ current_state = "Connecting" /\ current_state' = "Authenticating"
    \/ current_state = "Initializing" /\ current_state' = "Connecting"
    \/ PowerCycle

LEMMA TransitionCases ==
    /\ UNCHANGED current_state => TransitionStep
    /\ current_state' = "Idle" => TransitionStep
    /\ <<current_state, current_state'>> \in ForwardSteps => TransitionStep
  BY DEF TransitionStep, TransitionAllowed

\* L2CAP_EVENT_CHANNEL_OPENED moves the state forward.
LEMMA OpenedMoves ==
    ASSUME TypeInv, TypeInv', DevicesKnown, Wires, Stages, PsmsApart,
           NEW c \in Cid, ChannelOpened(c)
    PROVE  \/ /\ current_state = "OpeningControl"
              /\ current_state' = "SettingBootProtocol"
           \/ current_state = "OpeningInterrupt" /\ current_state' = "HIDConnected"
<1>1. /\ Opening(c) /\ UNCHANGED <<acl_handle, connected_device_addr>>
      /\ current_state \in {"OpeningControl", "OpeningInterrupt"}
      /\ acl_handle # NoHandle
  BY OpeningAlone DEF ChannelOpened
<1>2. ConnectedDevice # 0
  BY <1>1, DevStays DEF OnLinkStates, LinkStates
<1>3. Dev.control_psm # Dev.interrupt_psm
  BY <1>1 DEF PsmsApart, SettingUp
<1>4. CASE current_state = "OpeningControl"
  <2>1. channels[c].psm = devices[ConnectedDevice].control_psm
    BY <1>1, <1>4 DEF Stages, OneOpening, Dev
  <2>2. ControlChannelOpened(c)
    BY <1>2, <2>1 DEF ChannelOpened
  <2>3. GoTo("SettingBootProtocol")
    BY <1>1, <2>2 DEF ControlChannelOpened, DisconnectAfterError
  <2> QED
    BY <1>4, <2>3 DEF GoTo
<1>5. CASE current_state = "OpeningInterrupt"
  <2>1. /\ channels[c].psm = devices[ConnectedDevice].interrupt_psm
        /\ channels[c].psm # devices[ConnectedDevice].control_psm
    BY <1>1, <1>3, <1>5 DEF Stages, OneOpening, Dev
  <2>2. InterruptChannelOpened(c)
    BY <1>2, <2>1 DEF ChannelOpened
  <2> QED
    BY <1>5, <2>2 DEF InterruptChannelOpened, GoTo
<1> QED
  BY <1>1, <1>4, <1>5

LEMMA StepMoves ==
    ~AllowStale /\ TypeInv /\ TypeInv' /\ Link /\ Wires /\ DevicesKnown /\ Stages
    /\ PsmsApart /\ Next
        => TransitionStep
<1> SUFFICES ASSUME ~AllowStale, TypeInv, TypeInv', Link, Wires, DevicesKnown,
                    Stages, PsmsApart, Next
             PROVE  TransitionStep
  OBVIOUS
<1>a. \A a : BeginConnection(a) =>
          current_state' = "Connecting" \/ current_state' = "Idle"
  BY DEF BeginConnection, GoTo
<1>1. CASE Search
  <2>1. BtstackWorking => /\ current_state = "Initializing"
                          /\ current_state' \in {"Connecting", "Idle"}
    BY <1>a DEF BtstackWorking, GoTo
  <2>2. InquiryComplete => /\ current_state = "Inquiry"
                           /\ current_state' \in {"Connecting", "Idle"}
    <3>1. InquiryComplete =>
              BeginConnection(InquiryTarget) \/ GoTo("Idle")
      BY DEF InquiryComplete
    <3> QED
      BY <3>1, <1>a DEF InquiryComplete, GoTo
  <2>3. \/ BtstackWorking \/ InquiryComplete
        \/ UNCHANGED current_state
    BY <1>1 DEF Search, StaleInquiryComplete, InquiryResult
  <2>4. <<"Inquiry", "Connecting">> \in ForwardSteps
    BY DEF ForwardSteps
  <2> QED
    BY <2>1, <2>2, <2>3, <2>4, TransitionCases DEF TransitionStep
<1>2. CASE Paging
  <2>1. /\ current_state = "Connecting"
        /\ current_state' \in {"Authenticating", "Connected", "Idle"}
    BY <1>2
    DEF Paging, ConnectionFailed, ConnectionEstablished,
        CancelledConnectionEstablished, StaleConnectionComplete, GoTo
  <2>2. <<"Connecting", "Connected">> \in ForwardSteps
    BY DEF ForwardSteps
  <2> QED
    BY <2>1, <2>2, TransitionCases DEF TransitionStep
<1>3. CASE Discovery
  <2>1. \/ UNCHANGED current_state
        \/ current_state = "Authenticating" /\ current_state' = "ServiceDiscovery"
        \/ current_state = "ServiceDiscovery" /\ current_state' = "OpeningControl"
    BY <1>3, WiresShowLink
    DEF Discovery, LinkSecured, StartSdpDiscovery, SecurityFailed, Authenticating,
        SdpControlAttribute, SdpInterruptAttribute, SdpAttribute, SdpComplete,
        OpenControlChannel, DisconnectAfterError, Stay, GoTo
  <2> QED
    BY <2>1, TransitionCases DEF ForwardSteps
<1>4. CASE HidTraffic
  <2>1. ASSUME NEW c \in Cid, ChannelOpened(c)
        PROVE  TransitionStep
    BY <2>1, OpenedMoves, TransitionCases DEF ForwardSteps
  <2>2. ASSUME NEW ok \in BOOLEAN, Handshake(ok)
        PROVE  TransitionStep
    <3>1. acl_handle # NoHandle /\ current_state = "SettingBootProtocol"
      BY <2>2 DEF Handshake, Link, LinkTracked, LinkStates
    <3>2. UNCHANGED current_state \/ current_state' = "OpeningInterrupt"
      BY <2>2, <3>1
      DEF Handshake, OpenInterruptChannel, DisconnectAfterError, Stay, GoTo
    <3> QED
      BY <3>1, <3>2, TransitionCases DEF ForwardSteps
  <2>3. ASSUME NEW c \in Cid, ChannelOpenFailed(c) \/ SendSetProtocol(c)
        PROVE  TransitionStep
    <3>1. acl_handle # NoHandle
      BY <2>3, WiresShowLink
      DEF ChannelOpenFailed, Opening, SendSetProtocol, CanSend
    <3>2. UNCHANGED current_state
      BY <2>3, <3>1 DEF ChannelOpenFailed, SendSetProtocol, DisconnectAfterError, Stay
    <3> QED
      BY <3>2, TransitionCases
  <2>4. ASSUME \/ \E c \in Cid : ChannelClosed(c) \/ SendLedReport(c) \/ CanSendIgnored(c)
               \/ HandshakeIgnored
               \/ \E report : InterruptReport(report)
        PROVE  TransitionStep
    <3>1. UNCHANGED current_state
      BY <2>4
      DEF ChannelClosed, SendLedReport, CanSendIgnored, HandshakeIgnored, InterruptReport
    <3> QED
      BY <3>1, TransitionCases
  <2> QED
    BY <1>4, <2>1, <2>2, <2>3, <2>4 DEF HidTraffic
<1>5. CASE ControlRequests \/ InquiryTimer
  <2>1. \/ UNCHANGED current_state
        \/ /\ current_state = "Idle"
           /\ current_state' \in {"Idle", "Inquiry", "Connecting"}
    BY <1>5, <1>a
    DEF ControlRequests, ExecuteScan, ExecuteConnect, ExecuteDisconnect,
        ExecuteReconnect, ExecuteForget, StartInquiry, InquiryTimer, GoTo
  <2> QED
    BY <2>1, TransitionCases DEF ForwardSteps
<1>6. CASE PowerCycle
  BY <1>6 DEF TransitionStep
<1>7. CASE \E h \in Handle : DisconnectionComplete(h)
  BY <1>7, TransitionCases DEF DisconnectionComplete, GoTo
<1>8. CASE \/ PairingEvents
           \/ \E byte \in LedReport : SetKeyboardLeds(byte)
           \/ ScheduleLedReportTask
  <2>1. UNCHANGED current_state
    BY <1>8
    DEF PairingEvents, PinCodeRequest, LinkKeyNotification, PairingPinTimeout,
        SetKeyboardLeds, ScheduleLedReportTask
  <2> QED
    BY <2>1, TransitionCases
<1> QED
  BY <1>1, <1>2, <1>3, <1>4, <1>5, <1>6, <1>7, <1>8 DEF Next

\* What the events of the discovery do to the PSMs of the device
LEMMA PsmsOfDevice ==
    ASSUME TypeInv, TypeInv', DevicesKnown, current_state \in OnLinkStates,
           UNCHANGED connected_device_addr, NEW control, NEW interrupt
    PROVE  /\ devices' = SetPsms(devices, connected_device_addr, control, interrupt)
                  => Dev'.control_psm = control /\ Dev'.interrupt_psm = interrupt
           /\ devices' = SetControlPsm(devices, connected_device_addr, control)
                  => /\ Dev'.control_psm = control
                     /\ Dev'.interrupt_psm = Dev.interrupt_psm
           /\ devices' = SetInterruptPsm(devices, connected_device_addr, interrupt)
                  => /\ Dev'.interrupt_psm = interrupt
                     /\ Dev'.control_psm = Dev.control_psm
<1> DEFINE a == connected_device_addr
           n == Find(devices, a)
<1>1. devices \in Seq(Device(Addr, Psm)) /\ Known(devices, a)
  BY DEF TypeInv, TypeOK, DeviceList, DevicesKnown
<1>2. /\ n \in DOMAIN devices /\ devices[n].address = a
      /\ devices[n] \in Device(Addr, Psm)
  BY <1>1, FindIsCorrect
<1>3. devices' = SetPsms(devices, a, control, interrupt)
      \/ devices' = SetControlPsm(devices, a, control)
      \/ devices' = SetInterruptPsm(devices, a, interrupt)
          => ConnectedDevice' = n
  BY ListsHold, DevStays DEF ConnectedDevice
<1> HIDE DEF n
<1>4. ASSUME devices' = SetPsms(devices, a, control, interrupt)
      PROVE  Dev'.control_psm = control /\ Dev'.interrupt_psm = interrupt
  <2>1. Dev' = devices'[n]
    BY <1>3, <1>4 DEF Dev
  <2> QED
    BY <1>1, <1>4, <2>1, PsmsAreSet DEF n
<1>5. ASSUME devices' = SetControlPsm(devices, a, control)
      PROVE  Dev'.control_psm = control /\ Dev'.interrupt_psm = devices[n].interrupt_psm
  <2>1. Dev' = devices'[n]
    BY <1>3, <1>5 DEF Dev
  <2> QED
    BY <1>2, <1>5, <2>1 DEF SetControlPsm, Device
<1>6. ASSUME devices' = SetInterruptPsm(devices, a, interrupt)
      PROVE  Dev'.interrupt_psm = interrupt /\ Dev'.control_psm = devices[n].control_psm
  <2>1. Dev' = devices'[n]
    BY <1>3, <1>6 DEF Dev
  <2> QED
    BY <1>2, <1>6, <2>1 DEF SetInterruptPsm, Device
<1>7. Dev = devices[n]
  BY DEF Dev, ConnectedDevice, n
<1> QED
  BY <1>4, <1>5, <1>6, <1>7

LEMMA DiscoveryApart ==
    ASSUME TypeInv, TypeInv', Link, Wires, DevicesKnown, PsmsApart, Discovery,
           ControlPsm \cap InterruptPsm \subseteq {0}
    PROVE  PsmsApart'
<1>a. \A s : GoTo(s) => current_state' = s
  BY DEF GoTo
<1>b. current_state \in {"Authenticating", "ServiceDiscovery"} =>
          current_state \in OnLinkStates
  BY DEF OnLinkStates, LinkStates
<1>1. CASE LinkSecured
  <2>1. /\ devices' = SetPsms(devices, connected_device_addr, 0, 0)
        /\ current_state = "Authenticating" /\ UNCHANGED connected_device_addr
    BY <1>1 DEF LinkSecured, Authenticating, StartSdpDiscovery
  <2>2. current_state' = "ServiceDiscovery"
    BY <1>1, <1>a
    DEF LinkSecured, Authenticating, StartSdpDiscovery, DisconnectAfterError
  <2>3. Dev'.control_psm = 0 /\ Dev'.interrupt_psm = 0
    BY <1>b, <2>1, PsmsOfDevice
  <2> QED
    BY <2>2, <2>3 DEF PsmsApart, SettingUp
<1>2. CASE SecurityFailed
  <2>1. current_state' = "Authenticating"
    BY <1>2 DEF SecurityFailed, Authenticating, DisconnectAfterError, Stay
  <2> QED
    BY <2>1 DEF PsmsApart, SettingUp
<1>3. ASSUME NEW psm \in ControlPsm, SdpControlAttribute(psm)
      PROVE  PsmsApart'
  <2>1. /\ current_state = "ServiceDiscovery" /\ current_state' = "ServiceDiscovery"
        /\ devices' = SetControlPsm(devices, connected_device_addr, psm)
        /\ UNCHANGED connected_device_addr
    BY <1>3, WiresShowLink DEF SdpControlAttribute, SdpAttribute
  <2>2. Dev'.control_psm = psm /\ Dev'.interrupt_psm = Dev.interrupt_psm
    BY <1>b, <2>1, PsmsOfDevice
  <2> QED
    BY <2>1, <2>2 DEF PsmsApart, SettingUp
<1>4. ASSUME NEW psm \in InterruptPsm, SdpInterruptAttribute(psm)
      PROVE  PsmsApart'
  <2>1. /\ current_state = "ServiceDiscovery" /\ current_state' = "ServiceDiscovery"
        /\ devices' = SetInterruptPsm(devices, connected_device_addr, psm)
        /\ UNCHANGED connected_device_addr
    BY <1>4, WiresShowLink DEF SdpInterruptAttribute, SdpAttribute
  <2>2. Dev'.interrupt_psm = psm /\ Dev'.control_psm = Dev.control_psm
    BY <1>b, <2>1, PsmsOfDevice
  <2> QED
    BY <2>1, <2>2 DEF PsmsApart, SettingUp
<1>5. ASSUME NEW ok \in BOOLEAN, SdpComplete(ok)
      PROVE  PsmsApart'
  <2>1. /\ current_state = "ServiceDiscovery" /\ acl_handle # NoHandle
        /\ UNCHANGED connected_device_addr
    BY <1>5, WiresShowLink DEF SdpComplete
  <2>2. CASE DisconnectAfterError(Stay, hid_channels) /\ UNCHANGED devices
    <3>1. UNCHANGED <<current_state, Dev>>
      BY <2>1, <2>2 DEF DisconnectAfterError, Stay, Dev, ConnectedDevice
    <3> QED
      BY <2>1, <3>1 DEF PsmsApart, SettingUp
  <2>3. CASE /\ devices' = SetPsms(devices, connected_device_addr,
                                   StandardControlPsm, StandardInterruptPsm)
             /\ \E psm : OpenControlChannel(psm)
    <3>1. current_state' = "OpeningControl"
      BY <2>1, <2>3, <1>a DEF OpenControlChannel, DisconnectAfterError
    <3>2. Dev'.control_psm = 17 /\ Dev'.interrupt_psm = 19
      BY <1>b, <2>1, <2>3, PsmsOfDevice DEF StandardControlPsm, StandardInterruptPsm
    <3> QED
      BY <3>1, <3>2 DEF PsmsApart, SettingUp
  <2>4. CASE /\ UNCHANGED devices
             /\ Dev.control_psm # 0 /\ Dev.interrupt_psm # 0
             /\ \E psm : OpenControlChannel(psm)
    <3>1. current_state' = "OpeningControl"
      BY <2>1, <2>4, <1>a DEF OpenControlChannel, DisconnectAfterError
    <3>2. UNCHANGED Dev
      BY <2>1, <2>4 DEF Dev, ConnectedDevice
    <3>3. Dev.control_psm \in ControlPsm /\ Dev.interrupt_psm \in InterruptPsm
      BY <2>1, <2>4 DEF PsmsApart
    <3>4. Dev.control_psm # Dev.interrupt_psm
      BY <2>4, <3>3
    <3> QED
      BY <3>1, <3>2, <3>4 DEF PsmsApart
  <2> QED
    BY <1>5, <2>2, <2>3, <2>4 DEF SdpComplete, Dev
<1> QED
  BY <1>1, <1>2, <1>3, <1>4, <1>5 DEF Discovery

\* Once it is known, nothing but the discovery touches the device's PSMs.
LEMMA DeviceKept ==
    ASSUME TypeInv, TypeInv', DevicesKnown, ~AllowStale, Next, ~Discovery,
           current_state \in SettingUp \cup {"ServiceDiscovery"},
           current_state' \in SettingUp \cup {"ServiceDiscovery"}
    PROVE  SameDev
<1>a. current_state \in OnLinkStates
  BY DEF SettingUp, OnLinkStates, LinkStates
<1>b. UNCHANGED <<connected_device_addr, devices>>
      \/ (UNCHANGED connected_device_addr /\ Extends(devices', devices))
          => SameDev
  BY <1>a, DevStays DEF SameDev, Dev, ConnectedDevice
<1>1. CASE Search
  <2>1. \/ StaleInquiryComplete
        \/ \E a \in Addr, keyboard \in InquiryClass : InquiryResult(a, keyboard)
    BY <1>1 DEF Search, BtstackWorking, InquiryComplete, SettingUp
  <2> QED
    BY <1>b, <2>1, BesideExtends DEF StaleInquiryComplete, InquiryResult
<1>2. CASE HidTraffic
  BY <1>2, <1>b
  DEF HidTraffic, ChannelOpened, ChannelOpenFailed, ChannelClosed,
      SendSetProtocol, SendLedReport, CanSendIgnored, Handshake,
      HandshakeIgnored, InterruptReport
<1>3. CASE PairingEvents
  <2>1. UNCHANGED connected_device_addr
    BY <1>3 DEF PairingEvents, PinCodeRequest, LinkKeyNotification, PairingPinTimeout
  <2> QED
    BY <1>3, <1>b, <2>1, BesideExtends
<1>4. CASE ControlRequests
  <2>1. UNCHANGED connected_device_addr
    BY <1>4
    DEF ControlRequests, ExecuteScan, ExecuteConnect, ExecuteDisconnect,
        ExecuteReconnect, ExecuteForget
  <2>2. UNCHANGED devices \/ ExecuteForget
    BY <1>4
    DEF ControlRequests, ExecuteScan, ExecuteConnect, ExecuteDisconnect,
        ExecuteReconnect, SettingUp
  <2> QED
    BY <1>b, <2>1, <2>2, BesideExtends
<1>5. CASE InquiryTimer
  BY <1>5, <1>b DEF InquiryTimer, SettingUp
<1>6. CASE (\E byte \in LedReport : SetKeyboardLeds(byte)) \/ ScheduleLedReportTask
  BY <1>6, <1>b DEF SetKeyboardLeds, ScheduleLedReportTask
<1>7. ~Paging
  BY DEF Paging, ConnectionFailed, ConnectionEstablished,
     CancelledConnectionEstablished, StaleConnectionComplete, SettingUp
<1>8. ~PowerCycle /\ ~\E h \in Handle : DisconnectionComplete(h)
  BY DEF PowerCycle, DisconnectionComplete, GoTo, SettingUp
<1> QED
  BY <1>1, <1>2, <1>3, <1>4, <1>5, <1>6, <1>7, <1>8 DEF Next

\* Only the discovery makes the two steps that lead to the channels.
LEMMA DiscoveryLeads ==
    ASSUME Next, ~Discovery, current_state' \in {"ServiceDiscovery", "OpeningControl"}
    PROVE  UNCHANGED current_state
<1>a. \A s : GoTo(s) => current_state' = s
  BY DEF GoTo
<1>b. \A a : ~BeginConnection(a)
  BY DEF BeginConnection, GoTo
<1>c. ASSUME NEW ACTION Move, NEW h, DisconnectAfterError(Move, h)
      PROVE  Move
  BY <1>c, <1>a DEF DisconnectAfterError
<1>1. CASE HidTraffic
  <2>1. ASSUME NEW c \in Cid, ChannelOpened(c)
        PROVE  UNCHANGED current_state
    <3>1. ~ControlChannelOpened(c)
      BY <1>a DEF ControlChannelOpened, DisconnectAfterError
    <3>2. ~InterruptChannelOpened(c)
      BY <1>a DEF InterruptChannelOpened
    <3> QED
      BY <2>1, <3>1, <3>2, <1>c DEF ChannelOpened, Stay
  <2>2. ASSUME NEW ok \in BOOLEAN, Handshake(ok)
        PROVE  UNCHANGED current_state
    BY <2>2, <1>a DEF Handshake, OpenInterruptChannel, DisconnectAfterError, Stay
  <2>3. ASSUME NEW c \in Cid, ChannelOpenFailed(c) \/ SendSetProtocol(c)
        PROVE  UNCHANGED current_state
    BY <2>3, <1>a DEF ChannelOpenFailed, SendSetProtocol, DisconnectAfterError, Stay
  <2> QED
    BY <1>1, <2>1, <2>2, <2>3
    DEF HidTraffic, ChannelClosed, SendLedReport, CanSendIgnored, HandshakeIgnored,
        InterruptReport
<1>2. CASE Search
  BY <1>2, <1>a, <1>b
  DEF Search, BtstackWorking, InquiryComplete, StaleInquiryComplete, InquiryResult
<1>3. CASE Paging
  BY <1>3, <1>a
  DEF Paging, ConnectionFailed, ConnectionEstablished,
      CancelledConnectionEstablished, StaleConnectionComplete
<1>4. CASE ControlRequests \/ InquiryTimer
  BY <1>4, <1>a, <1>b
  DEF ControlRequests, ExecuteScan, ExecuteConnect, ExecuteDisconnect,
      ExecuteReconnect, ExecuteForget, StartInquiry, InquiryTimer
<1> QED
  BY <1>1, <1>2, <1>3, <1>4, <1>a
  DEF Next, PairingEvents, PinCodeRequest, LinkKeyNotification, PairingPinTimeout,
      DisconnectionComplete, SetKeyboardLeds, ScheduleLedReportTask, PowerCycle

LEMMA StepApart ==
    ASSUME ControlPsm \cap InterruptPsm \subseteq {0}
    PROVE  ~AllowStale /\ TypeInv /\ TypeInv' /\ Link /\ Wires /\ DevicesKnown
           /\ Stages /\ PsmsApart /\ [Next]_vars
               => PsmsApart'
<1> SUFFICES ASSUME ~AllowStale, TypeInv, TypeInv', Link, Wires, DevicesKnown,
                    Stages, PsmsApart, [Next]_vars
             PROVE  PsmsApart'
  OBVIOUS
<1>1. CASE UNCHANGED vars
  BY <1>1 DEF vars, PsmsApart, Dev, ConnectedDevice
<1>2. CASE Discovery
  BY <1>2, DiscoveryApart
<1>3. CASE Next /\ ~Discovery
  <2>1. TransitionStep
    BY <1>3, StepMoves
  <2>2. /\ current_state' = "ServiceDiscovery" => current_state = "ServiceDiscovery"
        /\ current_state' \in SettingUp => current_state \in SettingUp
    <3>1. current_state' \in {"ServiceDiscovery", "OpeningControl"} =>
              UNCHANGED current_state
      BY <1>3, DiscoveryLeads
    <3>2. ~PowerCycle \/ current_state' = "Initializing"
      BY DEF PowerCycle
    <3>3. /\ current_state' = "SettingBootProtocol" => current_state \in SettingUp
          /\ current_state' = "OpeningInterrupt" => current_state \in SettingUp
      BY <2>1, <3>2 DEF TransitionStep, TransitionAllowed, ForwardSteps, SettingUp
    <3> QED
      BY <3>1, <3>3 DEF SettingUp
  <2>3. current_state' \in SettingUp \cup {"ServiceDiscovery"} => SameDev
    BY <1>3, <2>2, DeviceKept
  <2> QED
    BY <2>2, <2>3 DEF PsmsApart, SameDev
<1> QED
  BY <1>1, <1>2, <1>3

LEMMA ApartInvariant ==
    ASSUME ~AllowStale, ControlPsm \cap InterruptPsm \subseteq {0}
    PROVE  Spec => []PsmsApart
<1>1. Init => PsmsApart
  BY DEF Init, BootsWith, PsmsApart, SettingUp
<1>2. TypeInv /\ TypeInv' /\ Link /\ Wires /\ DevicesKnown
      /\ Stages /\ PsmsApart /\ [Next]_vars
          => PsmsApart'
  BY StepApart
<1> QED
  BY <1>1, <1>2, LinkInvariant, KnownInvariant, StagesInvariant, PTL DEF Spec

\* Every state change is one that the table in bt_state.c expects, if the two
\* PSMs a record may name are never the same.
THEOREM TransitionsAlwaysAllowed ==
    ASSUME ~AllowStale, ControlPsm \cap InterruptPsm \subseteq {0}
    PROVE  Spec => TransitionsAllowed
<1>1. TypeInv /\ TypeInv' /\ Link /\ Wires /\ DevicesKnown
      /\ Stages /\ PsmsApart /\ [Next]_vars
          => [TransitionStep]_vars
  BY StepMoves
<1> QED
  BY <1>1, LinkInvariant, KnownInvariant, StagesInvariant, ApartInvariant, PTL
  DEF Spec, TransitionsAllowed, TransitionStep

=============================================================================
