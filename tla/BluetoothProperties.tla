------------------------- MODULE BluetoothProperties -------------------------
(***************************************************************************)
(* What the connection manager of Bluetooth.tla must do: its type          *)
(* invariant, safety invariants, action properties and liveness.  Most     *)
(* hold in every environment the module can describe without stale         *)
(* connection completions (AllowStale = FALSE); those that hold with them  *)
(* are checked there too.  The last group states what the documentation    *)
(* says and the code does not do: TLC refutes each of them.                *)
(***************************************************************************)
EXTENDS Bluetooth

\* Every variable keeps its type; the device list, the statically sized array of
\* device_manager.c, never grows past MaxDevices.
TypeOK ==
    /\ current_state \in BtState
    /\ pairing_pin_pending \in BOOLEAN
    /\ acl_handle \in Handle \cup {NoHandle}
    /\ connected_device_addr \in Addr \cup {NoAddr}
    /\ connecting_device_addr \in Addr \cup {NoAddr}
    /\ connection_cancel_requested \in BOOLEAN
    /\ inquiry_timer_armed \in BOOLEAN
    /\ auto_connect_enabled \in BOOLEAN
    /\ selected_device \in Addr \cup {NoAddr}
    /\ devices \in DeviceList(Device(Addr, Psm), MaxDevices)
    /\ hid_channels \in HidChannel(Cid)
    /\ usb_report \in {"pressed", "released"}
    /\ saved_device \in Addr \cup {NoAddr}
    /\ link_keys \subseteq Addr
    /\ inquiring \in BOOLEAN
    /\ paging \subseteq Addr
    /\ links \in [Handle -> Addr \cup {NoAddr}]
    /\ closing \subseteq Handle
    /\ sdp_query \in Handle \cup {NoHandle}
    /\ channels \in [Cid -> Channel]
    /\ can_send \subseteq Cid
    /\ handshake_due \in Cid \cup {NoCid}
    /\ keyboard_leds \in 0..31 \cup {NoLeds}

LinkStates ==
    {"Connected", "Authenticating", "ServiceDiscovery", "OpeningControl",
     "SettingBootProtocol", "OpeningInterrupt", "HIDConnected"}

\* The program knows exactly the link there is: in the states between
\* Connected and HIDConnected acl_handle is a link that is up, and no link is
\* up outside them (a link forgotten would never be closed or used again).
LinkTracked ==
    /\ current_state \in LinkStates <=> acl_handle # NoHandle
    /\ \A h \in Handle : links[h] # NoAddr <=> h = acl_handle
    /\ acl_handle # NoHandle /\ current_state # "Connected" =>
           links[acl_handle] = connected_device_addr

\* One page at a time, and the Connecting state, the address being connected
\* and the controller's page stand and fall together; a cancellation is only
\* pending while there is a page to cancel.
PageAccounted ==
    /\ current_state = "Connecting" <=> connecting_device_addr # NoAddr
    /\ paging = {connecting_device_addr} \ {NoAddr}
    /\ connection_cancel_requested => current_state = "Connecting"

\* The adapter never sits idle, willing to reconnect, without the 5 s timer
\* that makes it retry (README: "retries a direct ACL connection every 5
\* seconds"), whatever failed on the way back to Idle.
RetryScheduled ==
    current_state = "Idle" /\ auto_connect_enabled /\ selected_device # NoAddr
        => inquiry_timer_armed

\* A retry timer that fires outside Idle would be spent for nothing and leave
\* RetryScheduled broken later: the timer is only armed in Idle.
NoRetryWhileBusy == inquiry_timer_armed => current_state = "Idle"

\* Before a connection is made and after it has ended nothing is left of it:
\* no handle a command would disconnect, no channel a report would be taken from.
NothingLeft ==
    current_state \in {"Initializing", "Idle", "Inquiry", "Connecting"} =>
        acl_handle = NoHandle /\ ~hid_channels.interrupt_open

\* No key stays pressed on the USB host once the interrupt channel that could
\* release it is gone.
KeysReleased == ~hid_channels.interrupt_open => usb_report = "released"

\* A device is preferred as "bonded" only while its link key is in flash, in
\* spite of FORGET, a stale key dropped at a PIN request and failed writes.
BondedHasKey ==
    \A i \in DOMAIN devices : devices[i].bonded => devices[i].address \in link_keys

\* From authentication on, the device being connected is in the list, so that
\* none of the handlers' NULL tests fails: the list is never cleared or full
\* at the wrong moment.
ConnectedDeviceKnown ==
    current_state \in LinkStates \ {"Connected"} =>
        Known(devices, connected_device_addr)

\* When no LED report is pending the keyboard shows the host's LEDs, also
\* after a reconnection or a report superseded while it waited.
LedFidelity ==
    current_state = "HIDConnected" /\ ~hid_channels.led_report_pending =>
        keyboard_leds = hid_channels.led_state

\* The PIN prompt never outlives the page or the link it belongs to, on whatever
\* path they end.  README promises more (it "disappears when authentication
\* finishes, fails, disconnects, or times out") than the code does: a failed
\* authentication keeps the prompt until the link is down or 30 seconds are over,
\* and so does one that was asked for, and finishes, in a later state of the link.
PromptScope ==
    pairing_pin_pending =>
        current_state \in LinkStates \cup {"Connecting"}

\* A HID connection that lost one of its channels is being closed.
HalfOpenIsClosing ==
    current_state = "HIDConnected" =>
        \/ hid_channels.control_open /\ hid_channels.interrupt_open
        \/ acl_handle \in closing

\* A channel's CID in the program is the CID of a channel of this link: no
\* identifier of a closed channel or of an earlier connection survives, unless
\* the link is already being closed.
CidsAreLive ==
    \A c \in {hid_channels.control_cid, hid_channels.interrupt_cid} \ {NoCid} :
        \/ acl_handle # NoHandle /\ channels[c].link = acl_handle
        \/ acl_handle \in closing

\* What the program waits for in each state is owed to it by the stack or the
\* keyboard, or the link is being closed: no state is a dead end.
NothingAwaitedInVain ==
    LET owed == CASE current_state = "Inquiry" -> inquiring
                  [] current_state = "Connecting" -> paging # {}
                  [] current_state = "Connected" -> FALSE
                  [] current_state = "ServiceDiscovery" -> sdp_query = acl_handle
                  [] current_state = "OpeningControl" ->
                         \E c \in Cid : c = hid_channels.control_cid /\ Opening(c)
                  [] current_state = "SettingBootProtocol" ->
                         \/ hid_channels.control_cid \in can_send
                         \/ handshake_due # NoCid
                  [] current_state = "OpeningInterrupt" ->
                         \E c \in Cid : c = hid_channels.interrupt_cid /\ Opening(c)
                  [] OTHER -> TRUE
    IN  owed \/ acl_handle \in closing

\* The keyboard in flash is the one in use, so a reboot reconnects to the same
\* one (where flash writes succeed: their result is not acted upon).
SelectionPersisted == saved_device = selected_device

\* A keyboard chosen without the user naming it is one with a link key in
\* flash, if the list holds any (README: "A keyboard with a persisted link key
\* is preferred"), so the flags of the list and the keys agree at that moment.
KeyedKeyboardPreferred ==
    [][selected_device = NoAddr /\ selected_device' \notin link_keys \cup {NoAddr}
           => \/ \A i \in DOMAIN devices :
                    devices[i].hid_supported => devices[i].address \notin link_keys
              \/ \E a \in Addr : ExecuteConnect(a)
              \/ PowerCycle]_vars

\* The LEDs the host sets reach the keyboard (README: "USB keyboard LED state is
\* returned over the Bluetooth HID Control channel as a Boot Output Report").
LedReported ==
    current_state = "HIDConnected" /\ hid_channels.led_report_pending
        ~> \/ ~hid_channels.led_report_pending
           \/ current_state # "HIDConnected"

\* With automatic connection on and a keyboard selected, from some moment on,
\* the keyboard is connected again and again, after any failure of any step.
ConnectsInTheEnd ==
    <>[](auto_connect_enabled /\ selected_device # NoAddr)
        => []<>(current_state = "HIDConnected")

\* Every state change is one the table in bt_state.c expects; the handlers
\* that make two moves at once pass through Connected or Idle.
TransitionsAllowed ==
    [][\/ TransitionAllowed(current_state, current_state')
       \/ current_state = "Connecting" /\ current_state' = "Authenticating"
       \/ current_state = "Initializing" /\ current_state' = "Connecting"
       \/ PowerCycle]_vars

\* A page only ever starts while automatic connection is on, and only to the
\* selected keyboard: after DISCONNECT or FORGET nothing is paged until the
\* user asks for it (README: "disconnect and suspend automatic reconnection").
SuspendedMeansSuspended ==
    [][\A a \in paging' \ paging :
           auto_connect_enabled' /\ a = selected_device']_vars

\* After DISCONNECT or FORGET while paging, the page never becomes a connection
\* that is used: it ends in Idle, possibly by way of a link that is closing.
CancelHonoured ==
    [][connection_cancel_requested /\ ~PowerCycle =>
           \/ connection_cancel_requested'
           \/ current_state' = "Idle"
           \/ current_state' = "Connected" /\ acl_handle' \in closing']_vars

-----------------------------------------------------------------------------
(* What the repository says and the code does not do.                      *)

\* FORGET is final: without a selected keyboard no link key comes back
\* (README: "`forget` requires pairing again on the next connection").
ForgetIsFinal == [][selected_device = NoAddr => link_keys' \subseteq link_keys]_vars

=============================================================================
