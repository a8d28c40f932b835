# A TLA+ model of pico-bt-keyboard

The firmware turns a Pico W into an adapter: a Bluetooth Classic keyboard on one
side, a USB keyboard on the other. This directory holds TLA+ modules of its
connection manager, of the parsers of what a keyboard says of itself, of the
queue of control requests and the web server in front of it, of its USB report
ring and of the leases of its configuration network, TLC runs of them, and
theorems about all of these but the parsers that TLAPS checks. Line numbers are those
of the source files beside this directory.

    tlc -config Connection.cfg MCBluetooth      # section 3 names the module of each run
    tlapm BluetoothProofs.tla                   # any *Proofs.tla, section 5

## 1. The system

Everything runs in one cooperative loop (`main.c:22-26`): the USB task, the
Bluetooth task (which polls BTstack and executes queued requests) and the web
task. There are no threads and no interrupt handlers of the program's own, so a
callback, a timer handler or a request runs to its end; what varies, and what the
models are about, is the order in which the stack, the keyboard, the user and the
USB host make them happen, and which of the program's calls are refused.

| component | state it keeps | operations | talks to |
|---|---|---|---|
| connection manager `bt/bluetooth.c` | connection state, ACL handle, addresses of the connected, connecting and selected keyboard, two timers, PIN prompt | HCI, GAP, SDP, L2CAP callbacks, control requests, LED scheduling | all of the below, BTstack, flash |
| connection states `bt/bt_state.c` | none (a table) | is a transition expected | logged by the manager |
| HID channels `bt/hid_channels.c` | the two CIDs, open flags, pending requests, LED state | open, close, reset, set LEDs | called by the manager |
| device list `bt/device_manager.c` | at most 16 devices, in the order found | upsert, find, choose, clear flags | called by the manager |
| report ring `usb/hid_keyboard.c` | ring of 64 reports | send, release all, drain | fed by the manager, drained to TinyUSB; LED callback to the manager |
| control requests `bt/control_command.c`, `bt/control_request_queue.c` | CDC line buffer, queue of 8 requests | edit, parse, push, pop | CDC and web in, manager out |
| SDP parser `bt/sdp_parser.c` | a 256-byte attribute buffer, a count | feed a byte, reset | called by the manager, writes the device list |
| report descriptors `bt/hid_report_descriptor.c` | none | parse | called by the SDP parser |
| boot reports `bt/hid_boot_report.c` | none | check and copy a packet | called by the manager |
| serial log `usb/usb_serial.c` | ring of 8192 bytes, overflow flag | printf, drain | everyone, TinyUSB CDC |
| web server `web/web_config.c`, `web/control_json.c`, `web/web_ui.c` | two client slots | accept, receive, poll, error | lwIP, request queue, status snapshot |
| DHCP server `web/dhcp_server.c` | 8 leases | discover, request | lwIP |
| USB descriptors, demonstration, build files, host tools | constants, or nothing in the default build | | |

What is hard, component by component, and what makes it correct:

- *Connection manager.* An attempt is a chain of nine steps (page, authenticate,
  SDP, control channel, SET_PROTOCOL, interrupt channel, ...) each of which may be
  refused at the call, fail later, or be overtaken by a disconnection, a command
  or an event that belongs to an earlier attempt. Correct: the program's view of
  the link is the link there is; every failure closes the link before Idle;
  Idle always has a retry scheduled; a suspended or cancelled connection stays so;
  no key is left pressed; the bonded flags agree with the key database.
- *HID channels.* State that must die with a connection and state (LEDs) that must
  not. Correct: no identifier outlives its channel; the keyboard ends up with the
  host's LEDs.
- *Device list.* A bounded list searched by address in every callback and cleared
  by commands. Correct: the device being connected is always found.
- *Report ring.* Indices modulo its size, overflow, flush. Correct: in order,
  the newest state is never lost, the all-released report is next after a flush.
- *Requests.* Two submitters, a bounded queue, a line buffer that may overflow.
  Correct: refused only when full, an accepted request is executed once, in order
  and without waiting for later turns; a line is a command as a whole or not at all.
- *SDP and report descriptors.* Nested, length-prefixed data from the other side,
  in a bounded buffer, delivered byte by byte and cut off when a query fails.
  Correct: a PSM is the one the record names; a damaged value is refused or gives
  nothing it does not spell; a descriptor is read with the state its items depend on.
- *Web clients.* Two records shared by lwIP's callbacks, which may come for a
  connection that is being closed. Correct: a callback's record is its
  connection's; a silent client does not keep a record for ever.
- *Leases.* Eight addresses, expiries of 16 bits compared on a 32-bit clock that
  wraps. Correct: an address that is in use is neither given nor offered to
  another client; an expired one is found again.
- *Serial log.* A ring with an overflow notice; only displayed (not modelled).

`PROJECT.json` lists the hazards line by line with the properties that cover them.

## 2. Modules

| module | models | kind |
|---|---|---|
| `BtState` | `bt_state.[ch]` | operators |
| `HidChannels` | `hid_channels.[ch]` | operators on one record |
| `DeviceManager` | `device_manager.[ch]` | operators on a sequence of records |
| `Bluetooth` | `bluetooth.c`, composing the three above with BTstack, controller, keyboard, flash and USB host | state machine |
| `BluetoothProperties` | its properties | |
| `MCBluetooth` | instances for TLC | |
| `BluetoothDataProofs` | lemmas about the operators of `DeviceManager` and `HidChannels` | proofs |
| `BluetoothTypeProofs`, `BluetoothProofs`, `BluetoothLinkProofs` | theorems of `Bluetooth`: types; safety with stale links too; safety of the link without them | proofs |
| `KeyStream` | what the USB side promises of key states | abstract specification |
| `KeyboardReports` | `hid_keyboard.c`, TinyUSB and the host; refines `KeyStream` | state machine |
| `KeyboardReportsProofs` | its invariants and the refinement | proofs |
| `MCKeyboardReports` | instance for TLC | |
| `RequestFifo` | what a submitter of requests is promised | abstract specification |
| `ControlRequests` | the turn of `bluetooth_task` with `control_command.c` and `control_request_queue.c`; refines `RequestFifo` | state machine |
| `ControlRequestsProofs` | its invariants and the refinement | proofs |
| `MCControlRequests` | instance for TLC | |
| `WebClients` | `web_config.c` with lwIP, composed with the turn of `ControlRequests`, which it EXTENDS | state machine |
| `WebClientsProofs` | its invariants; that it implements `ControlRequests` | proofs |
| `MCWebClients` | instance for TLC | |
| `DhcpLeases` | the lease table of `dhcp_server.c` | state machine |
| `DhcpLeasesProofs` | its invariants | proofs |
| `MCDhcpLeases` | instance for TLC | |
| `ReportDescriptor` | `hid_report_descriptor.c` | operators |
| `SdpParser` | `sdp_parser.c`, which calls it | state machine |
| `ServiceRecord` | what a service record means, told without parsing; the properties of the two | reference definitions |
| `MCSdpParser` | attributes for TLC | |

`Bluetooth` EXTENDS the three operator modules, so the C structures `hid_channels`
and `device_manager` are two of its variables and each call of their functions is
an application of the operator with that function's name. Definitions called
*mutant* in a comment are wrong variants of the definition that follows them:
no specification uses them, they show that the properties notice the bug.

### How `Bluetooth` corresponds to `bluetooth.c`

The program's variables keep their names. A `..._valid` flag and its address are
one variable with the value `NoAddr` when invalid; `pairing_pin_timer_armed` is
merged with `pairing_pin_pending`, with which it always changes. Display data
(RSSI, names, class of device beyond the keyboard bit, report flags) is left out.
`usb_report` is the newest report the manager queued; what becomes of it is
`KeyboardReports`, where it is the last element of the ring.

| action | code |
|---|---|
| `BtstackWorking`, `InquiryResult`, `InquiryComplete`, `StaleInquiryComplete` | 499-588 |
| `ConnectionEstablished`, `CancelledConnectionEstablished`, `ConnectionFailed`, `StaleConnectionComplete` | the four ways of 590-649 |
| `LinkSecured`, `SecurityFailed` | 762-814 with `start_sdp_discovery` 328-355 |
| `SdpControlAttribute`, `SdpInterruptAttribute`, `SdpComplete` | 403-471 |
| `ChannelOpened`, `ChannelOpenFailed`, `ChannelClosed` | 651-711, 747-760 |
| `SendSetProtocol`, `SendLedReport`, `CanSendIgnored` | 713-745 |
| `Handshake`, `HandshakeIgnored`, `InterruptReport` | 357-401 |
| `DisconnectionComplete` | 816-832 |
| `PinCodeRequest`, `LinkKeyNotification`, `PairingPinTimeout` | 834-865, 886-929, 108-113 |
| `InquiryTimer` | 154-162 |
| `ExecuteScan`, `ExecuteConnect`, `ExecuteDisconnect`, `ExecuteReconnect`, `ExecuteForget` | 949-1057 |
| `SetKeyboardLeds`, `ScheduleLedReportTask` | 1213-1215, 1169 |
| `PowerCycle` | the static initialisers and `bluetooth_init` |

An action is a whole handler: `BeginConnection`, `DisconnectAfterError`,
`StartIdleTimer` and `GoTo` are the helper functions, and the choice
`CallResults` inside them is the status their BTstack call returns. Two moves of
`transition_to_state` within one handler (Connected then Authenticating,
Disconnected then Idle) are one step.

What BTstack, the controller and the keyboard owe the program is in the external
variables `inquiring`, `paging`, `links`, `closing`, `sdp_query`, `channels`,
`can_send`, `handshake_due` and `keyboard_leds`; an event may only arrive when it
is owed. The assumptions about them, all from how the code uses the stack:

- a link's channels and its SDP query end before its disconnection is reported;
- a connection to a device that is already linked reports the existing handle;
- PIN and link-key events may come while a link is set up or up;
- `l2cap_create_channel` writes the CID before the channel is open (the code
  passes the address of the field);
- CAN_SEND_NOW may be emitted inside the call that requests it (`SyncCanSend`).
  For SET_PROTOCOL this equals a step of its own right after it, because the flag
  is set before the call; for the LED report the event is lost, see finding 2;
- `StaleConnectionComplete` (`AllowStale`) is the environment the handler's
  defensive branch at 597-605 is written for.

Requests are executed at any moment in any order; this contains every behaviour
of the queue. `gap_inquiry_start` and `gap_disconnect`, whose results the code
ignores, are taken to be accepted, and the key database is taken never to be full:
BTstack keeps 16 keys (`btstack_config.h:20`) and replaces an old one when a 17th
device pairs, of which the program hears nothing. All that is said of keys
(`BondedHasKey`, `KeyedKeyboardPreferred` and their theorems) is said of at most 16
paired devices; beyond them a listed device may stay marked as bonded. Failure of
`cyw43_arch_init` (the program then does nothing) is left out. FORGET is one step,
also of flash.

### How `KeyboardReports` corresponds to `hid_keyboard.c`

`SendReport`, `ReleaseAll` and `HidKeyboardTask` are the three functions, with a
ring of `QueueSize` slots (64 in the code) indexed as the code does.
`tud_hid_ready()` is "the bus is up and the endpoint is free"; a refused
`tud_hid_keyboard_report` changes nothing. `HostPoll`, `Suspend`, `Resume` and
`BusReset` are the host's. `due` (the state the host must end up with) and
`release_due` (an all-released report waits to be sent) are history variables. The
code has no callback for a bus reset: a key that is held over it is not sent again
until the keyboard reports anew, and `BusReset` takes it out of `due`, so
`HostCatchesUp` does not promise it.
The LED callback at 96-107 is `SetKeyboardLeds` of `Bluetooth`.

### How `ControlRequests` corresponds to `bluetooth_task`

The build polls cyw43 (`pico_cyw43_arch_lwip_poll`), so the callbacks of the web
server run only inside `async_context_poll` at the head of `bluetooth_task`. A
turn has three phases: *poll* (`WebSubmit`: a POST endpoint submits and answers
202 or 503), *read* (`ReadChar`, `ReadEndOfLine`: at most 16 characters of the CDC
line) and *drain* (`Execute`, until the queue is empty). The queue is the C ring
with its index arithmetic; `Waiting`, its contents in order, is the refinement
mapping to `RequestFifo`. A character stands for a piece of text, which is either
the whole text of a request, a blank, or something else (two pieces that do not
make a request together); `Parse` is `control_command_parse` on such lines, with
its trimming of blanks, and with the one line it does not trim: a CONNECT with
blanks after the address, because `parse_address` looks for the end of the string
and not for the trimmed length. What is typed since the last end of line is the
history variable `typed`.

### How `WebClients` corresponds to `web_config.c`

The callbacks are actions of the poll phase: `AcceptClient` (195-213),
`ReceiveRequest`, `ReceiveOther` and `ReceivePart` (the cases of 89-193),
`PollClient` (73-81) and `ClientError` (83-87). lwIP is external: `conn` is
its view of a connection, `tcp_arg` the record it hands to the callbacks.
`CloseClient` clears the record, takes the callbacks away and closes, or aborts
when `tcp_close` fails. The header is counted in parts of which `RequestSize` fill
the buffer; a request of a POST endpoint goes to `Push` of `ControlRequests`,
answered with 202 or 503, so `WebSubmit` of that module is here the work of a
connection. Anything else that ends a request (a page, the status, an error, the
end of the stream) is `ReceiveOther`. A connection accepted without a free record
is aborted at once and takes no step.

### How `DhcpLeases` corresponds to `dhcp_server.c`

`Discover` and `Request` are the two cases of 226-320. An expiry is the upper
half of the 32-bit clock as in the code: `Clock`, `Block` and `LeaseTime` stand
for 2^32 milliseconds, 2^16 and a day, and `Expired` is the signed difference
modulo `Clock`. The loop of DISCOVER, which keeps one free or expired address in
mind and stops at the client's own, is told by the sets `Own` and `Candidates`.
`left` (how long a client may still use an address) and `age` are history
variables. What the server ignores, an address of another client or outside of
the table, takes no step; packet layout and option parsing are left out.

### How `SdpParser` and `ReportDescriptor` correspond to the code

Both work on real bytes. `Feed` is `sdp_parser_feed`: one byte at its offset, and
with the last one the whole parse (`FeedTooLarge` when the attribute does not fit);
`NextQuery` is what `start_sdp_discovery` of `bluetooth.c` resets (328-348), at any
moment, also in the middle of an attribute. Only the buffer is shorter than 256
bytes, and of a name only that there is one is kept. `ReportDescriptor` goes through
the items as the code does, with its global and local state, its stack and its four
usage sets; a set is the sequence of its usages, where the code has a bitmap and the
first position of each key. The descriptor assertions of `tests/test_core.c` (63 of
them) were evaluated on this module and hold. The properties do not parse: a
protocol list is told by the tree it encodes, the descriptor list by its grammar,
and a report descriptor by what each item has before it. The device is taken to be
listed (`ConnectedDeviceKnown`). In `Bluetooth` an attribute may name any PSM any
number of times, which contains whatever this parser finds.

## 3. Runs

| run | module | instance | states | properties |
|---|---|---|---|---|
| `connection` | `MCBluetooth` | 1 keyboard, 1 link, 2 CIDs, 5 commands, refusals, flash failures, power loss | 26 530 | 12 invariants, 2 action properties |
| `selection` | `MCBluetooth` | 3 devices, a list of 2, keyboards or not (symmetric) | 157 016 | 3 invariants, 2 action properties |
| `stale` | `MCBluetooth` | 2 keyboards, 2 links, stale completions (symmetric) | 283 871 | 1 invariant |
| `liveness` | `MCBluetooth` | 1 keyboard, fairness | 4 362 | 2 liveness properties |
| `keyboard` | `MCKeyboardReports` | ring of 3, 3 reports, fairness | 5 436 | 3 invariants, refinement of `KeyStream`, 1 liveness property |
| `requests` | `MCControlRequests` | queue of 2, buffer of 3, 2 characters a turn, lines of up to 5 (`MaxTyped`), fairness | 128 492 | 2 invariants, refinement of `RequestFifo`, 1 liveness property |
| `web` | `MCWebClients` | 3 connections, 2 records, closed at the 3rd poll, headers of 3 parts, queue of 1, fairness | 54 540 | 1 invariant, 1 action property, 1 liveness property |
| `leases` | `MCDhcpLeases` | 3 clients (symmetric), 2 addresses, clock of 24, blocks of 4, leases of 6 | 50 904 | 3 invariants |
| `sdp` | `MCSdpParser` | some thousand attributes, up to 2 of them (`MaxReceived`), buffer of 80 bytes | 137 541 | 3 action properties |
| `forget_race`, `led_stuck` | `MCBluetooth` | as `connection`, `liveness` | | one refuted property each |
| `long_line` | `MCControlRequests` | as `requests` | | one refuted property |

Why the bounds are enough. The manager handles one keyboard at a time, so one
address and one link reach every step of the chain; a second address and a second
handle are needed for a link that is not the program's, a third device for a list
of two to overflow while one of its members is selected. Two CIDs are the two
channels, and being reused at once after a close they are the worst case for stale
identifiers. PSM 21 stands for a control PSM that is not the standard one, 0 and
19 for an interrupt PSM that is missing or standard. LED bytes 0 and 34 differ in
a bit kept and a bit masked away. A ring of three wraps, overflows and is flushed
at every offset. A request queue of two is full after two web requests in one poll
and its indices wrap; a buffer for two characters (31 in the code) overflows, and a
line of five restarts it with room for a blank and a request. Two client records
with three connections are full, and one connection is still closing while its
record is another's; three polls (five in the code) and three parts let a
connection end by either count first. A clock of 24 wraps, a lease of 6 ends inside
a block and not at its edge, three clients for two addresses find the table full.
The attributes of `sdp` are lists of protocols from all small trees, with a byte
missing, added or changed at each place, lists with lengths of two and four bytes, and report descriptors of up to two reports and
collections in any order, or of up to three loose items; a few of them are tried
in sequence, cut off anywhere. The longest fits in 80 bytes, and some do not fit.
The bounds of the models are `MaxTyped`, which cuts the typed line in the guard of
`ReadChar`, and `MaxReceived`, which ends a run of `sdp`: there are no state
constraints, and deadlock is checked in every run but that one.

The properties, by what could go wrong:

- *The link.* `LinkTracked`, `PageAccounted`, `CidsAreLive`, `HalfOpenIsClosing`,
  `TransitionsAllowed`: program and controller agree about page, link and
  channels. They need `AllowStale = FALSE`; what remains with stale links is
  `NothingLeft`, and with it all that `BluetoothProofs` proves (section 5).
- *Progress.* `RetryScheduled` and `NoRetryWhileBusy` (the timer is armed
  exactly where it is of use), `NothingAwaitedInVain` (what a state waits for is
  owed or the link is closing), `ConnectsInTheEnd`.
- *The user's word.* `SuspendedMeansSuspended`, `CancelHonoured`,
  `SelectionPersisted`, `KeyedKeyboardPreferred`, `PromptScope`.
- *Keys and LEDs.* `KeysReleased`, `LedFidelity`, `LedReported`.
- *Copies.* `BondedHasKey` (flags and key database), `ConnectedDeviceKnown`
  (no NULL lookup once a link is authenticated).
- *Requests.* `QueueIsFifo`, `QueueDrained`, `BufferIsTail` (what the line buffer
  holds, exactly, after any number of overflows).
- *The ring.* `NewestLast`, `ReleaseIsNext`, `RingIsStream`, `HostCatchesUp`.
- *Web clients.* `ClientsMatch`, `OneRequestEach`, `ClientsReclaimed`.
- *Leases.* `LeaseKept`, `OthersNotDisturbed` (no offer of an address in use),
  `RefusedOnlyIfFull` (what has expired is found again).
- *The service record.* `PsmIsFirst`, `ReportFromList`, `ReportAsDeclared`.

`SelectionPersisted` is checked where flash writes succeed: the code ignores the
result of the write, so it is false otherwise. `ConnectedDeviceKnown` is checked
without stale links.

### Fairness

`StackFairness` is weak fairness of what the program does by itself and of what the
stack reports without the keyboard: start-up, the end of an inquiry, the outcome of
a page, the retry timer, the tear-down of a link that is being closed, the LED task
and the sending it asked for. It is justified by the loop of `main.c`, which polls
BTstack and its timers for ever. `KeyboardFairness` is an assumption about the
keyboard, not about the code: a step of the connection that is attempted again and
again succeeds again and again (strong fairness, since a failed attempt disables the
step). The keyboard may still fail each step any number of times. The code has no
time-out for a keyboard that accepts a connection and then never answers; without
this assumption `ConnectsInTheEnd` is false. `KeyboardReports` assumes that the loop
runs and that a host polls a keyboard on a bus that is up, `ControlRequests` only
that `bluetooth_task` is called again and again and its turn goes on. `WebClients`
assumes the same of the turn, and strong fairness of `PollClient`: lwIP's timers are
run by the poll at the head of each turn, and a timer that is due is handled in one
of the next ones; the action is enabled only in the poll phase, so weak fairness
would say nothing. The liveness runs assume no power loss, and `liveness` and
`led_stuck` that stack calls are accepted.

## 4. Findings

1. *FORGET can leave a key* (`forget_race`). README.md:216-217 promises that
   "`forget` requires pairing again on the next connection". If it is executed
   while the keyboard is pairing, all keys are deleted and the link is asked to
   close, but a link key notification that arrives before it is down is stored
   (`bluetooth.c:910`).
2. *An LED report can be lost for a whole connection* (`led_stuck`). The flag that
   the can-send handler tests is set after the call that may already have run the
   handler (`bluetooth.c:262-264`); set too late, it also stops every later
   attempt (258). With the event delivered after the call the property holds
   (`liveness`).
3. *The end of an over-long line is a command* (`long_line`). After 32 characters
   "Command too long" is reported and the buffer emptied, but the rest of the
   same line is collected as if it were a new one (`bluetooth.c:1193-1196`).

The documentation also promises more than the code does of the PIN prompt, which no
run states. README.md:76-77 says that it "disappears when authentication finishes,
fails, disconnects, or times out". While there is a link, a failure (775, 789, 810)
only asks for the disconnection (`bluetooth.c:276-286`) and moves to no other state,
so the prompt stays until the link is down or the 30 seconds are over:
`PinCodeRequest` followed by `SecurityFailed`, and TLC refutes
`[][SecurityFailed => ~pairing_pin_pending']_vars` after five states. A PIN that is
requested after `Authenticating` was left is also kept on display when that pairing
ends, since the handlers ignore its result in a later state (769, 787).
`PromptScope` is what holds: the prompt never outlives the page or the link.

Also seen while modelling and not checked by a run: `HIDConnected` is kept with one
channel closed until the disconnection arrives (`README.md:185` says both are
open; `HalfOpenIsClosing` is what holds). A "Reconnect queued" answer is followed
by nothing except that automatic connection is on. An overflow of the report ring
drops a pending all-released report too (the newer state still wins). A
`connect` command with blanks after the address is unknown, other commands may
have them. An SDP record with the same PSM for both channels makes the interrupt
channel look like the control channel. HCI_EVENT_DISCONNECTION_COMPLETE (816-832)
does not compare the handle, so the end of a link that was closed as stale ends the
program's own connection too (`stale` includes such behaviours). A DHCP lease that
nobody renews looks unexpired again 25 days after its end, for 25 days
(`dhcp_server.c:241-243`; the second case of `RefusedOnlyIfFull`); a request that
the source comments "Should be NACK" is ignored; the leases are lost at a restart.
After a keyboard collection inside of a keyboard collection ends, the outer one is
no longer seen as one (`ReportAsDeclared` leaves these out).

## 5. Proofs

Every safety property of the runs that pass, save the three of `sdp`, is a theorem
for every value of the constants that satisfies the named assumptions of its
module. A theorem assumes no more than that, unless the table says so.

| module | theorem | states | also assumes |
|---|---|---|---|
| `BluetoothTypeProofs` | `TypeCorrect` | `TypeOK` | |
| `BluetoothProofs` | `RetryAlwaysScheduled`, `KeysAlwaysReleased`, `NothingEverLeft` | `RetryScheduled`, `KeysReleased`, `NothingLeft` | |
| | `SuspensionHonoured` | `SuspendedMeansSuspended` | |
| | `BondsHaveKeys`, `LedsAlwaysFaithful` | `BondedHasKey`, `LedFidelity` | |
| | `SelectionAlwaysSaved`, `KeyedAlwaysPreferred` | `SelectionPersisted`, `KeyedKeyboardPreferred` | writes to flash succeed |
| `BluetoothLinkProofs` | `LinkAlwaysTracked`, `PagesAlwaysAccounted`, `RetryOnlyWhenIdle`, `PromptAlwaysScoped`, `CancelAlwaysHonoured` | `LinkTracked`, `PageAccounted`, `NoRetryWhileBusy`, `PromptScope`, `CancelHonoured` | no stale links |
| | `ConnectedAlwaysKnown` | `ConnectedDeviceKnown` | no stale links |
| | `HalfOpenAlwaysCloses`, `CidsAlwaysLive`, `NeverAwaitsInVain` | `HalfOpenIsClosing`, `CidsAreLive`, `NothingAwaitedInVain` | no stale links |
| | `TransitionsAlwaysAllowed` | `TransitionsAllowed` | no stale links, distinct PSMs |
| `KeyboardReportsProofs` | `TypeCorrect`, `NewestAlwaysLast`, `ReleaseAlwaysNext` | `TypeOK`, `NewestLast`, `ReleaseIsNext` | |
| | `RingImplementsStream` | `RingIsStream` | |
| `ControlRequestsProofs` | `TypeCorrect`, `BufferAlwaysTail` | `TypeOK`, `BufferIsTail` | |
| | `RingImplementsFifo` | `QueueIsFifo` | |
| `WebClientsProofs` | `ClientsAlwaysMatch`, `OneRequestOnly`, `WebTypeCorrect` | `ClientsMatch`, `OneRequestEach`, `WebTypeOK` | |
| | `WebImplementsRequests`, `WebRequestsAreFifo` | `WebSpec => Spec`, and so `QueueIsFifo` | |
| `DhcpLeasesProofs` | `TypeCorrect`, `LeasesAreKept` | `LeaseTypeOK`, `LeaseKept` | |
| | `OffersDisturbNobody`, `RefusedOnlyWhenFull` | `OthersNotDisturbed`, `RefusedOnlyIfFull` | |

The three hypotheses are about the environment, and are the edge of what the code
provides for. *No stale links* is `~AllowStale`: no connection completes that
nobody waits for. The code closes such a link, but it then takes that link's
disconnection for its own (section 4), and TLC finds most of these properties
violated on the instance of `stale`. *Writes succeed* is `FALSE \notin
StoreResults`: the selected keyboard is used whether or not `store_selected_device`
succeeds (576, 994, 1031), and a key that is not read back as notified clears the
flag while an older key may remain (905-927). `BondsHaveKeys`, the other direction,
needs no such hypothesis. *Distinct PSMs* is `ControlPsm \cap InterruptPsm
\subseteq {0}` (0 is a PSM the record does not name): `l2cap_packet_handler` tells
the two channels apart by their PSMs, and with equal ones TLC finds the interrupt
channel opened as the control channel. Each hypothesis holds in the run that checks
the properties it is for.

### The connection manager

*Types.* `TypeOK` is not quite inductive: a callback rewrites the record
`hid_channels` field by field, and `[h EXCEPT !.f = v]` only keeps its type if
`h` is known to be a record with these fields; `TypeInv` states it as membership
in a named set `Channels`. The helpers (`BeginConnection`, `DisconnectAfterError`,
`ScheduleLedReport`, ...) have a lemma each, which the actions that call them cite.
The list operators need that `First` returns a position: the least element of a
set of positions exists because the naturals are well founded.

*With stale links.* `Safe` joins three properties that are not inductive one by
one: `RetryScheduled` is lost if DISCONNECT and RECONNECT switch automatic
connection off and on in Idle, unless RECONNECT in Idle starts a page at once,
which it does only without a link: this is `NothingLeft`. `NothingLeft` needs that
an error with a link stays in its state until the disconnection, which clears the
handle and the channels, and `KeysReleased` that the same handlers release the
keys. `SuspendedMeansSuspended` follows step by step: only the actions that call
`BeginConnection` add to `paging`, each after a test or an assignment of
`auto_connect_enabled` and `selected_device`. `BondedHasKey` needs what every
operation on the list does to the bonded flags and the addresses
(`BluetoothDataProofs`). For `KeyedKeyboardPreferred` the flags must agree with the
keys in both directions, for every keyboard of the list (`KeysAgree`): that is
where a failing write breaks it. `LedFidelity` needs that a HID connection always
begins with a report due, and that only sending one clears the flag.

*Without.* `BluetoothLinkProofs` has four inductive invariants, each relative to
those before it; no layer is inductive without them.

1. `Link` and `Wires`. The program's handle is the link there is only if every
   disconnection belongs to it, and no handler takes the way back to Idle that is
   for "no link". Handlers of channels and of SDP do so too, so nothing may be owed
   on a link that is not the program's: `ChannelsOnLink`, `QueryOnLink`,
   `OwedOnOpen`, `ControlIsOpen`.
2. `DevicesKnown`. The lookup by address succeeds from the page to the
   disconnection, because only SCAN empties the list, and only in Idle; everything
   else adds to it or rewrites flags, whatever the list overflows with meanwhile.
3. `Stages`. What each state waits for is owed, or the link is being closed: a
   channel is only opened for the state that waits for it and on its PSM
   (`OneOpening`), SET_PROTOCOL is due, then its answer, and never both
   (`SetProtocolOnce`), the channels of the earlier stages still stand
   (`OpenOrClosing`), the identifiers are live (`CidsAreLive`).
4. `PsmsApart`. The PSMs of the device stay distinct from the end of the query on,
   also if the same device is found again meanwhile.

Each was checked by TLC as an invariant of the instances of `connection` and
`selection` before it was proved. That `TransitionsAllowed` needs distinct PSMs was
seen when its proof failed, and TLC confirmed it.

### The rings and the web server

`KeyboardReports`: `TypeOK`, `NewestLast` and `ReleaseIsNext` together are
inductive. The refinement maps the ring to the sequence of its contents
(`Contents`): a report that finds room is appended, a flush or an overflow leaves
the new report alone, draining takes the head. All of it rests on two lemmas about
the ring: an offset within it wraps at most once, and two different ones name
different slots. `ControlRequests` has the same ring and the same lemma.
`BufferIsTail` speaks of lines of any length: with every character the number of
characters dropped grows by a whole buffer or not at all.

`WebInv` adds to `ClientsMatch` that a connection that still has its callbacks has
submitted nothing (`CallbacksAreFresh`), from which `OneRequestEach` follows. Every
step of the web server is a step of `ControlRequests` or leaves its variables
alone, so `WebSpec => Spec` by the identity mapping, and the theorems of
`ControlRequestsProofs` hold with the web server in front.

### The leases

`LeaseKept` is about the difference of two times on a clock that wraps, of which one
is rounded to blocks. `ExpiryTellsAge` says what the expiry of a lease tells: until
the lease is older than half the clock can tell, its deadline is `LeaseTime`, and
less than a block, after its DHCPACK, modulo `Clock`. `UseIsLeased` relates it to
the time the client counts. They are inductive together with the types; that
`x - 1` and `x + Clock` behave as expected modulo `Clock` is proved from the
uniqueness of the remainder. The other two properties follow from the invariant and
the choice that DISCOVER makes.

### Only model-checked

Liveness and ENABLED are out of the prover's reach: `ConnectsInTheEnd`,
`LedReported`, `HostCatchesUp`, `QueueDrained`, `ClientsReclaimed`. `SdpParser`,
`ReportDescriptor` and `ServiceRecord` use RECURSIVE operators, for which the prover
has no arithmetic, and what they compute for every input would need induction over
data: `PsmIsFirst`, `ReportFromList` and `ReportAsDeclared` stay with TLC.

## 6. Not modelled, and the plan

Not modelled: boot reports (a stateless check of one packet, whose reference would
be itself), the serial log and the status snapshot (display only, nothing reads
them back), JSON and HTML output, DHCP packet and option layout, HTTP parsing, the
demonstration build, USB descriptors, host tools, failure of `cyw43_arch_init`.
`PROJECT.json` gives the reason for each. `Bluetooth` and `KeyboardReports` are not
composed: they meet in one variable, the newest report, and the product is too
large for TLC.

What remains, in the order of importance:

1. An abstract specification of the connection manager (what the user is promised:
   one keyboard at a time, its keys and its LEDs) and the proof that `Bluetooth`
   implements it, which the invariants of section 5 now allow.
2. Which of the link's properties survive stale links, in a weaker form, and the
   disconnection of a link that is not the program's as an invariant of its own.
3. The composition of `Bluetooth` and `KeyboardReports` as a theorem: the host ends
   up with no key pressed after the interrupt channel is gone.
4. The state of `SdpParser` (its buffer, offset and count) without RECURSIVE
   operators, so that its bounds can be proved.
