--------------------------- MODULE KeyboardReports ---------------------------
(***************************************************************************)
(* usb/hid_keyboard.c: the ring of keyboard reports between Bluetooth,     *)
(* which makes them (keyboard_send_report, keyboard_release_all), and the  *)
(* USB host, which polls for them.  When the ring is full everything in it *)
(* is dropped for the new report; a disconnection drops it for an          *)
(* all-released one.                                                       *)
(*                                                                         *)
(* TinyUSB, the bus and the host are external: usb_up, endpoint and host.  *)
(* The demonstration build (ENABLE_KEYBOARD_DEMO) is not modelled.         *)
(***************************************************************************)
EXTENDS Naturals, Sequences

CONSTANTS
    Report,          \* complete keyboard states
    Released,        \* the state in which no key is pressed
    NoReport,        \* the endpoint is free
    QueueSize        \* KEYBOARD_REPORT_QUEUE_SIZE

ASSUME ReportAssumption == Released \in Report /\ NoReport \notin Report
ASSUME QueueAssumption  == QueueSize \in 1..128   \* head + count fit a uint8_t

VARIABLES
    report_queue,
    report_queue_head,
    report_queue_count,
    usb_up,          \* configured and not suspended (tud_ready)
    endpoint,        \* the report TinyUSB holds for the host's next poll
    host,            \* the keyboard state the host last received
    due,             \* history: the state the host is to end up with
    release_due      \* history: keyboard_release_all is waiting to be sent

queueVars == <<report_queue, report_queue_head, report_queue_count>>
usbVars   == <<usb_up, endpoint, host>>
vars == <<queueVars, usbVars, due, release_due>>

Init ==
    /\ report_queue = [i \in 0..QueueSize-1 |-> Released]
    /\ report_queue_head = 0
    /\ report_queue_count = 0
    /\ usb_up = FALSE
    /\ endpoint = NoReport
    /\ host = Released
    /\ due = Released
    /\ release_due = FALSE

-----------------------------------------------------------------------------
Slot(offset) == (report_queue_head + offset) % QueueSize

Full == report_queue_count = QueueSize

\* Mutants of SendReport: the report that does not fit is the one dropped, and
\* the slot is computed before the ring is emptied.
SendIfRoom(r) ==
    /\ report_queue' = IF Full THEN report_queue
                       ELSE [report_queue EXCEPT ![Slot(report_queue_count)] = r]
    /\ report_queue_count' = IF Full THEN QueueSize ELSE report_queue_count + 1
    /\ due' = r
    /\ release_due' = (release_due /\ ~Full)
    /\ UNCHANGED <<report_queue_head, usbVars>>

SendToOldSlot(r) ==
    /\ report_queue' = [report_queue EXCEPT ![Slot(report_queue_count)] = r]
    /\ report_queue_head' = IF Full THEN 0 ELSE report_queue_head
    /\ report_queue_count' = IF Full THEN 1 ELSE report_queue_count + 1
    /\ due' = r
    /\ release_due' = (release_due /\ ~Full)
    /\ UNCHANGED usbVars

\* keyboard_send_report: a full ring starts again with the new report alone.
SendReport(r) ==
    /\ report_queue' =
           [report_queue EXCEPT ![IF Full THEN 0 ELSE Slot(report_queue_count)] = r]
    /\ report_queue_head' = IF Full THEN 0 ELSE report_queue_head
    /\ report_queue_count' = IF Full THEN 1 ELSE report_queue_count + 1
    /\ due' = r
    /\ release_due' = (release_due /\ ~Full)
    /\ UNCHANGED usbVars

\* Mutant of ReleaseAll: queued states are sent first.
ReleaseAfterRest ==
    /\ report_queue' = [report_queue EXCEPT ![Slot(report_queue_count)] = Released]
    /\ report_queue_count' = IF Full THEN QueueSize ELSE report_queue_count + 1
    /\ due' = Released
    /\ release_due' = TRUE
    /\ UNCHANGED <<report_queue_head, usbVars>>

\* keyboard_release_all
ReleaseAll ==
    /\ report_queue' = [report_queue EXCEPT ![0] = Released]
    /\ report_queue_head' = 0
    /\ report_queue_count' = 1
    /\ due' = Released
    /\ release_due' = TRUE
    /\ UNCHANGED usbVars

\* Mutants of HidKeyboardTask: the head runs past the ring, and a report that
\* was sent is not counted off.
HeadNotWrapped ==
    /\ report_queue_count > 0
    /\ usb_up /\ endpoint = NoReport
    /\ endpoint' = report_queue[report_queue_head]
    /\ report_queue_head' = report_queue_head + 1
    /\ report_queue_count' = report_queue_count - 1
    /\ release_due' = FALSE
    /\ UNCHANGED <<report_queue, usb_up, host, due>>

SentNotCounted ==
    /\ report_queue_count > 0
    /\ usb_up /\ endpoint = NoReport
    /\ endpoint' = report_queue[report_queue_head]
    /\ report_queue_head' = Slot(1)
    /\ release_due' = FALSE
    /\ UNCHANGED <<report_queue, report_queue_count, usb_up, host, due>>

\* hid_keyboard_task, when tud_hid_ready: one report per turn of the main loop.
\* A refused tud_hid_keyboard_report changes nothing.
HidKeyboardTask ==
    /\ report_queue_count > 0
    /\ usb_up /\ endpoint = NoReport
    /\ endpoint' = report_queue[report_queue_head]
    /\ report_queue_head' = Slot(1)
    /\ report_queue_count' = report_queue_count - 1
    /\ release_due' = FALSE
    /\ UNCHANGED <<report_queue, usb_up, host, due>>

-----------------------------------------------------------------------------
(* The bus and the host.                                                   *)

HostPoll ==
    /\ usb_up
    /\ endpoint # NoReport
    /\ host' = endpoint
    /\ endpoint' = NoReport
    /\ UNCHANGED <<queueVars, usb_up, due, release_due>>

\* The host suspends the bus, resumes it or finishes configuring the device.
Suspend ==
    /\ usb_up
    /\ usb_up' = FALSE
    /\ UNCHANGED <<queueVars, endpoint, host, due, release_due>>

Resume ==
    /\ ~usb_up
    /\ usb_up' = TRUE
    /\ UNCHANGED <<queueVars, endpoint, host, due, release_due>>

\* A bus reset: the pending transfer is lost and the host starts from no key.
\* The code has no callback for it, so a key held meanwhile is not sent again
\* and is no longer due; only what is still in the ring is.
BusReset ==
    /\ usb_up' = FALSE
    /\ endpoint' = NoReport
    /\ host' = Released
    /\ due' = IF report_queue_count = 0 THEN Released ELSE due
    /\ UNCHANGED <<queueVars, release_due>>

Next ==
    \/ \E r \in Report : SendReport(r)
    \/ ReleaseAll
    \/ HidKeyboardTask
    \/ HostPoll
    \/ Suspend
    \/ Resume
    \/ BusReset

Spec == Init /\ [][Next]_vars

\* main.c calls hid_keyboard_task in every turn of its loop, and a host polls
\* the interrupt endpoint of a keyboard it has configured.
FairSpec == Spec /\ WF_vars(HidKeyboardTask) /\ WF_vars(HostPoll)

-----------------------------------------------------------------------------
\* The indices stay inside the ring and the count within its size.
TypeOK ==
    /\ report_queue \in [0..QueueSize-1 -> Report]
    /\ report_queue_head \in 0..QueueSize-1
    /\ report_queue_count \in 0..QueueSize
    /\ usb_up \in BOOLEAN
    /\ endpoint \in Report \cup {NoReport}
    /\ host \in Report
    /\ due \in Report
    /\ release_due \in BOOLEAN

\* The newest state is last in line, wherever the line ends: in the ring, in
\* the endpoint or at the host (hid_keyboard.c: "Preserve the newest physical
\* state"), also right after an overflow.
NewestLast ==
    due = IF report_queue_count > 0 THEN report_queue[Slot(report_queue_count - 1)]
          ELSE IF endpoint # NoReport THEN endpoint
          ELSE host

\* keyboard_release_all makes all-released the next state to be sent, and only
\* an overflow can change that (hid_keyboard.h: "Drop queued stale states and
\* make an all-keys-released report the next state").
ReleaseIsNext ==
    release_due => /\ report_queue_count > 0
                   /\ report_queue[report_queue_head] = Released

\* The ring's contents, oldest first: the refinement mapping to KeyStream.tla.
Pending == [i \in 1..report_queue_count |-> report_queue[Slot(i - 1)]]
Stream == INSTANCE KeyStream WITH pending <- Pending, newest <- due

\* The ring is the stream of KeyStream.tla: reports reach the host in order,
\* each at most once, and only old ones are ever dropped.
RingIsStream == Stream!Spec

\* Once the keyboard is left alone the host shows its state: no key is stuck,
\* and none is missing but those a bus reset made the host forget (BusReset).
HostCatchesUp ==
    \A r \in Report : <>[](due = r /\ usb_up) => <>[](host = r)

=============================================================================
