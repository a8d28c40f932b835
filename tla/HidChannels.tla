----------------------------- MODULE HidChannels -----------------------------
(***************************************************************************)
(* bt/hid_channels.c: the two HID L2CAP channels of the current connection *)
(* and the keyboard LED state, as one record.  Operators return the record *)
(* the C function leaves behind.  The LED state and "an LED report is      *)
(* pending" outlive a connection; everything else is reset with it.        *)
(***************************************************************************)
EXTENDS Naturals

NoCid == 0                      \* a CID of 0 names no channel

HidChannel(Cid) ==
    [control_cid : Cid \cup {NoCid}, interrupt_cid : Cid \cup {NoCid},
     control_open : BOOLEAN, interrupt_open : BOOLEAN,
     boot_protocol_request_pending : BOOLEAN,
     led_state : 0..31, led_report_pending : BOOLEAN,
     led_can_send_requested : BOOLEAN]

\* hid_channels_init
InitialHidChannels ==
    [control_cid |-> NoCid, interrupt_cid |-> NoCid,
     control_open |-> FALSE, interrupt_open |-> FALSE,
     boot_protocol_request_pending |-> FALSE,
     led_state |-> 0, led_report_pending |-> FALSE,
     led_can_send_requested |-> FALSE]

\* Mutant of ResetConnection: the identifiers are kept.
ResetKeepsCids(h) ==
    [InitialHidChannels EXCEPT !.control_cid = h.control_cid,
                               !.interrupt_cid = h.interrupt_cid,
                               !.led_state = h.led_state,
                               !.led_report_pending = h.led_report_pending]

\* hid_channels_reset_connection
ResetConnection(h) ==
    [InitialHidChannels EXCEPT !.led_state = h.led_state,
                               !.led_report_pending = h.led_report_pending]

\* hid_channels_control_opened
ControlOpened(h, cid) ==
    [h EXCEPT !.control_cid = cid, !.control_open = TRUE,
              !.boot_protocol_request_pending = TRUE]

\* hid_channels_interrupt_opened
InterruptOpened(h, cid) ==
    [h EXCEPT !.interrupt_cid = cid, !.interrupt_open = TRUE]

ClosesControl(h, cid) == cid # NoCid /\ cid = h.control_cid

ClosesInterrupt(h, cid) == cid # NoCid /\ cid = h.interrupt_cid

\* Mutant of Closed: either channel takes the other with it.
ClosedTogether(h, cid) ==
    IF ClosesControl(h, cid) \/ ClosesInterrupt(h, cid)
    THEN ResetConnection(h)
    ELSE h

\* hid_channels_closed: both tests are made, the control channel first.
Closed(h, cid) ==
    LET c == IF ClosesControl(h, cid)
             THEN [h EXCEPT !.control_cid = NoCid, !.control_open = FALSE,
                            !.boot_protocol_request_pending = FALSE,
                            !.led_can_send_requested = FALSE]
             ELSE h
    IN  IF ClosesInterrupt(h, cid)
        THEN [c EXCEPT !.interrupt_cid = NoCid, !.interrupt_open = FALSE]
        ELSE c

\* Mutant of SetLeds: the byte is not masked.
SetLedsUnmasked(h, byte) ==
    [h EXCEPT !.led_state = byte, !.led_report_pending = TRUE]

\* hid_channels_set_leds: the five HID LED bits of the host's report byte.
SetLeds(h, byte) ==
    IF h.led_state = byte % 32 /\ ~h.led_report_pending
    THEN h
    ELSE [h EXCEPT !.led_state = byte % 32, !.led_report_pending = TRUE]

\* Mutant of RequestLedSync: a new connection is not told the LEDs.
RequestNoLedSync(h) == h

\* hid_channels_request_led_sync
RequestLedSync(h) == [h EXCEPT !.led_report_pending = TRUE]

=============================================================================
