------------------------------- MODULE BtState -------------------------------
(***************************************************************************)
(* The connection states of bt/bt_state.h and the transition table of      *)
(* bt/bt_state.c.  The program only logs a transition the table forbids;   *)
(* the table is therefore the code's own statement of the order in which   *)
(* a connection is built, and Bluetooth.tla checks it as a property.       *)
(***************************************************************************)

BtState ==
    {"Initializing", "Idle", "Inquiry", "Connecting", "Connected",
     "ServiceDiscovery", "Authenticating", "Ready", "Disconnected",
     "OpeningControl", "SettingBootProtocol", "OpeningInterrupt",
     "HIDConnected"}

\* The states a link passes through, each with its only forward step.
ForwardSteps ==
    {<<"Idle", "Inquiry">>,
     <<"Idle", "Connecting">>,
     <<"Inquiry", "Connecting">>,
     <<"Connecting", "Connected">>,
     <<"Connected", "Authenticating">>,
     <<"Authenticating", "ServiceDiscovery">>,
     <<"ServiceDiscovery", "OpeningControl">>,
     <<"OpeningControl", "SettingBootProtocol">>,
     <<"SettingBootProtocol", "OpeningInterrupt">>,
     <<"OpeningInterrupt", "HIDConnected">>}

\* bt_state_transition_allowed
TransitionAllowed(from, to) ==
    \/ from = to
    \/ to \in {"Idle", "Disconnected"}
    \/ <<from, to>> \in ForwardSteps

=============================================================================
