-------------------------- MODULE MCControlRequests --------------------------
(***************************************************************************)
(* ControlRequests.tla on a small queue and a short line for TLC.          *)
(***************************************************************************)
EXTENDS ControlRequests

CONSTANTS scan, connect        \* a request without and one with an address

=============================================================================
