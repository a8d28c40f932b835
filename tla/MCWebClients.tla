---------------------------- MODULE MCWebClients ----------------------------
(***************************************************************************)
(* WebClients.tla with the queue and the line of ControlRequests.tla on a  *)
(* small instance for TLC.                                                 *)
(***************************************************************************)
EXTENDS WebClients

CONSTANTS scan, connect, p1, p2, p3

=============================================================================
