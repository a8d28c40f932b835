-------------------------- MODULE MCKeyboardReports --------------------------
(***************************************************************************)
(* KeyboardReports.tla on a small ring for TLC.                            *)
(***************************************************************************)
EXTENDS KeyboardReports

CONSTANTS a, ab        \* one key pressed, two keys pressed

=============================================================================
