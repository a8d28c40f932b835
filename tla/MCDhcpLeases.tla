---------------------------- MODULE MCDhcpLeases ----------------------------
(***************************************************************************)
(* DhcpLeases.tla with a clock of a few ticks for TLC.                     *)
(***************************************************************************)
EXTENDS DhcpLeases, TLC

CONSTANTS m1, m2, m3

ClientSymmetry == Permutations(Client)

=============================================================================
