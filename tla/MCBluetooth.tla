----------------------------- MODULE MCBluetooth -----------------------------
(***************************************************************************)
(* BluetoothProperties.tla on small instances for TLC.                     *)
(***************************************************************************)
EXTENDS BluetoothProperties, TLC

CONSTANTS k1, k2, k3, h1, h2

KeyboardSymmetry == Permutations(Addr)
LinkSymmetry == Permutations(Addr) \cup Permutations(Handle)

=============================================================================
