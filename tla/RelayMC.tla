------------------------------- MODULE RelayMC -------------------------------
(***************************************************************************)
(* Instances of Relay for TLC.                                             *)
(***************************************************************************)
EXTENDS Relay, TLC

Symmetry == Permutations(Calls)
=============================================================================
