----------------------------- MODULE DiscoveryMC -----------------------------
(***************************************************************************)
(* Instances of Discovery for TLC.                                         *)
(***************************************************************************)
EXTENDS Discovery, TLC

Symmetry == Permutations(Handlers)
=============================================================================
