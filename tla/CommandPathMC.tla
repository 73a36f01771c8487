---------------------------- MODULE CommandPathMC ----------------------------
(***************************************************************************)
(* Instances of CommandPath for TLC.                                       *)
(***************************************************************************)
EXTENDS CommandPath, TLC

MCNorm   == [p \in Payloads |-> p]
Symmetry == Permutations(Requests)
=============================================================================
