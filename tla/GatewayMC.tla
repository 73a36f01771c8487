------------------------------ MODULE GatewayMC ------------------------------
(***************************************************************************)
(* An instance of Gateway for TLC.                                         *)
(***************************************************************************)
EXTENDS Gateway
=============================================================================
