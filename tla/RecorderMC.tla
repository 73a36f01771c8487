------------------------------ MODULE RecorderMC ------------------------------
(***************************************************************************)
(* An instance of Recorder for TLC.                                        *)
(***************************************************************************)
EXTENDS Recorder, TLC
=============================================================================
