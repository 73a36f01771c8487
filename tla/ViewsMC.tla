------------------------------- MODULE ViewsMC -------------------------------
(***************************************************************************)
(* An instance of Views for TLC: a car of which only the gear and the      *)
(* powers are known, as after a fast charge and before its next report of  *)
(* a charging state.                                                       *)
(***************************************************************************)
EXTENDS Views

MCEnrolments == {{"Gear", "DC", "Pack"}}
=============================================================================
