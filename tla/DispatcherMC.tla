---------------------------- MODULE DispatcherMC ----------------------------
(***************************************************************************)
(* Instances of Dispatcher for TLC. "On" and "on" are one payload in two   *)
(* spellings.                                                              *)
(***************************************************************************)
EXTENDS Dispatcher, TLC

MCNorm   == [p \in Payloads |-> IF p = "On" THEN "on" ELSE p]
Symmetry == Permutations(Requests)

\* A button has one payload: it is no setting, so its payload tells nothing apart.
OnePress == \A r \in Requests : Submitted(r) /\ momentary(KeyOf(r)) => req[r].payload = "on"
=============================================================================
