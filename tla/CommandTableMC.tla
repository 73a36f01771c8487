--------------------------- MODULE CommandTableMC ---------------------------
(***************************************************************************)
(* Instances of CommandTable for TLC.                                      *)
(***************************************************************************)
EXTENDS CommandTable, TLC

MCMomentary == MomentaryKeys \cap Keys
MCMedia     == MediaKeys \cap Keys
MCPayloads  == [word : Words, odd : {FALSE}]
MCNorm      == [p \in Payloads |-> p.word]
Symmetry    == Permutations(Requests)

\* Two keys of one setting.
MCLimits        == {"charge_limit", "charge_max_range"}
MCLimitPayloads == [word : {"80"}, odd : {FALSE}]
=============================================================================
