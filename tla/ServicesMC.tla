----------------------------- MODULE ServicesMC -----------------------------
(***************************************************************************)
(* An instance of Services for TLC.                                        *)
(***************************************************************************)
EXTENDS Services, TLC

CONSTANTS f1, f2, n1, n2, n3

\* What one car may be enrolled to send, by what its pictures are drawn from.
MCEnrolments == {
  {"Gear", "Speed", "Charge", "AC", "DC", "Pack"}, \* motion and power
  {"Level", "Soc", "Voltage"},                     \* the battery
  {"Charge", "AC", "Latch", "Door"},               \* the cable
  {"Hvac"}, {"Frunk"}}

\* Every car of the stream, or a list of two.
MCLists == {<<>>, <<f1, f2>>}

\* f1 may be renamed.
MCTitles == f1 :> {n1, n2} @@ f2 :> {n3}
=============================================================================
