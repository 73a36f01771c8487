--------------------------- MODULE RollingWindow ---------------------------
(***************************************************************************)
(* The rolling window of internal/commands/dispatch.go (type window), used *)
(* for the hourly cap of a command key and for the hourly wake budget.     *)
(***************************************************************************)
EXTENDS Integers, Sequences

\* allow's loop: it drops the first i events, stopping at the first one that
\* is after cut.
Prunes(events, i, cut) ==
  /\ \A j \in 1..i : events[j] <= cut
  /\ i < Len(events) => events[i + 1] > cut

\* Broken: the slice starts one event too late.
RestOffByOne(events, i) == SubSeq(events, i + 2, Len(events))

\* What is left when the first i events are dropped.
Rest(events, i) == SubSeq(events, i + 1, Len(events))

\* No more than max of the times lie in any span that ends with one of them.
WithinBudget(times, max, span) ==
  \A i \in DOMAIN times, j \in DOMAIN times :
     (j <= i /\ times[j] > times[i] - span) => i - j < max
=============================================================================
