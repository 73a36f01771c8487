------------------------- MODULE RollingWindowProofs -------------------------
(***************************************************************************)
(* A rolling window never lets more than max events into any span.         *)
(*                                                                         *)
(* The window only has the events it has not dropped. Kept relates it to   *)
(* the history of all of them: it is the history's end, and what is not in *)
(* it any more is too old to count.                                        *)
(***************************************************************************)
EXTENDS RollingWindow, SequenceTheorems, TLAPS

\* The window has the last of the times, and the others are not after cut.
Kept(events, times, cut) ==
  LET dropped == Len(times) - Len(events)
  IN  /\ Len(events) <= Len(times)
      /\ \A i \in 1..Len(events) : events[i] = times[dropped + i]
      /\ \A i \in 1..dropped : times[i] <= cut

\* The cut moves on with the clock, and the window may stay as it is.
LEMMA KeptLater ==
  ASSUME NEW events \in Seq(Int), NEW times \in Seq(Int), NEW cut \in Int, NEW later \in Int,
         cut <= later, Kept(events, times, cut)
  PROVE  Kept(events, times, later)
  <1> DEFINE dropped == Len(times) - Len(events)
  <1>1. dropped \in Nat /\ Len(times) \in Nat /\ Len(events) \in Nat
    BY DEF Kept
  <1>2. ASSUME NEW i \in 1..dropped PROVE times[i] <= later
    <2>1. i \in 1..Len(times)
      BY <1>1
    <2>2. times[i] \in Int
      BY <2>1, ElementOfSeq
    <2>3. times[i] <= cut
      BY DEF Kept
    <2> QED
      BY <2>2, <2>3
  <1> QED
    BY <1>2 DEF Kept

\* Rest drops the first i.
LEMMA RestProperties ==
  ASSUME NEW events \in Seq(Int), NEW i \in 0..Len(events)
  PROVE  /\ Rest(events, i) \in Seq(Int)
         /\ Len(Rest(events, i)) = Len(events) - i
         /\ \A j \in 1..(Len(events) - i) : Rest(events, i)[j] = events[i + j]
  <1>1. Len(events) \in Nat /\ \A j \in 1..Len(events) : events[j] \in Int
    BY ElementOfSeq
  <1>2. \A j \in (i + 1)..Len(events) : events[j] \in Int
    BY <1>1
  <1>3. /\ SubSeq(events, i + 1, Len(events)) \in Seq(Int)
        /\ Len(SubSeq(events, i + 1, Len(events)))
             = IF i + 1 <= Len(events) THEN Len(events) - (i + 1) + 1 ELSE 0
        /\ \A j \in 1..(Len(events) - (i + 1) + 1) :
              SubSeq(events, i + 1, Len(events))[j] = events[(i + 1) + j - 1]
    BY <1>1, <1>2, SubSeqProperties
  <1> QED
    BY <1>1, <1>3 DEF Rest

\* Pruning drops what is not after the cut.
LEMMA KeptPruned ==
  ASSUME NEW events \in Seq(Int), NEW times \in Seq(Int), NEW cut \in Int,
         NEW i \in 0..Len(events), Prunes(events, i, cut), Kept(events, times, cut)
  PROVE  Kept(Rest(events, i), times, cut)
  <1> DEFINE dropped == Len(times) - Len(events)
             live    == Rest(events, i)
  <1>1. /\ live \in Seq(Int) /\ Len(live) = Len(events) - i
        /\ \A j \in 1..(Len(events) - i) : live[j] = events[i + j]
    BY RestProperties
  <1>2. dropped \in Nat /\ Len(times) \in Nat /\ Len(events) \in Nat /\ i \in Nat
    BY DEF Kept
  <1> HIDE DEF live
  <1>3. Len(live) <= Len(times) /\ Len(times) - Len(live) = dropped + i
    <2>1. Len(events) <= Len(times) /\ i <= Len(events)
      BY DEF Kept
    <2> QED
      BY <1>1, <1>2, <2>1
  <1>4. ASSUME NEW j \in 1..Len(live) PROVE live[j] = times[dropped + i + j]
    <2>1. live[j] = events[i + j] /\ i + j \in 1..Len(events)
      <3>1. j \in 1..(Len(events) - i)
        BY <1>1
      <3>2. i + j \in 1..Len(events)
        BY <1>2, <3>1
      <3> QED
        BY <1>1, <3>1, <3>2
    <2>2. events[i + j] = times[dropped + (i + j)]
      BY <2>1 DEF Kept
    <2>3. dropped + (i + j) = dropped + i + j
      BY <1>2
    <2> QED
      BY <2>1, <2>2, <2>3
  <1>5. ASSUME NEW j \in 1..(dropped + i) PROVE times[j] <= cut
    <2>1. CASE j <= dropped
      <3>1. j \in 1..dropped
        BY <1>2, <2>1
      <3> QED
        BY <3>1 DEF Kept
    <2>2. CASE j > dropped
      <3>1. j - dropped \in 1..i /\ j - dropped \in 1..Len(events) /\ dropped + (j - dropped) = j
        BY <1>2, <2>2
      <3>2. events[j - dropped] <= cut
        BY <3>1 DEF Prunes
      <3>3. events[j - dropped] = times[dropped + (j - dropped)]
        BY <3>1 DEF Kept
      <3> QED
        BY <3>1, <3>2, <3>3
    <2> QED
      BY <1>2, <2>1, <2>2
  <1>6. \A j \in 1..Len(live) : live[j] = times[(Len(times) - Len(live)) + j]
    BY <1>2, <1>3, <1>4
  <1>7. \A j \in 1..(Len(times) - Len(live)) : times[j] <= cut
    BY <1>3, <1>5
  <1> QED
    BY <1>3, <1>6, <1>7 DEF Kept, live

\* An event that goes in goes to the end of both, and the span that ends with it has the
\* window's events only, so one below the limit stays within it.
LEMMA AllowedWithin ==
  ASSUME NEW events \in Seq(Int), NEW times \in Seq(Int), NEW now \in Int, NEW span \in Int,
         NEW max \in Nat, Kept(events, times, now - span), Len(events) < max,
         WithinBudget(times, max, span)
  PROVE  /\ Kept(Append(events, now), Append(times, now), now - span)
         /\ WithinBudget(Append(times, now), max, span)
  <1> DEFINE n       == Len(times)
             all     == Append(times, now)
             live    == Append(events, now)
             dropped == n - Len(events)
  <1>1. /\ all \in Seq(Int) /\ Len(all) = n + 1 /\ all[n + 1] = now
        /\ \A i \in 1..n : all[i] = times[i]
        /\ live \in Seq(Int) /\ Len(live) = Len(events) + 1 /\ live[Len(events) + 1] = now
        /\ \A i \in 1..Len(events) : live[i] = events[i]
    BY AppendProperties
  <1>2. n \in Nat /\ Len(events) \in Nat /\ dropped \in Nat
    BY DEF Kept
  <1>3. DOMAIN all = 1..(n + 1) /\ DOMAIN times = 1..n
    BY <1>1, LenProperties
  <1>4. \A i \in 1..dropped : i \in 1..n /\ times[i] <= now - span
    BY <1>2 DEF Kept
  <1>5. \A i \in 1..Len(events) : events[i] = times[dropped + i] /\ dropped + i \in 1..n
    BY <1>2 DEF Kept
  <1>10. Len(times) = n
    OBVIOUS
  <1> HIDE DEF all, live, n
  <1>6. WithinBudget(all, max, span)
    <2> SUFFICES ASSUME NEW i \in 1..(n + 1), NEW j \in 1..(n + 1), j <= i,
                        all[j] > all[i] - span
                 PROVE  i - j < max
      BY <1>3 DEF WithinBudget
    <2>1. CASE i <= n
      <3>1. i \in 1..n /\ j \in 1..n
        BY <1>2, <2>1
      <3>3. all[i] = times[i] /\ all[j] = times[j]
        BY <1>1, <3>1
      <3>2. j <= i /\ times[j] > times[i] - span /\ i \in DOMAIN times /\ j \in DOMAIN times
        BY <1>3, <3>1, <3>3
      <3> QED
        BY <3>2 DEF WithinBudget
    <2>2. CASE i = n + 1
      <3>1. all[i] = now
        BY <1>1, <2>2
      <3>2. ~(j \in 1..dropped)
        <4>1. SUFFICES ASSUME j \in 1..dropped PROVE FALSE
          OBVIOUS
        <4>2. j \in 1..n /\ all[j] = times[j] /\ times[j] <= now - span
          BY <1>1, <1>4, <4>1
        <4>3. times[j] \in Int
          BY <1>10, <4>2, ElementOfSeq
        <4> QED
          BY <3>1, <4>2, <4>3
      <3>3. j > dropped
        BY <1>2, <3>2
      <3> QED
        BY <1>2, <2>2, <3>3
    <2> QED
      BY <1>2, <2>1, <2>2
  <1>7. Len(all) - Len(live) = dropped /\ Len(live) <= Len(all)
    BY <1>1, <1>2
  <1>8. ASSUME NEW i \in 1..Len(live) PROVE live[i] = all[dropped + i]
    <2>1. CASE i <= Len(events)
      <3>1. i \in 1..Len(events)
        BY <1>2, <2>1
      <3> QED
        BY <1>1, <1>5, <3>1
    <2>2. CASE i = Len(events) + 1
      <3>1. dropped + i = n + 1
        BY <1>2, <2>2
      <3> QED
        BY <1>1, <2>2, <3>1
    <2> QED
      BY <1>1, <1>2, <2>1, <2>2
  <1>9. \A i \in 1..dropped : all[i] <= now - span
    BY <1>1, <1>4
  <1> QED
    BY <1>6, <1>7, <1>8, <1>9 DEF Kept, all, live
=============================================================================
