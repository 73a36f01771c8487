----------------------------- MODULE RelayProofs -----------------------------
(***************************************************************************)
(* A command reaches the car at most once, and the waking of cars is       *)
(* shared and stays within its budget, for any number of overlapping calls *)
(* and cars, any budget and any replies.                                   *)
(***************************************************************************)
EXTENDS Relay, RollingWindowProofs

\* A call that has begun has a car, and only a command gets to waiting for one.
Callers ==
  \A h \in Calls :
     /\ pc[h] # "idle" => target[h] \in Cars
     /\ pc[h] \in {"command", "retry", "ensure_awake", "joined", "poll"} => kind[h] = "command"

\* A call that can still send has not been heard, and one that gave up has one
\* command under way at most.
Fires ==
  \A h \in Calls :
     /\ pc[h] # "returned" => executed[h] = 0 /\ ~late[h]
     /\ late[h] => executed[h] = 0
     /\ executed[h] <= 1

\* A flight and the call that leads it know each other, and who joined has one.
Flights ==
  /\ \A h \in Calls : Leads(h) => flight[target[h]] = h
  /\ \A c \in Cars : flight[c] # None => Leads(flight[c]) /\ target[flight[c]] = c
  /\ \A h \in Calls : pc[h] = "joined" => flight[target[h]] # None

\* The window of a car's budget is the end of all its wakes.
Budget ==
  MaxWakes > 0 =>
     \A c \in Cars : /\ Kept(wakeLog[c], wakes[c], now - Hour)
                     /\ WithinBudget(wakes[c], MaxWakes, Hour)

RelayInv == TypeOK /\ Callers /\ Fires /\ Flights /\ Budget

\* What Handle reports of a call is what happened: nothing is on the wire of a call that was
\* rejected, a command that was sent has been run, and what may still arrive late has failed.
\* What the car ran, or may run late, was on the wire.
Report(h) ==
  /\ pc[h] = "idle" => posts[h] = 0
  /\ pc[h] = "returned" <=> outcome[h] # None
  /\ pc[h] = "take_wake" => kind[h] = "command" \/ (kind[h] = "wake" /\ posts[h] = 0)
  /\ pc[h] = "wake" => kind[h] \in {"command", "wake"}
  /\ late[h] => outcome[h] = "failed"
  /\ late[h] \/ executed[h] # 0 => posts[h] > 0
  /\ outcome[h] = "rejected" => posts[h] = 0
  /\ outcome[h] = "sent" => posts[h] > 0 /\ (kind[h] # "wake" => executed[h] = 1)
Reports == \A h \in Calls : Report(h)

-----------------------------------------------------------------------------
\* The initial states satisfy the invariant.
LEMMA RelayInit == Init => RelayInv
  <1> SUFFICES ASSUME Init PROVE RelayInv
    OBVIOUS
  <1> USE RelayAssumption DEF Init
  <1>1. TypeOK
    <2>1. /\ now \in 0..MaxTime /\ 0 \in 0..(MaxPolls - 1)
          /\ wakeLog \in [Cars -> Seq(0..MaxTime)] /\ wakes \in [Cars -> Seq(0..MaxTime)]
      OBVIOUS
    <2> QED
      BY <2>1 DEF TypeOK
  <1>2. Callers /\ Fires
    BY DEF Callers, Fires
  <1>3. Flights
    BY DEF Flights, Leads
  <1>4. Budget
    <2>1. Kept(<<>>, <<>>, 0 - Hour) /\ WithinBudget(<<>>, MaxWakes, Hour)
      BY DEF Kept, WithinBudget
    <2> QED
      BY <2>1 DEF Budget
  <1> QED
    BY <1>1, <1>2, <1>3, <1>4 DEF RelayInv

\* A call that leads a flight before and after a step, or neither, leaves flights alone.
LEMMA FlightsKept ==
  ASSUME RelayInv, NEW h \in Calls, UNCHANGED flight,
         \A g \in Calls \ {h} : pc'[g] = pc[g] /\ kind'[g] = kind[g] /\ target'[g] = target[g],
         Leads(h)' <=> Leads(h),
         pc[h] # "idle" => target'[h] = target[h],
         pc'[h] = "joined" => flight[target'[h]] # None
  PROVE  Flights'
  <1>1. \A g \in Calls : Leads(g)' <=> Leads(g)
    BY DEF Leads
  <1>2. \A g \in Calls : Leads(g) => target'[g] = target[g]
    BY DEF Leads
  <1>3. \A c \in Cars : flight[c] # None => flight[c] \in Calls
    BY DEF RelayInv, TypeOK
  <1> QED
    BY <1>1, <1>2, <1>3 DEF RelayInv, Flights

\* The end of a flight frees everyone who waits for it, and nobody else.
LEMMA EndFlightKeeps ==
  ASSUME RelayInv, NEW h \in Calls, NEW ok \in BOOLEAN, Leads(h), EndFlight(h, ok),
         UNCHANGED <<kind, target>>
  PROVE  /\ pc' \in [Calls -> {"idle", "command", "retry", "navigate", "ensure_awake", "joined",
                               "take_wake", "wake", "poll", "returned"}]
         /\ outcome' \in [Calls -> HandleOutcomes \cup {None}]
         /\ flight' \in [Cars -> Calls \cup {None}]
         /\ \A g \in Calls : pc'[g] # "returned" => pc[g] # "returned"
         /\ \A g \in Calls : pc'[g] # pc[g] => pc[g] # "idle" /\ pc'[g] \in {"retry", "returned"}
         /\ Callers' /\ Flights'
  <1> DEFINE c     == target[h]
             Flock == {h} \cup {g \in Calls : target[g] = c /\ pc[g] = "joined"}
  <1>1. c \in Cars
    BY DEF RelayInv, Callers, Leads
  <1>2. /\ flight' = [flight EXCEPT ![c] = None]
        /\ pc' = [g \in Calls |-> IF g \notin Flock THEN pc[g]
                                  ELSE IF ok THEN "retry" ELSE "returned"]
        /\ outcome' = [g \in Calls |-> IF g \in Flock /\ ~ok THEN "failed" ELSE outcome[g]]
    BY DEF EndFlight
  <1>3. \A g \in Flock : pc[g] \in {"take_wake", "wake", "poll", "joined"} /\ kind[g] = "command"
    BY DEF RelayInv, Callers, Leads
  <1>4. \A g \in Calls : Leads(g)' <=> Leads(g) /\ g \notin Flock
    BY <1>2 DEF Leads
  <1>5. \A g \in Calls : Leads(g) /\ target[g] = c => g = h
    BY DEF RelayInv, Flights
  <1> HIDE DEF Flock, c
  <1>6. /\ pc' \in [Calls -> {"idle", "command", "retry", "navigate", "ensure_awake", "joined",
                              "take_wake", "wake", "poll", "returned"}]
        /\ outcome' \in [Calls -> HandleOutcomes \cup {None}]
        /\ flight' \in [Cars -> Calls \cup {None}]
    BY <1>1, <1>2 DEF RelayInv, TypeOK, HandleOutcomes
  <1>7. \A g \in Calls : pc'[g] # pc[g] => pc[g] # "idle" /\ pc'[g] \in {"retry", "returned"}
    BY <1>2, <1>3
  <1>8. \A g \in Calls : pc'[g] # "returned" => pc[g] # "returned"
    BY <1>2, <1>3
  <1>9. Callers'
    BY <1>2, <1>3 DEF RelayInv, Callers
  <1>10. Flights'
    <2>1. ASSUME NEW g \in Calls, Leads(g)' PROVE flight'[target'[g]] = g
      <3>1. Leads(g) /\ g \notin Flock
        BY <1>4, <2>1
      <3>2. target[g] # c /\ target[g] \in Cars
        BY <1>5, <3>1 DEF Flock, RelayInv, Callers, Leads
      <3> QED
        BY <1>1, <1>2, <3>1, <3>2 DEF RelayInv, TypeOK, Flights
    <2>2. ASSUME NEW d \in Cars, flight'[d] # None
          PROVE  (Leads(flight[d]) /\ target[flight[d]] = d)'
      <3>1. d # c /\ flight'[d] = flight[d] /\ flight[d] \in Calls
        BY <1>1, <1>2, <2>2 DEF RelayInv, TypeOK
      <3>2. Leads(flight[d]) /\ target[flight[d]] = d
        BY <2>2, <3>1 DEF RelayInv, Flights
      <3>3. flight[d] \notin Flock
        BY <3>1, <3>2 DEF Flock, c
      <3> QED
        BY <1>2, <3>1, <3>2, <3>3 DEF Leads
    <2>3. ASSUME NEW g \in Calls, pc'[g] = "joined" PROVE flight'[target'[g]] # None
      <3>1. pc[g] = "joined" /\ g \notin Flock
        BY <1>2, <2>3
      <3>2. target[g] # c /\ target[g] \in Cars
        BY <3>1 DEF Flock, RelayInv, Callers
      <3> QED
        BY <1>1, <1>2, <3>1, <3>2 DEF RelayInv, TypeOK, Flights
    <2> QED
      BY <2>1, <2>2, <2>3 DEF Flights
  <1> QED
    BY <1>6, <1>7, <1>8, <1>9, <1>10

\* What a request that is put on the wire leaves behind.
LEMMA OnWire ==
  ASSUME RelayInv, NEW h \in Calls, pc[h] # "returned", NEW c, NEW reply \in Replies(c),
         PutOnWire(h, reply)
  PROVE  /\ posts' \in [Calls -> Nat] /\ late' \in [Calls -> BOOLEAN]
         /\ executed' \in [Calls -> Nat]
         /\ \A g \in Calls \ {h} : late'[g] = late[g] /\ executed'[g] = executed[g]
         /\ late'[h] => executed'[h] = 0
         /\ executed'[h] <= 1
         /\ reply.heard \in {"limited", "asleep"} => late'[h] = FALSE /\ executed'[h] = 0
  <1>1. /\ reply.heard \in {"limited", "error", "asleep", "ok"} /\ reply.ran \in BOOLEAN
        /\ reply.heard \in {"limited", "asleep"} => ~reply.ran
    <2>1. \/ reply = [heard |-> "limited", ran |-> FALSE]
          \/ reply = [heard |-> "error", ran |-> FALSE]
          \/ reply = [heard |-> "ok", ran |-> TRUE]
          \/ reply = [heard |-> "error", ran |-> TRUE]
          \/ reply = [heard |-> "asleep", ran |-> FALSE]
      BY DEF Replies
    <2>2. \/ reply.heard = "limited" /\ reply.ran = FALSE
          \/ reply.heard = "error" /\ reply.ran = FALSE
          \/ reply.heard = "ok" /\ reply.ran = TRUE
          \/ reply.heard = "error" /\ reply.ran = TRUE
          \/ reply.heard = "asleep" /\ reply.ran = FALSE
      BY <2>1
    <2> QED
      BY <2>2
  <1>2. executed[h] = 0 /\ late[h] = FALSE
    BY DEF RelayInv, TypeOK, Fires
  <1>3. PICK stray \in Strays(reply) : late' = [late EXCEPT ![h] = stray]
    BY DEF PutOnWire
  <1>4. /\ stray \in BOOLEAN
        /\ stray => ~reply.ran
        /\ reply.heard \in {"limited", "asleep"} => stray = FALSE
    BY <1>1 DEF Strays
  <1>5. /\ posts' = [posts EXCEPT ![h] = @ + 1]
        /\ executed' = [executed EXCEPT ![h] = IF reply.ran THEN @ + 1 ELSE @]
    BY DEF PutOnWire
  <1>6. posts' \in [Calls -> Nat] /\ executed' \in [Calls -> Nat]
    BY <1>5 DEF RelayInv, TypeOK
  <1>7. executed'[h] = IF reply.ran THEN 1 ELSE 0
    BY <1>2, <1>5 DEF RelayInv, TypeOK
  <1>8. late'[h] = stray /\ late' \in [Calls -> BOOLEAN]
    BY <1>3, <1>4 DEF RelayInv, TypeOK
  <1>9. \A g \in Calls \ {h} : late'[g] = late[g] /\ executed'[g] = executed[g]
    BY <1>3, <1>5 DEF RelayInv, TypeOK
  <1> QED
    BY <1>1, <1>4, <1>6, <1>7, <1>8, <1>9

\* The sequences of a budget are of whole numbers.
LEMMA Windows ==
  ASSUME RelayInv
  PROVE  /\ \A c \in Cars : wakeLog[c] \in Seq(Int) /\ wakes[c] \in Seq(Int)
         /\ now \in Int /\ Hour \in Int /\ now - Hour \in Int
  <1>1. now \in Int /\ Hour \in Int
    BY RelayAssumption DEF RelayInv, TypeOK
  <1>2. ASSUME NEW s \in Seq(0..MaxTime) PROVE s \in Seq(Int)
    BY RelayAssumption, SeqMonotonic
  <1> QED
    BY <1>1, <1>2 DEF RelayInv, TypeOK

\* A call that sends, and ends or goes on to wake the car.
LEMMA SendsKeep ==
  ASSUME RelayInv, NEW h \in Calls, NEW reply \in Replies(target[h]), PutOnWire(h, reply),
         pc[h] \in {"command", "retry", "wake", "navigate"},
         NEW p, pc' = [pc EXCEPT ![h] = p],
         \/ p = pc[h] /\ reply.heard = "limited"
         \/ p = "returned" /\ ~Leads(h)
         \/ p = "ensure_awake" /\ pc[h] = "command" /\ reply.heard = "asleep",
         attempt' \in [Calls -> 0..1],
         outcome' \in [Calls -> HandleOutcomes \cup {None}],
         UNCHANGED <<now, kind, target, polls, flight, wakeLog, awake, wakes>>
  PROVE  RelayInv'
  <1>1. /\ posts' \in [Calls -> Nat] /\ late' \in [Calls -> BOOLEAN] /\ executed' \in [Calls -> Nat]
        /\ \A g \in Calls \ {h} : late'[g] = late[g] /\ executed'[g] = executed[g]
        /\ late'[h] => executed'[h] = 0
        /\ executed'[h] <= 1
        /\ reply.heard \in {"limited", "asleep"} => late'[h] = FALSE /\ executed'[h] = 0
    BY OnWire
  <1>2. pc'[h] = p /\ \A g \in Calls \ {h} : pc'[g] = pc[g]
    BY DEF RelayInv, TypeOK
  <1>3. TypeOK'
    BY <1>1 DEF RelayInv, TypeOK
  <1>4. Callers'
    BY <1>2 DEF RelayInv, Callers
  <1>5. Fires'
    BY <1>1, <1>2 DEF RelayInv, Fires
  <1>6. Flights'
    <2>1. Leads(h)' <=> Leads(h)
      BY <1>2 DEF Leads
    <2> QED
      BY <1>2, <2>1, FlightsKept
  <1>7. Budget'
    BY DEF RelayInv, Budget
  <1> QED
    BY <1>3, <1>4, <1>5, <1>6, <1>7 DEF RelayInv

\* A call that goes on without sending, outside any flight or at the head of one.
LEMMA MovesKeep ==
  ASSUME RelayInv, NEW h \in Calls, pc[h] # "idle",
         NEW p \in {"take_wake", "wake", "poll", "ensure_awake", "returned"},
         pc[h] # "returned",
         pc' = [pc EXCEPT ![h] = p],
         p \in {"poll", "ensure_awake"} => kind[h] = "command",
         Leads(h)' <=> Leads(h),
         outcome' \in [Calls -> HandleOutcomes \cup {None}],
         UNCHANGED <<kind, target, flight>>
  PROVE  /\ pc' \in [Calls -> {"idle", "command", "retry", "navigate", "ensure_awake", "joined",
                               "take_wake", "wake", "poll", "returned"}]
         /\ Callers' /\ Flights'
         /\ UNCHANGED <<late, executed>> => Fires'
  <1>1. pc'[h] = p /\ \A g \in Calls \ {h} : pc'[g] = pc[g]
    BY DEF RelayInv, TypeOK
  <1>2. Callers'
    BY <1>1 DEF RelayInv, Callers
  <1>3. Flights'
    BY <1>1, FlightsKept
  <1>4. UNCHANGED <<late, executed>> => Fires'
    BY <1>1 DEF RelayInv, Fires
  <1> QED
    BY <1>2, <1>3, <1>4 DEF RelayInv, TypeOK

\* A flight that ends, with what else the step changes.
LEMMA FlightEnds ==
  ASSUME RelayInv, NEW h \in Calls, NEW ok \in BOOLEAN, Leads(h), EndFlight(h, ok),
         attempt' \in [Calls -> 0..1],
         polls' \in [Calls -> 0..(MaxPolls - 1)],
         wakeLog' \in [Cars -> Seq(0..MaxTime)],
         awake' \in [Cars -> BOOLEAN],
         posts' \in [Calls -> Nat],
         Budget',
         UNCHANGED <<now, kind, target, late, executed, wakes>>
  PROVE  RelayInv'
  <1>1. /\ pc' \in [Calls -> {"idle", "command", "retry", "navigate", "ensure_awake", "joined",
                              "take_wake", "wake", "poll", "returned"}]
        /\ outcome' \in [Calls -> HandleOutcomes \cup {None}]
        /\ flight' \in [Cars -> Calls \cup {None}]
        /\ \A g \in Calls : pc'[g] # "returned" => pc[g] # "returned"
        /\ Callers' /\ Flights'
    BY EndFlightKeeps
  <1>2. TypeOK'
    BY <1>1 DEF RelayInv, TypeOK
  <1>3. Fires'
    BY <1>1 DEF RelayInv, Fires
  <1> QED
    BY <1>1, <1>2, <1>3 DEF RelayInv

\* A call that moves without a command and without the end of a flight.
LEMMA CallMoves ==
  ASSUME RelayInv, NEW h \in Calls, pc[h] # "idle", pc[h] # "returned",
         NEW p \in {"take_wake", "wake", "poll", "ensure_awake", "returned"},
         pc' = [pc EXCEPT ![h] = p],
         p \in {"poll", "ensure_awake"} => kind[h] = "command",
         Leads(h)' <=> Leads(h),
         attempt' \in [Calls -> 0..1],
         outcome' \in [Calls -> HandleOutcomes \cup {None}],
         polls' \in [Calls -> 0..(MaxPolls - 1)],
         wakeLog' \in [Cars -> Seq(0..MaxTime)],
         wakes' \in [Cars -> Seq(0..MaxTime)],
         awake' \in [Cars -> BOOLEAN],
         posts' \in [Calls -> Nat],
         Budget',
         UNCHANGED <<now, kind, target, flight, late, executed>>
  PROVE  RelayInv'
  <1>1. /\ pc' \in [Calls -> {"idle", "command", "retry", "navigate", "ensure_awake", "joined",
                              "take_wake", "wake", "poll", "returned"}]
        /\ Callers' /\ Flights' /\ Fires'
    BY MovesKeep
  <1>2. TypeOK'
    BY <1>1 DEF RelayInv, TypeOK
  <1> QED
    BY <1>1, <1>2 DEF RelayInv

\* A window that is pruned, with a wake that is taken or refused.
LEMMA BudgetKept ==
  ASSUME RelayInv, NEW c \in Cars, MaxWakes > 0, NEW i \in 0..Len(wakeLog[c]),
         Prunes(wakeLog[c], i, now - Hour), UNCHANGED now
  PROVE  LET live == Rest(wakeLog[c], i)
         IN  /\ live \in Seq(0..MaxTime) /\ Append(live, now) \in Seq(0..MaxTime)
             /\ (wakeLog' = [wakeLog EXCEPT ![c] = live] /\ UNCHANGED wakes) => Budget'
             /\ (/\ Len(live) < MaxWakes
                 /\ wakeLog' = [wakeLog EXCEPT ![c] = Append(live, now)]
                 /\ wakes' = [wakes EXCEPT ![c] = Append(@, now)]) => Budget'
  <1> DEFINE live == Rest(wakeLog[c], i)
  <1>1. /\ wakeLog[c] \in Seq(Int) /\ wakes[c] \in Seq(Int) /\ now \in Int /\ Hour \in Int
        /\ now - Hour \in Int /\ MaxWakes \in Nat
    BY Windows, RelayAssumption
  <1>2. Kept(wakeLog[c], wakes[c], now - Hour) /\ WithinBudget(wakes[c], MaxWakes, Hour)
    BY DEF RelayInv, Budget
  <1>3. Kept(live, wakes[c], now - Hour) /\ live \in Seq(Int)
    BY <1>1, <1>2, KeptPruned, RestProperties
  <1>4. live \in Seq(0..MaxTime) /\ now \in 0..MaxTime
    <2>1. /\ wakeLog[c] \in Seq(0..MaxTime) /\ Len(wakeLog[c]) \in Nat
          /\ \A j \in 1..Len(wakeLog[c]) : wakeLog[c][j] \in 0..MaxTime
      <3>1. wakeLog[c] \in Seq(0..MaxTime)
        BY DEF RelayInv, TypeOK
      <3> QED
        BY <3>1, ElementOfSeq, LenProperties
    <2>2. \A j \in (i + 1)..Len(wakeLog[c]) : wakeLog[c][j] \in 0..MaxTime
      BY <2>1
    <2> QED
      BY <2>1, <2>2, SubSeqProperties DEF Rest, RelayInv, TypeOK
  <1>5. Append(live, now) \in Seq(0..MaxTime)
    BY <1>4, AppendProperties
  <1> HIDE DEF live
  <1>6. ASSUME wakeLog' = [wakeLog EXCEPT ![c] = live], UNCHANGED wakes PROVE Budget'
    <2>1. \A d \in Cars : wakeLog'[d] = IF d = c THEN live ELSE wakeLog[d]
      BY <1>6 DEF RelayInv, TypeOK
    <2> QED
      BY <1>3, <1>6, <2>1 DEF RelayInv, Budget
  <1>7. ASSUME Len(live) < MaxWakes,
               wakeLog' = [wakeLog EXCEPT ![c] = Append(live, now)],
               wakes' = [wakes EXCEPT ![c] = Append(@, now)]
        PROVE  Budget'
    <2>1. \A d \in Cars : wakeLog'[d] = IF d = c THEN Append(live, now) ELSE wakeLog[d]
      BY <1>7 DEF RelayInv, TypeOK
    <2>2. \A d \in Cars : wakes'[d] = IF d = c THEN Append(wakes[c], now) ELSE wakes[d]
      BY <1>7 DEF RelayInv, TypeOK
    <2>3. /\ Kept(Append(live, now), Append(wakes[c], now), now - Hour)
          /\ WithinBudget(Append(wakes[c], now), MaxWakes, Hour)
      BY <1>1, <1>2, <1>3, <1>7, AllowedWithin
    <2> QED
      BY <2>1, <2>2, <2>3 DEF RelayInv, Budget
  <1> QED
    BY <1>4, <1>5, <1>6, <1>7 DEF live

-----------------------------------------------------------------------------
\* Every step of a call keeps the invariant.
LEMMA CallStepKeeps ==
  ASSUME RelayInv, NEW h \in Calls, CallStep(h)
  PROVE  RelayInv'
  <1> USE RelayAssumption
  <1>1. CASE NoToken(h)
    <2>1. /\ pc[h] \in {"command", "retry", "wake", "navigate"} /\ Fail(h)
          /\ UNCHANGED <<now, kind, target, attempt, polls, wakeLog, awake, posts, late, executed,
                         wakes>>
      BY <1>1 DEF NoToken, histVars
    <2>2. Budget'
      BY <2>1 DEF RelayInv, Budget
    <2>3. CASE Leads(h)
      BY <2>1, <2>2, <2>3, FlightEnds DEF Fail, RelayInv, TypeOK
    <2>4. CASE ~Leads(h)
      <3>1. /\ pc' = [pc EXCEPT ![h] = "returned"]
            /\ outcome' = [outcome EXCEPT ![h] = "failed"]
            /\ UNCHANGED flight
        BY <2>1, <2>4 DEF Fail, Return, Goto
      <3>2. outcome' \in [Calls -> HandleOutcomes \cup {None}]
        BY <3>1 DEF RelayInv, TypeOK, HandleOutcomes
      <3>3. ~Leads(h)'
        BY <3>1 DEF Leads, RelayInv, TypeOK
      <3> QED
        BY <2>1, <2>2, <2>4, <3>1, <3>2, <3>3, CallMoves DEF RelayInv, TypeOK
    <2> QED
      BY <2>3, <2>4
  <1>2. CASE PostAgain(h)
    <2>1. /\ pc[h] \in {"command", "retry", "wake"}
          /\ attempt' = [attempt EXCEPT ![h] = 1]
          /\ UNCHANGED <<now, pc, kind, target, outcome, polls, flight, wakeLog, awake, wakes>>
      BY <1>2 DEF PostAgain
    <2>2. PICK reply \in Replies(target[h]) : reply.heard = "limited" /\ PutOnWire(h, reply)
      BY <1>2 DEF PostAgain, Retries
    <2>3. /\ attempt' \in [Calls -> 0..1] /\ pc' = [pc EXCEPT ![h] = pc[h]]
          /\ outcome' \in [Calls -> HandleOutcomes \cup {None}]
      BY <2>1 DEF RelayInv, TypeOK
    <2>4. /\ UNCHANGED <<now, kind, target, polls, flight, wakeLog, awake, wakes>>
          /\ PutOnWire(h, reply) /\ reply.heard = "limited"
          /\ pc[h] \in {"command", "retry", "wake", "navigate"}
      BY <2>1, <2>2
    <2> QED
      BY <2>3, <2>4, SendsKeep
  <1>3. CASE Command(h)
    <2>1. /\ pc[h] = "command"
          /\ UNCHANGED <<now, kind, target, polls, flight, wakeLog, awake, wakes>>
      BY <1>3 DEF Command
    <2>2. PICK reply \in Replies(target[h]) :
             /\ PostEnds(h, reply)
             /\ PutOnWire(h, reply)
             /\ CASE reply.heard = "ok"     -> Return(h, "sent")
                  [] reply.heard = "asleep" -> Goto(h, "ensure_awake") /\ UNCHANGED outcome
                  [] OTHER                  -> Return(h, "failed")
      BY <1>3 DEF Command
    <2>3. attempt' \in [Calls -> 0..1]
      BY <2>2 DEF PostEnds, RelayInv, TypeOK
    <2>4. CASE reply.heard = "asleep"
      <3>1. /\ pc' = [pc EXCEPT ![h] = "ensure_awake"]
            /\ outcome' \in [Calls -> HandleOutcomes \cup {None}]
        BY <2>2, <2>4 DEF Goto, RelayInv, TypeOK
      <3> QED
        BY <2>1, <2>2, <2>3, <2>4, <3>1, SendsKeep
    <2>5. CASE reply.heard # "asleep"
      <3>1. /\ pc' = [pc EXCEPT ![h] = "returned"]
            /\ outcome' \in [Calls -> HandleOutcomes \cup {None}]
        BY <2>2, <2>5 DEF Return, Goto, RelayInv, TypeOK, HandleOutcomes
      <3>2. ~Leads(h)
        BY <2>1 DEF Leads
      <3> QED
        BY <2>1, <2>2, <2>3, <3>1, <3>2, SendsKeep
    <2> QED
      BY <2>4, <2>5
  <1>4. CASE Retry(h)
    <2>1. /\ pc[h] = "retry"
          /\ UNCHANGED <<now, kind, target, polls, flight, wakeLog, awake, wakes>>
      BY <1>4 DEF Retry
    <2>2. PICK reply \in Replies(target[h]) :
             /\ PostEnds(h, reply)
             /\ PutOnWire(h, reply)
             /\ Return(h, IF reply.heard = "ok" THEN "sent" ELSE "failed")
      BY <1>4 DEF Retry
    <2>3. /\ attempt' \in [Calls -> 0..1] /\ pc' = [pc EXCEPT ![h] = "returned"]
          /\ outcome' \in [Calls -> HandleOutcomes \cup {None}]
      BY <2>2 DEF PostEnds, Return, Goto, RelayInv, TypeOK, HandleOutcomes
    <2>4. ~Leads(h)
      BY <2>1 DEF Leads
    <2>5. /\ UNCHANGED <<now, kind, target, polls, flight, wakeLog, awake, wakes>>
          /\ PutOnWire(h, reply)
          /\ pc[h] \in {"command", "retry", "wake", "navigate"}
      BY <2>1, <2>2
    <2> QED
      BY <2>3, <2>4, <2>5, SendsKeep
  <1>5. CASE Navigate(h)
    <2>1. /\ pc[h] = "navigate"
          /\ UNCHANGED <<now, kind, target, attempt, polls, flight, wakeLog, awake, wakes>>
      BY <1>5 DEF Navigate
    <2>2. PICK reply \in Replies(target[h]) :
             /\ PutOnWire(h, reply)
             /\ Return(h, IF reply.heard = "ok" THEN "sent" ELSE "failed")
      BY <1>5 DEF Navigate
    <2>3. /\ attempt' \in [Calls -> 0..1] /\ pc' = [pc EXCEPT ![h] = "returned"]
          /\ outcome' \in [Calls -> HandleOutcomes \cup {None}]
      BY <2>1, <2>2 DEF Return, Goto, RelayInv, TypeOK, HandleOutcomes
    <2>4. ~Leads(h)
      BY <2>1 DEF Leads
    <2>5. /\ UNCHANGED <<now, kind, target, polls, flight, wakeLog, awake, wakes>>
          /\ PutOnWire(h, reply)
          /\ pc[h] \in {"command", "retry", "wake", "navigate"}
      BY <2>1, <2>2
    <2> QED
      BY <2>3, <2>4, <2>5, SendsKeep
  <1>6. CASE NavigateNowhere(h)
    <2>1. /\ pc[h] = "navigate" /\ pc' = [pc EXCEPT ![h] = "returned"]
          /\ outcome' = [outcome EXCEPT ![h] = "failed"]
          /\ UNCHANGED <<now, kind, target, attempt, polls, flight, wakeLog, awake, posts, late,
                         executed, wakes>>
      BY <1>6 DEF NavigateNowhere, Return, Goto, histVars
    <2>2. Budget' /\ outcome' \in [Calls -> HandleOutcomes \cup {None}]
      BY <2>1 DEF RelayInv, TypeOK, Budget, HandleOutcomes
    <2>3. ~Leads(h) /\ ~Leads(h)'
      BY <2>1 DEF Leads, RelayInv, TypeOK
    <2> QED
      BY <2>1, <2>2, <2>3, CallMoves DEF RelayInv, TypeOK
  <1>7. CASE EnsureAwake(h)
    <2>1. /\ pc[h] = "ensure_awake" /\ kind[h] = "command" /\ target[h] \in Cars
          /\ UNCHANGED <<now, kind, target, attempt, outcome, polls, wakeLog, awake, posts, late,
                         executed, wakes>>
      BY <1>7 DEF EnsureAwake, RelayInv, Callers, histVars
    <2>2. Budget'
      BY <2>1 DEF RelayInv, Budget
    <2>3. CASE flight[target[h]] = None
      <3>1. /\ flight' = [flight EXCEPT ![target[h]] = h]
            /\ pc' = [pc EXCEPT ![h] = "take_wake"]
        BY <1>7, <2>3 DEF EnsureAwake, Goto
      <3>2. TypeOK'
        BY <2>1, <3>1 DEF RelayInv, TypeOK
      <3>3. pc'[h] = "take_wake" /\ \A g \in Calls \ {h} : pc'[g] = pc[g]
        BY <3>1 DEF RelayInv, TypeOK
      <3>4. Callers' /\ Fires'
        BY <2>1, <3>3 DEF RelayInv, Callers, Fires
      <3>5. Flights'
        <4>1. \A c \in Cars : flight'[c] = IF c = target[h] THEN h ELSE flight[c]
          BY <2>1, <3>1 DEF RelayInv, TypeOK
        <4>2. ASSUME NEW g \in Calls, Leads(g)' PROVE flight'[target'[g]] = g
          <5>1. CASE g = h
            BY <2>1, <4>1, <5>1
          <5>2. CASE g # h
            <6>1. Leads(g) /\ target[g] \in Cars
              BY <2>1, <3>3, <4>2, <5>2 DEF Leads, RelayInv, Callers
            <6>2. flight[target[g]] = g
              BY <6>1 DEF RelayInv, Flights
            <6> QED
              BY <2>1, <2>3, <4>1, <6>1, <6>2
          <5> QED
            BY <5>1, <5>2
        <4>3. ASSUME NEW c \in Cars, flight'[c] # None
              PROVE  (Leads(flight[c]) /\ target[flight[c]] = c)'
          <5>1. CASE c = target[h]
            BY <2>1, <3>3, <4>1, <5>1 DEF Leads
          <5>2. CASE c # target[h]
            <6>1. flight'[c] = flight[c] /\ flight[c] \in Calls
              BY <4>1, <4>3, <5>2 DEF RelayInv, TypeOK
            <6>2. Leads(flight[c]) /\ target[flight[c]] = c
              BY <4>3, <6>1 DEF RelayInv, Flights
            <6> QED
              BY <2>1, <3>3, <6>1, <6>2 DEF Leads
          <5> QED
            BY <5>1, <5>2
        <4>4. ASSUME NEW g \in Calls, pc'[g] = "joined" PROVE flight'[target'[g]] # None
          <5>1. g # h /\ pc[g] = "joined" /\ target[g] \in Cars
            BY <3>3, <4>4 DEF RelayInv, Callers
          <5>2. flight[target[g]] # None
            BY <5>1 DEF RelayInv, Flights
          <5> QED
            BY <2>1, <2>3, <4>1, <5>1, <5>2
        <4> QED
          BY <4>2, <4>3, <4>4 DEF Flights
      <3> QED
        BY <2>2, <3>2, <3>4, <3>5 DEF RelayInv
    <2>4. CASE flight[target[h]] # None
      <3>1. pc' = [pc EXCEPT ![h] = "joined"] /\ UNCHANGED flight
        BY <1>7, <2>4 DEF EnsureAwake, Goto
      <3>2. TypeOK'
        BY <2>1, <3>1 DEF RelayInv, TypeOK
      <3>3. pc'[h] = "joined" /\ \A g \in Calls \ {h} : pc'[g] = pc[g]
        BY <3>1 DEF RelayInv, TypeOK
      <3>4. Callers' /\ Fires'
        BY <2>1, <3>3 DEF RelayInv, Callers, Fires
      <3>5. Flights'
        <4>1. ~Leads(h) /\ ~Leads(h)'
          BY <2>1, <3>3 DEF Leads
        <4> QED
          BY <2>1, <2>4, <3>1, <3>3, <4>1, FlightsKept
      <3> QED
        BY <2>2, <3>2, <3>4, <3>5 DEF RelayInv
    <2> QED
      BY <2>3, <2>4
  <1>8. CASE TakeWake(h)
    <2> DEFINE c == target[h]
    <2>1. /\ pc[h] = "take_wake" /\ c \in Cars
          /\ pc' = [pc EXCEPT ![h] = "wake"]
          /\ wakes' = [wakes EXCEPT ![c] = Append(@, now)]
          /\ UNCHANGED <<now, kind, target, attempt, outcome, polls, flight, awake, posts, late,
                         executed>>
      BY <1>8 DEF TakeWake, Goto, RelayInv, Callers
    <2>2. wakes' \in [Cars -> Seq(0..MaxTime)]
      BY <2>1 DEF RelayInv, TypeOK
    <2>3. wakeLog' \in [Cars -> Seq(0..MaxTime)] /\ Budget'
      <3>1. CASE MaxWakes = 0
        BY <1>8, <3>1 DEF TakeWake, RelayInv, TypeOK, Budget
      <3>2. CASE MaxWakes # 0
        <4>1. PICK i \in 0..Len(wakeLog[c]) :
                 /\ Prunes(wakeLog[c], i, now - Hour)
                 /\ Len(Rest(wakeLog[c], i)) < MaxWakes
                 /\ wakeLog' = [wakeLog EXCEPT ![c] = Append(Rest(@, i), now)]
          BY <1>8, <3>2 DEF TakeWake
        <4>2. MaxWakes > 0
          BY <3>2
        <4>3. Append(Rest(wakeLog[c], i), now) \in Seq(0..MaxTime) /\ Budget'
          BY <2>1, <4>1, <4>2, BudgetKept
        <4> QED
          BY <2>1, <4>1, <4>3 DEF RelayInv, TypeOK
      <3> QED
        BY <3>1, <3>2
    <2>4. Leads(h)' <=> Leads(h)
      BY <2>1 DEF Leads, RelayInv, TypeOK
    <2> QED
      BY <2>1, <2>2, <2>3, <2>4, CallMoves DEF RelayInv, TypeOK
  <1>9. CASE WakeRefused(h)
    <2> DEFINE c == target[h]
    <2>1. /\ pc[h] = "take_wake" /\ c \in Cars /\ MaxWakes > 0
          /\ UNCHANGED <<now, kind, target, attempt, polls, awake, posts, late, executed, wakes>>
      BY <1>9 DEF WakeRefused, RelayInv, Callers, histVars
    <2>2. PICK i \in 0..Len(wakeLog[c]) :
             /\ Prunes(wakeLog[c], i, now - Hour)
             /\ wakeLog' = [wakeLog EXCEPT ![c] = Rest(@, i)]
      BY <1>9 DEF WakeRefused
    <2>3. Rest(wakeLog[c], i) \in Seq(0..MaxTime) /\ Budget'
      BY <2>1, <2>2, BudgetKept
    <2>4. wakeLog' \in [Cars -> Seq(0..MaxTime)]
      BY <2>1, <2>2, <2>3 DEF RelayInv, TypeOK
    <2>5. CASE Leads(h)
      <3>1. EndFlight(h, FALSE)
        BY <1>9, <2>5 DEF WakeRefused
      <3> QED
        BY <2>1, <2>3, <2>4, <2>5, <3>1, FlightEnds DEF RelayInv, TypeOK
    <2>6. CASE ~Leads(h)
      <3>1. /\ pc' = [pc EXCEPT ![h] = "returned"]
            /\ outcome' = [outcome EXCEPT ![h] = "rejected"] /\ UNCHANGED flight
        BY <1>9, <2>6 DEF WakeRefused, Return, Goto
      <3>2. outcome' \in [Calls -> HandleOutcomes \cup {None}]
        BY <3>1 DEF RelayInv, TypeOK, HandleOutcomes
      <3>3. ~Leads(h)'
        BY <3>1 DEF Leads, RelayInv, TypeOK
      <3> QED
        BY <2>1, <2>3, <2>4, <2>6, <3>1, <3>2, <3>3, CallMoves DEF RelayInv, TypeOK
    <2> QED
      BY <2>5, <2>6
  <1>10. CASE Wake(h)
    <2>1. /\ pc[h] = "wake" /\ target[h] \in Cars
          /\ UNCHANGED <<now, kind, target, polls, wakeLog, late, executed, wakes>>
      BY <1>10 DEF Wake, RelayInv, Callers
    <2>2. PICK reply \in WakeReplies :
             /\ PostEnds(h, reply)
             /\ posts' = [posts EXCEPT ![h] = @ + 1]
             /\ awake' = [awake EXCEPT ![target[h]] = @ \/ reply.ran]
             /\ CASE reply.heard # "ok" -> Fail(h)
                  [] reply.heard = "ok" /\ ~Leads(h) -> Return(h, "sent") /\ UNCHANGED flight
                  [] reply.heard = "ok" /\ Leads(h) /\ FleetAPI ->
                       Goto(h, "poll") /\ UNCHANGED <<outcome, flight>>
                  [] reply.heard = "ok" /\ Leads(h) /\ ~FleetAPI -> EndFlight(h, TRUE)
      BY <1>10 DEF Wake
    <2>3. /\ attempt' \in [Calls -> 0..1] /\ posts' \in [Calls -> Nat]
          /\ Budget'
      BY <2>1, <2>2 DEF PostEnds, RelayInv, TypeOK, Budget
    <2>4. awake' \in [Cars -> BOOLEAN]
      <3>1. awake[target[h]] \in BOOLEAN /\ (awake[target[h]] \/ reply.ran) \in BOOLEAN
        BY <2>1 DEF RelayInv, TypeOK
      <3> QED
        BY <2>2, <3>1 DEF RelayInv, TypeOK
    <2>5. ASSUME ~Leads(h), NEW o \in HandleOutcomes, Return(h, o), UNCHANGED flight
          PROVE  RelayInv'
      <3>1. /\ pc' = [pc EXCEPT ![h] = "returned"]
            /\ outcome' = [outcome EXCEPT ![h] = o]
        BY <2>5 DEF Return, Goto
      <3>2. outcome' \in [Calls -> HandleOutcomes \cup {None}]
        BY <3>1 DEF RelayInv, TypeOK
      <3>3. ~Leads(h)'
        BY <3>1 DEF Leads, RelayInv, TypeOK
      <3> QED
        BY <2>1, <2>3, <2>4, <2>5, <3>1, <3>2, <3>3, CallMoves DEF RelayInv, TypeOK
    <2>6. ASSUME Leads(h), NEW ok \in BOOLEAN, EndFlight(h, ok)
          PROVE  RelayInv'
      BY <2>1, <2>3, <2>4, <2>6, FlightEnds DEF RelayInv, TypeOK
    <2>7. ASSUME Leads(h), Goto(h, "poll"), UNCHANGED <<outcome, flight>>
          PROVE  RelayInv'
      <3>1. pc' = [pc EXCEPT ![h] = "poll"] /\ kind[h] = "command"
        BY <2>7 DEF Goto, Leads
      <3>2. Leads(h)'
        BY <2>1, <3>1 DEF Leads, RelayInv, TypeOK
      <3> QED
        BY <2>1, <2>3, <2>4, <2>7, <3>1, <3>2, CallMoves DEF RelayInv, TypeOK
    <2>8. CASE reply.heard # "ok"
      <3>1. Fail(h)
        BY <2>2, <2>8
      <3> QED
        BY <2>5, <2>6, <3>1 DEF Fail, HandleOutcomes
    <2>9. CASE reply.heard = "ok" /\ ~Leads(h)
      BY <2>2, <2>5, <2>9 DEF HandleOutcomes
    <2>10. CASE reply.heard = "ok" /\ Leads(h) /\ FleetAPI
      BY <2>2, <2>7, <2>10
    <2>11. CASE reply.heard = "ok" /\ Leads(h) /\ ~FleetAPI
      BY <2>2, <2>6, <2>11
    <2> QED
      BY <2>8, <2>9, <2>10, <2>11
  <1>11. CASE PollOnline(h)
    <2>1. /\ Leads(h) /\ EndFlight(h, TRUE)
          /\ polls' = [polls EXCEPT ![h] = 0]
          /\ UNCHANGED <<now, kind, target, attempt, wakeLog, awake, posts, late, executed, wakes>>
      BY <1>11 DEF PollOnline, Leads, RelayInv, Callers, histVars
    <2>2. polls' \in [Calls -> 0..(MaxPolls - 1)] /\ Budget'
      BY <2>1 DEF RelayInv, TypeOK, Budget
    <2> QED
      BY <2>1, <2>2, FlightEnds DEF RelayInv, TypeOK
  <1>12. CASE PollAgain(h)
    <2>1. /\ pc[h] = "poll" /\ Leads(h)
          /\ polls' = [polls EXCEPT ![h] = (@ + 1) % MaxPolls]
          /\ IF polls[h] + 1 < MaxPolls
             THEN UNCHANGED <<pc, outcome, flight>> ELSE EndFlight(h, FALSE)
          /\ UNCHANGED <<now, kind, target, attempt, wakeLog, awake, posts, late, executed, wakes>>
      BY <1>12 DEF PollAgain, Leads, RelayInv, Callers, histVars
    <2>2. (polls[h] + 1) % MaxPolls \in 0..(MaxPolls - 1)
      BY DEF RelayInv, TypeOK
    <2>3. polls' \in [Calls -> 0..(MaxPolls - 1)] /\ Budget'
      BY <2>1, <2>2 DEF RelayInv, TypeOK, Budget
    <2>4. CASE polls[h] + 1 < MaxPolls
      <3>1. pc' = [pc EXCEPT ![h] = "poll"] /\ UNCHANGED <<pc, outcome, flight>>
        BY <2>1, <2>4 DEF RelayInv, TypeOK
      <3>2. Leads(h)' /\ kind[h] = "command"
        BY <2>1, <3>1 DEF Leads
      <3> QED
        BY <2>1, <2>3, <3>1, <3>2, CallMoves DEF RelayInv, TypeOK
    <2>5. CASE ~(polls[h] + 1 < MaxPolls)
      BY <2>1, <2>3, <2>5, FlightEnds DEF RelayInv, TypeOK
    <2> QED
      BY <2>4, <2>5
  <1> QED
    BY <1>1, <1>2, <1>3, <1>4, <1>5, <1>6, <1>7, <1>8, <1>9, <1>10, <1>11, <1>12 DEF CallStep

-----------------------------------------------------------------------------
\* Every action keeps the invariant.
LEMMA RelayStep ==
  ASSUME RelayInv, [Next]_vars
  PROVE  RelayInv'
  <1> USE RelayAssumption
  <1>1. CASE Tick
    <2>1. now' = now + 1 /\ now' \in 0..MaxTime /\ UNCHANGED relayVars
      BY <1>1 DEF RelayInv, TypeOK, Tick
    <2> USE <2>1 DEF relayVars, callVars, histVars
    <2>2. TypeOK'
      BY DEF RelayInv, TypeOK
    <2>3. Callers' /\ Fires'
      BY DEF RelayInv, Callers, Fires
    <2>4. Flights'
      BY DEF RelayInv, Flights, Leads
    <2>5. Budget'
      <3>1. now - Hour <= now' - Hour /\ now - Hour \in Int /\ now' - Hour \in Int
        BY Windows
      <3>2. ASSUME NEW c \in Cars, MaxWakes > 0
            PROVE  Kept(wakeLog[c], wakes[c], now' - Hour)
        <4>1. Kept(wakeLog[c], wakes[c], now - Hour)
          BY <3>2 DEF RelayInv, Budget
        <4> QED
          BY <3>1, <4>1, Windows, KeptLater
      <3> QED
        BY <3>2 DEF RelayInv, Budget
    <2> QED
      BY <2>2, <2>3, <2>4, <2>5 DEF RelayInv
  <1>2. ASSUME NEW c \in Cars, CarChanges(c) PROVE RelayInv'
    <2>1. /\ awake' = [awake EXCEPT ![c] = ~@]
          /\ UNCHANGED <<now, pc, kind, target, attempt, outcome, polls, flight, wakeLog, posts,
                         late, executed, wakes>>
      BY <1>2 DEF CarChanges, callVars, histVars
    <2>2. awake' \in [Cars -> BOOLEAN]
      BY <2>1 DEF RelayInv, TypeOK
    <2>3. TypeOK'
      BY <2>1, <2>2 DEF RelayInv, TypeOK
    <2> QED
      BY <2>1, <2>3 DEF RelayInv, Callers, Fires, Flights, Leads, Budget
  <1>3. ASSUME NEW h \in Calls, ArrivesLate(h) PROVE RelayInv'
    <2>1. /\ late[h] /\ late' = [late EXCEPT ![h] = FALSE]
          /\ executed' = [executed EXCEPT ![h] = @ + 1]
          /\ UNCHANGED <<now, pc, kind, target, attempt, outcome, polls, flight, wakeLog, awake,
                         posts, wakes>>
      BY <1>3 DEF ArrivesLate, callVars
    <2>2. late' \in [Calls -> BOOLEAN] /\ executed' \in [Calls -> Nat]
      BY <2>1 DEF RelayInv, TypeOK
    <2>3. TypeOK'
      BY <2>1, <2>2 DEF RelayInv, TypeOK
    <2>4. executed[h] = 0 /\ pc[h] = "returned"
      BY <2>1 DEF RelayInv, Fires
    <2>5. executed'[h] = 1 /\ ~late'[h]
          /\ \A g \in Calls \ {h} : late'[g] = late[g] /\ executed'[g] = executed[g]
      BY <2>1, <2>4 DEF RelayInv, TypeOK
    <2>6. Fires'
      BY <2>1, <2>4, <2>5 DEF RelayInv, Fires
    <2> QED
      BY <2>1, <2>3, <2>6 DEF RelayInv, Callers, Flights, Leads, Budget
  <1>4. ASSUME NEW h \in Calls, NEW c \in Cars, Handle(h, c) PROVE RelayInv'
    <2>1. /\ pc[h] = "idle" /\ target' = [target EXCEPT ![h] = c]
          /\ UNCHANGED <<now, attempt, polls, flight, wakeLog, awake, posts, late, executed, wakes>>
      BY <1>4 DEF Handle, histVars
    <2>2. \E p \in {"returned", "take_wake", "command", "navigate"} :
             /\ pc' = [pc EXCEPT ![h] = p]
             /\ kind' \in [Calls -> Kinds \cup {None}]
             /\ \A g \in Calls \ {h} : kind'[g] = kind[g]
             /\ p = "command" => kind'[h] = "command"
             /\ p = "take_wake" => kind'[h] = "wake"
             /\ outcome' \in [Calls -> HandleOutcomes \cup {None}]
      <3>1. CASE Return(h, "rejected") /\ UNCHANGED kind
        BY <3>1 DEF Return, Goto, RelayInv, TypeOK, HandleOutcomes
      <3>2. ASSUME NEW k \in Kinds, kind' = [kind EXCEPT ![h] = k],
                   Goto(h, IF kind'[h] = "wake" THEN "take_wake" ELSE kind'[h]),
                   UNCHANGED outcome
            PROVE  \E p \in {"returned", "take_wake", "command", "navigate"} :
                      /\ pc' = [pc EXCEPT ![h] = p]
                      /\ kind' \in [Calls -> Kinds \cup {None}]
                      /\ \A g \in Calls \ {h} : kind'[g] = kind[g]
                      /\ p = "command" => kind'[h] = "command"
                      /\ p = "take_wake" => kind'[h] = "wake"
                      /\ outcome' \in [Calls -> HandleOutcomes \cup {None}]
        BY <3>2 DEF Goto, RelayInv, TypeOK, Kinds
      <3> QED
        BY <1>4, <3>1, <3>2 DEF Handle
    <2>3. PICK p \in {"returned", "take_wake", "command", "navigate"} :
             /\ pc' = [pc EXCEPT ![h] = p]
             /\ kind' \in [Calls -> Kinds \cup {None}]
             /\ \A g \in Calls \ {h} : kind'[g] = kind[g]
             /\ p = "command" => kind'[h] = "command"
             /\ p = "take_wake" => kind'[h] = "wake"
             /\ outcome' \in [Calls -> HandleOutcomes \cup {None}]
      BY <2>2
    <2>4. pc'[h] = p /\ target'[h] = c
          /\ \A g \in Calls \ {h} : pc'[g] = pc[g] /\ target'[g] = target[g]
      BY <2>1, <2>3 DEF RelayInv, TypeOK
    <2>5. TypeOK'
      BY <2>1, <2>3 DEF RelayInv, TypeOK
    <2>6. Callers'
      BY <2>3, <2>4 DEF RelayInv, Callers
    <2>7. Fires'
      BY <2>1, <2>4 DEF RelayInv, Fires
    <2>8. Flights'
      <3>1. Leads(h)' <=> Leads(h)
        BY <2>1, <2>3, <2>4 DEF Leads
      <3> QED
        BY <2>1, <2>3, <2>4, <3>1, FlightsKept
    <2>9. Budget'
      BY <2>1 DEF RelayInv, Budget
    <2> QED
      BY <2>5, <2>6, <2>7, <2>8, <2>9 DEF RelayInv
  <1>5. ASSUME NEW h \in Calls, CallStep(h) PROVE RelayInv'
    BY <1>5, CallStepKeeps
  <1>6. CASE UNCHANGED vars
    BY <1>6 DEF vars, relayVars, callVars, histVars, RelayInv, TypeOK, Callers, Fires, Flights,
                Leads, Budget
  <1> QED
    BY <1>1, <1>2, <1>3, <1>4, <1>5, <1>6 DEF Next

(***************************************************************************)
(* What a call reports.                                                    *)
(***************************************************************************)

\* Calls that are not g's to move stay, or get the result of the flight they joined.
Bystander(g) ==
  /\ posts'[g] = posts[g] /\ late'[g] = late[g] /\ executed'[g] = executed[g]
  /\ \/ pc'[g] = pc[g] /\ outcome'[g] = outcome[g]
     \/ pc[g] = "joined" /\ pc'[g] = "retry" /\ outcome'[g] = outcome[g]
     \/ pc[g] = "joined" /\ pc'[g] = "returned" /\ outcome'[g] = "failed"

\* What a step of the call h does to h and to the others.
CallDoes(h) ==
  /\ pc[h] \notin {"idle", "returned"} /\ pc'[h] # "idle"
  /\ UNCHANGED <<now, kind, target>>
  /\ \A g \in Calls \ {h} : Bystander(g)
  /\ Report(h)'

\* The end of a flight, for the call that leads it and for the others.
LEMMA FlightTold ==
  ASSUME RelayInv, NEW h \in Calls, NEW ok \in BOOLEAN, Leads(h), EndFlight(h, ok),
         UNCHANGED <<late, executed>>
  PROVE  /\ pc'[h] = (IF ok THEN "retry" ELSE "returned")
         /\ outcome'[h] = (IF ok THEN outcome[h] ELSE "failed")
         /\ \A g \in Calls \ {h} : posts'[g] = posts[g] => Bystander(g)
  BY DEF EndFlight, RelayInv, TypeOK, Bystander

\* A step that moves h alone.
LEMMA AloneTold ==
  ASSUME RelayInv, NEW h \in Calls, NEW p, pc' = [pc EXCEPT ![h] = p],
         NEW o, outcome' = [outcome EXCEPT ![h] = o],
         UNCHANGED <<late, executed>>
  PROVE  /\ pc'[h] = p /\ outcome'[h] = o
         /\ \A g \in Calls \ {h} : posts'[g] = posts[g] => Bystander(g)
  BY DEF RelayInv, TypeOK, Bystander

\* A step that moves h alone and decides nothing.
LEMMA AloneMoved ==
  ASSUME RelayInv, NEW h \in Calls, NEW p, pc' = [pc EXCEPT ![h] = p],
         UNCHANGED <<outcome, late, executed>>
  PROVE  /\ pc'[h] = p /\ outcome'[h] = outcome[h]
         /\ \A g \in Calls \ {h} : posts'[g] = posts[g] => Bystander(g)
  BY DEF RelayInv, TypeOK, Bystander

\* A request on the wire, and what is heard of it.
LEMMA WireTold ==
  ASSUME RelayInv, NEW h \in Calls, NEW reply \in Replies(target[h]), PutOnWire(h, reply),
         pc[h] \in {"command", "retry", "wake", "navigate"},
         NEW p, pc' = [pc EXCEPT ![h] = p],
         NEW o, outcome' = [outcome EXCEPT ![h] = o]
  PROVE  /\ pc'[h] = p /\ outcome'[h] = o
         /\ posts[h] \in Nat /\ posts'[h] = posts[h] + 1
         /\ reply.heard = "ok" => executed'[h] = 1 /\ late'[h] = FALSE
         /\ reply.heard \in {"limited", "asleep"} => executed'[h] = 0 /\ late'[h] = FALSE
         /\ \A g \in Calls \ {h} : Bystander(g)
  <1>1. /\ \A g \in Calls \ {h} : late'[g] = late[g] /\ executed'[g] = executed[g]
        /\ reply.heard \in {"limited", "asleep"} => late'[h] = FALSE /\ executed'[h] = 0
    BY OnWire
  <1>2. posts' = [posts EXCEPT ![h] = @ + 1] /\ posts \in [Calls -> Nat]
    BY DEF PutOnWire, RelayInv, TypeOK
  <1>3. posts[h] \in Nat /\ posts'[h] = posts[h] + 1
        /\ \A g \in Calls \ {h} : posts'[g] = posts[g]
    BY <1>2
  <1>4. reply.heard = "ok" => reply.ran = TRUE
    <2>1. \/ reply = [heard |-> "limited", ran |-> FALSE]
          \/ reply = [heard |-> "error", ran |-> FALSE]
          \/ reply = [heard |-> "ok", ran |-> TRUE]
          \/ reply = [heard |-> "error", ran |-> TRUE]
          \/ reply = [heard |-> "asleep", ran |-> FALSE]
      BY DEF Replies
    <2> QED
      BY <2>1
  <1>5. executed[h] = 0 /\ late[h] = FALSE
    BY DEF RelayInv, TypeOK, Fires
  <1>6. reply.heard = "ok" => executed'[h] = 1 /\ late'[h] = FALSE
    BY <1>4, <1>5 DEF PutOnWire, Strays, RelayInv, TypeOK
  <1>7. pc'[h] = p /\ outcome'[h] = o
        /\ \A g \in Calls \ {h} : pc'[g] = pc[g] /\ outcome'[g] = outcome[g]
    BY DEF RelayInv, TypeOK
  <1> QED
    BY <1>1, <1>3, <1>6, <1>7 DEF Bystander

\* Every step of a call does that.
LEMMA CallDoesStep ==
  ASSUME RelayInv, Reports, NEW h \in Calls, CallStep(h)
  PROVE  CallDoes(h)
  <1>1. /\ Report(h) /\ None # "sent" /\ None # "rejected" /\ None # "failed"
        /\ pc[h] # "returned" => late[h] = FALSE /\ executed[h] = 0 /\ outcome[h] = None
        /\ outcome = [outcome EXCEPT ![h] = outcome[h]]
        /\ posts[h] \in Nat
    BY RelayAssumption DEF RelayInv, TypeOK, Fires, Reports, Report, HandleOutcomes
  <1>2. CASE NoToken(h)
    <2>1. /\ pc[h] \in {"command", "retry", "wake", "navigate"} /\ Fail(h)
          /\ UNCHANGED <<now, kind, target, posts, late, executed>>
      BY <1>2 DEF NoToken, histVars
    <2>2. /\ pc'[h] = "returned" /\ outcome'[h] = "failed"
          /\ \A g \in Calls \ {h} : Bystander(g)
      <3>1. CASE Leads(h)
        BY <2>1, <3>1, FlightTold DEF Fail
      <3>2. CASE ~Leads(h)
        BY <2>1, <3>2, AloneTold DEF Fail, Return, Goto
      <3> QED
        BY <3>1, <3>2
    <2> QED
      BY <1>1, <2>1, <2>2 DEF CallDoes, Report
  <1>3. CASE PostAgain(h)
    <2>1. PICK reply \in Replies(target[h]) : reply.heard = "limited" /\ PutOnWire(h, reply)
      BY <1>3 DEF PostAgain, Retries
    <2>2. /\ pc[h] \in {"command", "retry", "wake"} /\ UNCHANGED <<now, kind, target>>
          /\ pc' = [pc EXCEPT ![h] = pc[h]] /\ outcome' = [outcome EXCEPT ![h] = outcome[h]]
      BY <1>1, <1>3 DEF PostAgain, RelayInv, TypeOK
    <2>3. /\ pc'[h] = pc[h] /\ outcome'[h] = outcome[h] /\ late'[h] = FALSE
          /\ posts'[h] = posts[h] + 1
          /\ \A g \in Calls \ {h} : Bystander(g)
      BY <2>1, <2>2, WireTold
    <2> QED
      BY <1>1, <2>2, <2>3 DEF CallDoes, Report
  <1>4. CASE Command(h)
    <2>1. /\ pc[h] = "command" /\ UNCHANGED <<now, kind, target>>
      BY <1>4 DEF Command
    <2>2. PICK reply \in Replies(target[h]) :
             /\ PutOnWire(h, reply)
             /\ CASE reply.heard = "ok"     -> Return(h, "sent")
                  [] reply.heard = "asleep" -> Goto(h, "ensure_awake") /\ UNCHANGED outcome
                  [] OTHER                  -> Return(h, "failed")
      BY <1>4 DEF Command
    <2>3. CASE reply.heard = "ok"
      <3>1. /\ pc' = [pc EXCEPT ![h] = "returned"] /\ outcome' = [outcome EXCEPT ![h] = "sent"]
        BY <2>2, <2>3 DEF Return, Goto
      <3>2. /\ pc'[h] = "returned" /\ outcome'[h] = "sent" /\ late'[h] = FALSE
            /\ executed'[h] = 1 /\ posts'[h] = posts[h] + 1
            /\ \A g \in Calls \ {h} : Bystander(g)
        BY <2>1, <2>2, <2>3, <3>1, WireTold
      <3> QED
        BY <1>1, <2>1, <3>2 DEF CallDoes, Report
    <2>4. CASE reply.heard = "asleep"
      <3>1. /\ pc' = [pc EXCEPT ![h] = "ensure_awake"]
            /\ outcome' = [outcome EXCEPT ![h] = outcome[h]]
        BY <1>1, <2>2, <2>4 DEF Goto
      <3>2. /\ pc'[h] = "ensure_awake" /\ outcome'[h] = outcome[h] /\ late'[h] = FALSE
            /\ posts'[h] = posts[h] + 1
            /\ \A g \in Calls \ {h} : Bystander(g)
        BY <2>1, <2>2, <2>4, <3>1, WireTold
      <3> QED
        BY <1>1, <2>1, <3>2 DEF CallDoes, Report
    <2>5. CASE reply.heard \notin {"ok", "asleep"}
      <3>1. /\ pc' = [pc EXCEPT ![h] = "returned"] /\ outcome' = [outcome EXCEPT ![h] = "failed"]
        BY <2>2, <2>5 DEF Return, Goto
      <3>2. /\ pc'[h] = "returned" /\ outcome'[h] = "failed" /\ posts'[h] = posts[h] + 1
            /\ \A g \in Calls \ {h} : Bystander(g)
        BY <2>1, <2>2, <3>1, WireTold
      <3> QED
        BY <1>1, <2>1, <3>2 DEF CallDoes, Report
    <2> QED
      BY <2>3, <2>4, <2>5
  <1>5. CASE Retry(h)
    <2>1. pc[h] = "retry" /\ UNCHANGED <<now, kind, target>>
      BY <1>5 DEF Retry
    <2>2. PICK reply \in Replies(target[h]) :
             PutOnWire(h, reply) /\ Return(h, IF reply.heard = "ok" THEN "sent" ELSE "failed")
      BY <1>5 DEF Retry
    <2>3. /\ pc' = [pc EXCEPT ![h] = "returned"]
          /\ outcome' = [outcome EXCEPT ![h] = IF reply.heard = "ok" THEN "sent" ELSE "failed"]
      BY <2>2 DEF Return, Goto
    <2>4. /\ pc'[h] = "returned" /\ outcome'[h] = IF reply.heard = "ok" THEN "sent" ELSE "failed"
          /\ posts'[h] = posts[h] + 1
          /\ reply.heard = "ok" => executed'[h] = 1 /\ late'[h] = FALSE
          /\ \A g \in Calls \ {h} : Bystander(g)
      BY ZenonT(60), <2>1, <2>2, <2>3, WireTold
    <2> QED
      BY <1>1, <2>1, <2>4 DEF CallDoes, Report
  <1>6. CASE Navigate(h)
    <2>1. pc[h] = "navigate" /\ UNCHANGED <<now, kind, target>>
      BY <1>6 DEF Navigate
    <2>2. PICK reply \in Replies(target[h]) :
             PutOnWire(h, reply) /\ Return(h, IF reply.heard = "ok" THEN "sent" ELSE "failed")
      BY <1>6 DEF Navigate
    <2>3. /\ pc' = [pc EXCEPT ![h] = "returned"]
          /\ outcome' = [outcome EXCEPT ![h] = IF reply.heard = "ok" THEN "sent" ELSE "failed"]
      BY <2>2 DEF Return, Goto
    <2>4. /\ pc'[h] = "returned" /\ outcome'[h] = IF reply.heard = "ok" THEN "sent" ELSE "failed"
          /\ posts'[h] = posts[h] + 1
          /\ reply.heard = "ok" => executed'[h] = 1 /\ late'[h] = FALSE
          /\ \A g \in Calls \ {h} : Bystander(g)
      BY ZenonT(60), <2>1, <2>2, <2>3, WireTold
    <2> QED
      BY <1>1, <2>1, <2>4 DEF CallDoes, Report
  <1>7. CASE NavigateNowhere(h)
    <2>1. /\ pc[h] = "navigate"
          /\ pc' = [pc EXCEPT ![h] = "returned"] /\ outcome' = [outcome EXCEPT ![h] = "failed"]
          /\ UNCHANGED <<now, kind, target, posts, late, executed>>
      BY <1>7 DEF NavigateNowhere, Return, Goto, histVars
    <2>2. /\ pc'[h] = "returned" /\ outcome'[h] = "failed"
          /\ \A g \in Calls \ {h} : Bystander(g)
      BY <2>1, AloneTold
    <2> QED
      BY <1>1, <2>1, <2>2 DEF CallDoes, Report
  <1>8. CASE EnsureAwake(h)
    <2>1. /\ pc[h] = "ensure_awake" /\ kind[h] = "command"
          /\ UNCHANGED <<now, kind, target, outcome, posts, late, executed>>
      BY <1>8 DEF EnsureAwake, RelayInv, Callers, histVars
    <2>2. PICK p \in {"take_wake", "joined"} : pc' = [pc EXCEPT ![h] = p]
      BY <1>8 DEF EnsureAwake, Goto
    <2>3. pc'[h] = p /\ outcome'[h] = outcome[h] /\ \A g \in Calls \ {h} : Bystander(g)
      BY <2>1, <2>2, AloneMoved
    <2> QED
      BY <1>1, <2>1, <2>3 DEF CallDoes, Report
  <1>9. CASE TakeWake(h)
    <2>1. /\ pc[h] = "take_wake" /\ pc' = [pc EXCEPT ![h] = "wake"]
          /\ UNCHANGED <<now, kind, target, outcome, posts, late, executed>>
      BY <1>9 DEF TakeWake, Goto
    <2>2. pc'[h] = "wake" /\ outcome'[h] = outcome[h] /\ \A g \in Calls \ {h} : Bystander(g)
      BY <2>1, AloneMoved
    <2> QED
      BY <1>1, <2>1, <2>2 DEF CallDoes, Report
  <1>10. CASE WakeRefused(h)
    <2>1. /\ pc[h] = "take_wake" /\ UNCHANGED <<now, kind, target, posts, late, executed>>
          /\ IF Leads(h) THEN EndFlight(h, FALSE)
                         ELSE Return(h, "rejected") /\ UNCHANGED flight
      BY <1>10 DEF WakeRefused, histVars
    <2>2. CASE Leads(h)
      <3>1. /\ pc'[h] = "returned" /\ outcome'[h] = "failed"
            /\ \A g \in Calls \ {h} : Bystander(g)
        BY <2>1, <2>2, FlightTold
      <3> QED
        BY <1>1, <2>1, <3>1 DEF CallDoes, Report
    <2>3. CASE ~Leads(h)
      <3>1. /\ pc'[h] = "returned" /\ outcome'[h] = "rejected"
            /\ \A g \in Calls \ {h} : Bystander(g)
        BY <2>1, <2>3, AloneTold DEF Return, Goto
      <3>2. posts[h] = 0
        BY <1>1, <2>1, <2>3 DEF Leads, Report
      <3> QED
        BY <1>1, <2>1, <3>1, <3>2 DEF CallDoes, Report
    <2> QED
      BY <2>2, <2>3
  <1>11. CASE Wake(h)
    <2>1. /\ pc[h] = "wake" /\ UNCHANGED <<now, kind, target, late, executed>>
          /\ posts' = [posts EXCEPT ![h] = @ + 1]
      BY <1>11 DEF Wake
    <2>2. posts'[h] = posts[h] + 1 /\ \A g \in Calls \ {h} : posts'[g] = posts[g]
      BY <2>1 DEF RelayInv, TypeOK
    <2>3. \/ Fail(h)
          \/ ~Leads(h) /\ Return(h, "sent")
          \/ Goto(h, "poll") /\ UNCHANGED outcome
          \/ Leads(h) /\ EndFlight(h, TRUE)
      BY <1>11 DEF Wake
    <2>4. CASE Fail(h)
      <3>1. /\ pc'[h] = "returned" /\ outcome'[h] = "failed"
            /\ \A g \in Calls \ {h} : Bystander(g)
        <4>1. CASE Leads(h)
          BY <2>1, <2>2, <2>4, <4>1, FlightTold DEF Fail
        <4>2. CASE ~Leads(h)
          BY <2>1, <2>2, <2>4, <4>2, AloneTold DEF Fail, Return, Goto
        <4> QED
          BY <4>1, <4>2
      <3> QED
        BY <1>1, <2>1, <3>1 DEF CallDoes, Report
    <2>5. CASE ~Leads(h) /\ Return(h, "sent")
      <3>1. /\ pc'[h] = "returned" /\ outcome'[h] = "sent"
            /\ \A g \in Calls \ {h} : Bystander(g)
        BY <2>1, <2>2, <2>5, AloneTold DEF Return, Goto
      <3>2. kind[h] = "wake"
        BY <1>1, <2>1, <2>5 DEF Leads, Report
      <3> QED
        BY <1>1, <2>1, <2>2, <3>1, <3>2 DEF CallDoes, Report
    <2>6. CASE Goto(h, "poll") /\ UNCHANGED outcome
      <3>1. /\ pc'[h] = "poll" /\ outcome'[h] = outcome[h]
            /\ \A g \in Calls \ {h} : Bystander(g)
        BY <2>1, <2>2, <2>6, AloneMoved DEF Goto
      <3> QED
        BY <1>1, <2>1, <3>1 DEF CallDoes, Report
    <2>7. CASE Leads(h) /\ EndFlight(h, TRUE)
      <3>1. /\ pc'[h] = "retry" /\ outcome'[h] = outcome[h]
            /\ \A g \in Calls \ {h} : Bystander(g)
        BY <2>1, <2>2, <2>7, FlightTold
      <3> QED
        BY <1>1, <2>1, <3>1 DEF CallDoes, Report
    <2> QED
      BY <2>3, <2>4, <2>5, <2>6, <2>7
  <1>12. CASE PollOnline(h)
    <2>1. /\ pc[h] = "poll" /\ Leads(h) /\ EndFlight(h, TRUE)
          /\ UNCHANGED <<now, kind, target, posts, late, executed>>
      BY <1>12 DEF PollOnline, Leads, RelayInv, Callers, histVars
    <2>2. /\ pc'[h] = "retry" /\ outcome'[h] = outcome[h]
          /\ \A g \in Calls \ {h} : Bystander(g)
      BY <2>1, FlightTold
    <2> QED
      BY <1>1, <2>1, <2>2 DEF CallDoes, Report
  <1>13. CASE PollAgain(h)
    <2>1. /\ pc[h] = "poll" /\ Leads(h) /\ UNCHANGED <<now, kind, target, posts, late, executed>>
          /\ UNCHANGED <<pc, outcome>> \/ EndFlight(h, FALSE)
      BY <1>13 DEF PollAgain, Leads, RelayInv, Callers, histVars
    <2>2. CASE UNCHANGED <<pc, outcome>>
      BY <1>1, <2>1, <2>2 DEF CallDoes, Report, Bystander
    <2>3. CASE EndFlight(h, FALSE)
      <3>1. /\ pc'[h] = "returned" /\ outcome'[h] = "failed"
            /\ \A g \in Calls \ {h} : Bystander(g)
        BY <2>1, <2>3, FlightTold
      <3> QED
        BY <1>1, <2>1, <3>1 DEF CallDoes, Report
    <2> QED
      BY <2>1, <2>2, <2>3
  <1> QED
    BY <1>2, <1>3, <1>4, <1>5, <1>6, <1>7, <1>8, <1>9, <1>10, <1>11, <1>12, <1>13 DEF CallStep

\* What the other steps do: a command arrives late, or a call begins.
LateDoes(h) ==
  /\ late[h] /\ late'[h] = FALSE /\ executed[h] = 0 /\ executed'[h] = 1
  /\ \A g \in Calls \ {h} : late'[g] = late[g] /\ executed'[g] = executed[g]
  /\ UNCHANGED <<now, pc, kind, target, outcome, posts>>
Begins(h, c) ==
  /\ pc[h] = "idle" /\ target'[h] = c /\ Report(h)'
  /\ \/ pc'[h] = "returned" /\ outcome'[h] = "rejected" /\ kind'[h] = kind[h]
     \/ pc'[h] \in {"take_wake", "command", "navigate"} /\ kind'[h] \in Kinds
  /\ \A g \in Calls \ {h} :
        /\ pc'[g] = pc[g] /\ outcome'[g] = outcome[g]
        /\ kind'[g] = kind[g] /\ target'[g] = target[g]
  /\ UNCHANGED <<now, posts, late, executed>>

\* A command that arrives late arrives once.
LEMMA LateDoesStep ==
  ASSUME RelayInv, NEW h \in Calls, ArrivesLate(h)
  PROVE  LateDoes(h)
  <1>1. executed[h] = 0
    BY DEF ArrivesLate, RelayInv, Fires
  <1> QED
    BY <1>1 DEF ArrivesLate, LateDoes, callVars, RelayInv, TypeOK

\* Handle rejects at once, or begins with nothing on the wire.
LEMMA BeginsStep ==
  ASSUME RelayInv, Reports, NEW h \in Calls, NEW c \in Cars, Handle(h, c)
  PROVE  Begins(h, c)
  <1>1. /\ pc[h] = "idle" /\ target' = [target EXCEPT ![h] = c] /\ posts[h] = 0
        /\ late[h] = FALSE /\ executed[h] = 0 /\ outcome[h] = None
        /\ UNCHANGED <<now, posts, late, executed>>
    BY DEF Handle, histVars, RelayInv, TypeOK, Fires, Reports, Report
  <1>2. CASE Return(h, "rejected") /\ UNCHANGED kind
    <2>1. /\ pc' = [pc EXCEPT ![h] = "returned"] /\ outcome' = [outcome EXCEPT ![h] = "rejected"]
          /\ UNCHANGED kind
      BY <1>2 DEF Return, Goto
    <2>2. pc'[h] = "returned" /\ outcome'[h] = "rejected" /\ target'[h] = c
      BY <1>1, <2>1 DEF RelayInv, TypeOK
    <2>3. Report(h)'
      BY RelayAssumption, <1>1, <2>2 DEF Report, HandleOutcomes
    <2> QED
      BY <1>1, <2>1, <2>2, <2>3 DEF Begins, RelayInv, TypeOK
  <1>3. ASSUME NEW k \in Kinds, kind' = [kind EXCEPT ![h] = k],
               Goto(h, IF kind'[h] = "wake" THEN "take_wake" ELSE kind'[h]),
               UNCHANGED outcome
        PROVE  Begins(h, c)
    <2>1. kind'[h] = k /\ pc' = [pc EXCEPT ![h] = IF k = "wake" THEN "take_wake" ELSE k]
      BY <1>3 DEF Goto, RelayInv, TypeOK
    <2>2. /\ pc'[h] = (IF k = "wake" THEN "take_wake" ELSE k) /\ target'[h] = c
          /\ pc'[h] \in {"take_wake", "command", "navigate"}
      BY <1>1, <2>1 DEF RelayInv, TypeOK, Kinds
    <2>3. Report(h)'
      BY RelayAssumption, <1>1, <1>3, <2>1, <2>2 DEF Report, HandleOutcomes, Kinds
    <2> QED
      BY <1>1, <1>3, <2>1, <2>2, <2>3 DEF Begins, RelayInv, TypeOK
  <1> QED
    BY <1>2, <1>3 DEF Handle

\* Every step keeps the reports true.
LEMMA ReportsStep ==
  ASSUME RelayInv, Reports, [Next]_vars
  PROVE  Reports'
  <1>1. ASSUME NEW h \in Calls, CallDoes(h) PROVE Reports'
    <2>1. ASSUME NEW g \in Calls \ {h} PROVE Report(g)'
      <3>1. Report(g) /\ Bystander(g) /\ kind'[g] = kind[g]
        BY <1>1 DEF CallDoes, Reports
      <3>2. late[g] => pc[g] = "returned"
        BY DEF RelayInv, Fires
      <3> QED
        BY RelayAssumption, <3>1, <3>2 DEF Report, Bystander, HandleOutcomes
    <2> QED
      BY <1>1, <2>1 DEF CallDoes, Reports
  <1>2. ASSUME NEW h \in Calls, LateDoes(h) PROVE Reports'
    BY RelayAssumption, <1>2 DEF LateDoes, Reports, Report, HandleOutcomes
  <1>3. ASSUME NEW h \in Calls, NEW c \in Cars, Begins(h, c) PROVE Reports'
    BY <1>3 DEF Begins, Reports, Report
  <1>4. CASE UNCHANGED <<pc, kind, outcome, posts, late, executed>>
    BY <1>4 DEF Reports, Report
  <1> QED
    BY <1>1, <1>2, <1>3, <1>4, CallDoesStep, LateDoesStep, BeginsStep
       DEF Next, Tick, CarChanges, vars, relayVars, callVars, histVars

\* The initial states satisfy it.
LEMMA ReportsInit == Init => Reports
  BY RelayAssumption DEF Init, Reports, Report, HandleOutcomes

\* Every reachable state satisfies both invariants.
LEMMA RelayInvariance == Spec => [](RelayInv /\ Reports)
  BY RelayInit, RelayStep, ReportsInit, ReportsStep, PTL DEF Spec

\* Every call, flight and budget has its type in every reachable state.
THEOREM RelayTypeCorrect == Spec => []TypeOK
  <1>1. RelayInv => TypeOK
    BY DEF RelayInv
  <1> QED
    BY <1>1, RelayInvariance, PTL

\* relay.go: a command reaches the car once at most, whatever post retries, whatever gets
\* lost and whatever arrives after the call has given up.
THEOREM NoDoubleFireHolds == Spec => []NoDoubleFire
  <1>1. RelayInv => NoDoubleFire
    BY DEF RelayInv, Fires, NoDoubleFire
  <1> QED
    BY <1>1, RelayInvariance, PTL

\* relay.go: commands that find a car asleep share one wake, and no rolling hour has more
\* wakes of a car than its budget.
THEOREM WakesSharedHolds == Spec => []WakesShared
  <1>1. RelayInv => WakeBudget
    BY DEF RelayInv, Budget, WakeBudget
  <1>2. RelayInv => SharedWake
    <2> SUFFICES ASSUME RelayInv PROVE SharedWake
      OBVIOUS
    <2>1. \A h \in Calls : Leads(h) => flight[target[h]] = h
      BY DEF RelayInv, Flights
    <2>2. ASSUME NEW h \in Calls, pc[h] = "joined"
          PROVE  \E g \in Calls : Leads(g) /\ target[g] = target[h]
      <3>1. target[h] \in Cars /\ flight[target[h]] # None
        BY <2>2 DEF RelayInv, Callers, Flights
      <3>2. flight[target[h]] \in Calls
        BY <3>1 DEF RelayInv, TypeOK
      <3> QED
        BY <3>1, <3>2 DEF RelayInv, Flights
    <2> QED
      BY <2>1, <2>2 DEF SharedWake
  <1> QED
    BY <1>1, <1>2, RelayInvariance, PTL DEF WakesShared
=============================================================================
