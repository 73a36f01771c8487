------------------------------- MODULE Relay -------------------------------
(***************************************************************************)
(* One command on its way to a car: Relay.Handle in                        *)
(* internal/commands/relay.go, with the retry after a sleeping car, the    *)
(* shared wake, the hourly wake budget and the retry after a 429.          *)
(*                                                                         *)
(* A call is one run of Handle on a goroutine of its own.  Calls for one   *)
(* car may overlap: the dispatcher never does that, but Relay keeps its    *)
(* own locks (wakeMu, the singleflight group) and promises to work without *)
(* it.  The vehicle-command proxy, the Fleet API and the car are outside:  *)
(* a request is one step that says what the car did and what Handle heard. *)
(***************************************************************************)
EXTENDS RollingWindow, Integers, Sequences

CONSTANTS
  Calls,    \* runs of Handle
  Cars,     \* the VINs
  None,
  MaxWakes, \* Relay.maxWakes; 0 means no limit
  Hour,     \* the span of the wake budget
  FleetAPI, \* is fleet_api_url set? Without it a wake cannot be polled
  MaxPolls, \* polls that fit into wakeTimeout
  MaxTime   \* bound on the clock

HandleOutcomes == {"sent", "rejected", "failed"}
Kinds          == {"command", "wake", "navigate"}

ASSUME RelayAssumption ==
  /\ None \notin Calls \cup Cars \cup HandleOutcomes \cup Kinds
  /\ MaxWakes \in Nat
  /\ Hour \in Nat \ {0}
  /\ FleetAPI \in BOOLEAN
  /\ MaxPolls \in Nat \ {0}
  /\ MaxTime \in Nat

VARIABLES
  now,      \* time.Now()
  pc,       \* where each call is
  kind,     \* what Handle does with its key: "command", "wake" or "navigate"
  target,   \* the car a call is for
  attempt,  \* post's attempt counter
  outcome,  \* Result.Outcome
  polls,    \* polls a call that leads a wake has made
  flight,   \* wakeGroup: per car, the call that runs wakeAndWait
  wakeLog,  \* Relay.wakeLog: per car, the wakes in the window
  awake,    \* the car: is it online?
  posts,    \* history: requests each call has put on the wire
  late,     \* outside: a command that may reach the car after its call gave up
  executed, \* history: how often each call's command has reached the car
  wakes     \* history: per car, the times a wake was taken from the budget

callVars  == <<pc, kind, target, attempt, outcome, polls>>
histVars  == <<posts, late, executed, wakes>>
relayVars == <<callVars, flight, wakeLog, awake, histVars>>
vars      == <<now, relayVars>>

Init ==
  /\ now = 0
  /\ pc = [h \in Calls |-> "idle"]
  /\ kind = [h \in Calls |-> None]
  /\ target = [h \in Calls |-> None]
  /\ attempt = [h \in Calls |-> 0]
  /\ outcome = [h \in Calls |-> None]
  /\ polls = [h \in Calls |-> 0]
  /\ flight = [c \in Cars |-> None]
  /\ wakeLog = [c \in Cars |-> <<>>]
  /\ awake \in [Cars -> BOOLEAN]
  /\ posts = [h \in Calls |-> 0]
  /\ late = [h \in Calls |-> FALSE]
  /\ executed = [h \in Calls |-> 0]
  /\ wakes = [c \in Cars |-> <<>>]

Tick ==
  /\ now < MaxTime
  /\ now' = now + 1
  /\ UNCHANGED relayVars

\* The car falls asleep, or is woken by its driver.
CarChanges(c) ==
  /\ awake' = [awake EXCEPT ![c] = ~@]
  /\ UNCHANGED <<now, callVars, flight, wakeLog, histVars>>

\* A command whose answer never came still gets to the car.
ArrivesLate(h) ==
  /\ late[h]
  /\ late' = [late EXCEPT ![h] = FALSE]
  /\ executed' = [executed EXCEPT ![h] = @ + 1]
  /\ UNCHANGED <<now, callVars, flight, wakeLog, awake, posts, wakes>>

-----------------------------------------------------------------------------
Goto(h, p) == pc' = [pc EXCEPT ![h] = p]
Return(h, o) ==
  /\ Goto(h, "returned")
  /\ outcome' = [outcome EXCEPT ![h] = o]

\* Handle reads its key and payload. It returns at once when the VIN, the key
\* or the payload is unknown, there is no GPS fix or no PIN, or the lid is
\* already where it should be. Otherwise it presses wake, sends a command
\* through the proxy, or sends a destination to the Fleet API.
Handle(h, c) ==
  /\ pc[h] = "idle"
  /\ target' = [target EXCEPT ![h] = c]
  /\ \/ /\ Return(h, "rejected")
        /\ UNCHANGED kind
     \/ /\ \E k \in Kinds : kind' = [kind EXCEPT ![h] = k]
        /\ Goto(h, IF kind'[h] = "wake" THEN "take_wake" ELSE kind'[h])
        /\ UNCHANGED outcome
  /\ UNCHANGED <<now, attempt, polls, flight, wakeLog, awake, histVars>>

\* This call is the one that runs wakeAndWait for its car: pressing the wake
\* button goes straight to wake, outside the group.
Leads(h) == kind[h] = "command" /\ pc[h] \in {"take_wake", "wake", "poll"}

\* The singleflight group hands the leader's result to everyone who joined it:
\* on nil they send their command again, on an error they have failed.
EndFlight(h, ok) ==
  LET c     == target[h]
      Flock == {h} \cup {g \in Calls : target[g] = c /\ pc[g] = "joined"}
  IN  /\ flight' = [flight EXCEPT ![c] = None]
      /\ pc' = [g \in Calls |-> IF g \notin Flock THEN pc[g]
                                ELSE IF ok THEN "retry" ELSE "returned"]
      /\ outcome' = [g \in Calls |-> IF g \in Flock /\ ~ok THEN "failed" ELSE outcome[g]]

\* An error ends the call, and the flight when it leads one.
Fail(h) ==
  IF Leads(h) THEN EndFlight(h, FALSE) ELSE Return(h, "failed") /\ UNCHANGED flight

-----------------------------------------------------------------------------
\* Requests.

\* What can become of a command on the wire: what post hears, and whether the
\* car ran it, that is got it: whether the car obeys is not the gateway's to
\* know. A 429 and "offline or asleep" mean that it did not get it. Of any other
\* error, a timeout among them, nobody can tell whether it did, or still will.
Replies(c) ==
  {[heard |-> "limited", ran |-> FALSE], [heard |-> "error", ran |-> FALSE]}
  \cup (IF awake[c]
        THEN {[heard |-> "ok", ran |-> TRUE], [heard |-> "error", ran |-> TRUE]}
        ELSE {[heard |-> "asleep", ran |-> FALSE]})

\* The request may reach the car after post has given up on it.
Strays(reply) ==
  IF reply.heard = "error" /\ ~reply.ran THEN BOOLEAN ELSE {FALSE}

\* wake_up reaches a sleeping car too. It may be accepted and wake nobody.
WakeReplies ==
  {[heard |-> "limited", ran |-> FALSE], [heard |-> "error", ran |-> FALSE],
   [heard |-> "error", ran |-> TRUE],
   [heard |-> "ok", ran |-> TRUE], [heard |-> "ok", ran |-> FALSE]}

\* Broken: any error is worth a second attempt.
RetriesAnyError(h, reply) == reply.heard \in {"limited", "error"} /\ attempt[h] = 0

\* post retries once when it hears 429 with a delay worth waiting for.
Retries(h, reply) == reply.heard = "limited" /\ attempt[h] = 0

\* A command is put on the wire and gets a reply.
PutOnWire(h, reply) ==
  /\ posts' = [posts EXCEPT ![h] = @ + 1]
  /\ executed' = [executed EXCEPT ![h] = IF reply.ran THEN @ + 1 ELSE @]
  /\ \E stray \in Strays(reply) : late' = [late EXCEPT ![h] = stray]

\* No access token: post and navigate return before they send anything.
NoToken(h) ==
  /\ pc[h] \in {"command", "retry", "wake", "navigate"}
  /\ attempt[h] = 0
  /\ Fail(h)
  /\ UNCHANGED <<now, kind, target, attempt, polls, wakeLog, awake, histVars>>

\* post's loop comes round for its second attempt.
PostAgain(h) ==
  /\ pc[h] \in {"command", "retry", "wake"}
  /\ \E reply \in {r \in Replies(target[h]) : Retries(h, r)} : PutOnWire(h, reply)
  /\ attempt' = [attempt EXCEPT ![h] = 1]
  /\ UNCHANGED <<now, pc, kind, target, outcome, polls, flight, wakeLog, awake, wakes>>

\* The request that ends post, with attempt reset for the next call of post.
PostEnds(h, reply) ==
  /\ ~Retries(h, reply)
  /\ attempt' = [attempt EXCEPT ![h] = 0]

\* command: the first request. A sleeping car is woken, anything else ends it.
Command(h) ==
  /\ pc[h] = "command"
  /\ \E reply \in Replies(target[h]) :
        /\ PostEnds(h, reply)
        /\ PutOnWire(h, reply)
        /\ CASE reply.heard = "ok"     -> Return(h, "sent")
             [] reply.heard = "asleep" -> Goto(h, "ensure_awake") /\ UNCHANGED outcome
             [] OTHER                  -> Return(h, "failed")
  /\ UNCHANGED <<now, kind, target, polls, flight, wakeLog, awake, wakes>>

\* command: the one retry, after ensureAwake returned nil.
Retry(h) ==
  /\ pc[h] = "retry"
  /\ \E reply \in Replies(target[h]) :
        /\ PostEnds(h, reply)
        /\ PutOnWire(h, reply)
        /\ Return(h, IF reply.heard = "ok" THEN "sent" ELSE "failed")
  /\ UNCHANGED <<now, kind, target, polls, flight, wakeLog, awake, wakes>>

\* navigate: one request to the Fleet API, without a retry.
Navigate(h) ==
  /\ pc[h] = "navigate"
  /\ FleetAPI
  /\ \E reply \in Replies(target[h]) :
        /\ PutOnWire(h, reply)
        /\ Return(h, IF reply.heard = "ok" THEN "sent" ELSE "failed")
  /\ UNCHANGED <<now, kind, target, attempt, polls, flight, wakeLog, awake, wakes>>

\* navigate returns an error for an empty destination, or without fleet_api_url.
NavigateNowhere(h) ==
  /\ pc[h] = "navigate"
  /\ Return(h, "failed")
  /\ UNCHANGED <<now, kind, target, attempt, polls, flight, wakeLog, awake, histVars>>

-----------------------------------------------------------------------------
\* Waking the car.

\* Broken: everyone wakes the car.
EnsureAwakeAlone(h) ==
  /\ pc[h] = "ensure_awake"
  /\ flight' = [flight EXCEPT ![target[h]] = h]
  /\ Goto(h, "take_wake")
  /\ UNCHANGED <<now, kind, target, attempt, outcome, polls, wakeLog, awake, histVars>>

\* ensureAwake: the first caller for a car runs wakeAndWait, the others wait
\* for its result.
EnsureAwake(h) ==
  /\ pc[h] = "ensure_awake"
  /\ IF flight[target[h]] = None
     THEN /\ flight' = [flight EXCEPT ![target[h]] = h]
          /\ Goto(h, "take_wake")
     ELSE /\ Goto(h, "joined")
          /\ UNCHANGED flight
  /\ UNCHANGED <<now, kind, target, attempt, outcome, polls, wakeLog, awake, histVars>>

\* takeWake spends one wake of the car's budget, for the wake button and for a
\* command to a sleeping car alike.
TakeWake(h) ==
  LET c == target[h]
  IN  /\ pc[h] = "take_wake"
      /\ IF MaxWakes = 0
         THEN UNCHANGED wakeLog
         ELSE \E i \in 0..Len(wakeLog[c]) :
                 /\ Prunes(wakeLog[c], i, now - Hour)
                 /\ Len(Rest(wakeLog[c], i)) < MaxWakes
                 /\ wakeLog' = [wakeLog EXCEPT ![c] = Append(Rest(@, i), now)]
      /\ Goto(h, "wake")
      /\ wakes' = [wakes EXCEPT ![c] = Append(@, now)]
      /\ UNCHANGED <<now, kind, target, attempt, outcome, polls, flight, awake,
                     posts, late, executed>>

\* takeWake refuses. The button reports a rejection, since nothing was sent; a
\* command has been sent once already and has failed.
WakeRefused(h) ==
  LET c == target[h]
  IN  /\ pc[h] = "take_wake"
      /\ MaxWakes > 0
      /\ \E i \in 0..Len(wakeLog[c]) :
            /\ Prunes(wakeLog[c], i, now - Hour)
            /\ Len(Rest(wakeLog[c], i)) >= MaxWakes
            /\ wakeLog' = [wakeLog EXCEPT ![c] = Rest(@, i)]
      /\ IF Leads(h) THEN EndFlight(h, FALSE)
                     ELSE Return(h, "rejected") /\ UNCHANGED flight
      /\ UNCHANGED <<now, kind, target, attempt, polls, awake, histVars>>

\* The wake_up that ends post.
Wake(h) ==
  /\ pc[h] = "wake"
  /\ \E reply \in WakeReplies :
        /\ PostEnds(h, reply)
        /\ posts' = [posts EXCEPT ![h] = @ + 1]
        /\ awake' = [awake EXCEPT ![target[h]] = @ \/ reply.ran]
        /\ CASE reply.heard # "ok" -> Fail(h)
             [] reply.heard = "ok" /\ ~Leads(h) -> Return(h, "sent") /\ UNCHANGED flight
             [] reply.heard = "ok" /\ Leads(h) /\ FleetAPI ->
                  Goto(h, "poll") /\ UNCHANGED <<outcome, flight>>
             \* without a Fleet API URL it waits for a fixed time and hopes
             [] reply.heard = "ok" /\ Leads(h) /\ ~FleetAPI -> EndFlight(h, TRUE)
  /\ UNCHANGED <<now, kind, target, polls, wakeLog, late, executed, wakes>>

\* A poll of the Fleet API says that the car is online.
PollOnline(h) ==
  /\ pc[h] = "poll"
  /\ awake[target[h]]
  /\ polls' = [polls EXCEPT ![h] = 0]
  /\ EndFlight(h, TRUE)
  /\ UNCHANGED <<now, kind, target, attempt, wakeLog, awake, histVars>>

\* A poll fails, or says anything else. The last one ends the wait.
PollAgain(h) ==
  /\ pc[h] = "poll"
  /\ polls' = [polls EXCEPT ![h] = (@ + 1) % MaxPolls]
  /\ IF polls[h] + 1 < MaxPolls THEN UNCHANGED <<pc, outcome, flight>> ELSE EndFlight(h, FALSE)
  /\ UNCHANGED <<now, kind, target, attempt, wakeLog, awake, histVars>>

\* What a call does once it has been made, until it returns. A "joined" call
\* waits for the call that leads its flight.
CallStep(h) ==
  \/ NoToken(h) \/ PostAgain(h)
  \/ Command(h) \/ Retry(h) \/ Navigate(h) \/ NavigateNowhere(h)
  \/ EnsureAwake(h) \/ TakeWake(h) \/ WakeRefused(h)
  \/ Wake(h) \/ PollOnline(h) \/ PollAgain(h)

Next ==
  \/ Tick
  \/ \E c \in Cars : CarChanges(c)
  \/ \E h \in Calls : ArrivesLate(h) \/ CallStep(h) \/ \E c \in Cars : Handle(h, c)

Spec == Init /\ [][Next]_vars

-----------------------------------------------------------------------------
TypeOK ==
  /\ now \in 0..MaxTime
  /\ pc \in [Calls -> {"idle", "command", "retry", "navigate", "ensure_awake", "joined",
                       "take_wake", "wake", "poll", "returned"}]
  /\ kind \in [Calls -> Kinds \cup {None}]
  /\ target \in [Calls -> Cars \cup {None}]
  /\ attempt \in [Calls -> 0..1]
  /\ outcome \in [Calls -> HandleOutcomes \cup {None}]
  /\ polls \in [Calls -> 0..(MaxPolls - 1)]
  /\ flight \in [Cars -> Calls \cup {None}]
  /\ wakeLog \in [Cars -> Seq(0..MaxTime)]
  /\ awake \in [Cars -> BOOLEAN]
  /\ posts \in [Calls -> Nat]
  /\ late \in [Calls -> BOOLEAN]
  /\ executed \in [Calls -> Nat]
  /\ wakes \in [Cars -> Seq(0..MaxTime)]

\* One command reaches the car at most once, whatever is retried, lost or late
\*  (relay.go:841-843 and 1018-1019).
NoDoubleFire == \A h \in Calls : executed[h] <= 1

\* The calls that share a budget never take more than MaxWakes of it in an hour,
\* whichever way they come to need a wake (relay.go:157-159).
WakeBudget ==
  MaxWakes > 0 => \A c \in Cars : WithinBudget(wakes[c], MaxWakes, Hour)

\* Commands that find one car asleep together share one wake (relay.go:897-900):
\* at most one of them is waking the car, it owns the flight, and whoever waits
\* for a wake waits for one that is under way.
SharedWake ==
  /\ \A h \in Calls : Leads(h) => flight[target[h]] = h
  /\ \A h \in Calls : pc[h] = "joined" =>
        \E g \in Calls : Leads(g) /\ target[g] = target[h]

\* The waking of cars is shared and stays within its budget.
WakesShared == WakeBudget /\ SharedWake

\* relay.go:213 read literally: a failed command was attempted on the wire.
FailedAttempted == \A h \in Calls : outcome[h] = "failed" => posts[h] > 0
=============================================================================
