------------------------------- MODULE Naming -------------------------------
(***************************************************************************)
(* Which car is meant: the names that cmd/gateway/main.go gives the cars,  *)
(* the public identifiers that internal/config and internal/hadiscovery    *)
(* make of them, the devices Home Assistant shows under these, and the way *)
(* of a press in Home Assistant back to a VIN.                             *)
(*                                                                         *)
(* An identifier is not stored: every start of the gateway makes it anew   *)
(* from the configuration and from what the Fleet API answers then, while  *)
(* the broker keeps the devices of every start before.  How devices and    *)
(* availability come back after the broker lost them is in Discovery; here *)
(* the broker keeps what it has.                                           *)
(***************************************************************************)
EXTENDS Naturals, SequencesExt

CONSTANTS
  Cars,
  Lists,     \* configured vehicle lists; <<>> means every car of the stream
  ByVIN,     \* is ha.device_identifier "vin"?
  Titles,    \* per car, the names that its owner may give it, as slugs
  None,
  MaxPresses, MaxStarts \* bounds

NamingAssumption ==
  /\ Lists \subseteq Seq(Cars)
  /\ ByVIN \in BOOLEAN
  /\ DOMAIN Titles = Cars
  /\ IsFiniteSet(Cars) /\ IsFiniteSet(UNION {Titles[c] : c \in Cars})
  /\ None \notin Cars \cup UNION {Titles[c] : c \in Cars}
  /\ {MaxPresses, MaxStarts} \subseteq Nat

VARIABLES
  vehicles,   \* cfg.Vehicles
  up,         \* does the publisher run?
  name,       \* Vehicle.DisplayName, None where it is the VIN
  seen,       \* Store.VINs()
  link,       \* the MQTT connection: "lost", "announcing" or "connected"
  todo,       \* the cars that the handler has yet to announce
  announced,  \* Publisher.announced
  subscribed, \* does the broker forward command topics?
  inbox,      \* messages received and not yet handled
  device,     \* the broker: per identifier, the car that Home Assistant shows
  retained,   \* the broker: per identifier, a command message it retains, or 0
  pressed,    \* history: the car Home Assistant showed for each press
  ran,        \* history: per press, the cars whose command was submitted
  starts

clientVars == <<link, todo, announced, subscribed, inbox>>
brokerVars == <<device, retained>>
history    == <<pressed, ran, starts>>
vars       == <<vehicles, up, name, seen, clientVars, brokerVars, history>>

Names == UNION {Titles[c] : c \in Cars}

\* AutoVehicle and vinHash: an identifier made of the VIN alone.
Hash(c) == <<"tesla", c>>
Ids     == Names \cup {Hash(c) : c \in Cars} \cup Cars

Init ==
  /\ vehicles \in Lists
  /\ up = FALSE
  /\ name = [c \in Cars |-> None]
  /\ seen = {}
  /\ link = "lost"
  /\ todo = <<>>
  /\ announced = {}
  /\ subscribed = FALSE
  /\ inbox = <<>>
  /\ device = [i \in Ids |-> None]
  /\ retained = [i \in Ids |-> 0]
  /\ pressed = <<>>
  /\ ran = <<>>
  /\ starts = 0

-----------------------------------------------------------------------------
\* The process: configuration, store, names.

Listed == {vehicles[i] : i \in DOMAIN vehicles}

\* Store.New with the configured VINs: a list is an allow-list, and what is not on
\* it is dropped.
Allowed(c) == vehicles = <<>> \/ c \in Listed

\* What a listed car may be called once main has started: its display_name; or
\* else what the Fleet API, asked once, answers today; or nothing when the answer
\* is empty or does not come, for then resolve has put the VIN there.
Called(c) == IF c \in Listed THEN Titles[c] \cup {None} ELSE {None}

\* A snapshot may bring back the cars of the process before.
Start ==
  /\ ~up
  /\ starts < MaxStarts
  /\ starts' = starts + 1
  /\ up' = TRUE
  /\ name' \in {n \in [Cars -> Names \cup {None}] : \A c \in Cars : n[c] \in Called(c)}
  /\ \E snapshot \in {{}, seen} : seen' = Listed \cup snapshot
  /\ UNCHANGED <<vehicles, clientVars, brokerVars, pressed, ran>>

\* getOrCreate: the first telemetry of a car.
Telemetry(c) ==
  /\ up
  /\ Allowed(c)
  /\ seen' = seen \cup {c}
  /\ UNCHANGED <<vehicles, up, name, clientVars, brokerVars, history>>

\* The gateway stops, or dies. What it has received is gone.
Exit ==
  /\ up
  /\ up' = FALSE
  /\ link' = "lost" /\ todo' = <<>> /\ announced' = {} /\ subscribed' = FALSE /\ inbox' = <<>>
  /\ UNCHANGED <<vehicles, name, seen, brokerVars, history>>

-----------------------------------------------------------------------------
\* Identifiers.

\* Slug and pubID.
pubID(c) == IF ByVIN THEN c ELSE IF name[c] = None THEN Hash(c) ELSE name[c]

\* effectiveVehicles: the configured cars in their order, then the others that
\* the store has, in the order of a map.
EffectiveVehicles == {vehicles \o others : others \in SetToSeqs(seen \ Listed)}

\* vinForPubID: the first car with that identifier, or None.
vinForPubID(id, cars) ==
  LET found == {i \in DOMAIN cars : pubID(cars[i]) = id}
  IN  IF found = {} THEN None ELSE cars[CHOOSE i \in found : \A j \in found : i <= j]

-----------------------------------------------------------------------------
\* The connection to the broker, with a clean session.

\* paho reconnects by itself. What it had received it has passed on by then.
Connect ==
  /\ up
  /\ link = "lost"
  /\ inbox = <<>>
  /\ link' = "announcing"
  /\ announced' = {}
  /\ todo' \in EffectiveVehicles
  /\ UNCHANGED <<vehicles, up, name, seen, subscribed, inbox, brokerVars, history>>

Drop ==
  /\ link # "lost"
  /\ link' = "lost"
  /\ todo' = <<>>
  /\ subscribed' = FALSE
  /\ UNCHANGED <<vehicles, up, name, seen, announced, inbox, brokerVars, history>>

\* ensureAnnounced: the retained configs of a car go to the topics of its
\* identifier. A failure leaves the car to the next tick.
Announce(c) ==
  \/ /\ c \notin announced
     /\ announced' = announced \cup {c}
     /\ device' = [device EXCEPT ![pubID(c)] = c]
  \/ UNCHANGED <<announced, device>>

AnnounceNext ==
  /\ link = "announcing"
  /\ todo # <<>>
  /\ todo' = Tail(todo)
  /\ Announce(Head(todo))
  /\ UNCHANGED <<vehicles, up, name, seen, link, subscribed, inbox, retained, history>>

\* The ticker announces the cars that are left.
TickAnnounces(c) ==
  /\ link # "lost"
  /\ c \in (Listed \cup seen) \ announced
  /\ Announce(c)
  /\ UNCHANGED <<vehicles, up, name, seen, link, todo, subscribed, inbox, retained, history>>

\* The handler subscribes to the commands of all cars, and the broker sends what
\* it retains. A subscription that fails is logged and not tried again.
Replayed ==
  {[id |-> i, press |-> retained[i], retained |-> TRUE] : i \in {i \in Ids : retained[i] # 0}}

Subscribe ==
  /\ link = "announcing"
  /\ todo = <<>>
  /\ link' = "connected"
  /\ \/ subscribed' = TRUE /\ \E messages \in SetToSeqs(Replayed) : inbox' = inbox \o messages
     \/ UNCHANGED <<subscribed, inbox>>
  /\ UNCHANGED <<vehicles, up, name, seen, todo, announced, brokerVars, history>>

-----------------------------------------------------------------------------
\* Home Assistant: a press of a button of the device it shows, or an automation
\* that publishes the same with the retain flag.
Press(id, keep) ==
  /\ Len(pressed) < MaxPresses
  /\ device[id] # None
  /\ pressed' = Append(pressed, device[id])
  /\ ran' = Append(ran, <<>>)
  /\ retained' = IF keep THEN [retained EXCEPT ![id] = Len(pressed')] ELSE retained
  /\ inbox' = IF subscribed
              THEN Append(inbox, [id |-> id, press |-> Len(pressed'), retained |-> FALSE])
              ELSE inbox
  /\ UNCHANGED <<vehicles, up, name, seen, link, todo, announced, subscribed, device, starts>>

\* Broken: a message that the broker retained is a request like any other.
HandlesRetained(m, cars) == vinForPubID(m.id, cars)

\* The car a message is for, or None when there is nothing to do: a retained one is
\* an old request.
Addressee(m, cars) == IF m.retained THEN None ELSE vinForPubID(m.id, cars)

handleCommand ==
  /\ up
  /\ inbox # <<>>
  /\ inbox' = Tail(inbox)
  /\ \E cars \in EffectiveVehicles :
        LET c == Addressee(Head(inbox), cars)
        IN  ran' = IF c = None THEN ran
                   ELSE [ran EXCEPT ![Head(inbox).press] = Append(@, c)]
  /\ UNCHANGED <<vehicles, up, name, seen, link, todo, announced, subscribed, brokerVars,
                 pressed, starts>>

Next ==
  \/ \E c \in Cars : Telemetry(c) \/ TickAnnounces(c)
  \/ Start \/ Exit
  \/ Connect \/ Drop \/ AnnounceNext \/ Subscribe
  \/ \E id \in Ids, keep \in BOOLEAN : Press(id, keep)
  \/ handleCommand

Spec == Init /\ [][Next]_vars

-----------------------------------------------------------------------------
TypeOK ==
  /\ up \in BOOLEAN /\ link \in {"lost", "announcing", "connected"}
  /\ name \in [Cars -> Names \cup {None}]
  /\ seen \subseteq Cars /\ announced \subseteq Cars /\ subscribed \in BOOLEAN
  /\ \A i \in DOMAIN todo : todo[i] \in Cars
  /\ \A i \in Ids : device[i] \in Cars \cup {None} /\ retained[i] \in 0..Len(pressed)
  /\ \A i \in DOMAIN inbox : inbox[i].press \in DOMAIN pressed

\* When no two cars have had the same name, a press runs once at most and on the
\* car that Home Assistant showed, whatever was renamed, restarted, replayed or
\* reconnected between (publisher.go:287 and 547-548).
RightCarOnce ==
  \A n \in DOMAIN ran :
     /\ Len(ran[n]) <= 1
     /\ ran[n] # <<>> => ran[n][1] = pressed[n]

\* A device that Home Assistant shows as available gets its values from a car
\* (publisher.go:313-316).
NoFrozenDevice ==
  link = "connected" =>
     \A id \in Ids : device[id] # None => \E c \in Listed \cup seen : pubID(c) = id

\* A connected gateway hears commands (publisher.go:141-146).
CommandsHeard == link = "connected" => subscribed
=============================================================================
