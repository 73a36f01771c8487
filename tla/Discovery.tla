------------------------------ MODULE Discovery ------------------------------
(***************************************************************************)
(* Home Assistant discovery over MQTT: internal/hadiscovery/publisher.go,  *)
(* for one car.                                                            *)
(*                                                                         *)
(* The broker keeps the discovery configs and the availability as retained *)
(* messages, and may lose them all when it restarts.  paho runs the        *)
(* on-connect handler on a goroutine of its own for each connection, so it *)
(* runs beside the publish ticker, beside Stop, and beside the handler of  *)
(* the connection before.                                                  *)
(***************************************************************************)
EXTENDS Integers, FiniteSets

CONSTANTS
  Handlers,  \* goroutines that run the on-connect handler
  Ticker,    \* the goroutine that runs loop
  Fields,    \* telemetry fields without a curated entity
  Composite, \* those whose values are maps, which get no entity
  None,
  MaxDrops   \* bound on lost connections

ASSUME DiscoveryAssumption ==
  /\ Ticker \notin Handlers
  /\ Composite \subseteq Fields
  /\ None \notin Fields \cup Handlers
  /\ "device" \notin Fields
  /\ MaxDrops \in Nat

VARIABLES
  pc,         \* where each goroutine is
  announced,  \* Publisher.announced holds the car
  discovered, \* Publisher.discovered: the fields whose config was published
  todo,       \* the ticker: fields of its snapshot that it has not dealt with
  field,      \* the ticker: the field it deals with
  stop,       \* where Stop is
  values,     \* the store: "absent", "nil" or "value" for each field
  connected,  \* the broker: is the client connected?
  retained,   \* the broker: the discovery configs it holds
  avail,      \* the broker: the retained availability, or None
  drops

publisherVars == <<announced, discovered, todo, field>>
brokerVars    == <<connected, retained, avail, drops>>
vars          == <<pc, publisherVars, stop, values, brokerVars>>

Agents  == Handlers \cup {Ticker}
Configs == Fields \cup {"device"} \* "device": the curated and the command entities

Init ==
  /\ pc = [a \in Agents |-> "idle"]
  /\ announced = FALSE
  /\ discovered = {}
  /\ todo = {}
  /\ field = None
  /\ stop = "not_called"
  /\ values = [f \in Fields |-> "absent"]
  /\ connected = FALSE
  /\ retained = {}
  /\ avail = None
  /\ drops = 0

Goto(a, p) == pc' = [pc EXCEPT ![a] = p]

\* The car sends a field for the first time, or as invalid.
Telemetry(f, v) ==
  /\ values' = [values EXCEPT ![f] = v]
  /\ UNCHANGED <<pc, publisherVars, stop, brokerVars>>

-----------------------------------------------------------------------------
\* The broker.

\* paho connects, at the start or by itself after a loss.
Connect(h) ==
  /\ ~connected
  /\ stop # "disconnected"
  /\ pc[h] = "idle"
  /\ connected' = TRUE
  /\ Goto(h, "available")
  /\ UNCHANGED <<publisherVars, stop, values, retained, avail, drops>>

\* The connection is lost. The broker publishes the will, unless it was the
\* broker that went away, with the retained messages or without.
Drop ==
  /\ connected
  /\ drops < MaxDrops
  /\ drops' = drops + 1
  /\ connected' = FALSE
  /\ \/ avail' = "offline" /\ UNCHANGED retained
     \/ avail' = None /\ retained' = {}
  /\ UNCHANGED <<pc, publisherVars, stop, values>>

\* Publish a retained config at QoS 1 and wait for the token.
Acknowledged(c) == connected /\ retained' = retained \cup {c}
\* The token reports an error, or times out, when the broker may have it or not.
NotAcknowledged(c) ==
  \/ UNCHANGED retained
  \/ connected /\ retained' = retained \cup {c}

-----------------------------------------------------------------------------
\* The on-connect handler.

\* "online" first. It is not waited for.
PublishOnline(h) ==
  /\ h \in Handlers /\ pc[h] = "available"
  /\ avail' = IF connected THEN "online" ELSE avail
  /\ Goto(h, "reset")
  /\ UNCHANGED <<publisherVars, stop, values, connected, retained, drops>>

\* Broken: only the generic fields are forgotten.
resetFieldsOnly(h) ==
  /\ h \in Handlers /\ pc[h] = "reset"
  /\ discovered' = {}
  /\ Goto(h, "announce")
  /\ UNCHANGED <<announced, todo, field, stop, values, brokerVars>>

resetAnnounced(h) ==
  /\ h \in Handlers /\ pc[h] = "reset"
  /\ announced' = FALSE
  /\ discovered' = {}
  /\ Goto(h, "announce")
  /\ UNCHANGED <<todo, field, stop, values, brokerVars>>

-----------------------------------------------------------------------------
\* ensureAnnounced, by the handler and by the ticker.

\* What an agent does when ensureAnnounced returns. The handler goes on to
\* subscribe and returns; the ticker takes a snapshot of the car.
Announced(a) ==
  IF a = Ticker
  THEN /\ Goto(a, "fields")
       /\ todo' = {f \in Fields : values[f] # "absent"}
  ELSE /\ Goto(a, "idle")
       /\ UNCHANGED todo

\* Claim the car under annMu, or leave it to whoever has.
Claim(a) ==
  /\ pc[a] = "announce"
  /\ IF announced
     THEN Announced(a) /\ UNCHANGED announced
     ELSE /\ announced' = TRUE
          /\ Goto(a, "publish")
          /\ UNCHANGED todo
  /\ UNCHANGED <<discovered, field, stop, values, brokerVars>>

PublishDevice(a) ==
  /\ pc[a] = "publish"
  /\ Acknowledged("device")
  /\ Announced(a)
  /\ UNCHANGED <<announced, discovered, field, stop, values, connected, avail, drops>>

PublishDeviceFails(a) ==
  /\ pc[a] = "publish"
  /\ NotAcknowledged("device")
  /\ Goto(a, "rollback")
  /\ UNCHANGED <<publisherVars, stop, values, connected, avail, drops>>

\* Broken: a failed announcement stays claimed.
RollBackNothing(a) ==
  /\ pc[a] = "rollback"
  /\ Announced(a)
  /\ UNCHANGED <<announced, discovered, field, stop, values, brokerVars>>

\* Roll back so that the next tick tries again.
RollBack(a) ==
  /\ pc[a] = "rollback"
  /\ announced' = FALSE
  /\ Announced(a)
  /\ UNCHANGED <<discovered, field, stop, values, brokerVars>>

-----------------------------------------------------------------------------
\* publishState, on the ticker.

Tick ==
  /\ pc[Ticker] = "idle"
  /\ stop = "not_called"
  /\ Goto(Ticker, "announce")
  /\ UNCHANGED <<publisherVars, stop, values, brokerVars>>

\* discoverNewFields looks at one field: it is known, a map, nil, or news.
LookAtField ==
  /\ pc[Ticker] = "fields"
  /\ \E f \in todo :
        /\ todo' = todo \ {f}
        /\ field' = f
        /\ Goto(Ticker, CASE f \in discovered -> "fields"
                          [] f \notin discovered /\ f \in Composite -> "mark"
                          [] OTHER -> IF values[f] = "nil" THEN "fields" ELSE "publish_field")
  /\ UNCHANGED <<announced, discovered, stop, values, brokerVars>>

PublishField ==
  /\ pc[Ticker] = "publish_field"
  /\ Acknowledged(field)
  /\ Goto(Ticker, "mark")
  /\ UNCHANGED <<publisherVars, stop, values, connected, avail, drops>>

PublishFieldFails ==
  /\ pc[Ticker] = "publish_field"
  /\ NotAcknowledged(field)
  /\ Goto(Ticker, "fields")
  /\ UNCHANGED <<publisherVars, stop, values, connected, avail, drops>>

markFieldDiscovered ==
  /\ pc[Ticker] = "mark"
  /\ discovered' = discovered \cup {field}
  /\ Goto(Ticker, "fields")
  /\ UNCHANGED <<announced, todo, field, stop, values, brokerVars>>

\* The state document goes out at QoS 0, and the tick is over.
TickEnds ==
  /\ pc[Ticker] = "fields"
  /\ todo = {}
  /\ field' = None
  /\ Goto(Ticker, "idle")
  /\ UNCHANGED <<announced, discovered, todo, stop, values, brokerVars>>

-----------------------------------------------------------------------------
\* Stop, on main's goroutine.

StopPublishesOffline ==
  /\ stop = "not_called"
  /\ stop' = "said_goodbye"
  /\ avail' = IF connected THEN "offline" ELSE avail
  /\ UNCHANGED <<pc, publisherVars, values, connected, retained, drops>>

\* A clean DISCONNECT: the broker does not publish the will.
StopDisconnects ==
  /\ stop = "said_goodbye"
  /\ stop' = "disconnected"
  /\ connected' = FALSE
  /\ UNCHANGED <<pc, publisherVars, values, retained, avail, drops>>

AgentStep(a) ==
  \/ PublishOnline(a) \/ resetAnnounced(a)
  \/ Claim(a) \/ PublishDevice(a) \/ PublishDeviceFails(a) \/ RollBack(a)
TickStep ==
  \/ Tick \/ LookAtField \/ PublishField \/ PublishFieldFails
  \/ markFieldDiscovered \/ TickEnds

Next ==
  \/ \E f \in Fields, v \in {"nil", "value"} : Telemetry(f, v)
  \/ Drop
  \/ \E h \in Handlers : Connect(h)
  \/ \E a \in Agents : AgentStep(a)
  \/ TickStep
  \/ StopPublishesOffline \/ StopDisconnects

\* The goroutines are scheduled, the ticker ticks, and a publish that is tried
\* again and again over a working connection is acknowledged in the end.
Fairness ==
  /\ \A h \in Handlers : WF_vars(Connect(h))
  /\ \A a \in Agents : WF_vars(AgentStep(a)) /\ SF_vars(PublishDevice(a))
  /\ WF_vars(TickStep)
  /\ SF_vars(PublishField)

Spec     == Init /\ [][Next]_vars
FairSpec == Spec /\ Fairness

-----------------------------------------------------------------------------
TypeOK ==
  /\ pc \in [Agents -> {"idle", "available", "reset", "announce", "publish", "rollback",
                        "fields", "publish_field", "mark"}]
  /\ announced \in BOOLEAN
  /\ discovered \subseteq Fields
  /\ todo \subseteq Fields
  /\ field \in (Fields \ todo) \cup {None}
  /\ stop \in {"not_called", "said_goodbye", "disconnected"}
  /\ values \in [Fields -> {"absent", "nil", "value"}]
  /\ connected \in BOOLEAN
  /\ retained \subseteq Configs
  /\ avail \in {None, "online", "offline"}
  /\ drops \in 0..MaxDrops

\* Nothing is going on that could still announce something.
Settled == connected /\ \A h \in Handlers : pc[h] = "idle"

\* A car that counts as announced has its entities on the broker, or someone is
\* publishing them: whatever the broker forgot, and however handlers and ticker
\* overlapped, no tick will leave them out (publisher.go:212-220).
AnnouncedIsRetained ==
  (Settled /\ announced /\ pc[Ticker] \notin {"publish", "rollback"}) => "device" \in retained

\* The same of the per-field entities, for which publisher.go:214-220 promises it.
DiscoveredIsRetained ==
  Settled => discovered \ Composite \subseteq retained

\* A stopped gateway is never shown as available (publisher.go:171-174).
StoppedIsOffline == stop = "disconnected" => avail # "online"

\* Every entity returns: while the connection holds and nobody stops the
\* gateway, the car's entities come back and it is shown as available
\* (CHANGELOG.md:28, publisher.go:212-220).
EntitiesReturn ==
  connected ~> (~connected \/ stop # "not_called" \/ ("device" \in retained /\ avail = "online"))
=============================================================================
