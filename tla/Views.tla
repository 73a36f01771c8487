-------------------------------- MODULE Views --------------------------------
(***************************************************************************)
(* The three pictures of one car that the gateway draws from one snapshot: *)
(* Home Assistant's state document (hadiscovery/entities.go), the Fleet    *)
(* API's vehicle_data (vehicledata/mapper.go) and the row that TeslaMate   *)
(* streams (wss/server.go), and the document that the broker retains.      *)
(*                                                                         *)
(* A picture reads a snapshot under the store's lock, so it is a function. *)
(* What makes the pictures differ is the history of the snapshot: fields   *)
(* that stop at a residual, that turn invalid, or that a restart restored. *)
(* Powers, speeds and percentages are in tenths; an absent field and one   *)
(* that is nil are the same to every reader.                               *)
(***************************************************************************)
EXTENDS Integers

CONSTANTS
  Nil,
  Enrolments \* sets of fields a car may be enrolled to send

\* What a field may report. Pack stands for PackVoltage times PackCurrent, in the
\* sign of the Fleet API, Frunk for DoorState: "partial" has no TrunkFront.
Values == [
  Gear    |-> {"P", "D"},
  Charge  |-> {"Charging", "Starting", "Disconnected"},
  AC      |-> {0, 74},
  DC      |-> {1, 500},        \* 1: the residual after a session
  Voltage |-> {20, 2300},
  Pack    |-> {3, 204, -75},
  Speed   |-> {6, 649},
  Level   |-> {596, 698},
  Soc     |-> {592, 704},
  Latch   |-> {"Engaged", "Disengaged"},
  Door    |-> BOOLEAN,
  Hvac    |-> {"On", "Off", "Unknown"},
  Frunk   |-> {"open", "shut", "partial"}]
Fields  == DOMAIN Values
Sticky  == {"charge_port", "climate_on", "frunk"}

ViewsAssumption ==
  /\ Enrolments \subseteq SUBSET Fields
  /\ Nil \notin Int /\ \A f \in Fields : Nil \notin Values[f]

VARIABLES
  enrolled,  \* the fields this car sends
  fields,    \* the snapshot's values
  restored,  \* Snapshot.Restored
  lastState, \* Publisher.lastState, the sticky keys of it
  doc,       \* outside: the sticky keys of the document the broker retains
  own,       \* history: is it a document of this process?
  known,     \* history: what the car last said of each sticky key
  knownThen  \* history: the same, when the document was published

history == <<own, known, knownThen>>
vars    == <<enrolled, fields, restored, lastState, doc, history>>

Nothing == [k \in Sticky |-> Nil]

Init ==
  /\ enrolled \in Enrolments
  /\ fields = [f \in Fields |-> Nil]
  /\ restored = FALSE
  /\ lastState = Nothing
  /\ doc = Nothing
  /\ own = FALSE
  /\ known = Nothing
  /\ knownThen = Nothing

-----------------------------------------------------------------------------
\* Readings of the store: state.go and store.go.

Has(f)     == fields[f] # Nil
Round(x)   == IF x >= 0 THEN (x + 5) \div 10 ELSE -((5 - x) \div 10)
Whole(x)   == IF x >= 0 THEN x \div 10 ELSE -((-x) \div 10)

dcPowerFloor == 10
Delivers(f, floor) == Has(f) /\ fields[f] >= floor

isDriving  == fields["Gear"] = "D"
isCharging ==
  \/ fields["Charge"] = "Charging"
  \/ /\ fields["Charge"] # "Disconnected"
     /\ Delivers("DC", dcPowerFloor) \/ Delivers("AC", 1)

\* Derive's two flags.
Driving  == ~restored /\ isDriving
Charging == ~restored /\ isCharging

\* The larger of the two powers, without a floor.
ChargerPower ==
  IF ~Has("AC") /\ ~Has("DC") THEN Nil
  ELSE CHOOSE p \in {0, fields["AC"], fields["DC"]} \ {Nil} :
         \A q \in {0, fields["AC"], fields["DC"]} \ {Nil} : p >= q
DrawsPower == ChargerPower # Nil /\ ChargerPower > 0

\* HvacOn: Nil for what cannot be classified.
HvacOn == CASE fields["Hvac"] = "On"  -> TRUE
            [] fields["Hvac"] = "Off" -> FALSE
            [] OTHER                  -> Nil

-----------------------------------------------------------------------------
\* vehicle_data.

\* Broken: the usable charge comes first.
UsableSOC ==
  IF Has("Soc") THEN Round(fields["Soc"])
  ELSE IF Has("Level") THEN Round(fields["Level"]) ELSE Nil

\* DisplayedSOC, which the streamed row uses.
DisplayedSOC ==
  IF Has("Level") THEN Round(fields["Level"])
  ELSE IF Has("Soc") THEN Round(fields["Soc"]) ELSE Nil

battery_level == IF Has("Level") THEN Round(fields["Level"])
                 ELSE IF Has("Soc") THEN Round(fields["Soc"]) ELSE Nil
usable_battery_level ==
  CASE Has("Soc") /\ Has("Level") ->
         Round(IF fields["Soc"] < fields["Level"] THEN fields["Soc"] ELSE fields["Level"])
    [] Has("Level") /\ ~Has("Soc") -> Round(fields["Level"])
    [] OTHER -> IF Has("Soc") THEN Round(fields["Soc"]) ELSE Nil

chargingState ==
  IF Has("Charge") THEN fields["Charge"]
  ELSE IF Charging THEN "Charging" ELSE "Disconnected"

\* drivePower of mapper.go.
drivePower ==
  CASE Charging /\ DrawsPower -> -Whole(ChargerPower)
    [] ~(Charging /\ DrawsPower) /\ Driving /\ Has("Pack") -> Round(fields["Pack"])
    [] OTHER -> 0

\* Build, for a template that says nothing of these keys: Nil is null or absent.
Build == [
  speed                |-> IF Driving /\ Has("Speed") THEN Whole(fields["Speed"]) ELSE Nil,
  shift_state          |-> IF Driving THEN fields["Gear"] ELSE Nil,
  power                |-> drivePower,
  battery_level        |-> battery_level,
  usable_battery_level |-> usable_battery_level,
  charging_state       |-> chargingState,
  is_climate_on        |-> HvacOn]

-----------------------------------------------------------------------------
\* The streamed row.

\* drivePower of wss/server.go.
streamPower ==
  CASE DrawsPower -> -Whole(ChargerPower)
    [] ~DrawsPower /\ Driving /\ Has("Pack") -> Round(fields["Pack"])
    [] OTHER -> 0

buildCSV == [
  speed |-> IF Driving /\ Has("Speed") THEN Round(fields["Speed"]) ELSE Nil,
  soc   |-> DisplayedSOC,
  power |-> streamPower,
  gear  |-> fields["Gear"]]

-----------------------------------------------------------------------------
\* Home Assistant's document.

\* Both signals must be there, and say that there is no cable.
unplugCorroborated == fields["Charge"] = "Disconnected" /\ fields["Door"] = FALSE
pluggedIn          == fields["Latch"] = "Engaged" /\ ~unplugCorroborated

buildState == [
  charging        |-> Charging,
  speed           |-> IF ~Driving THEN 0
                      ELSE IF Has("Speed") THEN Round(fields["Speed"]) ELSE Nil,
  power           |-> IF ~(Driving \/ Charging) THEN 0 ELSE fields["Pack"],
  charger_power   |-> ChargerPower,
  charger_voltage |-> IF Has("Voltage") /\ ~Charging THEN 0 ELSE fields["Voltage"],
  battery_level   |-> IF Has("Level") THEN Round(fields["Level"]) ELSE Nil,
  plugged_in      |-> pluggedIn,
  climate_on      |-> Has("Hvac") /\ HvacOn = TRUE,
  charge_port     |-> fields["Door"],
  frunk           |-> fields["Frunk"]]

\* The keys whose templates have no default; a key that is absent is Nil.
StickyState ==
  [charge_port |-> fields["Door"],
   climate_on  |-> IF Has("Hvac") THEN buildState.climate_on ELSE Nil,
   frunk       |-> IF fields["Frunk"] = "partial" THEN Nil ELSE fields["Frunk"]]

Overlaid(new, old) == [k \in Sticky |-> IF new[k] = Nil THEN old[k] ELSE new[k]]

\* Broken: a key that is missing stays missing.
CarriesNothing(st, prev) == st

carryForward(st, prev) == Overlaid(st, prev)

-----------------------------------------------------------------------------
\* SetField. An "invalid" variant stores nil.
Report(f, v) ==
  /\ fields' = [fields EXCEPT ![f] = v]
  /\ restored' = FALSE
  /\ known' = Overlaid(StickyState', known)
  /\ UNCHANGED <<enrolled, lastState, doc, own, knownThen>>

\* publishState. The message is lost when there is no connection.
PublishState ==
  /\ lastState' = carryForward(StickyState, lastState)
  /\ \/ doc' = lastState' /\ own' = TRUE /\ knownThen' = known
     \/ UNCHANGED <<doc, own, knownThen>>
  /\ UNCHANGED <<enrolled, fields, restored, known>>

\* A clean restart: the snapshot brings the fields back but for a gear that is not
\* P, and the publisher begins anew.
Restart ==
  /\ fields' = [fields EXCEPT !["Gear"] = IF @ = "P" THEN @ ELSE Nil]
  /\ restored' = (\E f \in Fields : Has(f))
  /\ lastState' = Nothing
  /\ own' = FALSE
  /\ UNCHANGED <<enrolled, doc, known, knownThen>>

Next ==
  \/ \E f \in enrolled : \E v \in Values[f] \cup {Nil} : Report(f, v)
  \/ PublishState
  \/ Restart

Spec == Init /\ [][Next]_vars
-----------------------------------------------------------------------------
TypeOK ==
  /\ enrolled \in Enrolments
  /\ \A f \in Fields : fields[f] \in Values[f] \cup {Nil}
  /\ restored \in BOOLEAN /\ own \in BOOLEAN
  /\ DOMAIN doc = Sticky /\ DOMAIN lastState = Sticky

\* Whatever has turned invalid or was restored, the percentage is the same
\* everywhere, and the usable one is not above it (mapper.go:102-103 and 275-278).
BatteryAgrees ==
  /\ Build.battery_level = buildCSV.soc
  /\ buildState.battery_level # Nil => buildState.battery_level = buildCSV.soc
  /\ Build.battery_level # Nil => Build.usable_battery_level <= Build.battery_level

\* A car that nobody shows as driving has no speed anywhere, and one that drives
\* has the same in both feeds of TeslaMate but for the rounding
\* (entities.go:296-303, mapper.go:66-81, wss/server.go:211-215).
SpeedAgrees ==
  /\ Build.speed = Nil <=> buildCSV.speed = Nil
  /\ Build.speed # Nil =>
        buildCSV.speed - Build.speed \in {0, 1} /\ buildCSV.gear = Build.shift_state
  /\ buildState.speed \notin {Nil, 0} => Build.speed # Nil

\* Where a cable counts: what charges is not called unplugged in another picture,
\* and draws power in both feeds (entities.go:480-489, mapper.go:239-246).
ChargeAgrees ==
  /\ buildState.charging => Build.charging_state # "Disconnected"
  /\ buildState.charging /\ fields["Latch"] = "Engaged" => buildState.plugged_in
  /\ ~buildState.plugged_in /\ fields["Latch"] = "Engaged" => Build.charging_state = "Disconnected"
  /\ buildState.charging /\ DrawsPower => Build.power = buildCSV.power /\ Build.power <= 0

\* Home Assistant and vehicle_data never disagree about the climate
\* (entities.go:460-463).
ClimateAgrees ==
  Build.is_climate_on # Nil => buildState.climate_on = Build.is_climate_on

ViewsAgree == BatteryAgrees /\ SpeedAgrees /\ ChargeAgrees /\ ClimateAgrees

\* A field that turns invalid, once or for 22 minutes, takes nothing off the
\* document that the process publishes (publisher.go:99-105).
StateKept ==
  [][\A k \in Sticky : own /\ own' /\ doc[k] # Nil => doc'[k] # Nil]_vars

\* wss/server.go:244-246: the two feeds of TeslaMate agree about the power, of a car
\* that this process has heard of.
PowerPathsAgree == ~restored => Build.power = buildCSV.power

\* publisher.go:104-105: what the document shows is the last known value.
ShowsLastKnown == doc = knownThen

\* state.go:23-26: a charge that was restored is not shown as one.
RestoredChargeNotShown == restored => Build.charging_state # "Charging"
=============================================================================
