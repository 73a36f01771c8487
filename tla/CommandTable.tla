---------------------------- MODULE CommandTable ----------------------------
(***************************************************************************)
(* What each command key means: the entities that Home Assistant is offered *)
(* (Entities in internal/commands/relay.go and commandDiscoveryConfig in    *)
(* internal/hadiscovery/publisher.go), the payloads Handle accepts, and the *)
(* setting of the car each one changes, behind the dispatcher.              *)
(*                                                                          *)
(* A payload is a word and a spelling: odd ones differ from the word in     *)
(* case or in the space around it, which every parser of Handle ignores, as *)
(* normPayload does.  Words are written as normPayload writes them.         *)
(***************************************************************************)
EXTENDS Dispatcher

CONSTANT Junk  \* words no entity sends and no parser knows

VARIABLES
  pins,    \* the PINs in the configuration
  gps,     \* the store has a position for the car
  setting, \* the car: the last value of each setting it was told
  why,     \* history: why Handle refused a request
  ran      \* history: what the car was told for a request

tableVars == <<vars, pins, gps, setting, why, ran>>

-----------------------------------------------------------------------------
\* The entities.
MediaKeys == {"media_toggle", "media_next", "media_prev", "media_vol_up", "media_vol_down"}

\* The list under "Buttons (momentary)".
Presses == {"flash_lights", "honk", "wake", "charge_max_range", "charge_standard",
            "remote_start", "homelink"} \cup MediaKeys
Buttons == Presses \cup {"cancel_update"}

Pins      == {"valet", "speed_limit", "pin_to_drive"}
Switches  == {"charging", "sentry", "steering_wheel_heater", "cabin_overheat",
              "preconditioning_max", "guest_mode", "valet", "speed_limit", "pin_to_drive"}
Covers    == {"charge_port", "windows", "frunk", "trunk"}
NumberOf  == {"charge_limit", "charging_amps", "climate_temp", "speed_limit_value"}
Seats     == {"seat_heater_front_left", "seat_heater_front_right", "seat_heater_rear_left",
              "seat_heater_rear_center", "seat_heater_rear_right"}
AllKeys   == Buttons \cup Switches \cup Covers \cup NumberOf \cup Seats \cup
             {"lock", "climate_mode", "climate_keeper", "software_update", "navigate"}

\* momentary() of dispatch.go.
MomentaryKeys == {"flash_lights", "honk", "wake", "remote_start", "homelink"} \cup MediaKeys

Numbers      == {"50", "80"}
Levels       == {"OFF", "LOW", "MEDIUM", "HIGH"}
Keeper       == {"OFF", "KEEP", "DOG", "CAMP"}
Destinations == {"HOME", "WORK"}

\* What Home Assistant may publish for an entity it is offered.
Advertised(k) ==
  CASE k \in Buttons            -> {"PRESS"}
    [] k \in Switches           -> {"ON", "OFF"}
    [] k \in Covers             -> {"OPEN", "CLOSE"}
    [] k \in NumberOf           -> Numbers
    [] k \in Seats              -> Levels
    [] k = "lock"               -> {"LOCK", "UNLOCK"}
    [] k = "climate_mode"       -> {"OFF", "HEAT_COOL"}
    [] k = "climate_keeper"     -> Keeper
    [] k = "software_update"    -> {"INSTALL"}
    [] k = "navigate"           -> Destinations

\* Handle wants the PIN that its command carries. The number of the speed limit
\* carries none, and is sent without one.
LacksPin(k) == k \in Pins \ pins

\* A PIN-gated entity is offered only with its PIN, that number with the PIN of
\* its switch.
PinOf(k)   == IF k = "speed_limit_value" THEN "speed_limit" ELSE k
Offered(k) == PinOf(k) \notin Pins \ pins

-----------------------------------------------------------------------------
\* Handle's parsers. Each gives the value a word stands for, or Unknown.
Unknown == "unknown"

\* Broken: anything that is not on is off.
onOffByDefault(word) == IF word \in {"ON", "TRUE", "1"} THEN "ON" ELSE "OFF"

onOff(word) ==
  CASE word \in {"ON", "TRUE", "1"}   -> "ON"
    [] word \in {"OFF", "FALSE", "0"} -> "OFF"
    [] OTHER                          -> Unknown

coverOpen(word) ==
  CASE word = "OPEN"                -> "OPEN"
    [] word \in {"CLOSE", "CLOSED"} -> "CLOSE"
    [] OTHER                        -> Unknown

\* Broken: the climate mode is a switch like the others.
climateModeOnOff(word) == onOff(word)

climateMode(word) ==
  CASE word = "OFF"                -> "OFF"
    [] word \in {"HEAT_COOL", "ON"} -> "HEAT_COOL"
    [] OTHER                       -> Unknown

cabinOverheat(word) == IF word = "FAN_ONLY" THEN "FAN_ONLY" ELSE onOff(word)

lookupOption(word, table) == IF word \in table THEN word ELSE Unknown

parse(k, word) ==
  CASE k \in Buttons \cup {"software_update"}       -> "PRESS"
    [] k \in Switches \ {"cabin_overheat"}          -> onOff(word)
    [] k = "cabin_overheat"                         -> cabinOverheat(word)
    [] k \in Covers                                 -> coverOpen(word)
    [] k \in NumberOf                               -> lookupOption(word, Numbers)
    [] k \in Seats                                  -> lookupOption(word, Levels)
    [] k = "climate_keeper"                         -> lookupOption(word, Keeper)
    [] k = "lock"                                   -> lookupOption(word, {"LOCK", "UNLOCK"})
    [] k = "climate_mode"                           -> climateMode(word)
    [] k = "navigate"                               -> word

\* latlon: a command that is sent with the car's position.
NeedsGPS(k, value) == <<k, value>> \in {<<"homelink", "PRESS">>, <<"windows", "CLOSE">>}

\* Handle sends nothing, for one of these reasons.
Reasons == {"no PIN", "unrecognized", "no GPS", "lid"}
Refuses(k, word) ==
  LET value == parse(k, word)
  IN  {x \in Reasons :
         \/ x = "no PIN" /\ LacksPin(k)
         \/ x = "unrecognized" /\ value = Unknown /\ ~LacksPin(k)
         \/ x = "no GPS" /\ ~gps /\ NeedsGPS(k, value)
         \/ x = "lid" /\ k = "frunk" /\ value = "CLOSE"}

\* The check against DoorState (module Lid) may refuse a lid's request too.
MayRefuse(k, word) ==
  Refuses(k, word) \cup {x \in {"lid"} : k \in {"frunk", "trunk"} /\ parse(k, word) # Unknown}

\* The settings of the car, and the value a command gives one. Three keys set
\* the charge limit, and two the pending software update.
Setting(k) ==
  CASE k \in {"charge_limit", "charge_max_range", "charge_standard"} -> "charge_limit"
    [] k \in {"software_update", "cancel_update"}                    -> "update"
    [] OTHER                                                         -> k
Value(k, word) ==
  CASE k = "charge_max_range" -> "100"
    [] k = "charge_standard"  -> "90"
    [] k = "software_update"  -> "INSTALL"
    [] k = "cancel_update"    -> "NONE"
    [] OTHER                  -> parse(k, word)

Words == UNION {Advertised(k) : k \in AllKeys} \cup Junk \cup
         {"TRUE", "1", "FALSE", "0", "CLOSED", "FAN_ONLY"}
Values == (Words \ Junk) \cup {"100", "90", "NONE"}
WordOf(r) == normPayload(req[r].payload)

ASSUME TableAssumption == Keys \subseteq AllKeys /\ None \notin Reasons

-----------------------------------------------------------------------------
TableInit ==
  /\ Init
  /\ pins \in SUBSET (Pins \cap {PinOf(k) : k \in Keys})
  /\ gps \in BOOLEAN
  /\ setting = [s \in {Setting(k) : k \in Keys} |-> None]
  /\ why = [r \in Requests |-> None]
  /\ ran = [r \in Requests |-> None]

QueueStep ==
  /\ \/ Tick
     \/ \E r \in Requests : \/ req[r] = None /\ Submit(r)
                            \/ CallerStep(r)
                            \/ WorkerExit(r) \/ Take(r) \/ RecordSent(r) \/ Answer(r)
  /\ UNCHANGED <<pins, gps, setting, why, ran>>

\* The car gets r's command.
Runs(r) ==
  LET k == KeyOf(r)
  IN  /\ setting' = [setting EXCEPT ![Setting(k)] = Value(k, WordOf(r))]
      /\ ran' = [ran EXCEPT ![r] = Value(k, WordOf(r))]

\* Handle returns before it sends anything.
HandleRefuses(w) ==
  /\ HandlerReturns(w)
  /\ result'[w] = "rejected"
  /\ \E x \in MayRefuse(KeyOf(job[w]), WordOf(job[w])) : why' = [why EXCEPT ![job[w]] = x]
  /\ UNCHANGED <<pins, gps, setting, ran>>

\* Handle sends the command. One reported failed may have run all the same.
HandleSends(w) ==
  /\ HandlerReturns(w)
  /\ Refuses(KeyOf(job[w]), WordOf(job[w])) = {}
  /\ \/ result'[w] = "sent" /\ Runs(job[w])
     \/ result'[w] = "failed" /\ Runs(job[w])
     \/ result'[w] = "failed" /\ UNCHANGED <<setting, ran>>
  /\ UNCHANGED <<pins, gps, why>>

TableNext ==
  \/ QueueStep
  \/ \E w \in Requests : HandleRefuses(w) \/ HandleSends(w)

TableSpec == TableInit /\ [][TableNext]_tableVars

-----------------------------------------------------------------------------
TableTypeOK ==
  /\ pins \subseteq Pins
  /\ gps \in BOOLEAN
  /\ DOMAIN setting = {Setting(k) : k \in Keys}
  /\ \A s \in DOMAIN setting \ {"navigate"} : setting[s] \in Values \cup {None}
  /\ why \in [Requests -> Reasons \cup {None}]
  /\ \A r \in Requests : ran[r] \in Values \cup Junk \cup {None}

\* Handle understands the vocabulary that the publisher advertises: what Home
\* Assistant sends for an entity it was offered is never refused as
\* unrecognized or for want of a PIN. The regression that relay.go:379-395
\* tells of broke this for the climate modes.
AdvertisedIsUnderstood ==
  \A r \in Requests :
     (Submitted(r) /\ Offered(KeyOf(r)) /\ WordOf(r) \in Advertised(KeyOf(r)))
        => why[r] \notin {"unrecognized", "no PIN"}

\* The other words each parser is documented to take, with what they mean.
Aliases(k) ==
  CASE k \in Switches     -> [w \in {"TRUE", "1", "FALSE", "0"} |->
                                IF w \in {"TRUE", "1"} THEN "ON" ELSE "OFF"]
    [] k \in Covers       -> [w \in {"CLOSED"} |-> "CLOSE"]
    [] k = "climate_mode" -> [w \in {"ON"} |-> "HEAT_COOL"]
    [] OTHER              -> [w \in {} |-> None]

\* A command moves the car only the way its payload says in Home Assistant's
\* vocabulary: a typo, an empty message or another entity's word never resolves
\* to one of two physical states (relay.go:245-251).
OnlyWhatWasAsked ==
  \A r \in Requests :
     LET k == KeyOf(r)
         w == WordOf(r)
     IN  (ran[r] # None /\ k \notin Buttons \cup {"software_update", "navigate"}) =>
            \/ w \in Advertised(k) /\ ran[r] = w
            \/ w \in DOMAIN Aliases(k) /\ ran[r] = Aliases(k)[w]
            \/ k = "cabin_overheat" /\ w = "FAN_ONLY" /\ ran[r] = w

\* Once the newest request for a setting was reported sent, or refused because
\* the same command had just been sent, the car has the value it asked for.
\* Commands reported failed may have run later.
SettingIsNewest(S) ==
  LET mine == SelectSeq(arrived, LAMBDA r : Setting(KeyOf(r)) = S)
      last == mine[Len(mine)]
  IN  (/\ mine # <<>>
       /\ \A i \in 1..Len(mine) : answers[mine[i]] # <<>> /\ ~Answered(mine[i], "failed")
       /\ Answered(last, "sent") \/ Answered(last, "duplicate"))
      => setting[S] = Value(KeyOf(last), WordOf(last))

\* dispatch.go:23-28 promises that a slider ends where it was left. The charge
\* limit is also set by two buttons, and the queue does not know it.
ChargeLimitIsNewest == SettingIsNewest("charge_limit")

\* relay.go:63-70 lists charge_max_range and charge_standard among the momentary
\* buttons, and dispatch.go:166 says that each press is its own request.
PressIsItsOwnRequest ==
  \A r \in Requests : (Submitted(r) /\ KeyOf(r) \in Presses) =>
     ~Answered(r, "duplicate") /\ ~Answered(r, "replaced")
=============================================================================
