---------------------------- MODULE VehicleState ----------------------------
(***************************************************************************)
(* What the gateway knows of its cars: internal/store, with the snapshot   *)
(* file that carries it over a restart, Derive, which turns it into        *)
(* online / asleep / offline, and the readiness verdict of /healthz.       *)
(*                                                                         *)
(* Three fields stand for all of them: Gear and Charge                     *)
(* (DetailedChargeState), which Derive interprets, and Power (AC or DC     *)
(* charging power).  A value Nil is what an "invalid" variant stores.      *)
(***************************************************************************)
EXTENDS Integers, FiniteSets

CONSTANTS
  Cars,         \* the configured VINs
  None, Nil,
  Grace, Stale, \* OnlineGraceSeconds and StaleAfterSeconds
  ReportAsleep, \* ReportAsleepWhenIdle
  MaxTime, MaxMessages, MaxStarts \* bounds

VehicleStateAssumption ==
  /\ None \notin Cars
  /\ {Grace, Stale, MaxTime, MaxMessages, MaxStarts} \subseteq Nat
  /\ ReportAsleep \in BOOLEAN

Fields == {"Gear", "Charge", "Power"}
Values == [Gear   |-> {"P", "D", Nil},
           Charge |-> {"Charging", "Stopped", Nil},
           Power  |-> {"zero", "flowing", Nil}]

VARIABLES
  now,
  phase,    \* of main: "down", "running", "stopped" (ingest stopped), "saved"
  fields,   \* vehicle.fields: None, or [value, count]
  conn,     \* vehicle.connectivity
  lastV,    \* vehicle.lastV; None is the zero time
  restored, \* vehicle.restored
  joined,   \* did Consumer.Stop join the consuming goroutine?
  saving,   \* Save in progress: what it has copied so far, per car; or None
  last,     \* is this the save that Persist does on its way out?
  disk,     \* the snapshot file: None, or what it holds for each car
  messages, starts,
  received  \* history: how often this process has received each field, or the
            \* connectivity ("Link")

vehicleVars == <<fields, conn, lastV, restored, received>>
saveVars    == <<saving, last, disk>>
vars == <<now, phase, vehicleVars, joined, saveVars, messages, starts>>

NoFields   == [f \in Fields |-> None]
NothingYet == [f \in Fields \cup {"Link"} |-> 0]

Init ==
  /\ now = 0
  /\ phase = "down"
  /\ fields = [c \in Cars |-> NoFields]
  /\ conn = [c \in Cars |-> ""]
  /\ lastV = [c \in Cars |-> None]
  /\ restored = [c \in Cars |-> FALSE]
  /\ joined = FALSE
  /\ saving = None
  /\ last = FALSE
  /\ disk = None
  /\ messages = 0
  /\ starts = 0
  /\ received = [c \in Cars |-> NothingYet]

Tick ==
  /\ now < MaxTime
  /\ now' = now + 1
  /\ UNCHANGED <<phase, vehicleVars, joined, saveVars, messages, starts>>

-----------------------------------------------------------------------------
\* Broken: the consumer is stopped after the last save.
IngestsUntilExit == phase # "down"

\* The consuming goroutine, until Stop has joined it.
Ingests == phase = "running" \/ (phase = "stopped" /\ ~joined)

SetField(c, f, v) ==
  /\ Ingests
  /\ messages < MaxMessages
  /\ messages' = messages + 1
  /\ LET count == IF fields[c][f] = None THEN 0 ELSE fields[c][f].count
     IN  fields' = [fields EXCEPT ![c][f] = [value |-> v, count |-> count + 1]]
  /\ lastV' = [lastV EXCEPT ![c] = now]
  /\ restored' = [restored EXCEPT ![c] = FALSE]
  /\ received' = [received EXCEPT ![c][f] = @ + 1]
  /\ UNCHANGED <<now, phase, conn, joined, saveVars, starts>>

SetConnectivity(c, s) ==
  /\ Ingests
  /\ messages < MaxMessages
  /\ messages' = messages + 1
  /\ conn' = [conn EXCEPT ![c] = s]
  /\ received' = [received EXCEPT ![c]["Link"] = @ + 1]
  /\ UNCHANGED <<now, phase, fields, lastV, restored, joined, saveVars, starts>>

-----------------------------------------------------------------------------
\* Persist and Save. One goroutine saves; each car is copied under its own lock.
BeginSave ==
  /\ phase \in {"running", "stopped"}
  /\ saving = None
  /\ ~last
  /\ saving' = [c \in {} |-> None]
  /\ last' = (phase = "stopped")
  /\ UNCHANGED <<now, phase, vehicleVars, joined, disk, messages, starts>>

\* What is saved of a car. One without fields is left out.
Copied(c) ==
  IF fields[c] = NoFields THEN None
  ELSE [fields |-> fields[c], conn |-> conn[c], lastV |-> lastV[c]]

CopyVehicle(c) ==
  /\ saving # None
  /\ c \notin DOMAIN saving
  /\ saving' = [d \in DOMAIN saving \cup {c} |-> IF d = c THEN Copied(c) ELSE saving[d]]
  /\ UNCHANGED <<now, phase, vehicleVars, joined, last, disk, messages, starts>>

\* Save returns an error before its rename, and the file stays what it was. The
\* next tick saves again; after the last save there is none.
SaveFails ==
  /\ saving # None
  /\ saving' = None
  /\ UNCHANGED <<now, phase, vehicleVars, joined, last, disk, messages, starts>>

\* The file is written beside the old one and renamed over it.
Rename ==
  /\ saving # None
  /\ DOMAIN saving = Cars
  /\ disk' = saving
  /\ saving' = None
  /\ phase' = IF last THEN "saved" ELSE phase
  /\ UNCHANGED <<now, vehicleVars, joined, last, messages, starts>>

-----------------------------------------------------------------------------
\* Starting: New and Load.

\* Broken: every field is taken over.
LoadedAllFields(saved) == saved.fields

\* What Load takes over of a saved car. A gear other than P is only true while
\* the car is streaming, and "online" was the old process's link.
LoadedFields(saved) ==
  [f \in Fields |->
     IF f = "Gear" /\ saved.fields[f] # None /\ saved.fields[f].value # "P"
     THEN None ELSE saved.fields[f]]
LoadedConn(saved) == IF saved.conn = "online" THEN "" ELSE saved.conn

Saved(c) == disk # None /\ disk[c] # None

Start ==
  /\ phase = "down"
  /\ starts < MaxStarts
  /\ starts' = starts + 1
  /\ phase' = "running"
  /\ fields' = [c \in Cars |-> IF Saved(c) THEN LoadedFields(disk[c]) ELSE NoFields]
  /\ conn' = [c \in Cars |-> IF Saved(c) THEN LoadedConn(disk[c]) ELSE ""]
  /\ lastV' = [c \in Cars |-> IF Saved(c) THEN disk[c].lastV ELSE None]
  /\ restored' = [c \in Cars |-> Saved(c)]
  /\ UNCHANGED <<now, received, joined, saveVars, messages>>

\* SIGTERM: main's deferred calls run, the consumer's Stop before cancelPersist.
\* Stop gives up on a goroutine it cannot join in three seconds.
StopIngest ==
  /\ phase = "running"
  /\ phase' = "stopped"
  /\ joined' \in BOOLEAN
  /\ UNCHANGED <<now, vehicleVars, saveVars, messages, starts>>

\* waitBackground has seen the last save, or main is out of patience with it, or
\* the process is killed. What memory held is gone.
Exit ==
  /\ phase # "down"
  /\ phase' = "down"
  /\ fields' = [c \in Cars |-> NoFields]
  /\ conn' = [c \in Cars |-> ""]
  /\ lastV' = [c \in Cars |-> None]
  /\ restored' = [c \in Cars |-> FALSE]
  /\ received' = [c \in Cars |-> NothingYet]
  /\ joined' = FALSE
  /\ saving' = None
  /\ last' = FALSE
  /\ UNCHANGED <<now, disk, messages, starts>>

Next ==
  \/ Tick
  \/ \E c \in Cars, f \in Fields : \E v \in Values[f] : SetField(c, f, v)
  \/ \E c \in Cars, s \in {"online", "offline"} : SetConnectivity(c, s)
  \/ BeginSave \/ \E c \in Cars : CopyVehicle(c)
  \/ SaveFails \/ Rename
  \/ Start \/ StopIngest \/ Exit

Spec == Init /\ [][Next]_vars

-----------------------------------------------------------------------------
\* Derive and health, which read a Snapshot.

Has(c, f, v) == fields[c][f] # None /\ fields[c][f].value = v

isDriving(c)  == Has(c, "Gear", "D")
isCharging(c) ==
  \/ Has(c, "Charge", "Charging")
  \/ ~Has(c, "Charge", "Stopped") /\ Has(c, "Power", "flowing")

Active(c) == ~restored[c] /\ (isDriving(c) \/ isCharging(c))
FreshV(c) == lastV[c] # None /\ now - lastV[c] < Grace
StaleV(c) == lastV[c] = None \/ now - lastV[c] > Stale

Derive(c) ==
  CASE Active(c)                                             -> "online"
    [] ~Active(c) /\ ReportAsleep /\ StaleV(c) /\ conn[c] # "offline" -> "asleep"
    [] OTHER -> IF conn[c] = "online" \/ FreshV(c) THEN "online"
                ELSE IF conn[c] = "offline" /\ StaleV(c) THEN "offline"
                ELSE "asleep"

\* health: ready, or not, given Consumer.Connected.
Ready(link) == link /\ \A c \in Cars : conn[c] = "online" => ~StaleV(c)

-----------------------------------------------------------------------------
TypeOK ==
  /\ now \in 0..MaxTime
  /\ phase \in {"down", "running", "stopped", "saved"}
  /\ \A c \in Cars, f \in Fields :
        fields[c][f] = None \/ (fields[c][f].value \in Values[f] /\ fields[c][f].count > 0)
  /\ conn \in [Cars -> {"", "online", "offline"}]
  /\ lastV \in [Cars -> (0..MaxTime) \cup {None}]
  /\ restored \in [Cars -> BOOLEAN]
  /\ saving # None => DOMAIN saving \subseteq Cars
  /\ last => phase # "running"

\* A clean shutdown loses nothing: when the consumer was joined and the last
\* save is done, the file holds every update the store took of a car that has
\* sent fields (main.go:61-66 and 322-329).
CleanShutdownKeepsAll ==
  (phase = "saved" /\ joined) => \A c \in Cars : disk[c] = Copied(c)

\* A car that has been silent since before the restart is not reported online
\* because of what it was doing then (state.go:23-26, persist.go:97-100): neither
\* the gear, nor the charge, nor the link of the old process keeps it awake.
SilentSinceRestart ==
  phase = "running" => \A c \in Cars :
     received[c] = NothingYet /\ ~FreshV(c) => Derive(c) # "online"

\* A car shown in gear has said so to this process (persist.go:85-87).
GearIsLive ==
  phase = "running" => \A c \in Cars : Has(c, "Gear", "D") => received[c]["Gear"] > 0

\* No state of the old process passes for one of the new.
NoGhost == SilentSinceRestart /\ GearIsLive

\* store.go:73-74: Count is how often the field was received since startup.
CountSinceStartup ==
  phase = "running" => \A c \in Cars, f \in Fields :
     fields[c][f] # None /\ received[c][f] > 0 => fields[c][f].count = received[c][f]

\* fleetapi/server.go:194-195 read literally: ready means that every car that is
\* online has streamed something within Stale. The probe asks the link that was
\* reported, while the API derives what it shows from the gear and the charge too:
\* after a restart the link of a car that never lost it is unknown, and a car in
\* gear that stops streaming is shown online by a gateway that is ready.
ReadyMeansStreaming ==
  (phase = "running" /\ Ready(TRUE)) => \A c \in Cars : Derive(c) = "online" => ~StaleV(c)
=============================================================================
