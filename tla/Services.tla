------------------------------ MODULE Services ------------------------------
(***************************************************************************)
(* The rest of the gateway that can be looked at one part at a time: the   *)
(* credential it talks to Tesla with (Credential), what a car is told to   *)
(* stream (Enroll), what the store keeps of that over a restart            *)
(* (VehicleState), the pictures drawn of it (Views) and the names it has   *)
(* in Home Assistant (Naming).                                             *)
(*                                                                         *)
(* As in Gateway a behaviour moves one part, chosen once and for all. Where*)
(* parts do meet, each of them models what the other may do to it as a     *)
(* free choice, so that what holds of it alone holds of it with the other. *)
(***************************************************************************)
EXTENDS Integers, Sequences

CONSTANTS
  None, Nil,
  Callers, Main, MaxGrants, MaxUses, MaxCrashes,            \* Credential
  Cars, Saves, Chains, CAFile, Empty, Garbled,              \* Enroll
  Grace, Stale, ReportAsleep, MaxMessages,                  \* VehicleState
  Enrolments,                                               \* Views
  Fleet, Lists, ByVIN, Titles, MaxPresses,                  \* Naming
  MaxTime, MaxStarts

VARIABLES
  part, \* the part that moves in this behaviour
  relayed, process, pc, paste, mu, refresh, access, persistErr, refreshErr,
  reply, cache, grants, valid, crashes, adopted, loss,
  tmp, file, content, save, draft, fd, given, chainSaved, overlapped,
  now, phase, stored, conn, lastV, loaded, joined, saving, last, disk, messages,
  launches, received,
  enrolled, fields, restored, lastState, doc, own, known, knownThen,
  vehicles, up, name, seen, link, todo, announced, subscribed, inbox, device,
  retained, pressed, ran, starts

Credential   == INSTANCE Credential WITH up <- process
Enroll       == INSTANCE Enroll WITH target <- file, Configured <- Cars
VehicleState == INSTANCE VehicleState WITH fields <- stored, restored <- loaded,
                  starts <- launches
Views        == INSTANCE Views
Naming       == INSTANCE Naming WITH Cars <- Fleet

ASSUME ServicesAssumption ==
  /\ Credential!CredentialAssumption
  /\ Enroll!EnrollAssumption
  /\ VehicleState!VehicleStateAssumption
  /\ Views!ViewsAssumption
  /\ Naming!NamingAssumption

credentialVars == <<relayed, process, pc, paste, mu, refresh, access, persistErr,
                    refreshErr, reply, cache, grants, valid, crashes, adopted, loss>>
enrollVars     == <<tmp, file, content, save, draft, fd, given, chainSaved,
                    overlapped>>
stateVars      == <<now, phase, stored, conn, lastV, loaded, joined, saving, last, disk,
                    messages, launches, received>>
viewsVars      == <<enrolled, fields, restored, lastState, doc, own, known, knownThen>>
namingVars     == <<vehicles, up, name, seen, link, todo, announced, subscribed, inbox,
                    device, retained, pressed, ran, starts>>
servicesVars   == <<part, credentialVars, enrollVars, stateVars, viewsVars, namingVars>>

Parts == {"credential", "enroll", "state", "views", "naming"}

\* Each part starts as it does alone. One that stands still need not try every
\* initial state it has.
Init ==
  /\ part \in Parts
  /\ Credential!Init   /\ (part # "credential" => relayed)
  /\ Enroll!Init       /\ (part # "enroll" => file = 0)
  /\ VehicleState!Init
  /\ Views!Init        /\ (part # "views" => enrolled = CHOOSE e \in Enrolments : TRUE)
  /\ Naming!Init       /\ (part # "naming" => vehicles = CHOOSE l \in Lists : TRUE)

CredentialNext ==
  /\ part = "credential" /\ Credential!Next
  /\ UNCHANGED <<part, enrollVars, stateVars, viewsVars, namingVars>>
EnrollNext ==
  /\ part = "enroll" /\ Enroll!Next
  /\ UNCHANGED <<part, credentialVars, stateVars, viewsVars, namingVars>>
VehicleStateNext ==
  /\ part = "state" /\ VehicleState!Next
  /\ UNCHANGED <<part, credentialVars, enrollVars, viewsVars, namingVars>>
ViewsNext ==
  /\ part = "views" /\ Views!Next
  /\ UNCHANGED <<part, credentialVars, enrollVars, stateVars, namingVars>>
NamingNext ==
  /\ part = "naming" /\ Naming!Next
  /\ UNCHANGED <<part, credentialVars, enrollVars, stateVars, viewsVars>>

Next ==
  \/ CredentialNext \/ EnrollNext \/ VehicleStateNext \/ ViewsNext \/ NamingNext

Spec == Init /\ [][Next]_servicesVars

-----------------------------------------------------------------------------
\* The properties are the components', where each of them is explained. They are
\* asked of the part that moves; one that stands still is in an initial state,
\* where others of its behaviours begin.

\* The part that moves keeps its types.
TypeOK ==
  \/ part = "credential" /\ Credential!TypeOK
  \/ part = "enroll" /\ Enroll!TypeOK
  \/ part = "state" /\ VehicleState!TypeOK
  \/ part = "views" /\ Views!TypeOK
  \/ part = "naming" /\ Naming!TypeOK

\* relay.go: the gateway does not strand itself, and a pasted token stays.
CredentialKept == part = "credential" => Credential!CredentialKept
\* relay.go: a status of "ok" is true of the next start.
StatusOkSurvivesRestart == part = "credential" => Credential!StatusOkSurvivesRestart

\* onboard/server.go: enrolment keeps the chain and sends nothing less.
EnrollmentWhole == part = "enroll" => Enroll!EnrollmentWhole

\* main.go: a clean shutdown loses no update.
CleanShutdownKeepsAll == part = "state" => VehicleState!CleanShutdownKeepsAll
\* state.go: no state of the process before passes for one of this one.
NoGhost == part = "state" => VehicleState!NoGhost

\* entities.go, mapper.go, wss/server.go: the pictures of a car agree.
ViewsAgree == part = "views" => Views!ViewsAgree
\* publisher.go: an invalid field takes nothing off the document.
StateKept == Views!StateKept

\* publisher.go: a press runs once at most, on the car that was shown.
RightCarOnce == part = "naming" => Naming!RightCarOnce
=============================================================================
