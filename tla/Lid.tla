---------------------------------- MODULE Lid ----------------------------------
(***************************************************************************)
(* The cover commands of internal/commands/relay.go for the two lids of a  *)
(* car.  actuate_trunk toggles the rear lid and can only open the front    *)
(* one, so the relay compares each request with the last DoorState in the  *)
(* store and then sends, perhaps after waking the car.  Between the lid    *)
(* and the store are the telemetry stream, people with hands, and a        *)
(* gateway that restarts with the values it saved.                         *)
(***************************************************************************)
EXTENDS Integers, Sequences

CONSTANTS
  MaxReports, \* bound on the reports under way
  None      \* no command, nothing actuated

Lids    == {"TrunkFront", "TrunkRear"}
States  == {"open", "closed"}
Reasons == {"cannot close", "unknown", "already"}

\* What a report, a cover command, a refusal and an actuated lid are told by.
Messages == [lid : Lids, is : States]
Commands == [lid : Lids, want : States]
Refusals == [lid : Lids, want : States, was : States, why : Reasons]
Actions  == [lid : Lids, want : States, was : States]

LidAssumption ==
  /\ MaxReports \in Nat
  /\ None \notin Reasons
  /\ None \notin Commands \cup Refusals \cup Actions

VARIABLES
  prompt,  \* reports arrive at once, and nobody touches a lid during a command:
           \* chosen once and for all
  lid,     \* external: what each lid is
  reports, \* DoorState changes the car has sent and the store has not
  seen,    \* store: DoorState, "unknown" before the first report
  command, \* the cover command the car's worker is executing, or None
  refused, \* history: the cover command refused last, why, and what the lid was
  acted    \* history: what actuate_trunk last found, and was asked for

vars == <<prompt, lid, reports, seen, command, refused, acted>>

Init ==
  /\ prompt \in BOOLEAN
  /\ lid \in [Lids -> States]
  /\ reports = <<>>
  /\ seen = [l \in Lids |-> "unknown"]
  /\ command = None
  /\ refused = None
  /\ acted = None

-----------------------------------------------------------------------------
\* A lid changes, and the car reports it (external).
Moves(l, s) ==
  /\ lid' = [lid EXCEPT ![l] = s]
  /\ IF prompt
     THEN seen' = [seen EXCEPT ![l] = s] /\ UNCHANGED reports
     ELSE reports' = Append(reports, [lid |-> l, is |-> s]) /\ UNCHANGED seen

ByHand(l) ==
  /\ prompt => command = None
  /\ Len(reports) < MaxReports
  /\ \E s \in States \ {lid[l]} : Moves(l, s)
  /\ UNCHANGED <<prompt, command, refused, acted>>

\* Without a move too, the car reports its lids now and then (external).
Reports(l) ==
  /\ Len(reports) < MaxReports
  /\ Moves(l, lid[l])
  /\ UNCHANGED <<prompt, command, refused, acted>>

\* SetField. A report is lost when the gateway is down.
Ingested ==
  /\ reports # <<>>
  /\ reports' = Tail(reports)
  /\ \/ seen' = [seen EXCEPT ![Head(reports).lid] = Head(reports).is]
     \/ UNCHANGED seen
  /\ UNCHANGED <<prompt, lid, command, refused, acted>>

-----------------------------------------------------------------------------
\* Broken: a lid whose state is unknown is actuated.
RefusalTrusting(l, want) ==
  IF l = "TrunkFront" /\ want = "closed" THEN "cannot close"
  ELSE IF seen[l] = want THEN "already"
  ELSE None

\* The reason to refuse a request, None if it is to be sent.
Refusal(l, want) ==
  IF l = "TrunkFront" /\ want = "closed" THEN "cannot close"
  ELSE IF l = "TrunkRear" /\ seen[l] = "unknown" THEN "unknown"
  ELSE IF seen[l] = want THEN "already"
  ELSE None

\* Handle, cases "frunk" and "trunk", up to r.command.
Handle(l, want) ==
  /\ command = None
  /\ LET why == Refusal(l, want)
     IN  /\ command' = IF why # None THEN None ELSE [lid |-> l, want |-> want]
         /\ refused' = IF why = None THEN None
                       ELSE [lid |-> l, want |-> want, why |-> why, was |-> lid[l]]
  /\ UNCHANGED <<prompt, lid, reports, seen, acted>>

\* r.command reaches the car, at once or after a wake, and the lid is actuated.
Actuate ==
  /\ command # None
  /\ Len(reports) < MaxReports
  /\ LET l   == command.lid
         was == lid[l]
     IN  /\ acted' = [lid |-> l, want |-> command.want, was |-> was]
         /\ Moves(l, IF l = "TrunkRear" /\ was = "open" THEN "closed" ELSE "open")
  /\ command' = None
  /\ UNCHANGED <<prompt, refused>>

\* r.command fails, or the gateway dies: nothing is actuated. DoorState is among
\* the values that are loaded again.
Fails ==
  /\ command # None
  /\ command' = None
  /\ UNCHANGED <<prompt, lid, reports, seen, refused, acted>>

Next ==
  \/ \E l \in Lids : ByHand(l) \/ Reports(l)
  \/ Ingested
  \/ \E l \in Lids, want \in States : Handle(l, want)
  \/ Actuate \/ Fails

Spec == Init /\ [][Next]_vars

-----------------------------------------------------------------------------
TypeOK ==
  /\ prompt \in BOOLEAN
  /\ lid \in [Lids -> States]
  /\ reports \in Seq(Messages) /\ Len(reports) <= MaxReports
  /\ seen \in [Lids -> States \cup {"unknown"}]
  /\ command \in [lid : {"TrunkRear"}, want : States]
                 \cup [lid : {"TrunkFront"}, want : {"open"}] \cup {None}
  /\ refused \in Refusals \cup {None}
  /\ acted \in Actions \cup {None}

\* relay.go:269-273: as long as DoorState is prompt, a toggle is sent only if it
\* moves the lid the way it asks, and a request is refused because the lid is
\* there already only if it is. However late DoorState is, the front lid is never
\* actuated by a request to close it, which would open it.
LidsObey ==
  /\ acted # None => IF acted.lid = "TrunkFront" THEN acted.want = "open"
                     ELSE prompt => acted.was # acted.want
  /\ (refused # None /\ prompt) =>
        (refused.why = "already" => refused.was = refused.want)
================================================================================
