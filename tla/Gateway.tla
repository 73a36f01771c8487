------------------------------- MODULE Gateway -------------------------------
(***************************************************************************)
(* The parts of the gateway that cmd/gateway/main.go starts side by side   *)
(* and that share no variable: the telemetry consumer, the recorder, a     *)
(* supervised child, the onboarding wizard, the lids and one TeslaMate     *)
(* connection.                                                             *)
(*                                                                         *)
(* What holds of parts that share nothing holds of each of them alone, and *)
(* in their product whatever they do at the same time.  A behaviour        *)
(* therefore moves one part, chosen once and for all, and the others stay  *)
(* where they start: the states add up and do not multiply.  Components    *)
(* that do interact are composed in CommandPath and VehicleState.          *)
(***************************************************************************)
EXTENDS Integers, Sequences

CONSTANTS
  None,
  MaxSockets, MaxFields,                                    \* Ingest
  BufLines, FileLines, MaxLines,                            \* Recorder
  MinBackoff, MaxBackoff, PipeLines, LineKinds, MaxWritten, \* Supervisor
  Domains, MaxKeys,                                         \* Onboard
  MaxReports,                                               \* Lid
  Tags, Known, MaxPusher                                    \* Streaming

VARIABLES
  part, \* the part that moves in this behaviour
  ctxDone, started, sub, connected, loop, sock, stop, old, dialled, closes,
  fault, left, writes,
  mu, buffer, sticky, open, size, failing, closed, offered, exists, file,
  backup, full, taken, written, lastWord,
  ctx, supLoop, backoff, child, reader, pipe, pipeOpen, killAt, childWrote,
  logged,
  writesFail, private, public, saved, st, gen, made, request, domain, partner,
  trusted,
  prompt, lid, reports, seen, command, refused, acted,
  handler, broken, pushers, subscribed, stopped, pusher, tagOf

Ingest     == INSTANCE Ingest
Recorder   == INSTANCE Recorder
Supervisor == INSTANCE Supervisor WITH loop <- supLoop, written <- childWrote
Onboard    == INSTANCE Onboard
Lid        == INSTANCE Lid
Streaming  == INSTANCE Streaming WITH started <- subscribed, closes <- stopped

ASSUME GatewayAssumption ==
  /\ Ingest!IngestAssumption
  /\ Recorder!RecorderAssumption
  /\ Supervisor!SupervisorAssumption
  /\ Onboard!OnboardAssumption
  /\ Lid!LidAssumption
  /\ Streaming!StreamingAssumption

ingestVars     == <<ctxDone, started, sub, connected, loop, sock, stop, old, dialled,
                    closes, fault, left, writes>>
recorderVars   == <<mu, buffer, sticky, open, size, failing, closed, offered, exists,
                    file, backup, full, taken, written, lastWord>>
supervisorVars == <<ctx, supLoop, backoff, child, reader, pipe, pipeOpen, killAt,
                    childWrote, logged>>
onboardVars    == <<writesFail, private, public, saved, st, gen, made, request, domain,
                    partner, trusted>>
lidVars        == <<prompt, lid, reports, seen, command, refused, acted>>
streamingVars  == <<handler, broken, pushers, subscribed, stopped, pusher, tagOf>>
gatewayVars    == <<part, ingestVars, recorderVars, supervisorVars, onboardVars, lidVars,
                    streamingVars>>

Parts == {"ingest", "recorder", "supervisor", "onboard", "lid", "streaming"}

\* Each part starts as it does alone. One that stands still need not try every
\* initial state it has.
Init ==
  /\ part \in Parts
  /\ Ingest!Init /\ Recorder!Init /\ Supervisor!Init
  /\ Onboard!Init /\ (writesFail => part = "onboard")
  /\ Lid!Init /\ (part # "lid" => prompt /\ lid = [l \in Lid!Lids |-> "closed"])
  /\ Streaming!Init

\* A step of one part, by which the others do not move.
OfIngest(A) ==
  /\ part = "ingest" /\ A
  /\ UNCHANGED <<part, recorderVars, supervisorVars, onboardVars, lidVars, streamingVars>>
OfRecorder(A) ==
  /\ part = "recorder" /\ A
  /\ UNCHANGED <<part, ingestVars, supervisorVars, onboardVars, lidVars, streamingVars>>
OfSupervisor(A) ==
  /\ part = "supervisor" /\ A
  /\ UNCHANGED <<part, ingestVars, recorderVars, onboardVars, lidVars, streamingVars>>
OfOnboard(A) ==
  /\ part = "onboard" /\ A
  /\ UNCHANGED <<part, ingestVars, recorderVars, supervisorVars, lidVars, streamingVars>>
OfLid(A) ==
  /\ part = "lid" /\ A
  /\ UNCHANGED <<part, ingestVars, recorderVars, supervisorVars, onboardVars, streamingVars>>
OfStreaming(A) ==
  /\ part = "streaming" /\ A
  /\ UNCHANGED <<part, ingestVars, recorderVars, supervisorVars, onboardVars, lidVars>>

Next ==
  \/ OfIngest(Ingest!Next) \/ OfRecorder(Recorder!Next)
  \/ OfSupervisor(Supervisor!Next) \/ OfOnboard(Onboard!Next)
  \/ OfLid(Lid!Next) \/ OfStreaming(Streaming!Next)

\* The fairness of the part that moves; one that stands still owes nothing. As no
\* behaviour moves two parts, the steps that owe the same in different parts share a
\* conjunct.
Fairness ==
  /\ WF_gatewayVars(\/ OfIngest(Ingest!LoopStep /\ ~Ingest!RecvMessage)
                    \/ OfSupervisor(Supervisor!Supervise)
                    \/ OfStreaming(Streaming!Return))
  /\ WF_gatewayVars(OfSupervisor(Supervisor!Kill))
  /\ WF_gatewayVars(OfSupervisor(Supervisor!Forward \/ Supervisor!StreamEnds))
  /\ SF_gatewayVars(\/ OfIngest(Ingest!DialSucceeds)
                    \/ OfSupervisor(Supervisor!StartChild /\ child' = "up"))
  /\ \A p \in 1..MaxPusher :
       /\ WF_gatewayVars(OfStreaming(Streaming!Build(p) \/ Streaming!Write(p)))
       /\ SF_gatewayVars(OfStreaming(Streaming!SeesStop(p)))

Spec == Init /\ [][Next]_gatewayVars /\ Fairness

-----------------------------------------------------------------------------
\* The properties are the components', where each of them is explained.

\* Every part keeps its types.
TypeOK ==
  /\ part \in Parts
  /\ Ingest!TypeOK /\ Recorder!TypeOK /\ Supervisor!TypeOK
  /\ Onboard!TypeOK /\ Lid!TypeOK /\ Streaming!TypeOK

\* zmq.go: no socket is leaked or closed twice, connected is true of the link, and
\* nothing brings it up again behind Stop.
SocketsAccounted == Ingest!SocketsAccounted
\* zmq.go: no store write lands after a Stop that joined the goroutine.
NoWriteAfterStop == Ingest!NoWriteAfterStop
\* zmq.go: a socket that faults is noticed and replaced.
FaultIsRepaired == Ingest!FaultIsRepaired

\* recorder.go: the lines to read later are in order, and none is there twice.
LinesInOrder == Recorder!LinesInOrder
\* recorder.go: no line is lost in silence.
LossIsReported == Recorder!LossIsReported

\* supervisor.go: no child outlives the gateway.
NoOrphan == Supervisor!NoOrphan
\* supervisor.go: a child that exited is started again.
CrashIsRestarted == Supervisor!CrashIsRestarted
\* supervisor.go: a cancellation ends the loop, whatever the child does.
ShutdownCompletes == Supervisor!ShutdownCompletes

\* onboard/server.go: a step shown as done has happened.
StepsTrue == Onboard!StepsTrue

\* relay.go: a lid moves as asked, and a refusal is true.
LidsObey == Lid!LidsObey

\* wss/server.go: a pusher that was not stopped is the one of its tag.
OnePusherPerTag == Streaming!OnePusherPerTag
\* wss/server.go: a pusher that was stopped, or lost its connection, ends.
PushersEnd == Streaming!PushersEnd
=============================================================================
