------------------------------- MODULE Ingest -------------------------------
(***************************************************************************)
(* The ZMQ consumer of internal/ingest/zmq.go: one goroutine dials,        *)
(* receives and dials again after a fault, while Stop may close its socket *)
(* under it at any point of the shutdown.                                  *)
(*                                                                         *)
(* Sockets are numbered as they are dialled.  zmq4 and fleet-telemetry are *)
(* outside: a socket may fault at any time, reports that to one Recv and   *)
(* is silent from then on.                                                 *)
(***************************************************************************)
EXTENDS Integers, FiniteSets

CONSTANTS
  None,
  MaxSockets, \* bound on successful dials
  MaxFields   \* bound on the fields written to the store

IngestAssumption ==
  /\ MaxSockets \in Nat \ {0}
  /\ MaxFields \in Nat
  /\ None \notin 1..MaxSockets

Sockets == 1..MaxSockets

VARIABLES
  ctxDone,   \* c.ctx is cancelled
  started,   \* Start has returned
  sub,       \* c.sub
  connected, \* c.connected
  loop,      \* where the consuming goroutine is; until it exists, Start
  sock,      \* the socket that goroutine holds
  stop,      \* where Stop is
  old,       \* the socket Stop took out of c.sub
  dialled,   \* how many sockets have been dialled
  closes,    \* how often each was closed
  fault,     \* zmq4: "none", "pending" until a Recv has reported it, "dead"
  left,      \* fields of the message in hand that are still to be written
  writes     \* fields written to the store

goroutine == <<loop, sock, left>>
stopVars  == <<stop, old>>
zmqVars   == <<dialled, closes, fault>>
vars      == <<ctxDone, started, sub, connected, goroutine, stopVars, zmqVars, writes>>

Init ==
  /\ ctxDone = FALSE
  /\ started = FALSE
  /\ sub = None
  /\ connected = FALSE
  /\ loop = "start"
  /\ sock = None
  /\ stop = "not_called"
  /\ old = None
  /\ dialled = 0
  /\ closes = [s \in Sockets |-> 0]
  /\ fault = [s \in Sockets |-> "none"]
  /\ left = 0
  /\ writes = 0

Close(s) == closes' = [closes EXCEPT ![s] = @ + 1]

-----------------------------------------------------------------------------
\* dial: five attempts came to nothing, or the context was cancelled meanwhile.
\* reconnect waits and tries again, and so does Start, in the background.
DialFails ==
  /\ loop \in {"start", "dial"}
  /\ loop' = "backoff"
  /\ started' = TRUE
  /\ UNCHANGED <<ctxDone, sub, connected, sock, left, stopVars, zmqVars, writes>>

\* dial: connected and subscribed. The socket is not yet c.sub.
DialSucceeds ==
  /\ loop \in {"start", "dial"}
  /\ dialled < MaxSockets
  /\ dialled' = dialled + 1
  /\ sock' = dialled'
  /\ loop' = "dialled"
  /\ UNCHANGED <<ctxDone, started, sub, connected, left, stopVars, closes, fault, writes>>

\* Broken: the late socket is dropped but not closed.
SetSocketLateOpen ==
  /\ loop = "dialled"
  /\ ctxDone
  /\ sock' = None
  /\ loop' = "backoff"
  /\ UNCHANGED <<ctxDone, started, sub, connected, left, stopVars, zmqVars, writes>>

\* setSocket, once the context is cancelled: the new socket is closed again.
SetSocketLate ==
  /\ loop = "dialled"
  /\ ctxDone
  /\ Close(sock)
  /\ sock' = None
  /\ loop' = "backoff"
  /\ UNCHANGED <<ctxDone, started, sub, connected, left, stopVars, dialled, fault, writes>>

\* setSocket installs the new socket. A predecessor is closed after the unlock.
SetSocket ==
  /\ loop = "dialled"
  /\ ~ctxDone
  /\ sub' = sock
  /\ connected' = TRUE
  /\ sock' = sub
  /\ loop' = "installed"
  /\ UNCHANGED <<ctxDone, started, left, stopVars, zmqVars, writes>>

CloseOld ==
  /\ loop = "installed"
  /\ IF sock = None THEN UNCHANGED closes ELSE Close(sock)
  /\ sock' = None
  /\ loop' = "loop"
  /\ started' = TRUE
  /\ UNCHANGED <<ctxDone, sub, connected, left, stopVars, dialled, fault, writes>>

\* reconnect's wait, and the look at the context before the next dial.
Backoff ==
  /\ loop = "backoff"
  /\ loop' = IF ctxDone THEN "exited" ELSE "dial"
  /\ UNCHANGED <<ctxDone, started, sub, connected, sock, left, stopVars, zmqVars, writes>>

\* loop: take the current socket, if there is one.
TakeSocket ==
  /\ loop = "loop"
  /\ sock' = sub
  /\ loop' = IF sub = None THEN "exited" ELSE "recv"
  /\ UNCHANGED <<ctxDone, started, sub, connected, left, stopVars, zmqVars, writes>>

\* Recv returns a message: a number of fields to write, in order.
RecvMessage ==
  /\ loop = "recv"
  /\ closes[sock] = 0
  /\ fault[sock] = "none"
  /\ \E n \in 0..(MaxFields - writes) : left' = n
  /\ loop' = "handle"
  /\ UNCHANGED <<ctxDone, started, sub, connected, sock, stopVars, zmqVars, writes>>

\* Broken: the error is logged and the socket kept.
RecvErrorOnly ==
  /\ loop = "recv"
  /\ fault[sock] = "pending" \/ closes[sock] > 0
  /\ fault' = [fault EXCEPT ![sock] = IF @ = "pending" THEN "dead" ELSE @]
  /\ sock' = None
  /\ loop' = IF ctxDone THEN "exited" ELSE "loop"
  /\ UNCHANGED <<ctxDone, started, sub, connected, left, stopVars, dialled, closes, writes>>

\* Recv returns an error: the fault is reported, or the socket was closed.
RecvError ==
  /\ loop = "recv"
  /\ fault[sock] = "pending" \/ closes[sock] > 0
  /\ fault' = [fault EXCEPT ![sock] = IF @ = "pending" THEN "dead" ELSE @]
  /\ sock' = None
  /\ loop' = IF ctxDone THEN "exited" ELSE "reconnect"
  /\ UNCHANGED <<ctxDone, started, sub, connected, left, stopVars, dialled, closes, writes>>

\* handle: one SetField for each field of the message.
WriteField ==
  /\ loop = "handle"
  /\ left > 0
  /\ left' = left - 1
  /\ writes' = writes + 1
  /\ UNCHANGED <<ctxDone, started, sub, connected, loop, sock, stopVars, zmqVars>>

\* handle returns. A message of an unknown shape has no fields.
HandleReturns ==
  /\ loop = "handle"
  /\ left = 0
  /\ sock' = None
  /\ loop' = "loop"
  /\ UNCHANGED <<ctxDone, started, sub, connected, left, stopVars, zmqVars, writes>>

\* reconnect: closeSocket takes the faulted socket out and closes it unlocked.
Reconnect ==
  /\ loop = "reconnect"
  /\ sock' = sub
  /\ sub' = None
  /\ connected' = FALSE
  /\ loop' = "reconnecting"
  /\ UNCHANGED <<ctxDone, started, left, stopVars, zmqVars, writes>>

CloseFaulted ==
  /\ loop = "reconnecting"
  /\ IF sock = None THEN UNCHANGED closes ELSE Close(sock)
  /\ sock' = None
  /\ loop' = IF ctxDone THEN "exited" ELSE "dial"
  /\ UNCHANGED <<ctxDone, started, sub, connected, left, stopVars, dialled, fault, writes>>

-----------------------------------------------------------------------------
\* Stop, on the goroutine of main. It is deferred once Start has returned.
Cancel ==
  /\ stop = "not_called"
  /\ started
  /\ ctxDone' = TRUE
  /\ stop' = "cancelled"
  /\ UNCHANGED <<started, sub, connected, goroutine, old, zmqVars, writes>>

StopTakesSocket ==
  /\ stop = "cancelled"
  /\ old' = sub
  /\ sub' = None
  /\ connected' = FALSE
  /\ stop' = "closing"
  /\ UNCHANGED <<ctxDone, started, goroutine, zmqVars, writes>>

StopCloses ==
  /\ stop = "closing"
  /\ IF old = None THEN UNCHANGED closes ELSE Close(old)
  /\ old' = None
  /\ stop' = "waiting"
  /\ UNCHANGED <<ctxDone, started, sub, connected, goroutine, dialled, fault, writes>>

\* Broken: Stop does not wait for the goroutine.
StopDoesNotWait ==
  /\ stop = "waiting"
  /\ stop' = "joined"
  /\ UNCHANGED <<ctxDone, started, sub, connected, goroutine, old, zmqVars, writes>>

\* The goroutine is gone.
StopJoins ==
  /\ stop = "waiting"
  /\ loop = "exited"
  /\ stop' = "joined"
  /\ UNCHANGED <<ctxDone, started, sub, connected, goroutine, old, zmqVars, writes>>

\* Three seconds have passed and the goroutine is still there.
StopGivesUp ==
  /\ stop = "waiting"
  /\ loop # "exited"
  /\ stop' = "gave_up"
  /\ UNCHANGED <<ctxDone, started, sub, connected, goroutine, old, zmqVars, writes>>

-----------------------------------------------------------------------------
\* fleet-telemetry restarts, or the network breaks.
Fault(s) ==
  /\ s <= dialled
  /\ closes[s] = 0
  /\ dialled < MaxSockets
  /\ fault[s] = "none"
  /\ fault' = [fault EXCEPT ![s] = "pending"]
  /\ UNCHANGED <<ctxDone, started, sub, connected, goroutine, stopVars, dialled, closes, writes>>

LoopStep ==
  \/ DialFails \/ DialSucceeds \/ SetSocketLate \/ SetSocket \/ CloseOld \/ Backoff
  \/ TakeSocket \/ RecvMessage \/ RecvError \/ WriteField \/ HandleReturns
  \/ Reconnect \/ CloseFaulted
StopStep == Cancel \/ StopTakesSocket \/ StopCloses \/ StopJoins \/ StopGivesUp

Next == LoopStep \/ StopStep \/ \E s \in Sockets : Fault(s)

\* The goroutine is scheduled, but nobody has to send messages, and dialling
\* succeeds if it is tried again and again: fleet-telemetry comes back.
Fairness ==
  /\ WF_vars(LoopStep /\ ~RecvMessage)
  /\ SF_vars(DialSucceeds)

Spec     == Init /\ [][Next]_vars
FairSpec == Spec /\ Fairness

-----------------------------------------------------------------------------
TypeOK ==
  /\ {ctxDone, started} \subseteq BOOLEAN
  /\ sub \in Sockets \cup {None}
  /\ connected \in BOOLEAN
  /\ loop \in {"start", "dial", "dialled", "installed", "backoff", "loop", "recv", "handle",
               "reconnect", "reconnecting", "exited"}
  /\ sock \in Sockets \cup {None}
  /\ stop \in {"not_called", "cancelled", "closing", "waiting", "joined", "gave_up"}
  /\ old \in Sockets \cup {None}
  /\ dialled \in 0..MaxSockets
  /\ closes \in [Sockets -> Nat]
  /\ fault \in [Sockets -> {"none", "pending", "dead"}]
  /\ left \in 0..MaxFields
  /\ writes \in 0..MaxFields

\* No socket is closed twice, though both goroutines close what they find in
\* c.sub (zmq.go:41-45).
NoDoubleClose == \A s \in Sockets : closes[s] <= 1

\* A dialled socket that is still open is c.sub, or one of the two goroutines
\* has it in hand to install or to close it: none is ever leaked (zmq.go:166-172).
NoLeak ==
  \A s \in 1..dialled : closes[s] = 0 =>
     \/ sub = s
     \/ loop \in {"dialled", "installed", "reconnecting"} /\ sock = s
     \/ stop = "closing" /\ old = s

\* Connected, which /healthz shows, is true of the link: there is a socket, and
\* the goroutine is not about to replace it (zmq.go:56-58).
ConnectedIsTrue ==
  connected => /\ sub # None
               /\ loop \notin {"start", "dial", "backoff", "reconnecting"}
               /\ loop = "exited" => ctxDone

\* Once Stop has taken the socket away the consumer stays down: no dial that was
\* under way resurrects it (zmq.go:170-172).
StaysDown ==
  stop \in {"closing", "waiting", "joined", "gave_up"} => sub = None /\ ~connected

\* Every socket is accounted for from its dial to its one close, though two
\* goroutines take sockets out of c.sub and close them with the lock released.
SocketsAccounted == NoDoubleClose /\ NoLeak /\ ConnectedIsTrue /\ StaysDown

\* No store write lands after a Stop that has joined the goroutine, so the state
\* file written next has everything (zmq.go:49-53 and 211-213).
NoWriteAfterStop == [][stop = "joined" => UNCHANGED writes]_vars

\* A fault never wedges the consumer: it is noticed at its first error, and the
\* socket is replaced (zmq.go:239-246).
FaultIsRepaired ==
  \A s \in Sockets :
     fault[s] # "none" ~> ctxDone \/ (connected /\ sub > s)
=============================================================================
