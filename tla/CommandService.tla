--------------------------- MODULE CommandService ---------------------------
(***************************************************************************)
(* What the command dispatcher promises to whoever submits a command,      *)
(* without its queue, its locks or its goroutines: every command is        *)
(* answered at most once, a car runs one command at a time, and a command  *)
(* is either run and answered, or answered without being run.              *)
(***************************************************************************)
CONSTANTS Requests, \* the requests that may ever be submitted
          Cars,     \* the cars they may name
          None      \* the car of a request nobody has submitted yet

VARIABLES
  status,  \* what has become of each request
  car,     \* the car a submitted request named
  answers  \* the answers each request has received, oldest first

serviceVars == <<status, car, answers>>

HandlerOutcomes == {"sent", "rejected", "failed"}
Refusals        == {"replaced", "duplicate", "capped"}

Init ==
  /\ status = [r \in Requests |-> "new"]
  /\ car = [r \in Requests |-> None]
  /\ answers = [r \in Requests |-> <<>>]

\* A request is handed over. Its car is fixed when it is.
Accept(r) ==
  /\ status[r] = "new"
  /\ status' = [status EXCEPT ![r] = "waiting"]
  /\ \E c \in Cars : car' = [car EXCEPT ![r] = c]
  /\ UNCHANGED answers

\* The car starts on a waiting request, having finished every earlier one.
Execute(r) ==
  /\ status[r] = "waiting"
  /\ \A s \in Requests : status[s] = "executing" => car[s] # car[r]
  /\ status' = [status EXCEPT ![r] = "executing"]
  /\ UNCHANGED <<car, answers>>

\* The one answer to a request that was run.
Finish(r) ==
  /\ status[r] = "executing"
  /\ status' = [status EXCEPT ![r] = "answered"]
  /\ \E o \in HandlerOutcomes : answers' = [answers EXCEPT ![r] = <<o>>]
  /\ UNCHANGED car

\* The one answer to a request that was never run.
Refuse(r) ==
  /\ status[r] = "waiting"
  /\ status' = [status EXCEPT ![r] = "answered"]
  /\ \E o \in Refusals : answers' = [answers EXCEPT ![r] = <<o>>]
  /\ UNCHANGED car

Next == \E r \in Requests : Accept(r) \/ Execute(r) \/ Finish(r) \/ Refuse(r)

Spec == Init /\ [][Next]_serviceVars
=============================================================================
