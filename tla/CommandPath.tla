----------------------------- MODULE CommandPath -----------------------------
(***************************************************************************)
(* A command's whole way through the gateway: the dispatcher, whose        *)
(* handler is Relay.Handle (cmd/gateway/main.go:210-222 and                *)
(* hadiscovery/publisher.go:60).  The worker that takes a request makes    *)
(* the call of that name; the outcome of the call is the worker's result.  *)
(***************************************************************************)
EXTENDS Dispatcher

CONSTANTS MaxWakes, FleetAPI, MaxPolls

VARIABLES pc, kind, target, attempt, outcome, polls, flight, wakeLog, awake,
          posts, late, executed, wakes,
          onCar \* history: per car and key, the requests the car has run, in order

Relay == INSTANCE Relay WITH Calls <- Requests

\* Handle wakes the car for the key "wake" alone, which dispatch.go lists as a press.
ASSUME PathAssumption ==
  /\ Relay!RelayAssumption
  /\ "wake" \in Keys => "wake" \in Momentary

handleVars == <<pc, kind, target, attempt, outcome, polls, flight, wakeLog, awake,
                posts, late, executed, wakes>>
pathVars   == <<vars, handleVars, onCar>>

PathInit ==
  /\ Init
  /\ Relay!Init
  /\ onCar = [c \in Cars |-> [k \in Keys |-> <<>>]]

PathTick == Tick /\ Relay!Tick /\ UNCHANGED onCar

PathSubmit(r) == Submit(r) /\ UNCHANGED <<handleVars, onCar>>

\* The car falls asleep or wakes up by itself.
PathCarChanges(c) ==
  /\ Relay!CarChanges(c)
  /\ UNCHANGED <<queueVars, callVars, workVars, answers, onCar>>

\* The car ran r because of this step.
Ran(r) == onCar' = IF executed'[r] = executed[r] THEN onCar
                   ELSE [onCar EXCEPT ![CarOf(r)][KeyOf(r)] = Append(@, r)]

\* A command whose answer never came gets to the car after all.
PathArrivesLate(r) ==
  /\ Relay!ArrivesLate(r)
  /\ Ran(r)
  /\ UNCHANGED <<queueVars, callVars, workVars, answers>>

\* d.handle(vin, j.key, j.payload): the worker calls Handle for its job.
CallHandle(w) ==
  /\ worker[w] = "handling"
  /\ Relay!Handle(job[w], CarOf(job[w]))
  /\ kind'[job[w]] \in {None, IF KeyOf(job[w]) \in {"wake", "navigate"}
                              THEN KeyOf(job[w]) ELSE "command"}
  /\ UNCHANGED <<queueVars, callVars, workVars, answers, onCar>>

\* Handle goes on, and the car may run the command.
HandleStep(r) ==
  /\ Relay!CallStep(r)
  /\ Ran(r)
  /\ UNCHANGED <<queueVars, callVars, workVars, answers>>

\* Broken: a Result that is not a success counts as one.
HandleReturnsSent(w) ==
  /\ worker[w] = "handling"
  /\ pc[job[w]] = "returned"
  /\ HandlerReturns(w)
  /\ result'[w] = "sent"
  /\ UNCHANGED <<handleVars, onCar>>

\* Broken: a failed call is never reported back.
HandleReturnsUnlessFailed(w) ==
  /\ worker[w] = "handling"
  /\ pc[job[w]] = "returned"
  /\ outcome[job[w]] # "failed"
  /\ HandlerReturns(w)
  /\ result'[w] = outcome[job[w]]
  /\ UNCHANGED <<handleVars, onCar>>

\* Handle returns its Result to the worker.
HandleReturns(w) ==
  /\ worker[w] = "handling"
  /\ pc[job[w]] = "returned"
  /\ HandlerReturns(w)
  /\ result'[w] = outcome[job[w]]
  /\ UNCHANGED <<handleVars, onCar>>

\* The dispatcher's own steps.
QueueStep(r) ==
  /\ WorkerExit(r) \/ Take(r) \/ RecordSent(r) \/ Answer(r)
  /\ UNCHANGED <<handleVars, onCar>>
PathCallerStep(r) == CallerStep(r) /\ UNCHANGED <<handleVars, onCar>>

\* One goroutine runs a worker and the call it has made.
PathWorkerStep(w) ==
  \/ QueueStep(w)
  \/ CallHandle(w)
  \/ job[w] # None /\ HandleStep(job[w])
  \/ HandleReturns(w)

PathNext ==
  \/ PathTick
  \/ \E c \in Cars : PathCarChanges(c)
  \/ \E r \in Requests : PathSubmit(r) \/ PathArrivesLate(r)
  \/ \E r \in Requests : PathCallerStep(r) \/ PathWorkerStep(r)

PathFairness ==
  \A r \in Requests : WF_pathVars(PathCallerStep(r)) /\ WF_pathVars(PathWorkerStep(r))

PathSpec == PathInit /\ [][PathNext]_pathVars /\ PathFairness

-----------------------------------------------------------------------------
\* The composition implements the dispatcher with the fairness that Dispatcher
\* assumes of its handler: Handle returns whatever the car, Tesla and the other
\* commands do, with wakes, retries and refused budgets in between.
ImplementsDispatcher == FairSpec

\* What the caller is told is what happened (relay.go:204-213 and
\* dispatch.go:64-70): a request answered without being sent was never on the
\* wire, and one answered "sent" reached the car exactly once, if it was not the
\* wake button.
AnswersAreHonest ==
  \A r \in Requests :
     /\ answers[r] # <<>> /\ answers[r][1] \in Refusals \cup {"rejected"} => posts[r] = 0
     /\ Answered(r, "sent") => posts[r] > 0 /\ (kind[r] # "wake" => executed[r] = 1)

\* The slider promise end to end (dispatch.go:26-28). When the newest request for
\* a set-state key was reported sent, the car got it after every other one of the
\* key, except for those that were reported failed and came through late. When it
\* was refused as a duplicate, the car got its value from an earlier request, and
\* since then no value but those of requests that were reported failed.
Value(r) == normPayload(req[r].payload)
CarHasNewest ==
  \A c \in Cars, k \in Keys \ Momentary, n \in DOMAIN arrived :
     (/\ NewestAt(n, c, k)
      /\ Answered(arrived[n], "sent") \/ Answered(arrived[n], "duplicate")) =>
        \E i \in DOMAIN onCar[c][k] :
           /\ Value(onCar[c][k][i]) = Value(arrived[n])
           /\ Answered(arrived[n], "sent") => onCar[c][k][i] = arrived[n]
           /\ \A j \in DOMAIN onCar[c][k] : j > i => Answered(onCar[c][k][j], "failed")

\* dispatch.go:26-28 and config.go:153-154 read literally: a slider does not leave
\* the car at another value than the last one asked for, so a request that is
\* dropped because it repeats one sent asks for what the car has. A command that
\* was reported failed and reached the car all the same breaks it: lastOK still
\* holds the value before it.
DuplicateIsOnCar ==
  \A c \in Cars, k \in Keys \ Momentary, n \in DOMAIN arrived :
     (NewestAt(n, c, k) /\ Answered(arrived[n], "duplicate")) =>
        LET ran == onCar[c][k]
        IN  ran # <<>> /\ Value(ran[Len(ran)]) = Value(arrived[n])
=============================================================================
