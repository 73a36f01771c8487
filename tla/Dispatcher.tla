------------------------------ MODULE Dispatcher ------------------------------
(***************************************************************************)
(* The per-car command queue of internal/commands/dispatch.go.             *)
(*                                                                         *)
(* Submit runs on the caller's goroutine: one step under Dispatcher.mu,    *)
(* then, with the lock released, the answer to a superseded request or the *)
(* `go d.run` of a new worker.  A worker is named after the request whose  *)
(* Submit started it, so nothing in the model makes it unique: that there  *)
(* is one worker per car is a property of the code.  The handler (normally *)
(* Relay.Handle) runs with the lock released and ends with any outcome.    *)
(***************************************************************************)
EXTENDS RollingWindow, Integers, Sequences, FiniteSets

CONSTANTS
  Requests,        \* calls of Submit, each made at most once
  Cars,            \* the VINs
  Keys,            \* the command keys
  Momentary,       \* keys that are presses: horn, lights, wake, media, ...
  Media,           \* the "media_" keys, exempt from the hourly cap
  Payloads,        \* payloads as they arrive
  Norm,            \* Norm[p] is the payload in the spelling normPayload gives
  None,
  PerKeyPerHour,   \* Limits.PerKeyPerHour; 0 disables the cap
  DuplicateWindow, \* Limits.DuplicateWindow; 0 disables the check
  Hour,            \* the span of the rolling hour
  MaxTime          \* bound on the clock

HandlerOutcomes == {"sent", "rejected", "failed"}
Refusals        == {"replaced", "duplicate", "capped"}
Outcomes        == HandlerOutcomes \cup Refusals

ASSUME DispatcherAssumption ==
  /\ Media \subseteq Momentary
  /\ Momentary \subseteq Keys
  /\ None \notin Requests
  /\ None \notin Cars \cup Outcomes
  /\ PerKeyPerHour \in Nat
  /\ DuplicateWindow \in Nat
  /\ Hour \in Nat \ {0}
  /\ MaxTime \in Nat
  /\ \A c \in Cars, k \in Keys, p \in Payloads :
        None # [car |-> c, key |-> k, payload |-> p]
  /\ \A p \in Payloads, t \in 0..MaxTime : None # [payload |-> Norm[p], at |-> t]

VARIABLES
  now,      \* d.now()
  req,      \* the command each submitted request carries
  pending,  \* carQueue.pending: requests, oldest slot first
  running,  \* carQueue.running
  perKey,   \* carQueue.perKey: the times in each key's rolling window
  lastOK,   \* carQueue.lastOK: the last payload sent for a key, and when
  caller,   \* where each request's Submit call is
  replaced, \* the request a Submit call superseded and has yet to answer
  worker,   \* where the worker a Submit call started is
  job,      \* the request a worker holds
  result,   \* what a worker will answer it with
  answers,  \* history: the answers each request's done has been given
  arrived,  \* history: requests in the order Submit took them
  taken     \* history: per car, requests in the order a worker took them

queueVars == <<pending, running, perKey, lastOK>>
callVars  == <<req, caller, replaced, arrived>>
workVars  == <<worker, job, result, taken>>
vars      == <<now, queueVars, callVars, workVars, answers>>

Times   == 0..MaxTime
Command == [car : Cars, key : Keys, payload : Payloads]
SentAt  == [payload : {Norm[p] : p \in Payloads}, at : Times]

CarOf(r) == req[r].car
KeyOf(r) == req[r].key
\* Broken: the spelling decides.
normNothing(p) == p

normPayload(p) == Norm[p]
momentary(k) == k \in Momentary

-----------------------------------------------------------------------------
Init ==
  /\ now = 0
  /\ req = [r \in Requests |-> None]
  /\ pending = [c \in Cars |-> <<>>]
  /\ running = [c \in Cars |-> FALSE]
  /\ perKey = [c \in Cars |-> [k \in Keys |-> <<>>]]
  /\ lastOK = [c \in Cars |-> [k \in Keys |-> None]]
  /\ caller = [r \in Requests |-> "idle"]
  /\ replaced = [r \in Requests |-> None]
  /\ worker = [r \in Requests |-> "absent"]
  /\ job = [r \in Requests |-> None]
  /\ result = [r \in Requests |-> None]
  /\ answers = [r \in Requests |-> <<>>]
  /\ arrived = <<>>
  /\ taken = [c \in Cars |-> <<>>]

\* Time passes.
Tick ==
  /\ now < MaxTime
  /\ now' = now + 1
  /\ UNCHANGED <<queueVars, callVars, workVars, answers>>

-----------------------------------------------------------------------------
\* Submit, on the caller's goroutine.

\* The slots of c's queue that wait with key k.
Slots(c, k) == {i \in 1..Len(pending[c]) : KeyOf(pending[c][i]) = k}

\* Broken: Submit starts a worker and leaves running to it.
EnterNotRunning(r, c, k, p) ==
  /\ req[r] = None
  /\ req' = [req EXCEPT ![r] = [car |-> c, key |-> k, payload |-> p]]
  /\ arrived' = Append(arrived, r)
  /\ UNCHANGED <<now, running, perKey, lastOK, workVars, answers>>

\* What Submit does under the lock besides choosing a slot.
Enter(r, c, k, p) ==
  /\ req[r] = None
  /\ req' = [req EXCEPT ![r] = [car |-> c, key |-> k, payload |-> p]]
  /\ arrived' = Append(arrived, r)
  /\ running' = [running EXCEPT ![c] = TRUE]
  /\ UNCHANGED <<now, perKey, lastOK, workVars, answers>>

\* A set-state command takes over the first slot that waits with its key. The
\* request it supersedes is answered after the lock is released.
SubmitMerge(r, c, k, p) ==
  /\ ~momentary(k)
  /\ Enter(r, c, k, p)
  /\ \E i \in Slots(c, k) :
        /\ \A j \in Slots(c, k) : i <= j
        /\ replaced' = [replaced EXCEPT ![r] = pending[c][i]]
        /\ pending' = [pending EXCEPT ![c] = [@ EXCEPT ![i] = r]]
  /\ caller' = [caller EXCEPT ![r] =
                   IF running[c] THEN "replacing" ELSE "replacing_starting"]

\* Broken: the newest command goes first.
SubmitPrepend(r, c, k, p) ==
  /\ momentary(k) \/ Slots(c, k) = {}
  /\ Enter(r, c, k, p)
  /\ pending' = [pending EXCEPT ![c] = <<r>> \o @]
  /\ caller' = [caller EXCEPT ![r] = IF running[c] THEN "returned" ELSE "starting"]
  /\ UNCHANGED replaced

\* Any other command goes to the end of the queue.
SubmitAppend(r, c, k, p) ==
  /\ momentary(k) \/ Slots(c, k) = {}
  /\ Enter(r, c, k, p)
  /\ pending' = [pending EXCEPT ![c] = Append(@, r)]
  /\ caller' = [caller EXCEPT ![r] = IF running[c] THEN "returned" ELSE "starting"]
  /\ UNCHANGED replaced

Submit(r) ==
  \E c \in Cars, k \in Keys, p \in Payloads :
     SubmitMerge(r, c, k, p) \/ SubmitAppend(r, c, k, p)

\* Broken: the superseded request is dropped without an answer.
DropReplaced(r) ==
  /\ caller[r] \in {"replacing", "replacing_starting"}
  /\ caller' = [caller EXCEPT ![r] = IF @ = "replacing" THEN "returned" ELSE "starting"]
  /\ UNCHANGED <<now, queueVars, req, replaced, arrived, workVars, answers>>

\* replaced.done(...), lock released.
AnswerReplaced(r) ==
  /\ caller[r] \in {"replacing", "replacing_starting"}
  /\ answers' = [answers EXCEPT ![replaced[r]] = Append(@, "replaced")]
  /\ caller' = [caller EXCEPT ![r] = IF @ = "replacing" THEN "returned" ELSE "starting"]
  /\ UNCHANGED <<now, queueVars, req, replaced, arrived, workVars>>

\* go d.run(vin, q)
StartWorker(r) ==
  /\ caller[r] = "starting"
  /\ caller' = [caller EXCEPT ![r] = "returned"]
  /\ worker' = [worker EXCEPT ![r] = "top"]
  /\ UNCHANGED <<now, queueVars, req, replaced, arrived, job, result, taken, answers>>

-----------------------------------------------------------------------------
\* run, on the worker w that was started by w's Submit, for w's car.

\* Broken: a worker returns without clearing running.
WorkerExitRunning(w) ==
  /\ worker[w] = "top"
  /\ pending[CarOf(w)] = <<>>
  /\ worker' = [worker EXCEPT ![w] = "gone"]
  /\ UNCHANGED <<now, queueVars, callVars, job, result, taken, answers>>

\* The queue is empty: clear running and return.
WorkerExit(w) ==
  /\ worker[w] = "top"
  /\ pending[CarOf(w)] = <<>>
  /\ running' = [running EXCEPT ![CarOf(w)] = FALSE]
  /\ worker' = [worker EXCEPT ![w] = "gone"]
  /\ UNCHANGED <<now, pending, perKey, lastOK, callVars, job, result, taken, answers>>

\* Broken: any command of the key within the window is a duplicate.
DuplicateKey(r) ==
  /\ DuplicateWindow > 0
  /\ ~momentary(KeyOf(r))
  /\ LET last == lastOK[CarOf(r)][KeyOf(r)]
     IN  last # None /\ now - last.at < DuplicateWindow

\* The same value was sent to this car less than DuplicateWindow ago.
Duplicate(r) ==
  /\ DuplicateWindow > 0
  /\ ~momentary(KeyOf(r))
  /\ LET last == lastOK[CarOf(r)][KeyOf(r)]
     IN  /\ last # None
         /\ last.payload = normPayload(req[r].payload)
         /\ now - last.at < DuplicateWindow

\* The hourly cap applies to this key.
Capped(k) == PerKeyPerHour > 0 /\ k \notin Media

\* Pop the first job and apply refuse to it. o is the refusal, or None when
\* the job goes to the handler.
Pop(w, o) ==
  LET c == CarOf(w)
      r == Head(pending[c])
  IN  /\ worker[w] = "top"
      /\ pending[c] # <<>>
      /\ pending' = [pending EXCEPT ![c] = Tail(@)]
      /\ job' = [job EXCEPT ![w] = r]
      /\ taken' = [taken EXCEPT ![c] = Append(@, [req |-> r, at |-> now, refusal |-> o])]
      /\ result' = [result EXCEPT ![w] = o]
      /\ worker' = [worker EXCEPT ![w] = IF o = None THEN "handling" ELSE "answering"]
      /\ UNCHANGED <<now, running, lastOK, callVars, answers>>

TakeDuplicate(w) ==
  /\ worker[w] = "top"
  /\ pending[CarOf(w)] # <<>>
  /\ Duplicate(Head(pending[CarOf(w)]))
  /\ Pop(w, "duplicate")
  /\ UNCHANGED perKey

TakeUncapped(w) ==
  /\ worker[w] = "top"
  /\ pending[CarOf(w)] # <<>>
  /\ ~Duplicate(Head(pending[CarOf(w)]))
  /\ ~Capped(KeyOf(Head(pending[CarOf(w)])))
  /\ Pop(w, None)
  /\ UNCHANGED perKey

\* window.allow: prune, then refuse or count the job.
TakeCapped(w) ==
  /\ worker[w] = "top"
  /\ pending[CarOf(w)] # <<>>
  /\ LET c == CarOf(w)
         r == Head(pending[c])
         k == KeyOf(r)
     IN  /\ ~Duplicate(r)
         /\ Capped(k)
         /\ \E i \in 0..Len(perKey[c][k]) :
               LET live == Rest(perKey[c][k], i)
               IN  /\ Prunes(perKey[c][k], i, now - Hour)
                   /\ \/ /\ Len(live) >= PerKeyPerHour
                         /\ perKey' = [perKey EXCEPT ![c][k] = live]
                         /\ Pop(w, "capped")
                      \/ /\ Len(live) < PerKeyPerHour
                         /\ perKey' = [perKey EXCEPT ![c][k] = Append(live, now)]
                         /\ Pop(w, None)

Take(w) == TakeDuplicate(w) \/ TakeUncapped(w) \/ TakeCapped(w)

\* d.handle returns.
HandlerReturns(w) ==
  /\ worker[w] = "handling"
  /\ \E o \in HandlerOutcomes :
        /\ result' = [result EXCEPT ![w] = o]
        /\ worker' = [worker EXCEPT ![w] = IF o = "sent" THEN "recording" ELSE "answering"]
  /\ UNCHANGED <<now, queueVars, callVars, job, taken, answers>>

\* Remember what was sent, under the lock again.
RecordSent(w) ==
  /\ worker[w] = "recording"
  /\ lastOK' = [lastOK EXCEPT ![CarOf(w)][KeyOf(job[w])] =
                   [payload |-> normPayload(req[job[w]].payload), at |-> now]]
  /\ worker' = [worker EXCEPT ![w] = "answering"]
  /\ UNCHANGED <<now, pending, running, perKey, callVars, job, result, taken, answers>>

\* j.done(res), then the top of the loop.
Answer(w) ==
  /\ worker[w] = "answering"
  /\ answers' = [answers EXCEPT ![job[w]] = Append(@, result[w])]
  /\ worker' = [worker EXCEPT ![w] = "top"]
  /\ job' = [job EXCEPT ![w] = None]
  /\ result' = [result EXCEPT ![w] = None]
  /\ UNCHANGED <<now, queueVars, callVars, taken>>

CallerStep(r) == AnswerReplaced(r) \/ StartWorker(r)
WorkerStep(w) ==
  \/ WorkerExit(w)
  \/ Take(w)
  \/ HandlerReturns(w)
  \/ RecordSent(w)
  \/ Answer(w)

Next ==
  \/ Tick
  \/ \E r \in Requests : Submit(r) \/ CallerStep(r) \/ WorkerStep(r)

\* The Go scheduler runs every goroutine, and the handler returns because each
\* HTTP call it makes has a timeout. Nobody has to submit anything.
Fairness == \A r \in Requests : WF_vars(CallerStep(r)) /\ WF_vars(WorkerStep(r))

Spec     == Init /\ [][Next]_vars
FairSpec == Spec /\ Fairness

-----------------------------------------------------------------------------
TypeOK ==
  /\ now \in Times
  /\ req \in [Requests -> Command \cup {None}]
  /\ pending \in [Cars -> Seq(Requests)]
  /\ running \in [Cars -> BOOLEAN]
  /\ perKey \in [Cars -> [Keys -> Seq(Times)]]
  /\ lastOK \in [Cars -> [Keys -> SentAt \cup {None}]]
  /\ caller \in [Requests -> {"idle", "replacing", "replacing_starting", "starting", "returned"}]
  /\ replaced \in [Requests -> Requests \cup {None}]
  /\ worker \in [Requests -> {"absent", "top", "handling", "recording", "answering", "gone"}]
  /\ job \in [Requests -> Requests \cup {None}]
  /\ result \in [Requests -> Outcomes \cup {None}]
  /\ answers \in [Requests -> Seq(Outcomes)]
  /\ arrived \in Seq(Requests)
  /\ taken \in [Cars -> Seq([req : Requests, at : Times, refusal : Refusals \cup {None}])]

Submitted(r) == req[r] # None

\* A worker goroutine that exists, or that a Submit call is about to start.
Live(r) ==
  \/ caller[r] \in {"replacing_starting", "starting"}
  \/ worker[r] \in {"top", "handling", "recording", "answering"}

\* A car never has two workers, even while one of them is exiting and a Submit
\* is starting the next: the running flag of dispatch.go:87-97 and 112-116.
OneWorkerPerCar ==
  \A r, s \in Requests :
     (Live(r) /\ Live(s) /\ CarOf(r) = CarOf(s)) => r = s

Answered(r, o) == answers[r] # <<>> /\ answers[r][1] = o

\* The n-th request to arrive is for key k of car c, and the newest one.
IsFor(r, c, k) == CarOf(r) = c /\ KeyOf(r) = k
NewestAt(n, c, k) ==
  IsFor(arrived[n], c, k) /\ \A m \in DOMAIN arrived : m > n => ~IsFor(arrived[m], c, k)

\* The places of key k in the order in which c's worker took the requests: of those
\* it gave to the handler, and of those the handler sent.
Handled(c, k) ==
  {i \in DOMAIN taken[c] : KeyOf(taken[c][i].req) = k /\ taken[c][i].refusal = None}
Sent(c, k) ==
  {i \in DOMAIN taken[c] : KeyOf(taken[c][i].req) = k /\ Answered(taken[c][i].req, "sent")}
ValueAt(c, i) == normPayload(req[taken[c][i].req].payload)

\* The slider promise of dispatch.go:26-28. When nothing is waiting or running
\* for a set-state key and its newest request was reported sent, that request is
\* the last one given to the handler that may have changed the car: what was
\* handled later was rejected. When it was refused as a duplicate, an earlier
\* request was sent with its value, and what was handled since was rejected or
\* reported failed. A failed one may have reached the car all the same: then the
\* refusal hides a real change (CommandPath!DuplicateIsOnCar).
SettledValueIsNewest ==
  \A c \in Cars, k \in Keys \ Momentary, n \in DOMAIN arrived :
     (/\ NewestAt(n, c, k)
      /\ Slots(c, k) = {}
      /\ Answered(arrived[n], "sent") \/ Answered(arrived[n], "duplicate"))
     => \E i \in Sent(c, k) :
          /\ ValueAt(c, i) = normPayload(req[arrived[n]].payload)
          /\ \A j \in Handled(c, k) : j > i =>
                \/ Answered(taken[c][j].req, "rejected")
                \/ Answered(taken[c][j].req, "failed") /\ Answered(arrived[n], "duplicate")

\* Two sends in a row of one value of a set-state key to one car are at least
\* DuplicateWindow apart (dispatch.go:18-20), whatever their spelling.
NoDuplicateSent ==
  \A c \in Cars, k \in Keys \ Momentary : \A i, j \in Sent(c, k) :
     (/\ i < j
      /\ \A m \in Sent(c, k) : m <= i \/ m >= j
      /\ ValueAt(c, i) = ValueAt(c, j))
     => taken[c][j].at - taken[c][i].at >= DuplicateWindow

\* In the hour that ends with any dispatch of a capped key, the handler was
\* given that key at most PerKeyPerHour times (dispatch.go:14-17).
InHour(c, k, j) ==
  {i \in Handled(c, k) : i <= j /\ taken[c][i].at > taken[c][j].at - Hour}
HourlyCap ==
  \A c \in Cars, k \in Keys : \A j \in Handled(c, k) :
     Capped(k) => Cardinality(InHour(c, k, j)) <= PerKeyPerHour

\* Both limits of Limits, over any sequence of requests and any rolling hour.
LimitsHold == HourlyCap /\ NoDuplicateSent

Before(s, x, y) == \E i, j \in 1..Len(s) : i < j /\ s[i] = x /\ s[j] = y
TakenReqs(c)    == [i \in 1..Len(taken[c]) |-> taken[c][i].req]

\* A request that is taken before one that arrived earlier got that place from
\* a request of its own set-state key that was in the queue before both.
OvertakesOnlyByMerging ==
  \A c \in Cars : \A r, s \in Requests :
     (Before(arrived, r, s) /\ Before(TakenReqs(c), s, r)) =>
        \E x \in Requests :
           /\ Before(arrived, x, r)
           /\ CarOf(x) = c
           /\ KeyOf(x) = KeyOf(s)
           /\ ~momentary(KeyOf(s))
           /\ \E y \in Requests : replaced[y] = x

\* dispatch.go:23-24 read literally: a car's commands run in the order they
\* arrived. Merging breaks it.
ArrivalOrder ==
  \A c \in Cars : \A r, s \in Requests :
     Before(TakenReqs(c), s, r) => ~Before(arrived, r, s)

\* done is called for every submitted request: no job is dropped, and no worker
\* is left out (dispatch.go:64-66).
EveryRequestAnswered ==
  \A r \in Requests : Submitted(r) ~> answers[r] # <<>>

\* The dispatcher implements the service it promises. A request counts as
\* executing until its answer is given, so a car's next command does not start
\* before the previous one is answered.
Executing(r) ==
  \E w \in Requests :
     /\ job[w] = r
     /\ worker[w] \in {"handling", "recording", "answering"}
     /\ result[w] \notin Refusals

Status(r) ==
  IF ~Submitted(r) THEN "new"
  ELSE IF answers[r] # <<>> THEN "answered"
  ELSE IF Executing(r) THEN "executing"
  ELSE "waiting"

Service == INSTANCE CommandService WITH
  status  <- [r \in Requests |-> Status(r)],
  car     <- [r \in Requests |-> IF Submitted(r) THEN CarOf(r) ELSE None],
  answers <- answers

\* Every request is answered at most once, and a car runs one at a time.
ImplementsService == Service!Spec

-----------------------------------------------------------------------------
(***************************************************************************)
(* The inductive invariant: who holds the right to answer each request.    *)
(* Until it is answered a request is in one slot of its car's queue, or in *)
(* its car's worker, or held by the one Submit call that superseded it.    *)
(***************************************************************************)
Busy(w)      == worker[w] \in {"handling", "recording", "answering"}
Superseding(r) == caller[r] \in {"replacing", "replacing_starting"}
Waiting(r)   == \E c \in Cars : \E i \in 1..Len(pending[c]) : pending[c][i] = r

\* A Submit call and the worker it starts go through their states in order.
Threads ==
  \A r \in Requests :
     /\ caller[r] = "idle" <=> req[r] = None
     /\ worker[r] # "absent" => caller[r] = "returned"
     /\ caller[r] # "replacing_starting"
     /\ job[r] # None <=> Busy(r)
     /\ Busy(r) => /\ result[r] = None <=> worker[r] = "handling"
                   /\ worker[r] = "recording" => result[r] = "sent"
                   /\ result[r] # "replaced"

\* running is true exactly while the car has a worker, which is then the only
\* one, and a queue without a worker is empty.
Workers ==
  /\ \A r \in Requests : Live(r) => running[CarOf(r)]
  /\ \A c \in Cars : running[c] => \E r \in Requests : Submitted(r) /\ CarOf(r) = c /\ Live(r)
  /\ \A c \in Cars : pending[c] # <<>> => running[c]
  /\ OneWorkerPerCar

\* A slot holds a request of its own car that is unanswered, and no request is
\* in two slots.
QueueOwns ==
  \A c \in Cars : \A i \in 1..Len(pending[c]) :
     /\ Submitted(pending[c][i])
     /\ CarOf(pending[c][i]) = c
     /\ answers[pending[c][i]] = <<>>
     /\ \A j \in 1..Len(pending[c]) : pending[c][i] = pending[c][j] => i = j

\* So does a worker.
WorkerOwns ==
  \A w \in Requests : job[w] # None =>
     /\ Submitted(job[w])
     /\ CarOf(job[w]) = CarOf(w)
     /\ answers[job[w]] = <<>>
     /\ ~Waiting(job[w])

\* So does a Submit call that superseded a request.
CallerOwns ==
  \A r \in Requests : Superseding(r) =>
     /\ replaced[r] # None
     /\ Submitted(replaced[r])
     /\ answers[replaced[r]] = <<>>
     /\ ~Waiting(replaced[r])
     /\ \A w \in Requests : job[w] # replaced[r]
     /\ \A s \in Requests : (Superseding(s) /\ replaced[s] = replaced[r]) => s = r

\* A request has no answer before it is submitted.
AnswersLate == \A r \in Requests : answers[r] # <<>> => Submitted(r)

\* Every unanswered request has exactly one owner, who will answer it once.
Ownership ==
  Threads /\ Workers /\ QueueOwns /\ WorkerOwns /\ CallerOwns /\ AnswersLate
=============================================================================
