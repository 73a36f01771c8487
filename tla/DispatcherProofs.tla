-------------------------- MODULE DispatcherProofs --------------------------
(***************************************************************************)
(* Proofs about Dispatcher, for any number of requests, cars and keys, any *)
(* limits and any bound on the clock: the types and who owns each request, *)
(* the refinement of CommandService, and after it what the queue of a car  *)
(* promises about order, values and limits.                                *)
(***************************************************************************)
EXTENDS Dispatcher, RollingWindowProofs, FiniteSetTheorems, SequenceTheorems, TLAPS

IInv == TypeOK /\ Ownership

(***************************************************************************)
(* What the invariant says of one request, in the form the steps use it.   *)
(***************************************************************************)

\* A submitted request has a car, a key and a payload.
LEMMA CommandParts ==
  ASSUME TypeOK, NEW r \in Requests, req[r] # None
  PROVE  /\ CarOf(r) \in Cars
         /\ KeyOf(r) \in Keys
         /\ req[r].payload \in Payloads
  BY DEF TypeOK, Command, CarOf, KeyOf

\* A worker that exists has a car.
LEMMA WorkerCar ==
  ASSUME IInv, NEW w \in Requests, worker[w] # "absent"
  PROVE  req[w] # None /\ CarOf(w) \in Cars
  <1>1. req[w] # None
    BY DEF IInv, Ownership, Threads, TypeOK
  <1> QED
    BY <1>1, CommandParts DEF IInv

\* A command is not None.
LEMMA CommandIsSome ==
  ASSUME NEW c \in Cars, NEW k \in Keys, NEW p \in Payloads
  PROVE  /\ [car |-> c, key |-> k, payload |-> p] \in Command
         /\ [car |-> c, key |-> k, payload |-> p] # None
  BY DispatcherAssumption DEF Command

(***************************************************************************)
(* Type correctness, one lemma per action.                                 *)
(***************************************************************************)
LEMMA TypeInit == Init => TypeOK
  BY DispatcherAssumption DEF Init, TypeOK, Times

\* Time that passes keeps the types.
LEMMA TypeTick == TypeOK /\ Tick => TypeOK'
  <1> SUFFICES ASSUME TypeOK, Tick PROVE TypeOK'
    OBVIOUS
  <1>1. now' \in Times
    BY DispatcherAssumption DEF TypeOK, Tick, Times
  <1> QED
    BY <1>1 DEF TypeOK, Tick, queueVars, callVars, workVars

\* A request that enters keeps the types of what is asked.
LEMMA TypeEnter ==
  ASSUME TypeOK, NEW r \in Requests, NEW c \in Cars, NEW k \in Keys, NEW p \in Payloads,
         Enter(r, c, k, p)
  PROVE  /\ req' \in [Requests -> Command \cup {None}]
         /\ arrived' \in Seq(Requests)
         /\ running' \in [Cars -> BOOLEAN]
  BY CommandIsSome DEF TypeOK, Enter

\* Submitting keeps the types.
LEMMA TypeSubmit ==
  ASSUME TypeOK, NEW r \in Requests, Submit(r)
  PROVE  TypeOK'
  <1> PICK c \in Cars, k \in Keys, p \in Payloads :
         SubmitMerge(r, c, k, p) \/ SubmitAppend(r, c, k, p)
    BY DEF Submit
  <1>1. CASE SubmitMerge(r, c, k, p)
    <2>1. Enter(r, c, k, p)
      BY <1>1 DEF SubmitMerge
    <2>2. PICK i \in Slots(c, k) :
             /\ replaced' = [replaced EXCEPT ![r] = pending[c][i]]
             /\ pending' = [pending EXCEPT ![c] = [@ EXCEPT ![i] = r]]
      BY <1>1 DEF SubmitMerge
    <2>3. pending[c] \in Seq(Requests) /\ i \in 1..Len(pending[c])
      BY DEF Slots, TypeOK
    <2>4. pending' \in [Cars -> Seq(Requests)]
      BY <2>2, <2>3 DEF TypeOK
    <2>5. replaced' \in [Requests -> Requests \cup {None}]
      BY <2>2, <2>3 DEF TypeOK
    <2> QED
      BY <1>1, <2>1, <2>4, <2>5, TypeEnter DEF TypeOK, SubmitMerge, Enter, workVars
  <1>2. CASE SubmitAppend(r, c, k, p)
    <2>1. Enter(r, c, k, p)
      BY <1>2 DEF SubmitAppend
    <2>2. pending' \in [Cars -> Seq(Requests)]
      BY <1>2 DEF TypeOK, SubmitAppend
    <2> QED
      BY <1>2, <2>1, <2>2, TypeEnter DEF TypeOK, SubmitAppend, Enter, workVars
  <1> QED
    BY <1>1, <1>2

\* The steps of callers keep the types.
LEMMA TypeCaller ==
  ASSUME IInv, NEW r \in Requests, CallerStep(r)
  PROVE  TypeOK'
  <1>1. CASE AnswerReplaced(r)
    <2>1. replaced[r] \in Requests
      BY <1>1 DEF IInv, TypeOK, Ownership, CallerOwns, Superseding, AnswerReplaced
    <2>2. answers' \in [Requests -> Seq(Outcomes)]
      <3>1. "replaced" \in Outcomes
        BY DEF Outcomes, Refusals
      <3>2. Append(answers[replaced[r]], "replaced") \in Seq(Outcomes)
        BY <2>1, <3>1 DEF IInv, TypeOK
      <3> QED
        BY <1>1, <3>2 DEF IInv, TypeOK, AnswerReplaced
    <2> QED
      BY <1>1, <2>2 DEF IInv, TypeOK, AnswerReplaced, queueVars, workVars
  <1>2. CASE StartWorker(r)
    BY <1>2 DEF IInv, TypeOK, StartWorker, queueVars
  <1> QED
    BY <1>1, <1>2 DEF CallerStep

\* Taking the first request of a queue keeps the types.
LEMMA TypePop ==
  ASSUME IInv, NEW w \in Requests, NEW o \in (Refusals \cup {None}), Pop(w, o),
         perKey' \in [Cars -> [Keys -> Seq(Times)]]
  PROVE  TypeOK'
  <1> DEFINE c == CarOf(w)
             r == Head(pending[c])
  <1>1. c \in Cars
    BY WorkerCar DEF Pop
  <1>2. pending[c] \in Seq(Requests) /\ pending[c] # <<>>
    BY <1>1 DEF IInv, TypeOK, Pop
  <1>3. r \in Requests /\ Tail(pending[c]) \in Seq(Requests)
    BY <1>2
  <1> HIDE DEF c, r
  <1>4. pending' = [pending EXCEPT ![c] = Tail(@)]
        /\ job' = [job EXCEPT ![w] = r]
        /\ taken' = [taken EXCEPT ![c] = Append(@, [req |-> r, at |-> now, refusal |-> o])]
    BY DEF Pop, c, r
  <1>5. pending' \in [Cars -> Seq(Requests)]
    BY <1>1, <1>3, <1>4 DEF IInv, TypeOK
  <1>6. job' \in [Requests -> Requests \cup {None}]
    BY <1>3, <1>4 DEF IInv, TypeOK
  <1>7. taken' \in [Cars -> Seq([req : Requests, at : Times, refusal : Refusals \cup {None}])]
    <2>1. [req |-> r, at |-> now, refusal |-> o]
             \in [req : Requests, at : Times, refusal : Refusals \cup {None}]
      BY <1>3 DEF IInv, TypeOK
    <2> DEFINE Entry == [req : Requests, at : Times, refusal : Refusals \cup {None}]
    <2>2. taken[c] \in Seq(Entry)
      BY <1>1 DEF IInv, TypeOK
    <2>3. Append(taken[c], [req |-> r, at |-> now, refusal |-> o]) \in Seq(Entry)
      BY <2>1, <2>2
    <2> QED
      BY <1>4, <2>3 DEF IInv, TypeOK
  <1>8. worker' \in [Requests -> {"absent", "top", "handling", "recording", "answering", "gone"}]
    BY DEF Pop, IInv, TypeOK
  <1>9. result' \in [Requests -> Outcomes \cup {None}]
    BY DEF Pop, IInv, TypeOK, Outcomes
  <1> QED
    BY <1>5, <1>6, <1>7, <1>8, <1>9 DEF IInv, TypeOK, Pop, callVars

\* A worker that takes keeps the types.
LEMMA TypeTake ==
  ASSUME IInv, NEW w \in Requests, Take(w)
  PROVE  TypeOK'
  <1>1. CASE TakeDuplicate(w)
    BY <1>1, TypePop DEF TakeDuplicate, IInv, TypeOK, Refusals
  <1>2. CASE TakeUncapped(w)
    BY <1>2, TypePop DEF TakeUncapped, IInv, TypeOK
  <1>3. CASE TakeCapped(w)
    <2> DEFINE c == CarOf(w)
               k == KeyOf(Head(pending[c]))
    <2>1. c \in Cars
      BY <1>3, WorkerCar DEF TakeCapped
    <2>2. k \in Keys
      <3>1. Head(pending[c]) \in Requests /\ req[Head(pending[c])] # None
        BY <1>3, <2>1 DEF TakeCapped, IInv, TypeOK, Ownership, QueueOwns, Submitted
      <3> QED
        BY <3>1, CommandParts DEF IInv
    <2> DEFINE events == perKey[c][k]
    <2>3. events \in Seq(Times) /\ perKey \in [Cars -> [Keys -> Seq(Times)]]
      BY <2>1, <2>2 DEF IInv, TypeOK
    <2>4. PICK i \in 0..Len(events) :
            LET live == Rest(events, i)
            IN  \/ /\ perKey' = [perKey EXCEPT ![c][k] = live]
                   /\ Pop(w, "capped")
                \/ /\ perKey' = [perKey EXCEPT ![c][k] = Append(live, now)]
                   /\ Pop(w, None)
      BY <1>3 DEF TakeCapped
    <2> DEFINE live == Rest(events, i)
    <2>5. /\ now \in Times
          /\ \/ perKey' = [perKey EXCEPT ![c][k] = live]
             \/ perKey' = [perKey EXCEPT ![c][k] = Append(live, now)]
      BY <2>4 DEF IInv, TypeOK
    <2>6. PICK o \in Refusals \cup {None} : Pop(w, o)
      BY <2>4 DEF Refusals
    <2> HIDE DEF c, k, events
    <2>7. live \in Seq(Times)
      <3>1. \A j \in (i + 1)..Len(events) : events[j] \in Times
        BY <2>3
      <3>2. i + 1 \in Int /\ Len(events) \in Int
        BY <2>3
      <3> QED
        BY <3>1, <3>2, SubSeqProperties DEF Rest
    <2> HIDE DEF live
    <2>8. perKey' \in [Cars -> [Keys -> Seq(Times)]]
      <3>1. Append(live, now) \in Seq(Times)
        BY <2>5, <2>7
      <3>2. ASSUME NEW X \in Seq(Times), perKey' = [perKey EXCEPT ![c][k] = X]
            PROVE  perKey' \in [Cars -> [Keys -> Seq(Times)]]
        <4>1. [perKey[c] EXCEPT ![k] = X] \in [Keys -> Seq(Times)]
          BY <2>1, <2>3
        <4>2. perKey' = [perKey EXCEPT ![c] = [perKey[c] EXCEPT ![k] = X]]
          BY <3>2
        <4> QED
          BY <2>3, <4>1, <4>2
      <3> QED
        BY <2>5, <2>7, <3>1, <3>2
    <2> QED
      BY <2>6, <2>8, TypePop DEF Refusals
  <1> QED
    BY <1>1, <1>2, <1>3 DEF Take

\* The other steps of workers keep the types.
LEMMA TypeWorker ==
  ASSUME IInv, NEW w \in Requests, WorkerStep(w)
  PROVE  TypeOK'
  <1>1. CASE WorkerExit(w)
    BY <1>1 DEF IInv, TypeOK, WorkerExit, callVars
  <1>2. CASE Take(w)
    BY <1>2, TypeTake
  <1>3. CASE HandlerReturns(w)
    <2>1. PICK o \in HandlerOutcomes :
             /\ result' = [result EXCEPT ![w] = o]
             /\ worker' = [worker EXCEPT ![w] = IF o = "sent" THEN "recording" ELSE "answering"]
      BY <1>3 DEF HandlerReturns
    <2>2. o \in Outcomes
      BY DEF Outcomes
    <2> QED
      BY <1>3, <2>1, <2>2 DEF IInv, TypeOK, HandlerReturns, callVars, queueVars
  <1>4. CASE RecordSent(w)
    <2>1. job[w] \in Requests /\ req[job[w]] # None
      BY <1>4 DEF RecordSent, IInv, TypeOK, Ownership, Threads, Busy, WorkerOwns, Submitted
    <2>2. [payload |-> normPayload(req[job[w]].payload), at |-> now] \in SentAt
      BY <2>1, CommandParts DEF IInv, TypeOK, SentAt, normPayload
    <2> QED
      BY <1>4, <2>2 DEF IInv, TypeOK, RecordSent, callVars
  <1>5. CASE Answer(w)
    <2>1. job[w] \in Requests /\ result[w] \in Outcomes
      BY <1>5 DEF Answer, IInv, TypeOK, Ownership, Threads, Busy
    <2>2. Append(answers[job[w]], result[w]) \in Seq(Outcomes)
      BY <2>1 DEF IInv, TypeOK
    <2> QED
      BY <1>5, <2>2 DEF IInv, TypeOK, Answer, callVars, queueVars
  <1> QED
    BY <1>1, <1>2, <1>3, <1>4, <1>5 DEF WorkerStep

\* Every step keeps the types.
LEMMA TypeStep == IInv /\ [Next]_vars => TypeOK'
  <1> SUFFICES ASSUME IInv, [Next]_vars PROVE TypeOK'
    OBVIOUS
  <1>1. CASE Tick
    BY <1>1, TypeTick DEF IInv
  <1>2. ASSUME NEW r \in Requests, Submit(r) PROVE TypeOK'
    BY <1>2, TypeSubmit DEF IInv
  <1>3. ASSUME NEW r \in Requests, CallerStep(r) PROVE TypeOK'
    BY <1>3, TypeCaller
  <1>4. ASSUME NEW r \in Requests, WorkerStep(r) PROVE TypeOK'
    BY <1>4, TypeWorker
  <1>5. CASE UNCHANGED vars
    BY <1>5 DEF IInv, TypeOK, vars, queueVars, callVars, workVars
  <1> QED
    BY <1>1, <1>2, <1>3, <1>4, <1>5 DEF Next

(***************************************************************************)
(* Ownership, one lemma per action.                                        *)
(***************************************************************************)
LEMMA OwnInit == Init => Ownership
  BY DEF Init, Ownership, Threads, Workers, QueueOwns, WorkerOwns, CallerOwns, AnswersLate,
         OneWorkerPerCar, Live, Busy, Superseding, Waiting, Submitted

\* Steps that leave every variable Ownership speaks of as it is.
LEMMA OwnStutter ==
  ASSUME Ownership,
         UNCHANGED <<req, pending, running, caller, replaced, worker, job, result, answers>>
  PROVE  Ownership'
  BY DEF Ownership, Threads, Workers, QueueOwns, WorkerOwns, CallerOwns, AnswersLate,
         OneWorkerPerCar, Live, Busy, Superseding, Waiting, Submitted, CarOf

\* A request that was not submitted before is owned by nobody.
LEMMA FreshRequest ==
  ASSUME IInv, NEW r \in Requests, req[r] = None
  PROVE  /\ caller[r] = "idle" /\ worker[r] = "absent" /\ job[r] = None
         /\ answers[r] = <<>>
         /\ ~Waiting(r)
         /\ \A w \in Requests : job[w] # r
         /\ \A s \in Requests : Superseding(s) => replaced[s] # r
  <1>1. caller[r] = "idle" /\ worker[r] = "absent"
    BY DEF IInv, Ownership, Threads
  <1>2. job[r] = None
    BY <1>1 DEF IInv, Ownership, Threads, Busy
  <1>3. answers[r] = <<>>
    BY DEF IInv, Ownership, AnswersLate, Submitted
  <1>4. ~Waiting(r)
    BY DEF IInv, Ownership, QueueOwns, Waiting, Submitted
  <1>5. \A w \in Requests : job[w] # r
    BY DispatcherAssumption DEF IInv, Ownership, WorkerOwns, Submitted
  <1>6. \A s \in Requests : Superseding(s) => replaced[s] # r
    BY DEF IInv, Ownership, CallerOwns, Submitted
  <1> QED
    BY <1>1, <1>2, <1>3, <1>4, <1>5, <1>6

\* What Enter changes about requests and cars.
LEMMA EnterCars ==
  ASSUME IInv, NEW r \in Requests, NEW c \in Cars, NEW k \in Keys, NEW p \in Payloads,
         Enter(r, c, k, p)
  PROVE  /\ req[r] = None
         /\ req'[r] # None
         /\ CarOf(r)' = c
         /\ \A s \in Requests : s # r => req'[s] = req[s] /\ CarOf(s)' = CarOf(s)
         /\ \A d \in Cars : running'[d] = (running[d] \/ d = c)
         /\ UNCHANGED <<worker, job, result, answers>>
  BY ZenonT(60), CommandIsSome DEF Enter, IInv, TypeOK, CarOf, workVars

\* A request appended to a queue is owned by that queue alone.
LEMMA OwnSubmitAppend ==
  ASSUME IInv, NEW r \in Requests, NEW c \in Cars, NEW k \in Keys, NEW p \in Payloads,
         SubmitAppend(r, c, k, p)
  PROVE  Ownership'
  <1>1. Enter(r, c, k, p)
    BY DEF SubmitAppend
  <1>2. /\ req[r] = None
        /\ req'[r] # None
        /\ CarOf(r)' = c
        /\ \A s \in Requests : s # r => req'[s] = req[s] /\ CarOf(s)' = CarOf(s)
        /\ \A d \in Cars : running'[d] = (running[d] \/ d = c)
        /\ UNCHANGED <<worker, job, result, answers>>
    BY <1>1, EnterCars
  <1>3. /\ caller[r] = "idle" /\ worker[r] = "absent" /\ job[r] = None
        /\ answers[r] = <<>>
        /\ ~Waiting(r)
        /\ \A w \in Requests : job[w] # r
        /\ \A s \in Requests : Superseding(s) => replaced[s] # r
    BY <1>2, FreshRequest
  <1>4. /\ pending' = [pending EXCEPT ![c] = Append(@, r)]
        /\ caller' = [caller EXCEPT ![r] = IF running[c] THEN "returned" ELSE "starting"]
        /\ replaced' = replaced
    BY DEF SubmitAppend
  <1>5. /\ pending[c] \in Seq(Requests)
        /\ pending'[c] = Append(pending[c], r)
        /\ \A d \in Cars : d # c => pending'[d] = pending[d]
    BY <1>4 DEF IInv, TypeOK
  <1>6. /\ Len(pending'[c]) = Len(pending[c]) + 1
        /\ pending'[c][Len(pending[c]) + 1] = r
        /\ \A i \in 1..Len(pending[c]) : pending'[c][i] = pending[c][i]
    BY <1>5
  <1>7. \A s \in Requests : Waiting(s)' => Waiting(s) \/ s = r
    BY <1>5, <1>6 DEF Waiting
  <1>8. Threads'
    BY <1>2, <1>3, <1>4 DEF IInv, TypeOK, Ownership, Threads, Busy
  <1>9. Workers'
    <2>1. \A s \in Requests : s # r => (Live(s)' <=> Live(s))
      BY <1>2, <1>4 DEF Live, IInv, TypeOK
    <2>2. Live(r)' <=> ~running[c]
      BY <1>2, <1>3, <1>4 DEF Live, IInv, TypeOK
    <2>3. ~Live(r)
      BY <1>3 DEF Live
    <2>4. \A d \in Cars : pending'[d] # <<>> => running'[d]
      BY <1>2, <1>5 DEF IInv, Ownership, Workers
    <2>5. \A s \in Requests : Live(s)' => running'[CarOf(s)']
      <3>1. \A s \in Requests : Live(s) => running[CarOf(s)] /\ CarOf(s) \in Cars
        BY CommandParts DEF IInv, Ownership, Workers, Threads, Live
      <3> QED
        BY <1>2, <2>1, <2>2, <3>1
    <2>6. \A d \in Cars : running'[d] =>
             \E s \in Requests : Submitted(s)' /\ CarOf(s)' = d /\ Live(s)'
      <3> SUFFICES ASSUME NEW d \in Cars, running'[d]
                   PROVE  \E s \in Requests : Submitted(s)' /\ CarOf(s)' = d /\ Live(s)'
        OBVIOUS
      <3>1. CASE running[d]
        <4>1. PICK s \in Requests : Submitted(s) /\ CarOf(s) = d /\ Live(s)
          BY <3>1 DEF IInv, Ownership, Workers
        <4>2. s # r
          BY <4>1, <2>3
        <4> QED
          BY <1>2, <2>1, <4>1, <4>2 DEF Submitted
      <3>2. CASE ~running[d]
        <4>1. d = c /\ Submitted(r)' /\ CarOf(r)' = c /\ Live(r)'
          BY <1>2, <2>2, <3>2 DEF Submitted
        <4> QED
          BY <4>1
      <3> QED
        BY <3>1, <3>2
    <2>7. OneWorkerPerCar'
      <3> SUFFICES ASSUME NEW s \in Requests, NEW t \in Requests,
                          Live(s)', Live(t)', CarOf(s)' = CarOf(t)'
                   PROVE  s = t
        BY DEF OneWorkerPerCar
      <3>1. CASE s # r /\ t # r
        BY <1>2, <2>1, <3>1 DEF IInv, Ownership, Workers, OneWorkerPerCar
      <3>2. \A u \in Requests : u # r /\ Live(u)' /\ CarOf(u)' = c => running[c]
        BY <1>2, <2>1 DEF IInv, Ownership, Workers
      <3> QED
        BY <1>2, <2>2, <3>1, <3>2
    <2> QED
      BY <2>4, <2>5, <2>6, <2>7 DEF Workers
  <1>10. QueueOwns'
    <2> SUFFICES ASSUME NEW d \in Cars, NEW i \in 1..Len(pending'[d])
                 PROVE  /\ req'[pending'[d][i]] # None
                        /\ CarOf(pending[d][i])' = d
                        /\ answers[pending'[d][i]] = <<>>
                        /\ \A j \in 1..Len(pending'[d]) :
                              pending'[d][i] = pending'[d][j] => i = j
      BY <1>2 DEF QueueOwns, Submitted
    <2>1. pending[d] \in Seq(Requests) /\ \A j \in 1..Len(pending[d]) : pending[d][j] \in Requests
      BY DEF IInv, TypeOK
    <2>2. \A j \in 1..Len(pending[d]) :
             /\ req[pending[d][j]] # None
             /\ CarOf(pending[d][j]) = d
             /\ answers[pending[d][j]] = <<>>
             /\ pending[d][j] # r
             /\ \A l \in 1..Len(pending[d]) : pending[d][j] = pending[d][l] => j = l
      BY <1>2 DEF IInv, Ownership, QueueOwns, Submitted
    <2>3. CASE d # c
      BY <1>2, <1>5, <2>1, <2>2, <2>3 DEF CarOf
    <2>4. CASE d = c
      <3>1. Len(pending[c]) \in Nat
        BY <1>5
      <3>2. CASE i = Len(pending[c]) + 1
        BY <1>2, <1>3, <1>6, <2>1, <2>2, <2>4, <3>1, <3>2 DEF CarOf
      <3>3. CASE i \in 1..Len(pending[c])
        BY SMTT(20), <1>2, <1>6, <2>1, <2>2, <2>4, <3>1, <3>3 DEF CarOf
      <3> QED
        BY <1>6, <2>4, <3>1, <3>2, <3>3
    <2> QED
      BY <2>3, <2>4
  <1>11. WorkerOwns'
    <2> SUFFICES ASSUME NEW w \in Requests, job[w] # None
                 PROVE  /\ req'[job[w]] # None
                        /\ CarOf(job[w])' = CarOf(w)'
                        /\ answers[job[w]] = <<>>
                        /\ ~Waiting(job[w])'
      BY <1>2 DEF WorkerOwns, Submitted
    <2>1. /\ job[w] \in Requests
          /\ req[job[w]] # None
          /\ CarOf(job[w]) = CarOf(w)
          /\ answers[job[w]] = <<>>
          /\ ~Waiting(job[w])
      BY DEF IInv, TypeOK, Ownership, WorkerOwns, Submitted
    <2> QED
      BY <1>2, <1>3, <1>7, <2>1 DEF CarOf
  <1>12. CallerOwns'
    <2> SUFFICES ASSUME NEW s \in Requests, Superseding(s)'
                 PROVE  /\ replaced[s] # None
                        /\ req'[replaced[s]] # None
                        /\ answers[replaced[s]] = <<>>
                        /\ ~Waiting(replaced[s])'
                        /\ \A w \in Requests : job[w] # replaced[s]
                        /\ \A t \in Requests :
                              (Superseding(t)' /\ replaced[t] = replaced[s]) => t = s
      BY <1>2, <1>4 DEF CallerOwns, Submitted
    <2>1. \A t \in Requests : Superseding(t)' => Superseding(t) /\ t # r
      BY <1>3, <1>4 DEF Superseding, IInv, TypeOK
    <2>2. replaced[s] \in Requests
      BY <2>1 DEF IInv, TypeOK, Ownership, CallerOwns
    <2>3. /\ replaced[s] # None
          /\ req[replaced[s]] # None
          /\ answers[replaced[s]] = <<>>
          /\ ~Waiting(replaced[s])
          /\ \A w \in Requests : job[w] # replaced[s]
          /\ \A t \in Requests : (Superseding(t) /\ replaced[t] = replaced[s]) => t = s
      BY <2>1 DEF IInv, Ownership, CallerOwns, Submitted
    <2> QED
      BY <1>2, <1>3, <1>4, <1>7, <2>1, <2>2, <2>3
  <1>13. AnswersLate'
    BY <1>2 DEF IInv, Ownership, AnswersLate, Submitted
  <1> QED
    BY <1>8, <1>9, <1>10, <1>11, <1>12, <1>13 DEF Ownership

\* A request that takes the place of another leaves each with one owner.
LEMMA OwnSubmitMerge ==
  ASSUME IInv, NEW r \in Requests, NEW c \in Cars, NEW k \in Keys, NEW p \in Payloads,
         SubmitMerge(r, c, k, p)
  PROVE  Ownership'
  <1>1. Enter(r, c, k, p)
    BY DEF SubmitMerge
  <1>2. /\ req[r] = None
        /\ req'[r] # None
        /\ CarOf(r)' = c
        /\ \A s \in Requests : s # r => req'[s] = req[s] /\ CarOf(s)' = CarOf(s)
        /\ \A d \in Cars : running'[d] = (running[d] \/ d = c)
        /\ UNCHANGED <<worker, job, result, answers>>
    BY <1>1, EnterCars
  <1>3. /\ caller[r] = "idle" /\ worker[r] = "absent" /\ job[r] = None
        /\ answers[r] = <<>>
        /\ ~Waiting(r)
        /\ \A w \in Requests : job[w] # r
        /\ \A s \in Requests : Superseding(s) => replaced[s] # r
    BY <1>2, FreshRequest
  <1>4. PICK i \in Slots(c, k) :
           /\ replaced' = [replaced EXCEPT ![r] = pending[c][i]]
           /\ pending' = [pending EXCEPT ![c] = [@ EXCEPT ![i] = r]]
    BY DEF SubmitMerge
  <1>5. pending[c] \in Seq(Requests) /\ i \in 1..Len(pending[c])
    BY DEF Slots, IInv, TypeOK
  <1>6. running[c] /\ \A d \in Cars : running'[d] = running[d]
    <2>1. pending[c] # <<>>
      BY <1>5
    <2>2. running[c]
      BY <2>1 DEF IInv, Ownership, Workers
    <2>3. running \in [Cars -> BOOLEAN] /\ running' = [running EXCEPT ![c] = TRUE]
      BY <1>1 DEF IInv, TypeOK, Enter
    <2> QED
      BY <2>2, <2>3
  <1>7. caller' = [caller EXCEPT ![r] = "replacing"]
    BY <1>6 DEF SubmitMerge
  <1>8. /\ Len(pending'[c]) = Len(pending[c])
        /\ pending'[c][i] = r
        /\ \A j \in 1..Len(pending[c]) : j # i => pending'[c][j] = pending[c][j]
        /\ \A d \in Cars : d # c => pending'[d] = pending[d]
    BY <1>4, <1>5 DEF IInv, TypeOK
  <1> DEFINE old == pending[c][i]
  <1>9. /\ old \in Requests
        /\ req[old] # None
        /\ CarOf(old) = c
        /\ answers[old] = <<>>
        /\ old # r
        /\ \A j \in 1..Len(pending[c]) : pending[c][j] = old => j = i
    BY <1>2, <1>5 DEF IInv, Ownership, QueueOwns, Submitted
  <1>10. \A s \in Requests : Waiting(s)' => (Waiting(s) /\ s # old) \/ s = r
    <2> SUFFICES ASSUME NEW s \in Requests, s # r,
                        NEW d \in Cars, NEW j \in 1..Len(pending'[d]), pending'[d][j] = s
                 PROVE  Waiting(s) /\ s # old
      BY DEF Waiting
    <2>1. CASE d # c
      <3>1. pending[d][j] = s /\ j \in 1..Len(pending[d])
        BY <1>8, <2>1
      <3>2. CarOf(s) = d
        BY <3>1 DEF IInv, Ownership, QueueOwns
      <3> QED
        BY <1>9, <2>1, <3>1, <3>2 DEF Waiting
    <2>2. CASE d = c
      <3>1. j # i /\ pending[c][j] = s /\ j \in 1..Len(pending[c])
        BY <1>8, <2>2
      <3> QED
        BY <1>9, <3>1 DEF Waiting
    <2> QED
      BY <2>1, <2>2
  <1>11. Waiting(old) /\ \A w \in Requests : job[w] # old
    <2>1. Waiting(old)
      BY <1>5 DEF Waiting
    <2> QED
      BY <1>9, <2>1, DispatcherAssumption DEF IInv, Ownership, WorkerOwns
  <1> HIDE DEF old
  <1>12. replaced' = [replaced EXCEPT ![r] = old]
    BY <1>4 DEF old
  <1>13. Threads'
    BY <1>2, <1>3, <1>7 DEF IInv, TypeOK, Ownership, Threads, Busy
  <1>14. Workers'
    <2>1. \A s \in Requests : (Live(s)' <=> Live(s)) /\ (Live(s) => s # r)
      BY <1>2, <1>3, <1>7 DEF Live, IInv, TypeOK
    <2>2. \A s \in Requests : Live(s) => CarOf(s) \in Cars
      BY CommandParts DEF IInv, Ownership, Threads, Live
    <2>3. \A s \in Requests : Live(s)' => running'[CarOf(s)']
      BY <1>2, <1>6, <2>1, <2>2 DEF IInv, Ownership, Workers
    <2>4. \A d \in Cars : running'[d] =>
             \E s \in Requests : Submitted(s)' /\ CarOf(s)' = d /\ Live(s)'
      <3> SUFFICES ASSUME NEW d \in Cars, running'[d]
                   PROVE  \E s \in Requests : Submitted(s)' /\ CarOf(s)' = d /\ Live(s)'
        OBVIOUS
      <3>1. PICK s \in Requests : Submitted(s) /\ CarOf(s) = d /\ Live(s)
        BY <1>6 DEF IInv, Ownership, Workers
      <3> QED
        BY <1>2, <2>1, <3>1 DEF Submitted
    <2>5. \A d \in Cars : pending'[d] # <<>> => running'[d]
      BY <1>6, <1>8 DEF IInv, Ownership, Workers
    <2>6. OneWorkerPerCar'
      BY <1>2, <2>1 DEF IInv, Ownership, Workers, OneWorkerPerCar
    <2> QED
      BY <2>3, <2>4, <2>5, <2>6 DEF Workers
  <1>15. QueueOwns'
    <2> SUFFICES ASSUME NEW d \in Cars, NEW l \in 1..Len(pending'[d])
                 PROVE  /\ req'[pending'[d][l]] # None
                        /\ CarOf(pending[d][l])' = d
                        /\ answers[pending'[d][l]] = <<>>
                        /\ \A j \in 1..Len(pending'[d]) :
                              pending'[d][l] = pending'[d][j] => l = j
      BY <1>2 DEF QueueOwns, Submitted
    <2>1. pending[d] \in Seq(Requests) /\ \A j \in 1..Len(pending[d]) : pending[d][j] \in Requests
      BY DEF IInv, TypeOK
    <2>2. \A j \in 1..Len(pending[d]) :
             /\ req[pending[d][j]] # None
             /\ CarOf(pending[d][j]) = d
             /\ answers[pending[d][j]] = <<>>
             /\ pending[d][j] # r
             /\ \A m \in 1..Len(pending[d]) : pending[d][j] = pending[d][m] => j = m
      BY <1>2 DEF IInv, Ownership, QueueOwns, Submitted
    <2>3. CASE d # c
      BY <1>2, <1>8, <2>1, <2>2, <2>3 DEF CarOf
    <2>4. CASE d = c /\ l = i
      BY <1>2, <1>3, <1>8, <2>1, <2>2, <2>4 DEF CarOf
    <2>5. CASE d = c /\ l # i
      BY <1>2, <1>8, <2>1, <2>2, <2>5 DEF CarOf
    <2> QED
      BY <2>3, <2>4, <2>5
  <1>16. WorkerOwns'
    <2> SUFFICES ASSUME NEW w \in Requests, job[w] # None
                 PROVE  /\ req'[job[w]] # None
                        /\ CarOf(job[w])' = CarOf(w)'
                        /\ answers[job[w]] = <<>>
                        /\ ~Waiting(job[w])'
      BY <1>2 DEF WorkerOwns, Submitted
    <2>1. /\ job[w] \in Requests
          /\ req[job[w]] # None
          /\ CarOf(job[w]) = CarOf(w)
          /\ answers[job[w]] = <<>>
          /\ ~Waiting(job[w])
      BY DEF IInv, TypeOK, Ownership, WorkerOwns, Submitted
    <2> QED
      BY <1>2, <1>3, <1>10, <2>1 DEF CarOf
  <1>17. CallerOwns'
    <2> SUFFICES ASSUME NEW s \in Requests, Superseding(s)'
                 PROVE  /\ replaced'[s] # None
                        /\ req'[replaced'[s]] # None
                        /\ answers[replaced'[s]] = <<>>
                        /\ ~Waiting(replaced[s])'
                        /\ \A w \in Requests : job[w] # replaced'[s]
                        /\ \A t \in Requests :
                              (Superseding(t)' /\ replaced'[t] = replaced'[s]) => t = s
      BY <1>2 DEF CallerOwns, Submitted
    <2>1. \A t \in Requests :
             /\ t # r => (Superseding(t)' <=> Superseding(t)) /\ replaced'[t] = replaced[t]
             /\ replaced'[r] = old
      BY <1>7, <1>12 DEF Superseding, IInv, TypeOK
    <2>2. \A t \in Requests : Superseding(t) =>
             /\ replaced[t] \in Requests
             /\ replaced[t] # None
             /\ req[replaced[t]] # None
             /\ answers[replaced[t]] = <<>>
             /\ ~Waiting(replaced[t])
             /\ replaced[t] # old
             /\ \A w \in Requests : job[w] # replaced[t]
             /\ \A u \in Requests : (Superseding(u) /\ replaced[u] = replaced[t]) => u = t
      BY <1>11 DEF IInv, TypeOK, Ownership, CallerOwns, Submitted
    <2>3. CASE s = r
      BY <1>2, <1>9, <1>10, <1>11, <2>1, <2>2, <2>3, DispatcherAssumption
    <2>4. CASE s # r
      BY <1>2, <1>3, <1>10, <2>1, <2>2, <2>4
    <2> QED
      BY <2>3, <2>4
  <1>18. AnswersLate'
    BY <1>2 DEF IInv, Ownership, AnswersLate, Submitted
  <1> QED
    BY <1>13, <1>14, <1>15, <1>16, <1>17, <1>18 DEF Ownership

\* Answering the superseded request takes it out of what is owned.
LEMMA OwnAnswerReplaced ==
  ASSUME IInv, NEW r \in Requests, AnswerReplaced(r)
  PROVE  Ownership'
  <1> DEFINE old == replaced[r]
  <1>1. /\ Superseding(r)
        /\ caller[r] = "replacing"
        /\ caller' = [caller EXCEPT ![r] = "returned"]
        /\ UNCHANGED <<req, pending, running, replaced, worker, job, result>>
    BY DEF AnswerReplaced, Superseding, IInv, Ownership, Threads, TypeOK, queueVars, workVars
  <1>2. /\ old \in Requests
        /\ req[old] # None
        /\ ~Waiting(old)
        /\ \A w \in Requests : job[w] # old
        /\ \A s \in Requests : (Superseding(s) /\ replaced[s] = old) => s = r
    BY <1>1 DEF IInv, TypeOK, Ownership, CallerOwns, Submitted
  <1> HIDE DEF old
  <1>3. answers' = [answers EXCEPT ![old] = Append(@, "replaced")]
    BY DEF AnswerReplaced, old
  <1>4. \A s \in Requests : s # old => answers'[s] = answers[s]
    BY <1>3 DEF IInv, TypeOK
  <1>5. Threads'
    BY <1>1 DEF IInv, TypeOK, Ownership, Threads, Busy
  <1>6. Workers'
    <2>1. \A s \in Requests : Live(s)' <=> Live(s)
      BY <1>1 DEF Live, IInv, TypeOK
    <2> QED
      BY <1>1, <2>1 DEF IInv, TypeOK, Ownership, Workers, OneWorkerPerCar, Submitted, CarOf
  <1>7. QueueOwns'
    <2>1. \A c \in Cars : \A i \in 1..Len(pending[c]) :
             pending[c][i] # old /\ pending[c][i] \in Requests
      BY <1>2 DEF Waiting, IInv, TypeOK
    <2> QED
      BY <1>1, <1>4, <2>1 DEF IInv, Ownership, QueueOwns, Submitted, CarOf
  <1>8. WorkerOwns'
    BY <1>1, <1>2, <1>4 DEF IInv, TypeOK, Ownership, WorkerOwns, Submitted, CarOf, Waiting
  <1>9. CallerOwns'
    <2>1. \A s \in Requests : Superseding(s)' => Superseding(s) /\ s # r
      BY <1>1 DEF Superseding, IInv, TypeOK
    <2> QED
      BY <1>1, <1>2, <1>4, <2>1 DEF IInv, TypeOK, Ownership, CallerOwns, Submitted, Waiting
  <1>10. AnswersLate'
    BY <1>1, <1>2, <1>4 DEF IInv, Ownership, AnswersLate, Submitted
  <1> QED
    BY <1>5, <1>6, <1>7, <1>8, <1>9, <1>10 DEF Ownership

\* A worker that starts owns nothing yet.
LEMMA OwnStartWorker ==
  ASSUME IInv, NEW r \in Requests, StartWorker(r)
  PROVE  Ownership'
  <1>1. /\ caller[r] = "starting"
        /\ worker[r] = "absent"
        /\ caller' = [caller EXCEPT ![r] = "returned"]
        /\ worker' = [worker EXCEPT ![r] = "top"]
        /\ UNCHANGED <<req, pending, running, replaced, job, result, answers>>
    BY DEF StartWorker, IInv, Ownership, Threads, queueVars
  <1>2. \A s \in Requests : Live(s)' <=> Live(s)
    BY <1>1 DEF Live, IInv, TypeOK
  <1>3. \A s \in Requests : Superseding(s)' <=> Superseding(s)
    BY <1>1 DEF Superseding, IInv, TypeOK
  <1>4. Threads'
    BY <1>1 DEF IInv, TypeOK, Ownership, Threads, Busy
  <1>5. Workers'
    BY <1>1, <1>2 DEF IInv, TypeOK, Ownership, Workers, OneWorkerPerCar, Submitted, CarOf
  <1>6. QueueOwns' /\ WorkerOwns' /\ AnswersLate'
    BY <1>1 DEF IInv, Ownership, QueueOwns, WorkerOwns, AnswersLate, Submitted, CarOf, Waiting
  <1>7. CallerOwns'
    BY <1>1, <1>3 DEF IInv, Ownership, CallerOwns, Submitted, Waiting
  <1> QED
    BY <1>4, <1>5, <1>6, <1>7 DEF Ownership

\* A worker that exits owned nothing.
LEMMA OwnWorkerExit ==
  ASSUME IInv, NEW w \in Requests, WorkerExit(w)
  PROVE  Ownership'
  <1> DEFINE c == CarOf(w)
  <1>1. c \in Cars /\ req[w] # None
    BY WorkerCar DEF WorkerExit
  <1>2. /\ worker[w] = "top"
        /\ pending[c] = <<>>
        /\ worker' = [worker EXCEPT ![w] = "gone"]
        /\ running' = [running EXCEPT ![c] = FALSE]
        /\ UNCHANGED <<req, pending, caller, replaced, job, result, answers>>
    BY DEF WorkerExit, callVars
  <1>3. CarOf(w) = c
    OBVIOUS
  <1> HIDE DEF c
  <1>4. caller[w] = "returned"
    BY <1>2 DEF IInv, Ownership, Threads
  <1>5. \A s \in Requests : (Live(s)' <=> Live(s) /\ s # w)
    BY <1>2, <1>4 DEF Live, IInv, TypeOK
  <1>6. Live(w)
    BY <1>2 DEF Live
  <1>7. Threads'
    BY <1>2, <1>4 DEF IInv, TypeOK, Ownership, Threads, Busy
  <1>8. Workers'
    <2>1. \A d \in Cars : running'[d] <=> (running[d] /\ d # c)
      BY <1>1, <1>2 DEF IInv, TypeOK
    <2>2. \A s \in Requests : Live(s)' => running'[CarOf(s)']
      <3> SUFFICES ASSUME NEW s \in Requests, Live(s)'
                   PROVE  running'[CarOf(s)]
        BY <1>2 DEF CarOf
      <3>1. Live(s) /\ s # w /\ CarOf(s) # c
        BY <1>3, <1>5, <1>6 DEF IInv, Ownership, Workers, OneWorkerPerCar
      <3>2. running[CarOf(s)] /\ CarOf(s) \in Cars
        BY <3>1, CommandParts DEF IInv, Ownership, Workers, Threads, Live
      <3> QED
        BY <2>1, <3>1, <3>2
    <2>3. \A d \in Cars : running'[d] =>
             \E s \in Requests : Submitted(s)' /\ CarOf(s)' = d /\ Live(s)'
      BY <1>2, <1>3, <1>5, <2>1 DEF IInv, Ownership, Workers, Submitted, CarOf
    <2>4. \A d \in Cars : pending'[d] # <<>> => running'[d]
      BY <1>2, <2>1 DEF IInv, Ownership, Workers
    <2>5. OneWorkerPerCar'
      BY <1>2, <1>5 DEF IInv, Ownership, Workers, OneWorkerPerCar, CarOf
    <2> QED
      BY <2>2, <2>3, <2>4, <2>5 DEF Workers
  <1>9. QueueOwns' /\ WorkerOwns' /\ AnswersLate'
    BY <1>2 DEF IInv, Ownership, QueueOwns, WorkerOwns, AnswersLate, Submitted, CarOf, Waiting
  <1>10. CallerOwns'
    BY <1>2 DEF IInv, Ownership, CallerOwns, Submitted, Waiting, Superseding
  <1> QED
    BY <1>7, <1>8, <1>9, <1>10 DEF Ownership

\* A request taken moves from its queue to the worker.
LEMMA OwnPop ==
  ASSUME IInv, NEW w \in Requests, NEW o \in (Refusals \ {"replaced"}) \cup {None}, Pop(w, o)
  PROVE  Ownership'
  <1> DEFINE c == CarOf(w)
             r == Head(pending[c])
  <1>1. c \in Cars /\ req[w] # None
    BY WorkerCar DEF Pop
  <1>2. pending[c] \in Seq(Requests) /\ pending[c] # <<>>
    BY <1>1 DEF IInv, TypeOK, Pop
  <1>3. r \in Requests /\ r = pending[c][1] /\ 1 \in 1..Len(pending[c])
    BY <1>2
  <1>4. /\ worker[w] = "top"
        /\ pending' = [pending EXCEPT ![c] = Tail(@)]
        /\ job' = [job EXCEPT ![w] = r]
        /\ result' = [result EXCEPT ![w] = o]
        /\ worker' = [worker EXCEPT ![w] = IF o = None THEN "handling" ELSE "answering"]
        /\ UNCHANGED <<req, running, caller, replaced, answers>>
    BY DEF Pop, callVars
  <1>5. CarOf(w) = c
    OBVIOUS
  <1> HIDE DEF c, r
  <1>6. /\ req[r] # None
        /\ CarOf(r) = c
        /\ answers[r] = <<>>
        /\ Waiting(r)
        /\ r # None
        /\ \A j \in 1..Len(pending[c]) : pending[c][j] = r => j = 1
    BY <1>1, <1>3, DispatcherAssumption DEF IInv, Ownership, QueueOwns, Submitted, Waiting
  <1>7. /\ pending'[c] = Tail(pending[c])
        /\ \A d \in Cars : d # c => pending'[d] = pending[d]
    BY <1>1, <1>4 DEF IInv, TypeOK
  <1>8. /\ Len(pending'[c]) = Len(pending[c]) - 1
        /\ Len(pending[c]) \in Nat
        /\ \A i \in 1..Len(pending'[c]) : pending'[c][i] = pending[c][i + 1]
    BY <1>2, <1>7
  <1>9. \A s \in Requests : Waiting(s)' => Waiting(s) /\ s # r
    <2> SUFFICES ASSUME NEW s \in Requests, NEW d \in Cars,
                        NEW j \in 1..Len(pending'[d]), pending'[d][j] = s
                 PROVE  Waiting(s) /\ s # r
      BY DEF Waiting
    <2>1. CASE d # c
      <3>1. pending[d][j] = s /\ j \in 1..Len(pending[d])
        BY <1>7, <2>1
      <3>2. CarOf(s) = d
        BY <3>1 DEF IInv, Ownership, QueueOwns
      <3> QED
        BY <1>6, <2>1, <3>1, <3>2 DEF Waiting
    <2>2. CASE d = c
      <3>1. j + 1 \in 1..Len(pending[c]) /\ pending[c][j + 1] = s /\ j + 1 # 1
        BY <1>8, <2>2
      <3> QED
        BY <1>1, <1>6, <3>1 DEF Waiting
    <2> QED
      BY <2>1, <2>2
  <1>10. \A v \in Requests : job[v] # r
    BY <1>6, DispatcherAssumption DEF IInv, Ownership, WorkerOwns
  <1>11. Threads'
    BY <1>4, <1>6, DispatcherAssumption
       DEF IInv, TypeOK, Ownership, Threads, Busy, Refusals, Outcomes
  <1>12. Workers'
    <2>1. \A s \in Requests : Live(s)' <=> Live(s)
      BY <1>4 DEF Live, IInv, TypeOK
    <2>2. \A d \in Cars : pending'[d] # <<>> => pending[d] # <<>>
      BY <1>2, <1>7
    <2> QED
      BY <1>4, <2>1, <2>2 DEF IInv, Ownership, Workers, OneWorkerPerCar, Submitted, CarOf
  <1>13. QueueOwns'
    <2> SUFFICES ASSUME NEW d \in Cars, NEW i \in 1..Len(pending'[d])
                 PROVE  /\ req[pending'[d][i]] # None
                        /\ CarOf(pending'[d][i]) = d
                        /\ answers[pending'[d][i]] = <<>>
                        /\ \A j \in 1..Len(pending'[d]) :
                              pending'[d][i] = pending'[d][j] => i = j
      BY <1>4 DEF QueueOwns, Submitted, CarOf
    <2>1. CASE d # c
      BY <1>7, <2>1 DEF IInv, Ownership, QueueOwns, Submitted
    <2>2. CASE d = c
      <3>1. i + 1 \in 1..Len(pending[c]) /\ pending'[c][i] = pending[c][i + 1]
        BY <1>8, <2>2
      <3>2. \A j \in 1..Len(pending'[c]) : j + 1 \in 1..Len(pending[c])
        BY <1>8
      <3>3. \A j \in 1..Len(pending[c]) :
               /\ req[pending[c][j]] # None
               /\ CarOf(pending[c][j]) = c
               /\ answers[pending[c][j]] = <<>>
               /\ \A m \in 1..Len(pending[c]) : pending[c][j] = pending[c][m] => j = m
        BY <1>1 DEF IInv, Ownership, QueueOwns, Submitted
      <3>4. \A j \in 1..Len(pending'[c]) : pending'[c][i] = pending'[c][j] => i + 1 = j + 1
        BY <1>8, <3>1, <3>2, <3>3
      <3> QED
        BY <2>2, <3>1, <3>3, <3>4
    <2> QED
      BY <2>1, <2>2
  <1>14. WorkerOwns'
    <2> SUFFICES ASSUME NEW v \in Requests, job'[v] # None
                 PROVE  /\ req[job'[v]] # None
                        /\ CarOf(job'[v]) = CarOf(v)
                        /\ answers[job'[v]] = <<>>
                        /\ ~Waiting(job[v])'
      BY <1>4 DEF WorkerOwns, Submitted, CarOf
    <2>1. CASE v = w
      BY <1>3, <1>4, <1>5, <1>6, <1>9, <2>1 DEF IInv, TypeOK
    <2>2. CASE v # w
      <3>1. job'[v] = job[v] /\ job[v] \in Requests
        BY <1>4, <2>2 DEF IInv, TypeOK
      <3> QED
        BY <1>9, <3>1 DEF IInv, Ownership, WorkerOwns, Submitted
    <2> QED
      BY <2>1, <2>2
  <1>15. CallerOwns'
    <2> SUFFICES ASSUME NEW s \in Requests, Superseding(s)
                 PROVE  /\ replaced[s] # None
                        /\ req[replaced[s]] # None
                        /\ answers[replaced[s]] = <<>>
                        /\ ~Waiting(replaced[s])'
                        /\ \A v \in Requests : job'[v] # replaced[s]
                        /\ \A t \in Requests :
                              (Superseding(t) /\ replaced[t] = replaced[s]) => t = s
      BY <1>4 DEF CallerOwns, Submitted, Superseding
    <2>1. /\ replaced[s] \in Requests
          /\ ~Waiting(replaced[s])
          /\ \A v \in Requests : job[v] # replaced[s]
      BY DEF IInv, TypeOK, Ownership, CallerOwns
    <2>2. \A v \in Requests : job'[v] # replaced[s]
      BY <1>4, <1>6, <2>1 DEF IInv, TypeOK
    <2>3. ~Waiting(replaced[s])'
      BY <1>4, <1>9, <2>1
    <2> QED
      BY <2>1, <2>2, <2>3 DEF IInv, Ownership, CallerOwns, Submitted
  <1>16. AnswersLate'
    BY <1>4 DEF IInv, Ownership, AnswersLate, Submitted
  <1> QED
    BY <1>11, <1>12, <1>13, <1>14, <1>15, <1>16 DEF Ownership

\* The handler moves no request.
LEMMA OwnHandler ==
  ASSUME IInv, NEW w \in Requests, HandlerReturns(w) \/ RecordSent(w)
  PROVE  Ownership'
  <1>1. /\ Busy(w)
        /\ \E p \in {"recording", "answering"} : worker' = [worker EXCEPT ![w] = p]
        /\ UNCHANGED <<req, pending, running, caller, replaced, job, answers>>
    BY DEF HandlerReturns, RecordSent, Busy, callVars, queueVars
  <1>2. \A s \in Requests : (Live(s)' <=> Live(s)) /\ (Busy(s)' <=> Busy(s))
    BY <1>1 DEF Live, Busy, IInv, TypeOK
  <1>3. Threads'
    <2>1. CASE HandlerReturns(w)
      BY <1>2, <2>1, DispatcherAssumption
      DEF HandlerReturns, IInv, TypeOK, Ownership, Threads, Busy, callVars, queueVars,
          Outcomes, HandlerOutcomes
    <2>2. CASE RecordSent(w)
      BY <1>2, <2>2, DispatcherAssumption
      DEF RecordSent, IInv, TypeOK, Ownership, Threads, Busy, callVars, Outcomes, HandlerOutcomes
    <2> QED
      BY <2>1, <2>2
  <1>4. Workers'
    BY <1>1, <1>2 DEF IInv, Ownership, Workers, OneWorkerPerCar, Submitted, CarOf
  <1>5. QueueOwns' /\ WorkerOwns' /\ AnswersLate'
    BY <1>1 DEF IInv, Ownership, QueueOwns, WorkerOwns, AnswersLate, Submitted, CarOf, Waiting
  <1>6. CallerOwns'
    BY <1>1 DEF IInv, Ownership, CallerOwns, Submitted, Waiting, Superseding
  <1> QED
    BY <1>3, <1>4, <1>5, <1>6 DEF Ownership

\* An answered job is owned no more.
LEMMA OwnAnswer ==
  ASSUME IInv, NEW w \in Requests, Answer(w)
  PROVE  Ownership'
  <1> DEFINE r == job[w]
  <1>1. /\ r \in Requests
        /\ r # None
        /\ req[r] # None
        /\ CarOf(r) = CarOf(w)
        /\ ~Waiting(r)
    BY DEF Answer, IInv, TypeOK, Ownership, Threads, Busy, WorkerOwns, Submitted
  <1>2. /\ worker[w] = "answering"
        /\ answers' = [answers EXCEPT ![r] = Append(@, result[w])]
        /\ worker' = [worker EXCEPT ![w] = "top"]
        /\ job' = [job EXCEPT ![w] = None]
        /\ result' = [result EXCEPT ![w] = None]
        /\ UNCHANGED <<req, pending, running, caller, replaced>>
    BY DEF Answer, queueVars, callVars
  <1>3. \A v \in Requests : v # w => job[v] # r
    <2> SUFFICES ASSUME NEW v \in Requests, job[v] = r PROVE v = w
      OBVIOUS
    <2>1. Busy(v) /\ Busy(w) /\ CarOf(v) = CarOf(w)
      BY <1>1 DEF IInv, Ownership, Threads, WorkerOwns
    <2> QED
      BY <2>1 DEF IInv, Ownership, Workers, OneWorkerPerCar, Live, Busy
  <1>4. \A s \in Requests : Superseding(s) => replaced[s] # r
    BY DEF IInv, Ownership, CallerOwns
  <1> HIDE DEF r
  <1>5. \A s \in Requests : s # r => answers'[s] = answers[s]
    BY <1>2 DEF IInv, TypeOK
  <1>6. \A s \in Requests : Live(s)' <=> Live(s)
    BY <1>2 DEF Live, IInv, TypeOK
  <1>7. Threads'
    BY <1>2 DEF IInv, TypeOK, Ownership, Threads, Busy
  <1>8. Workers'
    BY <1>2, <1>6 DEF IInv, Ownership, Workers, OneWorkerPerCar, Submitted, CarOf
  <1>9. QueueOwns'
    <2>1. \A c \in Cars : \A i \in 1..Len(pending[c]) :
             pending[c][i] # r /\ pending[c][i] \in Requests
      BY <1>1 DEF Waiting, IInv, TypeOK
    <2> QED
      BY <1>2, <1>5, <2>1 DEF IInv, Ownership, QueueOwns, Submitted, CarOf
  <1>10. WorkerOwns'
    <2> SUFFICES ASSUME NEW v \in Requests, job'[v] # None
                 PROVE  /\ req[job'[v]] # None
                        /\ CarOf(job'[v]) = CarOf(v)
                        /\ answers'[job'[v]] = <<>>
                        /\ ~Waiting(job[v])'
      BY <1>2 DEF WorkerOwns, Submitted, CarOf
    <2>1. v # w /\ job'[v] = job[v] /\ job[v] \in Requests
      BY <1>2 DEF IInv, TypeOK
    <2>2. ~Waiting(job[v]) /\ (Waiting(job[v])' <=> Waiting(job[v]))
      BY <1>2, <2>1 DEF IInv, Ownership, WorkerOwns, Waiting
    <2> QED
      BY <1>3, <1>5, <2>1, <2>2 DEF IInv, Ownership, WorkerOwns, Submitted
  <1>11. CallerOwns'
    <2> SUFFICES ASSUME NEW s \in Requests, Superseding(s)
                 PROVE  /\ replaced[s] # None
                        /\ req[replaced[s]] # None
                        /\ answers'[replaced[s]] = <<>>
                        /\ ~Waiting(replaced[s])'
                        /\ \A v \in Requests : job'[v] # replaced[s]
                        /\ \A t \in Requests :
                              (Superseding(t) /\ replaced[t] = replaced[s]) => t = s
      BY <1>2 DEF CallerOwns, Submitted, Superseding
    <2>1. /\ replaced[s] \in Requests
          /\ replaced[s] # r
          /\ ~Waiting(replaced[s])
          /\ \A v \in Requests : job[v] # replaced[s]
      BY <1>4 DEF IInv, TypeOK, Ownership, CallerOwns
    <2>2. \A v \in Requests : job'[v] # replaced[s]
      BY <1>2, <2>1, DispatcherAssumption DEF IInv, TypeOK
    <2>3. ~Waiting(replaced[s])'
      BY <1>2, <2>1 DEF Waiting
    <2> QED
      BY <1>5, <2>1, <2>2, <2>3 DEF IInv, Ownership, CallerOwns, Submitted
  <1>12. AnswersLate'
    BY <1>1, <1>2, <1>5 DEF IInv, Ownership, AnswersLate, Submitted
  <1> QED
    BY <1>7, <1>8, <1>9, <1>10, <1>11, <1>12 DEF Ownership

\* Taking keeps each request with one owner.
LEMMA OwnTake ==
  ASSUME IInv, NEW w \in Requests, Take(w)
  PROVE  Ownership'
  <1>1. PICK o \in (Refusals \ {"replaced"}) \cup {None} : Pop(w, o)
    BY DEF Take, TakeDuplicate, TakeUncapped, TakeCapped, Refusals
  <1> QED
    BY <1>1, OwnPop

\* Every step keeps each request with one owner.
LEMMA OwnStep == IInv /\ [Next]_vars => Ownership'
  <1> SUFFICES ASSUME IInv, [Next]_vars PROVE Ownership'
    OBVIOUS
  <1>1. CASE Tick
    BY <1>1, OwnStutter DEF Tick, IInv, queueVars, callVars, workVars
  <1>2. ASSUME NEW r \in Requests, Submit(r) PROVE Ownership'
    BY <1>2, OwnSubmitMerge, OwnSubmitAppend DEF Submit
  <1>3. ASSUME NEW r \in Requests, CallerStep(r) PROVE Ownership'
    BY <1>3, OwnAnswerReplaced, OwnStartWorker DEF CallerStep
  <1>4. ASSUME NEW w \in Requests, WorkerStep(w) PROVE Ownership'
    BY <1>4, OwnWorkerExit, OwnTake, OwnHandler, OwnAnswer DEF WorkerStep
  <1>5. CASE UNCHANGED vars
    BY <1>5, OwnStutter DEF IInv, vars, queueVars, callVars, workVars
  <1> QED
    BY <1>1, <1>2, <1>3, <1>4, <1>5 DEF Next

(***************************************************************************)
(* The theorems.                                                           *)
(***************************************************************************)

\* The inductive invariant holds in every reachable state.
THEOREM Invariance == Spec => []IInv
  <1>1. Init => IInv
    BY TypeInit, OwnInit DEF IInv
  <1>2. IInv /\ [Next]_vars => IInv'
    BY TypeStep, OwnStep DEF IInv
  <1> QED
    BY <1>1, <1>2, PTL DEF Spec

\* Every variable keeps its type.
THEOREM TypeCorrect == Spec => []TypeOK
  <1>1. IInv => TypeOK
    BY DEF IInv
  <1> QED
    BY <1>1, Invariance, PTL

\* However Submit calls and exiting workers interleave, a car never has two
\* workers: the running flag is set and cleared under the lock.
THEOREM OneWorker == Spec => []OneWorkerPerCar
  <1>1. IInv => OneWorkerPerCar
    BY DEF IInv, Ownership, Workers
  <1> QED
    BY <1>1, Invariance, PTL

\* Every unanswered request has exactly one owner.
THEOREM OneOwner == Spec => []Ownership
  <1>1. IInv => Ownership
    BY DEF IInv
  <1> QED
    BY <1>1, Invariance, PTL

(***************************************************************************)
(* Refinement: every step of the dispatcher is a step of CommandService or *)
(* changes nothing the service shows.                                      *)
(***************************************************************************)

ServiceStep == Service!Next \/ UNCHANGED Service!serviceVars

\* A step that changes nobody's status, car or answers stutters.
LEMMA StutterStep ==
  ASSUME UNCHANGED <<req, answers>>,
         \A s \in Requests : Executing(s)' <=> Executing(s)
  PROVE  ServiceStep
  <1>1. \A s \in Requests : Status(s)' = Status(s)
    BY DEF Status, Submitted
  <1>2. \A s \in Requests : (Submitted(s)' <=> Submitted(s)) /\ CarOf(s)' = CarOf(s)
    BY DEF Submitted, CarOf
  <1>3. [s \in Requests |-> Status(s)]' = [s \in Requests |-> Status(s)]
    BY <1>1
  <1>4. [s \in Requests |-> IF Submitted(s) THEN CarOf(s) ELSE None]'
           = [s \in Requests |-> IF Submitted(s) THEN CarOf(s) ELSE None]
    BY <1>2
  <1> QED
    BY <1>3, <1>4 DEF ServiceStep, Service!serviceVars

\* The initial states are initial states of the service.
LEMMA RefineInit == Init => Service!Init
  BY DEF Init, Service!Init, Status, Submitted

\* Submitting is a step of the service.
LEMMA RefineSubmit ==
  ASSUME IInv, NEW r \in Requests, Submit(r)
  PROVE  ServiceStep
  <1>1. PICK c \in Cars, k \in Keys, p \in Payloads : Enter(r, c, k, p)
    BY DEF Submit, SubmitMerge, SubmitAppend
  <1>2. /\ req[r] = None
        /\ req'[r] # None
        /\ CarOf(r)' = c
        /\ \A s \in Requests : s # r => req'[s] = req[s] /\ CarOf(s)' = CarOf(s)
        /\ UNCHANGED <<worker, job, result, answers>>
    BY <1>1, EnterCars
  <1>3. answers[r] = <<>> /\ \A w \in Requests : job[w] # r
    BY <1>2, FreshRequest
  <1>4. \A s \in Requests : Executing(s)' <=> Executing(s)
    BY <1>2 DEF Executing
  <1>5. ~Executing(r)
    BY <1>3 DEF Executing
  <1>6. Status(r) = "new" /\ Status(r)' = "waiting"
    BY <1>2, <1>3, <1>4, <1>5 DEF Status, Submitted
  <1>7. \A s \in Requests : s # r => Status(s)' = Status(s)
    BY <1>2, <1>4 DEF Status, Submitted
  <1>8. Service!Accept(r)
    <2>1. [s \in Requests |-> Status(s)]'
             = [[s \in Requests |-> Status(s)] EXCEPT ![r] = "waiting"]
      BY <1>6, <1>7
    <2>2. [s \in Requests |-> IF Submitted(s) THEN CarOf(s) ELSE None]'
             = [[s \in Requests |-> IF Submitted(s) THEN CarOf(s) ELSE None] EXCEPT ![r] = c]
      BY <1>2 DEF Submitted
    <2> QED
      BY <1>2, <1>6, <2>1, <2>2 DEF Service!Accept
  <1> QED
    BY <1>8 DEF ServiceStep, Service!Next

\* An answer given to a request that waits is the service's Refuse, an answer
\* given to one that executes is its Finish.
LEMMA AnswerStep ==
  ASSUME IInv, NEW r \in Requests, NEW o \in Outcomes,
         req[r] # None, answers[r] = <<>>,
         answers' = [answers EXCEPT ![r] = Append(@, o)],
         UNCHANGED req,
         \A s \in Requests : s # r => (Executing(s)' <=> Executing(s)),
         Executing(r) <=> o \notin Refusals
  PROVE  ServiceStep
  <1>1. answers' = [answers EXCEPT ![r] = <<o>>]
    BY DEF IInv, TypeOK
  <1>2. answers'[r] # <<>> /\ \A s \in Requests : s # r => answers'[s] = answers[s]
    BY <1>1 DEF IInv, TypeOK
  <1>3. Status(r)' = "answered" /\ \A s \in Requests : s # r => Status(s)' = Status(s)
    BY <1>2 DEF Status, Submitted
  <1>4. [s \in Requests |-> Status(s)]'
           = [[s \in Requests |-> Status(s)] EXCEPT ![r] = "answered"]
    BY <1>3
  <1>5. [s \in Requests |-> IF Submitted(s) THEN CarOf(s) ELSE None]'
           = [s \in Requests |-> IF Submitted(s) THEN CarOf(s) ELSE None]
    BY DEF Submitted, CarOf
  <1>6. CASE Executing(r)
    <2>1. Status(r) = "executing" /\ o \in HandlerOutcomes
      BY <1>6 DEF Status, Submitted, Outcomes
    <2>2. Service!Finish(r)
      BY <1>1, <1>4, <1>5, <2>1 DEF Service!Finish, Service!HandlerOutcomes, HandlerOutcomes
    <2> QED
      BY <2>2 DEF ServiceStep, Service!Next
  <1>7. CASE ~Executing(r)
    <2>1. Status(r) = "waiting" /\ o \in Refusals
      BY <1>7 DEF Status, Submitted
    <2>2. Service!Refuse(r)
      BY <1>1, <1>4, <1>5, <2>1 DEF Service!Refuse, Service!Refusals, Refusals
    <2> QED
      BY <2>2 DEF ServiceStep, Service!Next
  <1> QED
    BY <1>6, <1>7

\* A step of a caller is one of the service, or none.
LEMMA RefineCaller ==
  ASSUME IInv, NEW r \in Requests, CallerStep(r)
  PROVE  ServiceStep
  <1>1. CASE AnswerReplaced(r)
    <2>1. /\ replaced[r] \in Requests
          /\ req[replaced[r]] # None
          /\ answers[replaced[r]] = <<>>
          /\ \A w \in Requests : job[w] # replaced[r]
      BY <1>1 DEF AnswerReplaced, IInv, TypeOK, Ownership, CallerOwns, Superseding, Submitted
    <2>2. /\ answers' = [answers EXCEPT ![replaced[r]] = Append(@, "replaced")]
          /\ UNCHANGED <<req, worker, job, result>>
      BY <1>1 DEF AnswerReplaced, workVars
    <2>3. \A s \in Requests : Executing(s)' <=> Executing(s)
      BY <2>2 DEF Executing
    <2>4. ~Executing(replaced[r])
      BY <2>1 DEF Executing
    <2>5. "replaced" \in Outcomes /\ "replaced" \in Refusals
      BY DEF Outcomes, Refusals
    <2> QED
      BY <2>1, <2>2, <2>3, <2>4, <2>5, AnswerStep
  <1>2. CASE StartWorker(r)
    <2>1. job[r] = None
      BY <1>2 DEF StartWorker, IInv, Ownership, Threads, Busy
    <2>2. \A s \in Requests : Executing(s)' <=> Executing(s)
      BY <1>2, <2>1, DispatcherAssumption DEF Executing, StartWorker, IInv, TypeOK
    <2> QED
      BY <1>2, <2>2, StutterStep DEF StartWorker
  <1> QED
    BY <1>1, <1>2 DEF CallerStep

\* Taking a request is a step of the service, or none.
LEMMA RefinePop ==
  ASSUME IInv, NEW w \in Requests, NEW o \in (Refusals \ {"replaced"}) \cup {None}, Pop(w, o)
  PROVE  ServiceStep
  <1>1. PICK c \in Cars : c = CarOf(w) /\ pending[c] # <<>>
    BY WorkerCar DEF Pop
  <1>2. pending[c] \in Seq(Requests) /\ pending[c] # <<>>
    BY <1>1 DEF IInv, TypeOK
  <1>3. PICK r \in Requests : /\ r = Head(pending[c])
                              /\ r = pending[c][1]
                              /\ 1 \in 1..Len(pending[c])
    BY <1>2
  <1>4. /\ worker[w] = "top"
        /\ job' = [job EXCEPT ![w] = r]
        /\ result' = [result EXCEPT ![w] = o]
        /\ worker' = [worker EXCEPT ![w] = IF o = None THEN "handling" ELSE "answering"]
        /\ UNCHANGED <<req, answers>>
    BY <1>1, <1>3 DEF Pop, callVars
  <1>5. CarOf(w) = c
    BY <1>1
  <1>6. /\ req[r] # None
        /\ CarOf(r) = c
        /\ answers[r] = <<>>
        /\ Waiting(r)
    BY <1>1, <1>3 DEF IInv, Ownership, QueueOwns, Submitted, Waiting
  <1>7. job[w] = None /\ \A v \in Requests : job[v] # r
    <2>1. ~Busy(w)
      BY <1>4 DEF Busy
    <2>2. r # None
      BY DispatcherAssumption
    <2> QED
      BY <1>6, <2>1, <2>2 DEF IInv, Ownership, WorkerOwns, Threads
  <1>8. \A s \in Requests : s # r => (Executing(s)' <=> Executing(s))
    BY <1>3, <1>4, <1>7, DispatcherAssumption DEF Executing, IInv, TypeOK
  <1>9. ~Executing(r)
    BY <1>7 DEF Executing
  <1>10. CASE o = None
    <2>1. Executing(r)'
      <3>1. job'[w] = r /\ worker'[w] = "handling" /\ result'[w] = None
        BY <1>4, <1>10 DEF IInv, TypeOK
      <3>2. None \notin Refusals
        BY DispatcherAssumption DEF Outcomes
      <3> QED
        BY <3>1, <3>2 DEF Executing
    <2>2. Status(r) = "waiting" /\ Status(r)' = "executing"
      BY <1>4, <1>6, <1>9, <2>1 DEF Status, Submitted
    <2>3. \A s \in Requests : s # r => Status(s)' = Status(s)
      BY <1>4, <1>8 DEF Status, Submitted
    <2>4. [s \in Requests |-> Status(s)]'
             = [[s \in Requests |-> Status(s)] EXCEPT ![r] = "executing"]
      BY <2>2, <2>3
    <2>5. [s \in Requests |-> IF Submitted(s) THEN CarOf(s) ELSE None]'
             = [s \in Requests |-> IF Submitted(s) THEN CarOf(s) ELSE None]
      BY <1>4 DEF Submitted, CarOf
    <2>6. \A s \in Requests : Status(s) = "executing" =>
             Submitted(s) /\ CarOf(s) # CarOf(r)
      <3> SUFFICES ASSUME NEW s \in Requests, Executing(s), Submitted(s), CarOf(s) = c
                   PROVE  FALSE
        BY <1>6 DEF Status
      <3>1. PICK v \in Requests : job[v] = s /\ Busy(v)
        BY DEF Executing, Busy
      <3>2. CarOf(v) = c /\ v # w
        BY <1>4, <3>1, DispatcherAssumption DEF IInv, Ownership, WorkerOwns, Busy
      <3> QED
        BY <1>4, <1>5, <3>1, <3>2 DEF IInv, Ownership, Workers, OneWorkerPerCar, Live, Busy
    <2>7. Service!Execute(r)
      BY <1>4, <1>6, <2>2, <2>4, <2>5, <2>6 DEF Service!Execute, Submitted
    <2> QED
      BY <2>7, <1>3 DEF ServiceStep, Service!Next
  <1>11. CASE o # None
    <2>1. ~Executing(r)'
      BY <1>4, <1>7, <1>11 DEF Executing, IInv, TypeOK
    <2> QED
      BY <1>4, <1>8, <1>9, <2>1, StutterStep
  <1> QED
    BY <1>10, <1>11

\* A step of a worker is one of the service, or none.
LEMMA RefineWorker ==
  ASSUME IInv, NEW w \in Requests, WorkerStep(w)
  PROVE  ServiceStep
  <1>1. CASE WorkerExit(w)
    <2>1. \A s \in Requests : Executing(s)' <=> Executing(s)
      BY <1>1 DEF Executing, WorkerExit, IInv, TypeOK
    <2> QED
      BY <1>1, <2>1, StutterStep DEF WorkerExit, callVars
  <1>2. CASE Take(w)
    <2>1. PICK o \in (Refusals \ {"replaced"}) \cup {None} : Pop(w, o)
      BY <1>2 DEF Take, TakeDuplicate, TakeUncapped, TakeCapped, Refusals
    <2> QED
      BY <2>1, RefinePop
  <1>3. CASE HandlerReturns(w)
    <2>1. result[w] = None
      BY <1>3 DEF HandlerReturns, IInv, Ownership, Threads, Busy
    <2>2. PICK o \in HandlerOutcomes :
             /\ result' = [result EXCEPT ![w] = o]
             /\ worker' = [worker EXCEPT ![w] = IF o = "sent" THEN "recording" ELSE "answering"]
             /\ worker[w] = "handling"
             /\ UNCHANGED <<job, req, answers>>
      BY <1>3 DEF HandlerReturns, callVars
    <2>3. o \notin Refusals /\ None \notin Refusals
      BY DispatcherAssumption DEF HandlerOutcomes, Refusals, Outcomes
    <2>4. \A s \in Requests : Executing(s)' <=> Executing(s)
      BY <2>1, <2>2, <2>3 DEF Executing, IInv, TypeOK
    <2> QED
      BY <2>2, <2>4, StutterStep
  <1>4. CASE RecordSent(w)
    <2>1. \A s \in Requests : Executing(s)' <=> Executing(s)
      BY <1>4 DEF Executing, RecordSent, IInv, TypeOK
    <2> QED
      BY <1>4, <2>1, StutterStep DEF RecordSent, callVars
  <1>5. CASE Answer(w)
    <2>1. /\ job[w] \in Requests
          /\ job[w] # None
          /\ req[job[w]] # None
          /\ answers[job[w]] = <<>>
          /\ result[w] \in Outcomes
      BY <1>5 DEF Answer, IInv, TypeOK, Ownership, Threads, Busy, WorkerOwns, Submitted
    <2>2. \A v \in Requests : job[v] = job[w] => v = w
      <3> SUFFICES ASSUME NEW v \in Requests, job[v] = job[w] PROVE v = w
        OBVIOUS
      <3>1. Busy(v) /\ Busy(w) /\ CarOf(v) = CarOf(w)
        BY <2>1 DEF IInv, Ownership, Threads, WorkerOwns
      <3> QED
        BY <3>1 DEF IInv, Ownership, Workers, OneWorkerPerCar, Live, Busy
    <2>3. /\ worker[w] = "answering"
          /\ answers' = [answers EXCEPT ![job[w]] = Append(@, result[w])]
          /\ worker' = [worker EXCEPT ![w] = "top"]
          /\ job' = [job EXCEPT ![w] = None]
          /\ result' = [result EXCEPT ![w] = None]
          /\ UNCHANGED req
      BY <1>5 DEF Answer, callVars
    <2>4. \A s \in Requests : s # job[w] => (Executing(s)' <=> Executing(s))
      BY <2>3, DispatcherAssumption DEF Executing, IInv, TypeOK
    <2>5. Executing(job[w]) <=> result[w] \notin Refusals
      BY <2>2, <2>3 DEF Executing
    <2> QED
      BY <2>1, <2>3, <2>4, <2>5, AnswerStep
  <1> QED
    BY <1>1, <1>2, <1>3, <1>4, <1>5 DEF WorkerStep

\* The dispatcher implements the service: every request is answered at most
\* once, and a car's next command does not start before the answer to the
\* previous one has been given.
THEOREM Refinement == Spec => ImplementsService
  <1>1. Init => Service!Init
    BY RefineInit
  <1>2. IInv /\ [Next]_vars => [Service!Next]_Service!serviceVars
    <2> SUFFICES ASSUME IInv, [Next]_vars PROVE ServiceStep
      BY DEF ServiceStep
    <2>1. CASE Tick
      <3>1. \A s \in Requests : Executing(s)' <=> Executing(s)
        BY <2>1 DEF Tick, Executing, workVars
      <3> QED
        BY <2>1, <3>1, StutterStep DEF Tick, callVars
    <2>2. CASE UNCHANGED vars
      <3>1. \A s \in Requests : Executing(s)' <=> Executing(s)
        BY <2>2 DEF vars, Executing, workVars
      <3> QED
        BY <2>2, <3>1, StutterStep DEF vars, callVars
    <2>3. ASSUME NEW r \in Requests, Submit(r) PROVE ServiceStep
      BY <2>3, RefineSubmit
    <2>4. ASSUME NEW r \in Requests, CallerStep(r) PROVE ServiceStep
      BY <2>4, RefineCaller
    <2>5. ASSUME NEW r \in Requests, WorkerStep(r) PROVE ServiceStep
      BY <2>5, RefineWorker
    <2> QED
      BY <2>1, <2>2, <2>3, <2>4, <2>5 DEF Next
  <1> QED
    BY <1>1, <1>2, Invariance, PTL DEF Spec, ImplementsService, Service!Spec

(***************************************************************************)
(* What the queue of a car promises about order, values and limits: a      *)
(* request overtakes another only by merging, the newest value is the last *)
(* that was handled, up to what was rejected or reported failed, no value  *)
(* is sent twice in a row within the window, and no key beyond its cap.    *)
(*                                                                         *)
(* All of it is said of the places that requests have in taken[c], and     *)
(* follows from who owns a request: a car has one worker, so that every    *)
(* place but the last has its answer, and the last is the worker's job or  *)
(* has its answer too.                                                     *)
(***************************************************************************)

Places(c)   == 1..Len(taken[c])
ReqAt(c, i) == taken[c][i].req

-----------------------------------------------------------------------------
\* Every request that was submitted arrived, once.
ArrivedOnce ==
  /\ \A r \in Requests : Submitted(r) => \E n \in 1..Len(arrived) : arrived[n] = r
  /\ \A n \in 1..Len(arrived) : Submitted(arrived[n])
  /\ \A m, n \in 1..Len(arrived) : arrived[m] = arrived[n] => m = n
  /\ \A r \in Requests : ~Submitted(r) => replaced[r] = None

\* A place is of a request of that car, which has its answer or a worker.
TakenOnce ==
  \A c \in Cars : \A i \in Places(c) :
     /\ Submitted(ReqAt(c, i)) /\ CarOf(ReqAt(c, i)) = c
     /\ taken[c][i].at <= now
     /\ answers[ReqAt(c, i)] # <<>> \/ \E w \in Requests : job[w] = ReqAt(c, i)
     /\ \A j \in Places(c) : ReqAt(c, i) = ReqAt(c, j) => i = j

\* What a worker has in hand is what it took last.
JobIsLast ==
  \A w \in Requests : job[w] # None =>
     Len(taken[CarOf(w)]) > 0 /\ ReqAt(CarOf(w), Len(taken[CarOf(w)])) = job[w]

\* The answer a request gets is the refusal of its place, or the handler's.
Verdict(refusal, o) == IF refusal = None THEN o \in HandlerOutcomes ELSE o = refusal
Verdicts ==
  /\ \A c \in Cars : \A i \in Places(c) :
        /\ taken[c][i].refusal \in {None, "duplicate", "capped"}
        /\ answers[ReqAt(c, i)] # <<>> => Verdict(taken[c][i].refusal, answers[ReqAt(c, i)][1])
        /\ \A w \in Requests : job[w] = ReqAt(c, i) =>
              \/ taken[c][i].refusal = None /\ result[w] = None
              \/ Verdict(taken[c][i].refusal, result[w])
  /\ \A r \in Requests : answers[r] # <<>> /\ answers[r][1] # "replaced" =>
        \E i \in Places(CarOf(r)) : ReqAt(CarOf(r), i) = r

PlacesInv == ArrivedOnce /\ TakenOnce /\ JobIsLast /\ Verdicts

-----------------------------------------------------------------------------
\* The places whose request was sent, and is recorded as such.
Recorded(c, k) ==
  {i \in Places(c) :
     /\ KeyOf(ReqAt(c, i)) = k
     /\ \/ Answered(ReqAt(c, i), "sent")
        \/ \E w \in Requests :
              job[w] = ReqAt(c, i) /\ worker[w] = "answering" /\ result[w] = "sent"}

\* i is the last place before j whose request was sent.
LastBefore(c, k, i, j) ==
  i \in Recorded(c, k) /\ i < j /\ \A m \in Recorded(c, k) : m <= i \/ m >= j

\* lastOK is the value of the last place recorded.
LastIsRecorded ==
  \A c \in Cars, k \in Keys :
     IF lastOK[c][k] = None THEN Recorded(c, k) = {}
     ELSE \E i \in Recorded(c, k) :
            /\ \A m \in Recorded(c, k) : m <= i
            /\ ValueAt(c, i) = lastOK[c][k].payload
            /\ taken[c][i].at <= lastOK[c][k].at

\* What is given to the handler differs from the last value sent, or comes late enough;
\* what is refused as a duplicate is not different.
DuplicatesTrue ==
  \A c \in Cars, k \in Keys \ Momentary : \A j \in Places(c) : KeyOf(ReqAt(c, j)) = k =>
     /\ taken[c][j].refusal = None =>
           \A i \in Places(c) : LastBefore(c, k, i, j) /\ ValueAt(c, i) = ValueAt(c, j) =>
              taken[c][j].at - taken[c][i].at >= DuplicateWindow
     /\ taken[c][j].refusal = "duplicate" =>
           \E i \in Places(c) : LastBefore(c, k, i, j) /\ ValueAt(c, i) = ValueAt(c, j)

RecordedInv == LastIsRecorded /\ DuplicatesTrue

-----------------------------------------------------------------------------
\* The newest request for a set-state key has the one slot of its key; without a slot it
\* has the last place of its key.
NewestInv ==
  \A c \in Cars, k \in Keys \ Momentary :
     /\ \A i, j \in Slots(c, k) : i = j
     /\ \A n \in 1..Len(arrived) : NewestAt(n, c, k) =>
           /\ \A i \in Slots(c, k) : pending[c][i] = arrived[n]
           /\ Slots(c, k) = {} =>
                 \E i \in Places(c) :
                    /\ ReqAt(c, i) = arrived[n]
                    /\ \A j \in Places(c) : KeyOf(ReqAt(c, j)) = k => j <= i

-----------------------------------------------------------------------------
\* Every dispatch of the last hour has an event of its own in the window.
InWindow(c, k) == {i \in Handled(c, k) : taken[c][i].at > now - Hour}
WindowHasAll ==
  \A c \in Cars, k \in Keys : Capped(k) =>
     \E f \in Injection(InWindow(c, k), 1..Len(perKey[c][k])) :
        \A i \in InWindow(c, k) : perKey[c][k][f[i]] = taken[c][i].at

CapInv == WindowHasAll /\ HourlyCap

-----------------------------------------------------------------------------
\* The line of a car: what was taken, then what waits.
Line(c)   == 1..(Len(taken[c]) + Len(pending[c]))
At(c, i)  == IF i <= Len(taken[c]) THEN taken[c][i].req ELSE pending[c][i - Len(taken[c])]

\* Somebody of s's key who came before r gave its place to another.
GaveWay(c, r, s) ==
  \E x \in Requests :
     /\ Before(arrived, x, r)
     /\ CarOf(x) = c
     /\ KeyOf(x) = KeyOf(s)
     /\ ~momentary(KeyOf(s))
     /\ \E y \in Requests : replaced[y] = x

\* Who stands ahead of somebody who arrived before got the place by merging.
LineInv ==
  \A c \in Cars : \A i, j \in Line(c) :
     i < j /\ Before(arrived, At(c, j), At(c, i)) => GaveWay(c, At(c, j), At(c, i))

(***************************************************************************)
(* What the steps do, in the form the proofs use it.                       *)
(***************************************************************************)

\* The constants, as the assumption has them.
LEMMA OrderConstants ==
  /\ None \notin Requests /\ None \notin Outcomes
  /\ PerKeyPerHour \in Nat /\ DuplicateWindow \in Nat /\ Hour \in Nat \ {0} /\ MaxTime \in Nat
  /\ Times \subseteq Nat
  BY DispatcherAssumption DEF Times

\* A submitted request keeps its command, whatever happens.
LEMMA CommandsStay ==
  ASSUME IInv, [Next]_vars
  PROVE  \A r \in Requests : Submitted(r) => req'[r] = req[r]
  <1>1. ASSUME NEW r \in Requests, NEW c \in Cars, NEW k \in Keys, NEW p \in Payloads,
               Enter(r, c, k, p)
        PROVE  \A s \in Requests : Submitted(s) => req'[s] = req[s]
    BY <1>1 DEF Enter, IInv, TypeOK, Submitted
  <1>2. CASE \E r \in Requests : Submit(r)
    BY <1>1, <1>2 DEF Submit, SubmitMerge, SubmitAppend
  <1>3. CASE UNCHANGED req
    BY <1>3
  <1> QED
    BY ZenonT(30), <1>2, <1>3
       DEF Next, Tick, CallerStep, AnswerReplaced, StartWorker, WorkerStep, WorkerExit,
          Take, TakeDuplicate, TakeUncapped, TakeCapped, Pop, HandlerReturns, RecordSent, Answer,
          vars, callVars

\* A worker takes the first request of its queue, refused as it must be.
LEMMA TakeIsPop ==
  ASSUME IInv, NEW w \in Requests, Take(w)
  PROVE  \E o \in {None, "duplicate", "capped"} :
            Pop(w, o) /\ (o = "duplicate" <=> Duplicate(Head(pending[CarOf(w)])))
  <1>1. None # "duplicate"
    BY OrderConstants DEF Outcomes, Refusals
  <1> QED
    BY <1>1 DEF Take, TakeDuplicate, TakeUncapped, TakeCapped

\* The places after a request was taken: one more, the last.
LEMMA OneMorePlace ==
  ASSUME NEW S, NEW s \in Seq(S), NEW e, NEW t, t = Append(s, e)
  PROVE  /\ Len(s) \in Nat /\ Len(t) = Len(s) + 1
         /\ 1..Len(t) = 1..Len(s) \cup {Len(s) + 1} /\ Len(s) + 1 \notin 1..Len(s)
         /\ \A i \in 1..Len(s) : t[i] = s[i] /\ i < Len(s) + 1
         /\ t[Len(s) + 1] = e
  OBVIOUS

\* Worker w takes r from the queue of its car c: r is nobody's job, and no other worker of
\* the car has one.
Takes(w, o, c, r) ==
  /\ c \in Cars /\ c = CarOf(w) /\ r \in Requests
  /\ Submitted(r) /\ CarOf(r) = c /\ KeyOf(r) \in Keys /\ answers[r] = <<>>
  /\ \A v \in Requests : job[v] # r
  /\ \A v \in Requests : job[v] # None => CarOf(v) # c
  /\ now' = now /\ req' = req /\ arrived' = arrived /\ replaced' = replaced
  /\ answers' = answers /\ lastOK' = lastOK
  /\ \A v \in Requests : v # w =>
        job'[v] = job[v] /\ result'[v] = result[v] /\ worker'[v] = worker[v]
  /\ job[w] = None /\ job'[w] = r /\ result'[w] = o
  /\ worker'[w] = IF o = None THEN "handling" ELSE "answering"
  /\ \A d \in Cars : d # c => taken'[d] = taken[d] /\ pending'[d] = pending[d]
  /\ Len(taken[c]) \in Nat /\ Len(taken'[c]) = Len(taken[c]) + 1
  /\ 1..Len(taken'[c]) = 1..Len(taken[c]) \cup {Len(taken[c]) + 1}
  /\ \A i \in 1..Len(taken[c]) : taken'[c][i] = taken[c][i] /\ i < Len(taken[c]) + 1
  /\ taken'[c][Len(taken[c]) + 1] = [req |-> r, at |-> now, refusal |-> o]
  /\ pending[c] \in Seq(Requests) /\ pending[c] # <<>> /\ pending'[c] = Tail(pending[c])
  /\ r = Head(pending[c])

\* That is what taking is.
LEMMA Took ==
  ASSUME IInv, NEW w \in Requests, NEW o \in {None, "duplicate", "capped"}, Pop(w, o)
  PROVE  \E c \in Cars, r \in Requests : Takes(w, o, c, r)
  <1> DEFINE c == CarOf(w)
             r == Head(pending[c])
  <1>1. req[w] # None /\ c \in Cars
    BY WorkerCar DEF Pop
  <1>2. pending[c] \in Seq(Requests) /\ pending[c] # <<>>
    BY <1>1 DEF IInv, TypeOK, Pop
  <1>3. r \in Requests /\ r = pending[c][1] /\ 1 \in 1..Len(pending[c])
    BY <1>2
  <1>4. Submitted(r) /\ CarOf(r) = c /\ answers[r] = <<>>
    BY <1>1, <1>3 DEF IInv, Ownership, QueueOwns
  <1>5. KeyOf(r) \in Keys
    BY <1>3, <1>4, CommandParts DEF IInv, Submitted
  <1>6. \A v \in Requests : job[v] # r
    BY <1>1, <1>3, OrderConstants DEF IInv, Ownership, WorkerOwns, Waiting
  <1>7. \A v \in Requests : job[v] # None => CarOf(v) # c
    <2> SUFFICES ASSUME NEW v \in Requests, job[v] # None, CarOf(v) = c PROVE FALSE
      OBVIOUS
    <2>1. Busy(v)
      BY DEF IInv, Ownership, Threads
    <2>2. Live(v) /\ Live(w) /\ worker[w] = "top"
      BY <2>1 DEF Live, Busy, Pop
    <2>3. v = w
      BY <2>2 DEF IInv, Ownership, Workers, OneWorkerPerCar
    <2> QED
      BY <2>1, <2>2, <2>3 DEF Busy
  <1>8. /\ UNCHANGED <<now, req, arrived, replaced, answers, lastOK>>
        /\ job' = [job EXCEPT ![w] = r] /\ result' = [result EXCEPT ![w] = o]
        /\ worker' = [worker EXCEPT ![w] = IF o = None THEN "handling" ELSE "answering"]
        /\ taken' = [taken EXCEPT ![c] = Append(@, [req |-> r, at |-> now, refusal |-> o])]
        /\ pending' = [pending EXCEPT ![c] = Tail(@)]
    BY DEF Pop, callVars
  <1>9. /\ job \in [Requests -> Requests \cup {None}] /\ DOMAIN result = Requests
        /\ DOMAIN worker = Requests /\ DOMAIN pending = Cars
        /\ taken \in [Cars -> Seq([req : Requests, at : Times, refusal : Refusals \cup {None}])]
    BY DEF IInv, TypeOK
  <1> HIDE DEF c, r
  <1>10. /\ taken[c] \in Seq([req : Requests, at : Times, refusal : Refusals \cup {None}])
         /\ taken'[c] = Append(taken[c], [req |-> r, at |-> now, refusal |-> o])
    BY <1>1, <1>8, <1>9
  <1>11. /\ Len(taken[c]) \in Nat /\ Len(taken'[c]) = Len(taken[c]) + 1
         /\ 1..Len(taken'[c]) = 1..Len(taken[c]) \cup {Len(taken[c]) + 1}
         /\ \A i \in 1..Len(taken[c]) : taken'[c][i] = taken[c][i] /\ i < Len(taken[c]) + 1
         /\ taken'[c][Len(taken[c]) + 1] = [req |-> r, at |-> now, refusal |-> o]
    BY <1>10, OneMorePlace
  <1>12. job[w] = None
    BY DEF IInv, Ownership, Threads, Busy, Pop
  <1>13. c = CarOf(w) /\ r = Head(pending[c])
    BY DEF c, r
  <1>14. Takes(w, o, c, r)
    BY <1>1, <1>2, <1>3, <1>4, <1>5, <1>6, <1>7, <1>8, <1>9, <1>11, <1>12, <1>13 DEF Takes
  <1> QED
    BY <1>1, <1>3, <1>14

\* A place holds a request, the time it was taken and why it was refused.
LEMMA PlaceTyped ==
  ASSUME TypeOK, NEW c \in Cars, NEW i \in 1..Len(taken[c])
  PROVE  /\ taken[c][i].req \in Requests /\ taken[c][i].at \in Nat
         /\ taken[c][i].refusal \in Refusals \cup {None}
  <1>1. taken[c] \in Seq([req : Requests, at : Times, refusal : Refusals \cup {None}])
    BY DEF TypeOK
  <1>2. taken[c][i] \in [req : Requests, at : Times, refusal : Refusals \cup {None}]
    BY <1>1, ElementOfSeq
  <1> QED
    BY <1>2, OrderConstants

\* The worker that answers has a job, which has its place and no answer yet.
LEMMA Answering ==
  ASSUME IInv, PlacesInv, NEW w \in Requests, worker[w] \in {"handling", "recording", "answering"}
  PROVE  \E c \in Cars, r \in Requests :
            /\ c = CarOf(w) /\ r = job[w]
            /\ Submitted(r) /\ CarOf(r) = c /\ KeyOf(r) \in Keys /\ answers[r] = <<>>
            /\ \A v \in Requests : job[v] = r => v = w
            /\ Len(taken[c]) \in 1..Len(taken[c]) /\ ReqAt(c, Len(taken[c])) = r
  <1> DEFINE c == CarOf(w)
             r == job[w]
  <1>1. job[w] # None
    BY DEF IInv, Ownership, Threads, Busy
  <1>2. r \in Requests /\ Submitted(r) /\ CarOf(r) = c /\ answers[r] = <<>>
    BY <1>1 DEF IInv, Ownership, WorkerOwns, TypeOK
  <1>3. c \in Cars /\ KeyOf(r) \in Keys
    BY <1>2, WorkerCar, CommandParts DEF IInv, Submitted
  <1>4. ASSUME NEW v \in Requests, job[v] = r PROVE v = w
    <2>1. CarOf(v) = c /\ Busy(v) /\ Busy(w)
      BY <1>1, <1>2, <1>4 DEF IInv, Ownership, WorkerOwns, Threads
    <2>2. Live(v) /\ Live(w)
      BY <2>1 DEF Live, Busy
    <2> QED
      BY <2>1, <2>2 DEF IInv, Ownership, Workers, OneWorkerPerCar
  <1>5. taken[c] \in Seq([req : Requests, at : Times, refusal : Refusals \cup {None}])
    BY <1>3 DEF IInv, TypeOK
  <1>6. Len(taken[c]) > 0 /\ ReqAt(c, Len(taken[c])) = r
    BY <1>1 DEF PlacesInv, JobIsLast
  <1> QED
    BY <1>2, <1>3, <1>4, <1>5, <1>6

(***************************************************************************)
(* Places.                                                                 *)
(***************************************************************************)

\* The initial states have no places.
LEMMA PlacesInit == Init => PlacesInv
  <1> SUFFICES ASSUME Init PROVE PlacesInv
    OBVIOUS
  <1>1. ArrivedOnce
    BY DEF Init, ArrivedOnce, Submitted
  <1>2. \A c \in Cars : Places(c) = {}
    BY DEF Init, Places
  <1> QED
    BY <1>1, <1>2 DEF Init, PlacesInv, TakenOnce, JobIsLast, Verdicts

\* Requests arrive once.
LEMMA ArrivedStep ==
  ASSUME IInv, PlacesInv, [Next]_vars
  PROVE  ArrivedOnce'
  <1>0. ArrivedOnce
    BY DEF PlacesInv
  <1>1. ASSUME UNCHANGED <<req, arrived, replaced>> PROVE ArrivedOnce'
    BY <1>0, <1>1 DEF ArrivedOnce, Submitted
  <1>2. ASSUME NEW r \in Requests, NEW c \in Cars, NEW k \in Keys, NEW p \in Payloads,
               Enter(r, c, k, p), \A s \in Requests : s # r => replaced'[s] = replaced[s]
        PROVE  ArrivedOnce'
    <2>1. /\ req[r] = None /\ req'[r] # None /\ \A s \in Requests : s # r => req'[s] = req[s]
          /\ arrived' = Append(arrived, r) /\ arrived \in Seq(Requests)
      BY <1>2, EnterCars DEF Enter, IInv, TypeOK
    <2>2. /\ Len(arrived) \in Nat /\ Len(arrived') = Len(arrived) + 1
          /\ 1..Len(arrived') = 1..Len(arrived) \cup {Len(arrived) + 1}
          /\ \A i \in 1..Len(arrived) : arrived'[i] = arrived[i] /\ i # Len(arrived) + 1
          /\ arrived'[Len(arrived) + 1] = r
      BY <2>1, OneMorePlace
    <2>3. \A n \in 1..Len(arrived) : arrived[n] \in Requests /\ arrived[n] # r
      BY <1>0, <2>1 DEF ArrivedOnce, Submitted
    <2>4. \A s \in Requests : req'[s] # None => \E n \in 1..Len(arrived') : arrived'[n] = s
      BY <1>0, <2>1, <2>2 DEF ArrivedOnce, Submitted
    <2>5. \A n \in 1..Len(arrived') : req'[arrived'[n]] # None
      BY <1>0, <2>1, <2>2, <2>3 DEF ArrivedOnce, Submitted
    <2>6. \A m, n \in 1..Len(arrived') : arrived'[m] = arrived'[n] => m = n
      BY <1>0, <2>2, <2>3 DEF ArrivedOnce
    <2>7. \A s \in Requests : req'[s] = None => replaced'[s] = None
      BY <1>0, <1>2, <2>1 DEF ArrivedOnce, Submitted
    <2> QED
      BY <2>4, <2>5, <2>6, <2>7, Zenon DEF ArrivedOnce, Submitted
  <1>3. ASSUME NEW r \in Requests, NEW c \in Cars, NEW k \in Keys, NEW p \in Payloads,
               SubmitMerge(r, c, k, p) \/ SubmitAppend(r, c, k, p)
        PROVE  ArrivedOnce'
    <2>1. \A s \in Requests : s # r => replaced'[s] = replaced[s]
      BY <1>3 DEF SubmitMerge, SubmitAppend, IInv, TypeOK
    <2> QED
      BY <1>2, <1>3, <2>1 DEF SubmitMerge, SubmitAppend
  <1> QED
    BY ZenonT(30), <1>1, <1>3
       DEF Next, Tick, Submit, CallerStep, AnswerReplaced, StartWorker, WorkerStep, WorkerExit,
           Take, TakeDuplicate, TakeUncapped, TakeCapped, Pop, HandlerReturns, RecordSent, Answer,
           vars, callVars

\* A step that takes nothing and takes no answer back keeps the places.
LEMMA TakenQuiet ==
  ASSUME IInv, PlacesInv, UNCHANGED taken, now' >= now, now' \in Int,
         \A r \in Requests : Submitted(r) => req'[r] = req[r],
         \A r \in Requests : answers[r] # <<>> => answers'[r] # <<>>,
         \A r, w \in Requests : job[w] = r => job'[w] = r \/ answers'[r] # <<>>
  PROVE  TakenOnce'
  <1> SUFFICES ASSUME NEW c \in Cars, NEW i \in Places(c)
               PROVE  /\ req'[ReqAt(c, i)] # None /\ req'[ReqAt(c, i)].car = c
                      /\ taken[c][i].at <= now'
                      /\ \/ answers'[ReqAt(c, i)] # <<>>
                         \/ \E w \in Requests : job'[w] = ReqAt(c, i)
                      /\ \A j \in Places(c) : ReqAt(c, i) = ReqAt(c, j) => i = j
    BY DEF TakenOnce, Places, ReqAt, CarOf, Submitted
  <1>1. /\ Submitted(ReqAt(c, i)) /\ CarOf(ReqAt(c, i)) = c
        /\ taken[c][i].at <= now
        /\ answers[ReqAt(c, i)] # <<>> \/ \E w \in Requests : job[w] = ReqAt(c, i)
        /\ \A j \in Places(c) : ReqAt(c, i) = ReqAt(c, j) => i = j
    BY DEF PlacesInv, TakenOnce
  <1>2. ReqAt(c, i) \in Requests /\ taken[c][i].at \in Nat /\ now \in Nat
    BY OrderConstants, PlaceTyped DEF IInv, TypeOK, ReqAt, Places
  <1>3. req'[ReqAt(c, i)] = req[ReqAt(c, i)]
    BY <1>1, <1>2
  <1> QED
    BY <1>1, <1>2, <1>3 DEF Submitted, CarOf

\* Taking a request gives it the last place.
LEMMA TakenPop ==
  ASSUME IInv, PlacesInv, NEW w \in Requests, NEW o \in {None, "duplicate", "capped"}, Pop(w, o)
  PROVE  TakenOnce' /\ JobIsLast'
  <1>1. PICK c \in Cars, r \in Requests : Takes(w, o, c, r)
    BY Took
  <1>3. /\ c = CarOf(w) /\ Submitted(r) /\ CarOf(r) = c /\ answers[r] = <<>>
        /\ \A v \in Requests : job[v] # r
        /\ \A v \in Requests : job[v] # None => CarOf(v) # c
        /\ now' = now /\ req' = req /\ answers' = answers
        /\ \A v \in Requests : v # w => job'[v] = job[v]
        /\ job[w] = None /\ job'[w] = r
        /\ \A d \in Cars : d # c => taken'[d] = taken[d]
    BY <1>1 DEF Takes
  <1>4. /\ Len(taken[c]) \in Nat /\ Len(taken'[c]) = Len(taken[c]) + 1
        /\ 1..Len(taken'[c]) = 1..Len(taken[c]) \cup {Len(taken[c]) + 1}
        /\ \A i \in 1..Len(taken[c]) : taken'[c][i] = taken[c][i] /\ i < Len(taken[c]) + 1
        /\ taken'[c][Len(taken[c]) + 1] = [req |-> r, at |-> now, refusal |-> o]
    BY <1>1 DEF Takes
  <1>5. TakenOnce /\ JobIsLast
    BY DEF PlacesInv
  <1>6. now \in Nat
    BY OrderConstants DEF IInv, TypeOK
  <1>7. \A i \in Places(c) : ReqAt(c, i) # r
    BY <1>3, <1>5 DEF TakenOnce
  <1>8. \A v \in Requests, s \in Requests : job[v] = s => job'[v] = s
    BY <1>3, OrderConstants
  <1>9. TakenOnce'
    <2> SUFFICES ASSUME NEW d \in Cars, NEW i \in 1..Len(taken'[d])
                 PROVE  /\ req'[taken'[d][i].req] # None /\ req'[taken'[d][i].req].car = d
                        /\ taken'[d][i].at <= now'
                        /\ \/ answers'[taken'[d][i].req] # <<>>
                           \/ \E v \in Requests : job'[v] = taken'[d][i].req
                        /\ \A j \in 1..Len(taken'[d]) :
                              taken'[d][i].req = taken'[d][j].req => i = j
      BY DEF TakenOnce, Places, ReqAt, CarOf, Submitted
    <2>1. ASSUME NEW m \in 1..Len(taken[d])
          PROVE  /\ req'[taken[d][m].req] # None /\ req'[taken[d][m].req].car = d
                 /\ taken[d][m].at <= now'
                 /\ \/ answers'[taken[d][m].req] # <<>>
                    \/ \E v \in Requests : job'[v] = taken[d][m].req
      <3>1. taken[d][m].req \in Requests
        BY PlaceTyped DEF IInv
      <3> QED
        BY <1>3, <1>5, <1>8, <3>1 DEF TakenOnce, Places, ReqAt, CarOf, Submitted
    <2>2. CASE d # c
      BY <1>3, <1>5, <2>1, <2>2 DEF TakenOnce, Places, ReqAt
    <2>3. CASE d = c
      <3>1. \A j \in 1..Len(taken'[c]) : taken'[c][i].req = taken'[c][j].req => i = j
        <4>1. \A j \in 1..Len(taken[c]) : taken'[c][j].req = taken[c][j].req /\ taken[c][j].req # r
          BY <1>4, <1>7 DEF Places, ReqAt
        <4>2. taken'[c][Len(taken[c]) + 1].req = r
          BY <1>4
        <4>3. \A j, m \in 1..Len(taken[c]) : taken[c][j].req = taken[c][m].req => j = m
          BY <1>3, <1>5 DEF TakenOnce, Places, ReqAt
        <4> QED
          BY <1>4, <2>3, <4>1, <4>2, <4>3
      <3>2. CASE i = Len(taken[c]) + 1
        <4>1. taken'[c][i] = [req |-> r, at |-> now, refusal |-> o]
          BY <1>4, <3>2
        <4>2. taken'[d][i].req = r /\ taken'[d][i].at = now
          BY <2>3, <4>1
        <4>3. req'[r] # None /\ req'[r].car = c /\ now <= now'
          BY <1>3, <1>6 DEF CarOf, Submitted
        <4> QED
          BY <1>3, <2>3, <3>1, <4>2, <4>3
      <3>3. CASE i # Len(taken[c]) + 1
        <4>1. i \in 1..Len(taken[c]) /\ taken'[c][i] = taken[c][i]
          BY <1>4, <2>3, <3>3
        <4> QED
          BY <2>1, <2>3, <3>1, <4>1
      <3> QED
        BY <3>2, <3>3
    <2> QED
      BY <2>2, <2>3
  <1>10. JobIsLast'
    <2> SUFFICES ASSUME NEW v \in Requests, job'[v] # None
                 PROVE  LET d == req'[v].car
                        IN  Len(taken'[d]) > 0 /\ taken'[d][Len(taken'[d])].req = job'[v]
      BY DEF JobIsLast, ReqAt, CarOf
    <2>1. CASE v = w
      BY <1>1, <1>3, <1>4, <2>1 DEF CarOf
    <2>2. CASE v # w
      <3>1. job[v] # None /\ CarOf(v) # c /\ job'[v] = job[v] /\ req'[v].car = CarOf(v)
        BY <1>3, <2>2 DEF CarOf
      <3>2. CarOf(v) \in Cars
        <4>1. worker[v] # "absent"
          BY <3>1 DEF IInv, Ownership, Threads, Busy
        <4> QED
          BY <4>1, WorkerCar
      <3> QED
        BY <1>3, <1>5, <3>1, <3>2 DEF JobIsLast, ReqAt
    <2> QED
      BY <2>1, <2>2
  <1> QED
    BY <1>9, <1>10

(***************************************************************************)
(* The kinds of steps, each with what it changes of the state the rest is  *)
(* about.                                                                  *)
(***************************************************************************)

\* Nothing of it changes but the time: Tick, StartWorker, WorkerExit.
Still ==
  /\ UNCHANGED <<req, pending, perKey, lastOK, replaced, job, result, answers, arrived, taken>>
  /\ now' \in Nat /\ now' >= now
  /\ \A w \in Requests : job[w] # None => worker'[w] = worker[w]

\* A Submit call answers the request x that its own superseded.
AnswersOld(x) ==
  /\ UNCHANGED <<now, req, pending, perKey, lastOK, replaced, worker, job, result, arrived, taken>>
  /\ x \in Requests /\ Submitted(x) /\ answers[x] = <<>> /\ answers'[x] = <<"replaced">>
  /\ \A s \in Requests : s # x => answers'[s] = answers[s]
  /\ \A w \in Requests : job[w] # x

\* The handler of w returns o.
Returns(w, o) ==
  /\ UNCHANGED <<now, req, pending, perKey, lastOK, replaced, job, answers, arrived, taken>>
  /\ worker[w] = "handling" /\ worker'[w] = IF o = "sent" THEN "recording" ELSE "answering"
  /\ result[w] = None /\ result'[w] = o /\ o \in HandlerOutcomes
  /\ \A v \in Requests : v # w => worker'[v] = worker[v] /\ result'[v] = result[v]

\* Worker w of car c records its job r.
Records(w, c, r) ==
  /\ UNCHANGED <<now, req, pending, perKey, replaced, job, result, answers, arrived, taken>>
  /\ c \in Cars /\ r \in Requests /\ c = CarOf(w) /\ r = job[w] /\ KeyOf(r) \in Keys
  /\ worker[w] = "recording" /\ worker'[w] = "answering" /\ result[w] = "sent"
  /\ \A v \in Requests : v # w => worker'[v] = worker[v]
  /\ lastOK'[c][KeyOf(r)] = [payload |-> normPayload(req[r].payload), at |-> now]
  /\ \A d \in Cars, k \in Keys : d # c \/ k # KeyOf(r) => lastOK'[d][k] = lastOK[d][k]

\* Worker w answers its job r with o.
AnswersJob(w, r, o) ==
  /\ UNCHANGED <<now, req, pending, perKey, lastOK, replaced, arrived, taken>>
  /\ r \in Requests /\ r = job[w] /\ o = result[w] /\ o \in Outcomes /\ o # "replaced"
  /\ worker[w] = "answering" /\ worker'[w] = "top" /\ job'[w] = None /\ result'[w] = None
  /\ \A v \in Requests : v # w =>
        worker'[v] = worker[v] /\ job'[v] = job[v] /\ result'[v] = result[v] /\ job[v] # r
  /\ answers[r] = <<>> /\ answers'[r] = <<o>>
  /\ \A s \in Requests : s # r => answers'[s] = answers[s]

\* A time that passes leaves the rest as it is.
LEMMA StillStep ==
  ASSUME IInv, Tick \/ (\E r \in Requests : StartWorker(r) \/ WorkerExit(r)) \/ UNCHANGED vars
  PROVE  Still
  <1>1. now \in Nat
    BY OrderConstants DEF IInv, TypeOK
  <1>2. CASE Tick
    BY <1>1, <1>2 DEF Tick, Still, queueVars, callVars, workVars
  <1>3. CASE UNCHANGED vars
    BY <1>1, <1>3 DEF Still, vars, queueVars, callVars, workVars
  <1>4. CASE \E r \in Requests : StartWorker(r)
    <2>1. PICK r \in Requests : StartWorker(r)
      BY <1>4
    <2>2. job[r] = None
      BY <2>1 DEF StartWorker, IInv, Ownership, Threads, Busy
    <2>3. \A w \in Requests : w # r => worker'[w] = worker[w]
      BY <2>1 DEF StartWorker, IInv, TypeOK
    <2> QED
      BY <1>1, <2>1, <2>2, <2>3 DEF StartWorker, Still, queueVars
  <1>5. CASE \E r \in Requests : WorkerExit(r)
    <2>1. PICK r \in Requests : WorkerExit(r)
      BY <1>5
    <2>2. job[r] = None
      BY <2>1 DEF WorkerExit, IInv, Ownership, Threads, Busy
    <2>3. \A w \in Requests : w # r => worker'[w] = worker[w]
      BY <2>1 DEF WorkerExit, IInv, TypeOK
    <2> QED
      BY <1>1, <2>1, <2>2, <2>3 DEF WorkerExit, Still, callVars
  <1> QED
    BY <1>2, <1>3, <1>4, <1>5

\* The answer to a superseded request is the first it gets.
LEMMA AnswersOldStep ==
  ASSUME IInv, NEW r \in Requests, AnswerReplaced(r)
  PROVE  \E x \in Requests : AnswersOld(x)
  <1>1. /\ replaced[r] \in Requests /\ Submitted(replaced[r]) /\ answers[replaced[r]] = <<>>
        /\ \A w \in Requests : job[w] # replaced[r]
    BY DEF AnswerReplaced, IInv, TypeOK, Ownership, CallerOwns, Superseding
  <1>2. answers' = [answers EXCEPT ![replaced[r]] = Append(@, "replaced")]
    BY DEF AnswerReplaced
  <1>3. /\ answers'[replaced[r]] = <<"replaced">>
        /\ \A s \in Requests : s # replaced[r] => answers'[s] = answers[s]
    BY <1>1, <1>2 DEF IInv, TypeOK
  <1>4. AnswersOld(replaced[r])
    BY <1>1, <1>3 DEF AnswerReplaced, AnswersOld, queueVars, workVars
  <1> QED
    BY <1>1, <1>4

\* What the handler returns is an outcome of the handler.
LEMMA ReturnsStep ==
  ASSUME IInv, NEW w \in Requests, HandlerReturns(w)
  PROVE  \E o \in HandlerOutcomes : Returns(w, o)
  <1>1. PICK o \in HandlerOutcomes :
           /\ result' = [result EXCEPT ![w] = o]
           /\ worker' = [worker EXCEPT ![w] = IF o = "sent" THEN "recording" ELSE "answering"]
    BY DEF HandlerReturns
  <1>2. worker[w] = "handling" /\ result[w] = None
    BY DEF HandlerReturns, IInv, Ownership, Threads, Busy
  <1>3. DOMAIN result = Requests /\ DOMAIN worker = Requests
    BY DEF IInv, TypeOK
  <1>4. /\ worker'[w] = (IF o = "sent" THEN "recording" ELSE "answering") /\ result'[w] = o
        /\ \A v \in Requests : v # w => worker'[v] = worker[v] /\ result'[v] = result[v]
    BY <1>1, <1>3
  <1>5. UNCHANGED <<now, req, pending, perKey, lastOK, replaced, job, answers, arrived, taken>>
    BY DEF HandlerReturns, queueVars, callVars
  <1>6. Returns(w, o)
    BY <1>2, <1>4, <1>5 DEF Returns
  <1> QED
    BY <1>6

\* What is recorded is the job's value, for its car and key.
LEMMA RecordsStep ==
  ASSUME IInv, NEW w \in Requests, RecordSent(w)
  PROVE  \E c \in Cars, r \in Requests : Records(w, c, r)
  <1>1. worker[w] = "recording" /\ result[w] = "sent" /\ job[w] # None
    BY DEF RecordSent, IInv, Ownership, Threads, Busy
  <1>2. job[w] \in Requests /\ Submitted(job[w]) /\ CarOf(w) \in Cars
    BY <1>1, WorkerCar DEF IInv, Ownership, WorkerOwns, TypeOK
  <1>3. KeyOf(job[w]) \in Keys
    BY <1>2, CommandParts DEF IInv, Submitted
  <1> DEFINE value == [payload |-> normPayload(req[job[w]].payload), at |-> now]
  <1>4. lastOK' = [lastOK EXCEPT ![CarOf(w)][KeyOf(job[w])] = value]
    BY DEF RecordSent
  <1>5. lastOK \in [Cars -> [Keys -> SentAt \cup {None}]]
    BY DEF IInv, TypeOK
  <1> HIDE DEF value
  <1>6. /\ lastOK'[CarOf(w)][KeyOf(job[w])] = value
        /\ \A d \in Cars, k \in Keys :
              d # CarOf(w) \/ k # KeyOf(job[w]) => lastOK'[d][k] = lastOK[d][k]
    BY <1>2, <1>3, <1>4, <1>5
  <1>7. worker'[w] = "answering" /\ \A v \in Requests : v # w => worker'[v] = worker[v]
    BY DEF RecordSent, IInv, TypeOK
  <1>8. UNCHANGED <<now, req, pending, perKey, replaced, job, result, answers, arrived, taken>>
    BY DEF RecordSent, callVars
  <1>9. Records(w, CarOf(w), job[w])
    BY <1>1, <1>2, <1>3, <1>6, <1>7, <1>8 DEF Records, value
  <1> QED
    BY <1>2, <1>9

\* The answer of a worker is the only one its job gets.
LEMMA AnswersJobStep ==
  ASSUME IInv, PlacesInv, NEW w \in Requests, Answer(w)
  PROVE  \E r \in Requests, o \in Outcomes : AnswersJob(w, r, o)
  <1>1. PICK c \in Cars, r \in Requests :
           r = job[w] /\ answers[r] = <<>> /\ \A v \in Requests : job[v] = r => v = w
    BY Answering DEF Answer
  <1>2. result[w] \in Outcomes /\ result[w] # "replaced" /\ worker[w] = "answering"
    BY DEF Answer, IInv, TypeOK, Ownership, Threads, Busy
  <1>3. /\ answers' = [answers EXCEPT ![job[w]] = Append(@, result[w])]
        /\ worker' = [worker EXCEPT ![w] = "top"]
        /\ job' = [job EXCEPT ![w] = None] /\ result' = [result EXCEPT ![w] = None]
        /\ UNCHANGED <<now, req, pending, perKey, lastOK, replaced, arrived, taken>>
    BY DEF Answer, queueVars, callVars
  <1>4. /\ DOMAIN answers = Requests /\ DOMAIN worker = Requests
        /\ DOMAIN job = Requests /\ DOMAIN result = Requests
    BY DEF IInv, TypeOK
  <1>5. /\ answers'[r] = <<result[w]>> /\ \A s \in Requests : s # r => answers'[s] = answers[s]
    BY <1>1, <1>3, <1>4
  <1>6. /\ worker'[w] = "top" /\ job'[w] = None /\ result'[w] = None
        /\ \A v \in Requests : v # w =>
              worker'[v] = worker[v] /\ job'[v] = job[v] /\ result'[v] = result[v]
    BY <1>3, <1>4
  <1>7. AnswersJob(w, r, result[w])
    BY <1>1, <1>2, <1>3, <1>5, <1>6 DEF AnswersJob
  <1> QED
    BY <1>1, <1>2, <1>7

\* Submit's request r is new and takes a slot of its own, or the slot i of its key.
Enters(r, c, k, p) ==
  /\ c \in Cars /\ k \in Keys /\ p \in Payloads
  /\ UNCHANGED <<now, perKey, lastOK, worker, job, result, taken, answers>>
  /\ ~Submitted(r) /\ answers[r] = <<>> /\ \A w \in Requests : job[w] # r
  /\ req'[r] = [car |-> c, key |-> k, payload |-> p] /\ req'[r] # None
  /\ \A s \in Requests : s # r => req'[s] = req[s]
  /\ arrived \in Seq(Requests) /\ arrived' = Append(arrived, r)
  /\ \A d \in Cars : d # c => pending'[d] = pending[d]
  /\ pending[c] \in Seq(Requests)
  /\ \A s \in Requests : s # r => replaced'[s] = replaced[s]
  /\ replaced[r] = None
Appends(r, c, k) ==
  /\ momentary(k) \/ Slots(c, k) = {}
  /\ pending'[c] = Append(pending[c], r) /\ replaced' = replaced
Merges(r, c, k, i) ==
  /\ ~momentary(k) /\ i \in Slots(c, k)
  /\ replaced'[r] = pending[c][i] /\ pending[c][i] \in Requests
  /\ pending'[c] = [pending[c] EXCEPT ![i] = r]

\* That is what submitting is.
LEMMA SubmitStep ==
  ASSUME IInv, PlacesInv, NEW r \in Requests, Submit(r)
  PROVE  \E c \in Cars, k \in Keys, p \in Payloads :
            /\ Enters(r, c, k, p)
            /\ Appends(r, c, k) \/ \E i \in Slots(c, k) : Merges(r, c, k, i)
  <1>1. PICK c \in Cars, k \in Keys, p \in Payloads :
           SubmitMerge(r, c, k, p) \/ SubmitAppend(r, c, k, p)
    BY DEF Submit
  <1>2. Enter(r, c, k, p)
    BY <1>1 DEF SubmitMerge, SubmitAppend
  <1>3. /\ req[r] = None /\ req' = [req EXCEPT ![r] = [car |-> c, key |-> k, payload |-> p]]
        /\ arrived' = Append(arrived, r)
        /\ UNCHANGED <<now, perKey, lastOK, worker, job, result, taken, answers>>
    BY <1>2 DEF Enter, workVars
  <1>4. DOMAIN req = Requests /\ arrived \in Seq(Requests) /\ pending \in [Cars -> Seq(Requests)]
        /\ replaced \in [Requests -> Requests \cup {None}]
    BY DEF IInv, TypeOK
  <1>5. /\ answers[r] = <<>> /\ \A w \in Requests : job[w] # r
    BY <1>3, FreshRequest
  <1>6. replaced[r] = None
    BY <1>3 DEF PlacesInv, ArrivedOnce, Submitted
  <1>7. /\ req'[r] = [car |-> c, key |-> k, payload |-> p] /\ req'[r] # None
        /\ \A s \in Requests : s # r => req'[s] = req[s]
    BY <1>3, <1>4, CommandIsSome
  <1>8. CASE SubmitAppend(r, c, k, p)
    <2>1. /\ momentary(k) \/ Slots(c, k) = {}
          /\ pending' = [pending EXCEPT ![c] = Append(@, r)] /\ replaced' = replaced
      BY <1>8 DEF SubmitAppend
    <2>2. Appends(r, c, k) /\ \A d \in Cars : d # c => pending'[d] = pending[d]
      BY <1>4, <2>1 DEF Appends
    <2> QED
      BY <1>3, <1>4, <1>5, <1>6, <1>7, <2>1, <2>2 DEF Enters, Submitted
  <1>9. CASE SubmitMerge(r, c, k, p)
    <2>1. PICK i \in Slots(c, k) :
             /\ replaced' = [replaced EXCEPT ![r] = pending[c][i]]
             /\ pending' = [pending EXCEPT ![c] = [@ EXCEPT ![i] = r]]
      BY <1>9 DEF SubmitMerge
    <2>2. ~momentary(k)
      BY <1>9 DEF SubmitMerge
    <2>3. pending[c][i] \in Requests
      BY <1>4, <2>1, ElementOfSeq DEF Slots
    <2>4. /\ pending'[c] = [pending[c] EXCEPT ![i] = r]
          /\ \A d \in Cars : d # c => pending'[d] = pending[d]
      BY <1>4, <2>1
    <2>5. replaced'[r] = pending[c][i] /\ \A s \in Requests : s # r => replaced'[s] = replaced[s]
      BY <1>4, <2>1
    <2>6. Merges(r, c, k, i)
      BY <2>1, <2>2, <2>3, <2>4, <2>5 DEF Merges
    <2>7. Enters(r, c, k, p)
      BY <1>3, <1>4, <1>5, <1>6, <1>7, <2>4, <2>5 DEF Enters, Submitted
    <2> QED
      BY <2>1, <2>6, <2>7
  <1> QED
    BY <1>1, <1>8, <1>9

\* A step is one of these.
LEMMA Kinds ==
  ASSUME IInv, PlacesInv, [Next]_vars
  PROVE  \/ Still
         \/ \E x \in Requests : AnswersOld(x)
         \/ \E r \in Requests, c \in Cars, k \in Keys, p \in Payloads :
               /\ Enters(r, c, k, p)
               /\ Appends(r, c, k) \/ \E i \in Slots(c, k) : Merges(r, c, k, i)
         \/ \E w \in Requests : Take(w)
         \/ \E w \in Requests, o \in HandlerOutcomes : Returns(w, o)
         \/ \E w, r \in Requests, c \in Cars : Records(w, c, r)
         \/ \E w, r \in Requests, o \in Outcomes : AnswersJob(w, r, o)
  BY StillStep, AnswersOldStep, SubmitStep, ReturnsStep, RecordsStep, AnswersJobStep
     DEF Next, CallerStep, WorkerStep

(***************************************************************************)
(* Places and verdicts.                                                    *)
(***************************************************************************)

\* Without a request taken, the places stay, and a job in hand is still the last.
LEMMA PlacesQuiet ==
  ASSUME IInv, PlacesInv, [Next]_vars,
         taken' = taken, now' >= now, now' \in Nat,
         \A r \in Requests : answers[r] # <<>> => answers'[r] # <<>>,
         \A w \in Requests : job[w] # None =>
            job'[w] = job[w] \/ (job'[w] = None /\ answers'[job[w]] # <<>>),
         \A w \in Requests : job[w] = None => job'[w] = None
  PROVE  TakenOnce' /\ JobIsLast'
  <1>1. \A r \in Requests : Submitted(r) => req'[r] = req[r]
    BY CommandsStay
  <1>2. \A r, w \in Requests : job[w] = r => job'[w] = r \/ answers'[r] # <<>>
    BY OrderConstants
  <1>3. TakenOnce'
    BY <1>1, <1>2, TakenQuiet
  <1>4. ASSUME NEW w \in Requests, job'[w] # None
        PROVE  LET d == req'[w].car
               IN  Len(taken[d]) > 0 /\ taken[d][Len(taken[d])].req = job'[w]
    <2>1. job[w] # None /\ job'[w] = job[w]
      BY <1>4
    <2>2. worker[w] # "absent"
      BY <2>1 DEF IInv, Ownership, Threads, Busy
    <2>3. req'[w] = req[w]
      BY <1>1, <2>2, WorkerCar DEF Submitted
    <2> QED
      BY <2>1, <2>3 DEF PlacesInv, JobIsLast, ReqAt, CarOf
  <1>5. JobIsLast'
    BY <1>4 DEF JobIsLast, ReqAt, CarOf
  <1> QED
    BY <1>3, <1>5

\* What the verdicts say of one place, and of one answer.
PlaceVerdict(c, i) ==
  /\ taken[c][i].refusal \in {None, "duplicate", "capped"}
  /\ answers[ReqAt(c, i)] # <<>> => Verdict(taken[c][i].refusal, answers[ReqAt(c, i)][1])
  /\ \A w \in Requests : job[w] = ReqAt(c, i) =>
        \/ taken[c][i].refusal = None /\ result[w] = None
        \/ Verdict(taken[c][i].refusal, result[w])
AnswerPlaced(r) ==
  answers[r] # <<>> /\ answers[r][1] # "replaced" =>
     \E i \in Places(CarOf(r)) : ReqAt(CarOf(r), i) = r

\* The verdicts, place by place and answer by answer.
LEMMA VerdictsParts ==
  Verdicts <=> /\ \A c \in Cars : \A i \in Places(c) : PlaceVerdict(c, i)
               /\ \A r \in Requests : AnswerPlaced(r)
  BY DEF Verdicts, PlaceVerdict, AnswerPlaced

\* Steps that give no answer and take nothing leave the verdicts, but for a result that
\* the handler returns.
LEMMA VerdictsQuiet ==
  ASSUME IInv, PlacesInv, [Next]_vars, taken' = taken, answers' = answers, job' = job,
         \A w \in Requests : job[w] # None =>
            result'[w] = result[w] \/ (result[w] = None /\ result'[w] \in HandlerOutcomes)
  PROVE  Verdicts'
  <1>1. \A r \in Requests : Submitted(r) => req'[r] = req[r]
    BY CommandsStay
  <1>2. ASSUME NEW c \in Cars, NEW i \in Places(c)
        PROVE  PlaceVerdict(c, i)'
    <2>1. PlaceVerdict(c, i)
      BY <1>2, VerdictsParts DEF PlacesInv
    <2>2. ReqAt(c, i) \in Requests
      BY <1>2, PlaceTyped DEF IInv, ReqAt, Places
    <2>3. ASSUME NEW w \in Requests, job[w] = ReqAt(c, i)
          PROVE  \/ taken[c][i].refusal = None /\ result'[w] = None
                 \/ Verdict(taken[c][i].refusal, result'[w])
      <3>1. job[w] # None
        BY <2>2, <2>3, OrderConstants
      <3>2. None \notin HandlerOutcomes /\ None # "duplicate" /\ None # "capped"
        BY OrderConstants DEF Outcomes, Refusals, HandlerOutcomes
      <3> QED
        BY <2>1, <2>3, <3>1, <3>2 DEF PlaceVerdict, Verdict
    <2> QED
      BY <2>1, <2>3 DEF PlaceVerdict, ReqAt, Verdict
  <1>3. ASSUME NEW r \in Requests
        PROVE  AnswerPlaced(r)'
    <2>1. AnswerPlaced(r)
      BY VerdictsParts DEF PlacesInv
    <2>2. answers[r] # <<>> => Submitted(r)
      BY DEF IInv, Ownership, AnswersLate
    <2> QED
      BY <1>1, <2>1, <2>2 DEF AnswerPlaced, Places, ReqAt, CarOf
  <1>4. \A c \in Cars : \A i \in Places(c)' : PlaceVerdict(c, i)'
    BY <1>2 DEF Places
  <1> QED
    BY <1>3, <1>4 DEF Verdicts, PlaceVerdict, AnswerPlaced

\* Who is answered as replaced has no place.
LEMMA VerdictsOld ==
  ASSUME IInv, PlacesInv, NEW x \in Requests, AnswersOld(x)
  PROVE  Verdicts'
  <1>1. \A c \in Cars : \A i \in Places(c) : ReqAt(c, i) \in Requests /\ ReqAt(c, i) # x
    BY PlaceTyped DEF AnswersOld, PlacesInv, TakenOnce, IInv, ReqAt, Places
  <1>2. ASSUME NEW c \in Cars, NEW i \in Places(c)
        PROVE  PlaceVerdict(c, i)'
    <2>1. PlaceVerdict(c, i)
      BY <1>2, VerdictsParts DEF PlacesInv
    <2>2. answers'[ReqAt(c, i)] = answers[ReqAt(c, i)]
      BY <1>1 DEF AnswersOld
    <2> QED
      BY <2>1, <2>2 DEF PlaceVerdict, ReqAt, AnswersOld
  <1>3. ASSUME NEW r \in Requests
        PROVE  AnswerPlaced(r)'
    <2>1. AnswerPlaced(r)
      BY VerdictsParts DEF PlacesInv
    <2>2. CASE r # x
      BY <2>1, <2>2 DEF AnswerPlaced, AnswersOld, Places, ReqAt, CarOf
    <2>3. CASE r = x
      <3>1. answers'[r][1] = "replaced"
        BY <2>3 DEF AnswersOld
      <3> QED
        BY <3>1 DEF AnswerPlaced
    <2> QED
      BY <2>2, <2>3
  <1>4. \A c \in Cars : \A i \in Places(c)' : PlaceVerdict(c, i)'
    BY <1>2 DEF Places, AnswersOld
  <1> QED
    BY <1>3, <1>4 DEF Verdicts, PlaceVerdict, AnswerPlaced

\* The worker's answer is the one it had in hand.
LEMMA VerdictsJob ==
  ASSUME IInv, PlacesInv, NEW w \in Requests, NEW r \in Requests, NEW o \in Outcomes,
         AnswersJob(w, r, o)
  PROVE  Verdicts'
  <1>1. worker[w] = "answering" /\ r = job[w] /\ o = result[w] /\ o # None
    BY OrderConstants DEF AnswersJob
  <1>2. PICK d \in Cars : d = CarOf(w) /\ CarOf(r) = d /\ Len(taken[d]) \in 1..Len(taken[d])
                          /\ ReqAt(d, Len(taken[d])) = r
    BY <1>1, Answering
  <1>3. ASSUME NEW c \in Cars, NEW i \in Places(c)
        PROVE  PlaceVerdict(c, i)'
    <2>1. PlaceVerdict(c, i) /\ ReqAt(c, i) \in Requests
      BY <1>3, VerdictsParts, PlaceTyped DEF PlacesInv, IInv, Places, ReqAt
    <2>2. CASE ReqAt(c, i) # r
      <3>1. answers'[ReqAt(c, i)] = answers[ReqAt(c, i)]
        BY <2>1, <2>2 DEF AnswersJob
      <3>2. ASSUME NEW v \in Requests, job'[v] = ReqAt(c, i)
            PROVE  job[v] = ReqAt(c, i) /\ result'[v] = result[v]
        BY <2>1, <3>2, OrderConstants DEF AnswersJob
      <3> QED
        BY <2>1, <3>1, <3>2 DEF PlaceVerdict, ReqAt, AnswersJob
    <2>3. CASE ReqAt(c, i) = r
      <3>1. Verdict(taken[c][i].refusal, o)
        BY <1>1, <2>1, <2>3 DEF PlaceVerdict
      <3>2. answers'[r][1] = o
        BY DEF AnswersJob
      <3>3. \A v \in Requests : job'[v] # r
        BY OrderConstants DEF AnswersJob
      <3> QED
        BY <2>1, <2>3, <3>1, <3>2, <3>3 DEF PlaceVerdict, ReqAt, AnswersJob
    <2> QED
      BY <2>2, <2>3
  <1>4. ASSUME NEW s \in Requests
        PROVE  AnswerPlaced(s)'
    <2>1. AnswerPlaced(s)
      BY VerdictsParts DEF PlacesInv
    <2>2. CASE s # r
      BY <2>1, <2>2 DEF AnswerPlaced, AnswersJob, Places, ReqAt, CarOf
    <2>3. CASE s = r
      BY <1>2, <2>3 DEF AnswerPlaced, AnswersJob, Places, ReqAt, CarOf
    <2> QED
      BY <2>2, <2>3
  <1>5. \A c \in Cars : \A i \in Places(c)' : PlaceVerdict(c, i)'
    BY <1>3 DEF Places, AnswersJob
  <1> QED
    BY <1>4, <1>5 DEF Verdicts, PlaceVerdict, AnswerPlaced

\* What is taken has the refusal its worker has in hand.
LEMMA VerdictsPop ==
  ASSUME IInv, PlacesInv, NEW w \in Requests, NEW o \in {None, "duplicate", "capped"}, Pop(w, o)
  PROVE  Verdicts'
  <1>1. PICK c \in Cars, r \in Requests : Takes(w, o, c, r)
    BY Took
  <1>2. /\ answers[r] = <<>> /\ \A v \in Requests : job[v] # r
        /\ req' = req /\ answers' = answers
        /\ \A v \in Requests : v # w => job'[v] = job[v] /\ result'[v] = result[v]
        /\ job[w] = None /\ job'[w] = r /\ result'[w] = o
        /\ \A d \in Cars : d # c => taken'[d] = taken[d]
    BY <1>1 DEF Takes
  <1>3. /\ Len(taken[c]) \in Nat /\ Len(taken'[c]) = Len(taken[c]) + 1
        /\ 1..Len(taken'[c]) = 1..Len(taken[c]) \cup {Len(taken[c]) + 1}
        /\ \A i \in 1..Len(taken[c]) : taken'[c][i] = taken[c][i] /\ i < Len(taken[c]) + 1
        /\ taken'[c][Len(taken[c]) + 1] = [req |-> r, at |-> now, refusal |-> o]
    BY <1>1 DEF Takes
  <1>4. ASSUME NEW d \in Cars, NEW i \in 1..Len(taken[d]), taken'[d][i] = taken[d][i]
        PROVE  PlaceVerdict(d, i)'
    <2>1. PlaceVerdict(d, i) /\ ReqAt(d, i) \in Requests /\ ReqAt(d, i) # r
      BY <1>2, VerdictsParts, PlaceTyped DEF PlacesInv, IInv, Places, ReqAt, TakenOnce
    <2>2. \A v \in Requests : job'[v] = ReqAt(d, i) =>
             job[v] = ReqAt(d, i) /\ result'[v] = result[v]
      BY <1>2, <2>1
    <2> QED
      BY <1>2, <1>4, <2>1, <2>2 DEF PlaceVerdict, ReqAt
  <1>5. ASSUME NEW i \in 1..Len(taken'[c]), i = Len(taken[c]) + 1
        PROVE  PlaceVerdict(c, i)'
    <2>1. taken'[c][i].req = r /\ taken'[c][i].refusal = o
      <3>1. taken'[c][i] = [req |-> r, at |-> now, refusal |-> o]
        BY <1>3, <1>5
      <3> QED
        BY <3>1
    <2>2. \A v \in Requests : job'[v] = r => result'[v] = o
      BY <1>2
    <2>3. o = None \/ Verdict(o, o)
      BY DEF Verdict
    <2> QED
      BY <1>2, <2>1, <2>2, <2>3 DEF PlaceVerdict, ReqAt
  <1>6. ASSUME NEW d \in Cars, NEW i \in 1..Len(taken'[d])
        PROVE  PlaceVerdict(d, i)'
    <2>1. CASE d # c
      BY <1>2, <1>4, <2>1
    <2>2. CASE d = c /\ i = Len(taken[c]) + 1
      BY <1>5, <2>2
    <2>3. CASE d = c /\ i # Len(taken[c]) + 1
      BY <1>3, <1>4, <2>3
    <2> QED
      BY <2>1, <2>2, <2>3
  <1>7. ASSUME NEW s \in Requests
        PROVE  AnswerPlaced(s)'
    <2>1. AnswerPlaced(s)
      BY VerdictsParts DEF PlacesInv
    <2>2. SUFFICES ASSUME answers[s] # <<>> /\ answers[s][1] # "replaced"
                   PROVE  \E i \in 1..Len(taken'[CarOf(s)]) : taken'[CarOf(s)][i].req = s
      BY <1>2 DEF AnswerPlaced, Places, ReqAt, CarOf
    <2>3. PICK i \in 1..Len(taken[CarOf(s)]) : taken[CarOf(s)][i].req = s
      BY <2>1, <2>2 DEF AnswerPlaced, Places, ReqAt
    <2>4. CarOf(s) \in Cars
      BY <2>2, CommandParts DEF IInv, Ownership, AnswersLate, Submitted
    <2>5. CASE CarOf(s) # c
      BY <1>2, <2>3, <2>4, <2>5
    <2>6. CASE CarOf(s) = c
      BY <1>3, <2>3, <2>6
    <2> QED
      BY <2>5, <2>6
  <1> QED
    BY <1>6, <1>7 DEF Verdicts, PlaceVerdict, AnswerPlaced, Places

\* Places and verdicts hold after every step.
LEMMA PlacesStep ==
  ASSUME IInv, PlacesInv, [Next]_vars
  PROVE  PlacesInv'
  <1>1. ArrivedOnce'
    BY ArrivedStep
  <1>0. now \in Nat
    BY OrderConstants DEF IInv, TypeOK
  <1>2. CASE Still
    <2>1. TakenOnce' /\ JobIsLast'
      BY <1>2, PlacesQuiet DEF Still
    <2>2. Verdicts'
      BY <1>2, VerdictsQuiet DEF Still
    <2> QED
      BY <1>1, <2>1, <2>2 DEF PlacesInv
  <1>3. CASE \E x \in Requests : AnswersOld(x)
    <2>1. PICK x \in Requests : AnswersOld(x)
      BY <1>3
    <2>2. \A r \in Requests : answers[r] # <<>> => answers'[r] # <<>>
      BY <2>1 DEF AnswersOld
    <2>3. TakenOnce' /\ JobIsLast'
      BY <1>0, <2>1, <2>2, PlacesQuiet DEF AnswersOld
    <2> QED
      BY <1>1, <2>1, <2>3, VerdictsOld DEF PlacesInv
  <1>4. CASE \E r \in Requests, c \in Cars, k \in Keys, p \in Payloads : Enters(r, c, k, p)
    <2>1. TakenOnce' /\ JobIsLast'
      BY <1>0, <1>4, PlacesQuiet DEF Enters
    <2>2. Verdicts'
      BY <1>4, VerdictsQuiet DEF Enters
    <2> QED
      BY <1>1, <2>1, <2>2 DEF PlacesInv
  <1>5. CASE \E w \in Requests : Take(w)
    BY <1>1, <1>5, TakeIsPop, TakenPop, VerdictsPop DEF PlacesInv
  <1>6. CASE \E w \in Requests, o \in HandlerOutcomes : Returns(w, o)
    <2>1. TakenOnce' /\ JobIsLast'
      BY <1>0, <1>6, PlacesQuiet DEF Returns
    <2>2. Verdicts'
      <3>1. PICK w \in Requests, o \in HandlerOutcomes : Returns(w, o)
        BY <1>6
      <3>2. \A v \in Requests :
               result'[v] = result[v] \/ (result[v] = None /\ result'[v] \in HandlerOutcomes)
        BY <3>1 DEF Returns
      <3> QED
        BY <3>1, <3>2, VerdictsQuiet DEF Returns
    <2> QED
      BY <1>1, <2>1, <2>2 DEF PlacesInv
  <1>7. CASE \E w, r \in Requests, c \in Cars : Records(w, c, r)
    <2>1. TakenOnce' /\ JobIsLast'
      BY <1>0, <1>7, PlacesQuiet DEF Records
    <2>2. Verdicts'
      BY <1>7, VerdictsQuiet DEF Records
    <2> QED
      BY <1>1, <2>1, <2>2 DEF PlacesInv
  <1>8. CASE \E w, r \in Requests, o \in Outcomes : AnswersJob(w, r, o)
    <2>1. PICK w \in Requests, r \in Requests, o \in Outcomes : AnswersJob(w, r, o)
      BY <1>8
    <2>2. /\ \A s \in Requests : answers[s] # <<>> => answers'[s] # <<>>
          /\ answers'[r] # <<>>
      BY <2>1 DEF AnswersJob
    <2>3. \A v \in Requests :
             job'[v] = job[v] \/ (job'[v] = None /\ answers'[job[v]] # <<>>)
      BY <2>1, <2>2 DEF AnswersJob
    <2>4. \A v \in Requests : job[v] = None => job'[v] = None
      BY <2>1 DEF AnswersJob
    <2>5. now' = now /\ taken' = taken
      BY <2>1 DEF AnswersJob
    <2>6. TakenOnce' /\ JobIsLast'
      BY <1>0, <2>2, <2>3, <2>4, <2>5, PlacesQuiet
    <2> QED
      BY <1>1, <2>1, <2>6, VerdictsJob DEF PlacesInv
  <1> QED
    BY <1>2, <1>3, <1>4, <1>5, <1>6, <1>7, <1>8, Kinds

(***************************************************************************)
(* What was sent, and what lastOK remembers of it.                         *)
(***************************************************************************)

\* Request r was sent, and is recorded as such.
SentAndRecorded(r) ==
  \/ Answered(r, "sent")
  \/ \E w \in Requests : job[w] = r /\ worker[w] = "answering" /\ result[w] = "sent"

\* What the invariant of the records says, in its two parts.
LEMMA RecordedParts ==
  \A c, k : Recorded(c, k) =
     {i \in Places(c) : KeyOf(ReqAt(c, i)) = k /\ SentAndRecorded(ReqAt(c, i))}
  BY DEF Recorded, SentAndRecorded

\* The initial states have sent nothing.
LEMMA RecordedInit == Init => RecordedInv
  <1> SUFFICES ASSUME Init PROVE RecordedInv
    OBVIOUS
  <1>1. \A c \in Cars : Places(c) = {}
    BY DEF Init, Places
  <1>2. \A c \in Cars, k \in Keys : lastOK[c][k] = None /\ Recorded(c, k) = {}
    BY <1>1 DEF Init, Recorded
  <1> QED
    BY <1>1, <1>2 DEF RecordedInv, LastIsRecorded, DuplicatesTrue

\* While the places, their commands and what was recorded of them stay, the sets stay.
LEMMA SameRecorded ==
  ASSUME NEW c \in Cars, taken'[c] = taken[c],
         \A i \in Places(c) : /\ req'[ReqAt(c, i)] = req[ReqAt(c, i)]
                              /\ SentAndRecorded(ReqAt(c, i))' <=> SentAndRecorded(ReqAt(c, i))
  PROVE  /\ Places(c)' = Places(c)
         /\ \A i \in Places(c) : ReqAt(c, i)' = ReqAt(c, i) /\ ValueAt(c, i)' = ValueAt(c, i)
                                 /\ KeyOf(ReqAt(c, i))' = KeyOf(ReqAt(c, i))
         /\ \A k : Recorded(c, k)' = Recorded(c, k)
  <1>1. /\ Places(c)' = Places(c)
        /\ \A i \in Places(c) : taken'[c][i] = taken[c][i]
    BY DEF Places
  <1>2. \A i \in Places(c) : ReqAt(c, i)' = ReqAt(c, i) /\ ValueAt(c, i)' = ValueAt(c, i)
                             /\ KeyOf(ReqAt(c, i))' = KeyOf(ReqAt(c, i))
    BY <1>1 DEF ReqAt, ValueAt, KeyOf, normPayload
  <1>3. \A i \in Places(c) : SentAndRecorded(ReqAt(c, i))' <=> SentAndRecorded(ReqAt(c, i))
    OBVIOUS
  <1>4. \A k : Recorded(c, k)' =
           {i \in Places(c) : KeyOf(ReqAt(c, i))' = k /\ SentAndRecorded(ReqAt(c, i))'}
    BY <1>1 DEF Recorded, SentAndRecorded
  <1>5. \A k : Recorded(c, k)' = Recorded(c, k)
    BY <1>2, <1>3, <1>4, RecordedParts
  <1> QED
    BY <1>1, <1>2, <1>5

\* What DuplicatesTrue says of one place, and LastIsRecorded of one key.
DuplicateTrue(c, k, j) ==
  /\ taken[c][j].refusal = None =>
        \A i \in Places(c) : LastBefore(c, k, i, j) /\ ValueAt(c, i) = ValueAt(c, j) =>
           taken[c][j].at - taken[c][i].at >= DuplicateWindow
  /\ taken[c][j].refusal = "duplicate" =>
        \E i \in Places(c) : LastBefore(c, k, i, j) /\ ValueAt(c, i) = ValueAt(c, j)
LastRecorded(c, k) ==
  IF lastOK[c][k] = None THEN Recorded(c, k) = {}
  ELSE \E i \in Recorded(c, k) :
         /\ \A m \in Recorded(c, k) : m <= i
         /\ ValueAt(c, i) = lastOK[c][k].payload
         /\ taken[c][i].at <= lastOK[c][k].at

\* The invariant of the records, car by car and key by key.
LEMMA RecordedSplit ==
  RecordedInv <=>
     /\ \A c \in Cars, k \in Keys : LastRecorded(c, k)
     /\ \A c \in Cars, k \in Keys \ Momentary : \A j \in Places(c) :
           KeyOf(ReqAt(c, j)) = k => DuplicateTrue(c, k, j)
  BY DEF RecordedInv, LastIsRecorded, DuplicatesTrue, LastRecorded, DuplicateTrue

\* What was true of a place stays true while the places before it and their records stay.
LEMMA DuplicateStays ==
  ASSUME NEW c \in Cars, NEW k, NEW j \in Places(c), DuplicateTrue(c, k, j),
         \A i \in Places(c) : /\ i \in Places(c)' /\ taken'[c][i] = taken[c][i]
                              /\ ValueAt(c, i)' = ValueAt(c, i),
         \A i : LastBefore(c, k, i, j)' <=> LastBefore(c, k, i, j)
  PROVE  DuplicateTrue(c, k, j)'
  <1>1. \A i : LastBefore(c, k, i, j) => i \in Places(c)
    BY DEF LastBefore, Recorded
  <1> QED
    BY <1>1 DEF DuplicateTrue

\* A record that stays, with its places, is still of the last execution.
LEMMA LastStays ==
  ASSUME NEW c \in Cars, NEW k, LastRecorded(c, k), lastOK'[c][k] = lastOK[c][k],
         Recorded(c, k)' = Recorded(c, k),
         \A i \in Places(c) : taken'[c][i] = taken[c][i] /\ ValueAt(c, i)' = ValueAt(c, i)
  PROVE  LastRecorded(c, k)'
  <1>1. \A i \in Recorded(c, k) : i \in Places(c)
    BY DEF Recorded
  <1> QED
    BY <1>1 DEF LastRecorded

\* Steps that take nothing and record nothing.
LEMMA RecordedQuiet ==
  ASSUME IInv, PlacesInv, RecordedInv, [Next]_vars, taken' = taken, lastOK' = lastOK,
         \A r \in Requests : SentAndRecorded(r)' <=> SentAndRecorded(r)
  PROVE  RecordedInv'
  <1>1. ASSUME NEW c \in Cars
        PROVE  /\ Places(c)' = Places(c)
               /\ \A i \in Places(c) : ReqAt(c, i)' = ReqAt(c, i) /\ ValueAt(c, i)' = ValueAt(c, i)
                                       /\ KeyOf(ReqAt(c, i))' = KeyOf(ReqAt(c, i))
               /\ \A k : Recorded(c, k)' = Recorded(c, k)
    <2>1. \A i \in Places(c) : ReqAt(c, i) \in Requests /\ Submitted(ReqAt(c, i))
      BY PlaceTyped DEF IInv, PlacesInv, TakenOnce, Places, ReqAt
    <2>2. ASSUME NEW i \in Places(c)
          PROVE  /\ req'[ReqAt(c, i)] = req[ReqAt(c, i)]
                 /\ SentAndRecorded(ReqAt(c, i))' <=> SentAndRecorded(ReqAt(c, i))
      <3>1. req'[ReqAt(c, i)] = req[ReqAt(c, i)]
        BY <2>1, CommandsStay
      <3>2. PICK r \in Requests : r = ReqAt(c, i)
        BY <2>1
      <3>3. ReqAt(c, i)' = r
        BY <3>2 DEF ReqAt
      <3>4. SentAndRecorded(r)' <=> SentAndRecorded(ReqAt(c, i))'
        BY <3>3 DEF SentAndRecorded, Answered
      <3> QED
        BY <3>1, <3>2, <3>4
    <2> QED
      BY <2>2, SameRecorded
  <1>2. ASSUME NEW c \in Cars, NEW k \in Keys
        PROVE  LastRecorded(c, k)'
    BY <1>1, LastStays, RecordedSplit
  <1>3. ASSUME NEW c \in Cars, NEW k \in Keys \ Momentary, NEW j \in Places(c)',
               KeyOf(ReqAt(c, j))' = k
        PROVE  DuplicateTrue(c, k, j)'
    <2>1. j \in Places(c) /\ DuplicateTrue(c, k, j)
      BY <1>1, <1>3, RecordedSplit
    <2>2. \A i : LastBefore(c, k, i, j)' <=> LastBefore(c, k, i, j)
      BY <1>1 DEF LastBefore
    <2> QED
      BY <1>1, <2>1, <2>2, DuplicateStays
  <1> QED
    BY <1>2, <1>3 DEF RecordedInv, LastIsRecorded, DuplicatesTrue, LastRecorded, DuplicateTrue

\* Only recording makes a request sent.
LEMMA SentStays ==
  ASSUME IInv, PlacesInv, [Next]_vars,
         \/ Still
         \/ \E x \in Requests : AnswersOld(x)
         \/ \E r \in Requests, c \in Cars, k \in Keys, p \in Payloads : Enters(r, c, k, p)
         \/ \E w \in Requests, o \in HandlerOutcomes : Returns(w, o)
         \/ \E w, r \in Requests, o \in Outcomes : AnswersJob(w, r, o)
  PROVE  \A r \in Requests : SentAndRecorded(r)' <=> SentAndRecorded(r)
  <1> SUFFICES ASSUME NEW s \in Requests
               PROVE  SentAndRecorded(s)' <=> SentAndRecorded(s)
    OBVIOUS
  <1>0. None # s
    BY OrderConstants
  <1>1. CASE Still
    BY <1>0, <1>1 DEF Still, SentAndRecorded, Answered
  <1>2. CASE \E x \in Requests : AnswersOld(x)
    <2>1. PICK x \in Requests : AnswersOld(x)
      BY <1>2
    <2>2. Answered(s, "sent")' <=> Answered(s, "sent")
      BY <2>1 DEF AnswersOld, Answered
    <2> QED
      BY <2>1, <2>2 DEF AnswersOld, SentAndRecorded
  <1>3. CASE \E r \in Requests, c \in Cars, k \in Keys, p \in Payloads : Enters(r, c, k, p)
    BY <1>3 DEF Enters, SentAndRecorded, Answered
  <1>4. CASE \E w \in Requests, o \in HandlerOutcomes : Returns(w, o)
    <2>1. PICK w \in Requests, o \in HandlerOutcomes : Returns(w, o)
      BY <1>4
    <2>2. \A v \in Requests : (worker'[v] = "answering" /\ result'[v] = "sent")
                              <=> (worker[v] = "answering" /\ result[v] = "sent")
      BY <2>1 DEF Returns
    <2> QED
      BY <2>1, <2>2 DEF Returns, SentAndRecorded, Answered
  <1>5. CASE \E w, r \in Requests, o \in Outcomes : AnswersJob(w, r, o)
    <2>1. PICK w \in Requests, r \in Requests, o \in Outcomes : AnswersJob(w, r, o)
      BY <1>5
    <2>2. CASE s # r
      <3>1. Answered(s, "sent")' <=> Answered(s, "sent")
        BY <2>1, <2>2 DEF AnswersJob, Answered
      <3>2. ASSUME NEW v \in Requests
            PROVE  (job'[v] = s /\ worker'[v] = "answering" /\ result'[v] = "sent")
                   <=> (job[v] = s /\ worker[v] = "answering" /\ result[v] = "sent")
        BY <1>0, <2>1, <2>2 DEF AnswersJob
      <3> QED
        BY <3>1, <3>2 DEF SentAndRecorded
    <2>3. CASE s = r
      <3>1. Answered(r, "sent")' <=> o = "sent"
        BY <2>1 DEF AnswersJob, Answered
      <3>2. ~Answered(r, "sent") /\ \A v \in Requests : job'[v] # r
        BY <1>0, <2>1, <2>3 DEF AnswersJob, Answered
      <3>3. (\E v \in Requests : job[v] = r /\ worker[v] = "answering" /\ result[v] = "sent")
            <=> o = "sent"
        BY <2>1 DEF AnswersJob
      <3> QED
        BY <2>3, <3>1, <3>2, <3>3 DEF SentAndRecorded
    <2> QED
      BY <2>2, <2>3
  <1> QED
    BY <1>1, <1>2, <1>3, <1>4, <1>5

\* Recording adds the last place to those of its key, and lastOK is its value.
LEMMA RecordedRecords ==
  ASSUME IInv, PlacesInv, RecordedInv, NEW w \in Requests, NEW r \in Requests, NEW c \in Cars,
         Records(w, c, r)
  PROVE  RecordedInv'
  <1>0. PICK n, key : n = Len(taken[c]) /\ key = KeyOf(r)
    OBVIOUS
  <1>1. /\ taken' = taken /\ req' = req /\ answers' = answers /\ job' = job /\ result' = result
        /\ c = CarOf(w) /\ r = job[w] /\ key \in Keys
        /\ worker[w] = "recording" /\ worker'[w] = "answering" /\ result[w] = "sent"
        /\ \A v \in Requests : v # w => worker'[v] = worker[v]
        /\ lastOK'[c][key] = [payload |-> normPayload(req[r].payload), at |-> now]
        /\ \A d \in Cars, k \in Keys : d # c \/ k # key => lastOK'[d][k] = lastOK[d][k]
    BY <1>0 DEF Records
  <1>2. n \in Places(c) /\ ReqAt(c, n) = r
    BY <1>0, <1>1, Answering DEF Places
  <1>3. \A i \in Places(c), d \in Cars : \A j \in Places(d) :
           ReqAt(c, i) = ReqAt(d, j) => c = d
    BY DEF PlacesInv, TakenOnce
  <1>4. \A d \in Cars : \A i \in Places(d) : ReqAt(d, i) = r => d = c /\ i = n
    BY <1>2, <1>3 DEF PlacesInv, TakenOnce
  <1>5. \A s : SentAndRecorded(s)' <=> SentAndRecorded(s) \/ s = r
    BY <1>1 DEF SentAndRecorded, Answered
  <1>6. /\ \A d : Places(d)' = Places(d)
        /\ \A d, i : ReqAt(d, i)' = ReqAt(d, i) /\ ValueAt(d, i)' = ValueAt(d, i)
        /\ \A d, i : KeyOf(ReqAt(d, i))' = KeyOf(ReqAt(d, i)) /\ taken'[d][i] = taken[d][i]
    BY <1>1 DEF Places, ReqAt, ValueAt, KeyOf
  <1>7. \A d, k : Recorded(d, k)' =
           {i \in Places(d) : /\ KeyOf(ReqAt(d, i)) = k
                              /\ SentAndRecorded(ReqAt(d, i)) \/ ReqAt(d, i) = r}
    <2>1. \A d, k : Recorded(d, k)' =
             {i \in Places(d) : /\ KeyOf(ReqAt(d, i))' = k /\ SentAndRecorded(ReqAt(d, i))'}
      BY <1>6 DEF Recorded, SentAndRecorded
    <2>2. \A d, i : SentAndRecorded(ReqAt(d, i))' <=>
                       SentAndRecorded(ReqAt(d, i)) \/ ReqAt(d, i) = r
      BY <1>1, <1>5 DEF ReqAt, SentAndRecorded, Answered
    <2> QED
      BY <1>6, <2>1, <2>2
  <1>8. /\ Recorded(c, key)' = Recorded(c, key) \cup {n}
        /\ \A d \in Cars, k \in Keys : d # c \/ k # key => Recorded(d, k)' = Recorded(d, k)
    <2>1. KeyOf(ReqAt(c, n)) = key
      BY <1>0, <1>2
    <2>2. Recorded(c, key)' = Recorded(c, key) \cup {n}
      BY <1>2, <1>4, <1>7, <2>1, RecordedParts
    <2>3. ASSUME NEW d \in Cars, NEW k \in Keys, d # c \/ k # key
          PROVE  Recorded(d, k)' = Recorded(d, k)
      BY <1>4, <1>7, <2>1, <2>3, RecordedParts
    <2> QED
      BY <2>2, <2>3
  <1>9. n \in Nat /\ \A m \in Places(c) : m \in Nat /\ m <= n
    BY <1>0, <1>2 DEF Places
  <1>10. ASSUME NEW d \in Cars, NEW k \in Keys
         PROVE  LastRecorded(d, k)'
    <2>1. CASE d # c \/ k # key
      BY <1>1, <1>6, <1>8, <2>1, LastStays, RecordedSplit
    <2>2. CASE d = c /\ k = key
      <3>1. lastOK'[c][key] # None
        <4>1. now \in Times /\ req[r].payload \in Payloads
          BY <1>2, CommandParts DEF IInv, TypeOK, PlacesInv, TakenOnce, Submitted
        <4> QED
          BY <1>1, <4>1, DispatcherAssumption DEF Times, normPayload
      <3>2. n \in Recorded(c, key)' /\ \A m \in Recorded(c, key)' : m <= n
        BY <1>8, <1>9 DEF Recorded
      <3>3. ValueAt(c, n)' = lastOK'[c][key].payload
        <4>1. ValueAt(c, n) = normPayload(req[r].payload)
          BY <1>2 DEF ValueAt, ReqAt
        <4>2. ValueAt(c, n)' = ValueAt(c, n)
          BY <1>1 DEF ValueAt
        <4> QED
          BY <1>1, <4>1, <4>2
      <3>4. taken'[c][n].at <= lastOK'[c][key].at
        BY <1>1, <1>2 DEF PlacesInv, TakenOnce
      <3>5. PICK i : i = n
        OBVIOUS
      <3>6. i \in Recorded(c, key)' /\ (\A m \in Recorded(c, key)' : m <= i)
            /\ ValueAt(c, i)' = lastOK'[c][key].payload /\ taken'[c][i].at <= lastOK'[c][key].at
        BY <1>1, <3>2, <3>3, <3>4, <3>5 DEF ValueAt
      <3> QED
        BY <2>2, <3>1, <3>6 DEF LastRecorded
    <2> QED
      BY <2>1, <2>2
  <1>11. ASSUME NEW d \in Cars, NEW k \in Keys \ Momentary, NEW j \in Places(d)',
                KeyOf(ReqAt(d, j))' = k
         PROVE  DuplicateTrue(d, k, j)'
    <2>1. j \in Places(d) /\ DuplicateTrue(d, k, j)
      BY <1>6, <1>11, RecordedSplit
    <2>2. \A i : LastBefore(d, k, i, j)' <=> LastBefore(d, k, i, j)
      <3>1. CASE d # c \/ k # key
        BY <1>8, <3>1 DEF LastBefore
      <3>2. CASE d = c /\ k = key
        <4>1. j \in Nat /\ j <= n
          BY <1>9, <2>1, <3>2
        <4> QED
          BY <1>8, <1>9, <3>2, <4>1 DEF LastBefore
      <3> QED
        BY <3>1, <3>2
    <2> QED
      BY <1>6, <2>1, <2>2, DuplicateStays
  <1> QED
    BY <1>10, <1>11 DEF RecordedInv, LastIsRecorded, DuplicatesTrue, LastRecorded, DuplicateTrue

\* The request that is taken is checked against the last value sent.
LEMMA RecordedPop ==
  ASSUME IInv, PlacesInv, RecordedInv, NEW w \in Requests,
         NEW o \in {None, "duplicate", "capped"}, Pop(w, o),
         o = "duplicate" => Duplicate(Head(pending[CarOf(w)])),
         o = None => ~Duplicate(Head(pending[CarOf(w)]))
  PROVE  RecordedInv'
  <1>1. PICK c \in Cars, r \in Requests : Takes(w, o, c, r)
    BY Took
  <1>2. /\ c = CarOf(w) /\ r = Head(pending[c]) /\ CarOf(r) = c
        /\ answers[r] = <<>> /\ \A v \in Requests : job[v] # r
        /\ req' = req /\ answers' = answers /\ lastOK' = lastOK
        /\ \A v \in Requests : v # w =>
              job'[v] = job[v] /\ result'[v] = result[v] /\ worker'[v] = worker[v]
        /\ job[w] = None /\ job'[w] = r /\ result'[w] = o
        /\ \A d \in Cars : d # c => taken'[d] = taken[d]
    BY <1>1 DEF Takes
  <1>0. PICK n : n = Len(taken[c]) + 1
    OBVIOUS
  <1>3. /\ n \in Nat /\ n \in 1..Len(taken'[c])
        /\ 1..Len(taken'[c]) = 1..Len(taken[c]) \cup {n}
        /\ \A i \in 1..Len(taken[c]) : taken'[c][i] = taken[c][i] /\ i < n /\ i \in Nat
        /\ taken'[c][n] = [req |-> r, at |-> now, refusal |-> o]
    BY <1>0, <1>1 DEF Takes
  <1>4. o # "sent" /\ None # "duplicate" /\ None # "sent"
    BY OrderConstants DEF Outcomes, Refusals, HandlerOutcomes
  <1>5. \A s \in Requests : SentAndRecorded(s)' <=> SentAndRecorded(s)
    <2> SUFFICES ASSUME NEW s \in Requests
                 PROVE  SentAndRecorded(s)' <=> SentAndRecorded(s)
      OBVIOUS
    <2>1. ASSUME NEW v \in Requests
          PROVE  (job'[v] = s /\ worker'[v] = "answering" /\ result'[v] = "sent")
                 <=> (job[v] = s /\ worker[v] = "answering" /\ result[v] = "sent")
      BY <1>2, <1>4, OrderConstants
    <2> QED
      BY <1>2, <2>1 DEF SentAndRecorded, Answered
  <1>6. \A d \in Cars : \A i \in Places(d) :
           /\ ReqAt(d, i) \in Requests /\ taken'[d][i] = taken[d][i] /\ i \in Places(d)'
           /\ ReqAt(d, i)' = ReqAt(d, i) /\ ValueAt(d, i)' = ValueAt(d, i)
           /\ KeyOf(ReqAt(d, i))' = KeyOf(ReqAt(d, i))
           /\ SentAndRecorded(ReqAt(d, i))' <=> SentAndRecorded(ReqAt(d, i))
    <2> SUFFICES ASSUME NEW d \in Cars, NEW i \in Places(d)
                 PROVE  /\ ReqAt(d, i) \in Requests /\ taken'[d][i] = taken[d][i]
                        /\ i \in Places(d)'
                        /\ ReqAt(d, i)' = ReqAt(d, i) /\ ValueAt(d, i)' = ValueAt(d, i)
                        /\ KeyOf(ReqAt(d, i))' = KeyOf(ReqAt(d, i))
                        /\ SentAndRecorded(ReqAt(d, i))' <=> SentAndRecorded(ReqAt(d, i))
      OBVIOUS
    <2>1. taken'[d][i] = taken[d][i] /\ i \in Places(d)'
      BY <1>2, <1>3 DEF Places
    <2>2. PICK s \in Requests : s = ReqAt(d, i)
      BY PlaceTyped DEF IInv, Places, ReqAt
    <2>3. ReqAt(d, i)' = s
      BY <2>1, <2>2 DEF ReqAt
    <2>4. SentAndRecorded(ReqAt(d, i))' <=> SentAndRecorded(s)'
      BY <2>3 DEF SentAndRecorded, Answered
    <2> QED
      BY <1>2, <1>5, <2>1, <2>2, <2>3, <2>4 DEF ReqAt, ValueAt, KeyOf, normPayload
  <1>7. ~SentAndRecorded(r)
    BY <1>2 DEF SentAndRecorded, Answered
  <1>8. /\ ReqAt(c, n)' = r /\ KeyOf(ReqAt(c, n))' = KeyOf(r)
        /\ ValueAt(c, n)' = normPayload(req[r].payload)
        /\ ~SentAndRecorded(ReqAt(c, n))'
    <2>1. ReqAt(c, n)' = r
      BY <1>3 DEF ReqAt
    <2>2. SentAndRecorded(ReqAt(c, n))' <=> SentAndRecorded(r)'
      BY <2>1 DEF SentAndRecorded, Answered
    <2> QED
      BY <1>2, <1>5, <1>7, <2>1, <2>2 DEF KeyOf, ReqAt, ValueAt, normPayload
  <1>9. \A d \in Cars, k \in Keys : Recorded(d, k)' = Recorded(d, k)
    <2> SUFFICES ASSUME NEW d \in Cars, NEW k \in Keys
                 PROVE  Recorded(d, k)' = Recorded(d, k)
      OBVIOUS
    <2>1. Recorded(d, k)' =
             {i \in Places(d)' : KeyOf(ReqAt(d, i))' = k /\ SentAndRecorded(ReqAt(d, i))'}
      BY DEF Recorded, SentAndRecorded
    <2>2. CASE d # c
      <3>1. Places(d)' = Places(d)
        BY <1>2, <2>2 DEF Places
      <3> QED
        BY <1>6, <2>1, <3>1, RecordedParts
    <2>3. CASE d = c
      <3>1. Places(d)' = Places(d) \cup {n}
        BY <1>3, <2>3 DEF Places
      <3> QED
        BY <1>6, <1>8, <2>1, <2>3, <3>1, RecordedParts
    <2> QED
      BY <2>2, <2>3
  <1>10. \A d \in Cars, k \in Keys : LastRecorded(d, k)'
    BY <1>2, <1>6, <1>9, LastStays, RecordedSplit
  <1>11. \A d \in Cars, k \in Keys : \A i, j :
            LastBefore(d, k, i, j)' <=> LastBefore(d, k, i, j)
    BY <1>9 DEF LastBefore
  <1>12. ASSUME NEW d \in Cars, NEW k \in Keys \ Momentary, NEW j \in Places(d),
                KeyOf(ReqAt(d, j))' = k
         PROVE  DuplicateTrue(d, k, j)'
    <2>1. DuplicateTrue(d, k, j)
      BY <1>6, <1>12, RecordedSplit
    <2> QED
      BY <1>6, <1>11, <2>1, DuplicateStays
  <1>13. ASSUME NEW k \in Keys \ Momentary, KeyOf(r) = k
         PROVE  DuplicateTrue(c, k, n)'
    <2>1. LastRecorded(c, k) /\ ~momentary(k)
      BY <1>13, RecordedSplit DEF momentary
    <2>2. \A i \in Recorded(c, k) : i \in Places(c) /\ i \in Nat /\ i < n /\ i \in Places(c)'
      BY <1>3, <1>6 DEF Recorded, Places
    <2>3. /\ taken'[c][n].at = now /\ taken'[c][n].refusal = o
      BY <1>3
    <2>4. \A i \in Places(c) : /\ taken'[c][i].at = taken[c][i].at
                               /\ taken[c][i].at \in Nat /\ taken[c][i].at <= now
      BY <1>6, PlaceTyped DEF IInv, PlacesInv, TakenOnce, Places
    <2>5. now \in Nat /\ DuplicateWindow \in Nat /\ lastOK[c][k] \in SentAt \cup {None}
      BY OrderConstants DEF IInv, TypeOK
    <2>6. ASSUME o = None, NEW i \in Places(c)', LastBefore(c, k, i, n),
                 ValueAt(c, i)' = ValueAt(c, n)'
          PROVE  taken'[c][n].at - taken'[c][i].at >= DuplicateWindow
      <3>1. i \in Recorded(c, k) /\ \A m \in Recorded(c, k) : m <= i
        BY <1>3, <2>2, <2>6 DEF LastBefore
      <3>2. lastOK[c][k] # None
        BY <2>1, <3>1 DEF LastRecorded
      <3>3. ValueAt(c, i) = lastOK[c][k].payload /\ taken[c][i].at <= lastOK[c][k].at
        <4>1. PICK j \in Recorded(c, k) : /\ \A m \in Recorded(c, k) : m <= j
                                          /\ ValueAt(c, j) = lastOK[c][k].payload
                                          /\ taken[c][j].at <= lastOK[c][k].at
          BY <2>1, <3>2 DEF LastRecorded
        <4>2. i = j
          BY <2>2, <3>1, <4>1
        <4> QED
          BY <4>1, <4>2
      <3>4. lastOK[c][k].payload = normPayload(req[r].payload)
        BY <1>6, <1>8, <2>2, <2>6, <3>1, <3>3
      <3>5. lastOK[c][k].at \in Nat
        BY <2>5, <3>2, OrderConstants DEF SentAt
      <3>6. ~(DuplicateWindow > 0 /\ now - lastOK[c][k].at < DuplicateWindow)
        BY <1>2, <1>13, <2>1, <2>6, <3>2, <3>4 DEF Duplicate
      <3> QED
        BY <2>2, <2>3, <2>4, <2>5, <3>1, <3>3, <3>5, <3>6
    <2>7. ASSUME o = "duplicate"
          PROVE  \E i \in Places(c)' : LastBefore(c, k, i, n) /\ ValueAt(c, i)' = ValueAt(c, n)'
      <3>1. lastOK[c][k] # None /\ lastOK[c][k].payload = normPayload(req[r].payload)
        BY <1>2, <1>13, <2>7 DEF Duplicate
      <3>2. PICK i \in Recorded(c, k) : /\ \A m \in Recorded(c, k) : m <= i
                                        /\ ValueAt(c, i) = lastOK[c][k].payload
        BY <2>1, <3>1 DEF LastRecorded
      <3>3. LastBefore(c, k, i, n) /\ i \in Places(c)'
        BY <2>2, <3>2 DEF LastBefore
      <3>4. ValueAt(c, i)' = ValueAt(c, n)'
        BY <1>6, <1>8, <2>2, <3>1, <3>2
      <3> QED
        BY <3>3, <3>4
    <2> QED
      BY <1>4, <2>3, <2>6, <2>7, <1>11 DEF DuplicateTrue
  <1>14. ASSUME NEW d \in Cars, NEW k \in Keys \ Momentary, NEW j \in Places(d)',
                KeyOf(ReqAt(d, j))' = k
         PROVE  DuplicateTrue(d, k, j)'
    <2>1. j \in Places(d) \/ (d = c /\ j = n)
      BY <1>2, <1>3 DEF Places
    <2>2. CASE d = c /\ j = n
      BY <1>8, <1>13, <1>14, <2>2
    <2> QED
      BY <1>12, <1>14, <2>1, <2>2
  <1> QED
    BY <1>10, <1>14 DEF RecordedInv, LastIsRecorded, DuplicatesTrue, LastRecorded, DuplicateTrue

\* The records are true after every step.
LEMMA RecordedStep ==
  ASSUME IInv, PlacesInv, RecordedInv, [Next]_vars
  PROVE  RecordedInv'
  <1>1. CASE \/ Still
             \/ \E x \in Requests : AnswersOld(x)
             \/ \E r \in Requests, c \in Cars, k \in Keys, p \in Payloads : Enters(r, c, k, p)
             \/ \E w \in Requests, o \in HandlerOutcomes : Returns(w, o)
             \/ \E w, r \in Requests, o \in Outcomes : AnswersJob(w, r, o)
    <2>1. \A r \in Requests : SentAndRecorded(r)' <=> SentAndRecorded(r)
      BY <1>1, SentStays
    <2>2. taken' = taken /\ lastOK' = lastOK
      BY <1>1 DEF Still, AnswersOld, Enters, Returns, AnswersJob
    <2> QED
      BY <2>1, <2>2, RecordedQuiet
  <1>2. CASE \E w, r \in Requests, c \in Cars : Records(w, c, r)
    BY <1>2, RecordedRecords
  <1>3. CASE \E w \in Requests : Take(w)
    <2>1. PICK w \in Requests, o \in {None, "duplicate", "capped"} :
             Pop(w, o) /\ (o = "duplicate" <=> Duplicate(Head(pending[CarOf(w)])))
      BY <1>3, TakeIsPop
    <2>2. None # "duplicate"
      BY OrderConstants DEF Outcomes, Refusals
    <2> QED
      BY <2>1, <2>2, RecordedPop
  <1> QED
    BY <1>1, <1>2, <1>3, Kinds

(***************************************************************************)
(* The newest request.                                                     *)
(***************************************************************************)

\* What NewestInv says of one key of one car.
NewestPlaced(c, k) ==
  /\ \A i, j \in Slots(c, k) : i = j
  /\ \A n \in 1..Len(arrived) : NewestAt(n, c, k) =>
        /\ \A i \in Slots(c, k) : pending[c][i] = arrived[n]
        /\ Slots(c, k) = {} =>
              \E i \in Places(c) :
                 /\ ReqAt(c, i) = arrived[n]
                 /\ \A j \in Places(c) : KeyOf(ReqAt(c, j)) = k => j <= i

\* The invariant of the newest value, car by car and key by key.
LEMMA NewestSplit == NewestInv <=> \A c \in Cars, k \in Keys \ Momentary : NewestPlaced(c, k)
  BY DEF NewestInv, NewestPlaced

\* Initially nothing waits and nothing was taken.
LEMMA NewestInit == Init => NewestInv
  <1> SUFFICES ASSUME Init PROVE NewestInv
    OBVIOUS
  <1>1. \A c \in Cars, k \in Keys : Slots(c, k) = {}
    BY DEF Init, Slots
  <1>2. 1..Len(arrived) = {}
    BY DEF Init
  <1> QED
    BY <1>1, <1>2 DEF NewestInv

\* Nothing that it speaks of changes.
LEMMA NewestQuiet ==
  ASSUME NewestInv, UNCHANGED <<req, pending, arrived, taken>>
  PROVE  NewestInv'
  BY DEF NewestInv, Slots, NewestAt, IsFor, CarOf, KeyOf, Places, ReqAt

\* Nothing of that key changes.
LEMMA NewestStays ==
  ASSUME NEW d \in Cars, NEW k \in Keys, NewestPlaced(d, k),
         Slots(d, k)' = Slots(d, k),
         \A i \in Slots(d, k) : pending'[d][i] = pending[d][i],
         taken'[d] = taken[d],
         \A i \in Places(d) : req'[ReqAt(d, i)] = req[ReqAt(d, i)],
         \A n \in 1..Len(arrived') : NewestAt(n, d, k)' =>
            n \in 1..Len(arrived) /\ NewestAt(n, d, k) /\ arrived'[n] = arrived[n]
  PROVE  NewestPlaced(d, k)'
  <1>1. /\ Places(d)' = Places(d)
        /\ \A i \in Places(d) : ReqAt(d, i)' = ReqAt(d, i)
                                /\ KeyOf(ReqAt(d, i))' = KeyOf(ReqAt(d, i))
    BY DEF Places, ReqAt, KeyOf
  <1> QED
    BY <1>1 DEF NewestPlaced

\* Whoever waits in a queue was submitted for that car.
LEMMA WaitsThere ==
  ASSUME IInv, NEW c \in Cars, NEW i \in 1..Len(pending[c])
  PROVE  /\ pending[c][i] \in Requests /\ Submitted(pending[c][i])
         /\ CarOf(pending[c][i]) = c /\ answers[pending[c][i]] = <<>>
         /\ \A w \in Requests : job[w] # pending[c][i]
  <1>1. pending[c] \in Seq(Requests)
    BY DEF IInv, TypeOK
  <1>2. pending[c][i] \in Requests
    BY <1>1, ElementOfSeq
  <1> QED
    BY <1>2, OrderConstants DEF IInv, Ownership, QueueOwns, WorkerOwns, Waiting

\* The queue without its first request.
LEMMA TailParts ==
  ASSUME NEW S, NEW s \in Seq(S), s # <<>>
  PROVE  /\ Len(s) \in Nat \ {0} /\ Len(Tail(s)) = Len(s) - 1 /\ Head(s) = s[1]
         /\ \A i \in 1..(Len(s) - 1) : Tail(s)[i] = s[i + 1]
  OBVIOUS

\* Taking the newest gives it the last place of its key.
LEMMA NewestPop ==
  ASSUME IInv, NewestInv, NEW w \in Requests, NEW o \in {None, "duplicate", "capped"}, Pop(w, o)
  PROVE  NewestInv'
  <1>1. PICK c \in Cars, r \in Requests : Takes(w, o, c, r)
    BY Took
  <1>0. PICK m : m = Len(taken[c]) + 1
    OBVIOUS
  <1>2. /\ req' = req /\ arrived' = arrived
        /\ \A d \in Cars : d # c => taken'[d] = taken[d] /\ pending'[d] = pending[d]
        /\ m \in Nat /\ 1..Len(taken'[c]) = 1..Len(taken[c]) \cup {m}
        /\ \A i \in 1..Len(taken[c]) : taken'[c][i] = taken[c][i] /\ i < m
        /\ taken'[c][m].req = r
        /\ pending'[c] = Tail(pending[c])
    BY <1>0, <1>1 DEF Takes
  <1>3. /\ Len(pending[c]) \in Nat \ {0} /\ Len(pending'[c]) = Len(pending[c]) - 1
        /\ r = pending[c][1]
        /\ \A i \in 1..(Len(pending[c]) - 1) : pending'[c][i] = pending[c][i + 1]
    BY <1>1, TailParts DEF Takes
  <1>4. ASSUME NEW d \in Cars, NEW k \in Keys \ Momentary
        PROVE  NewestPlaced(d, k)'
    <2>1. NewestPlaced(d, k)
      BY NewestSplit
    <2>2. CASE d # c
      <3>1. Slots(d, k)' = Slots(d, k)
        BY <1>2, <2>2 DEF Slots, KeyOf
      <3>2. \A n : NewestAt(n, d, k)' <=> NewestAt(n, d, k)
        BY <1>2 DEF NewestAt, IsFor, CarOf, KeyOf
      <3> QED
        BY <1>2, <2>1, <2>2, <3>1, <3>2, NewestStays
    <2>3. CASE d = c
      <3>1. Slots(c, k)' = {i \in 1..(Len(pending[c]) - 1) : KeyOf(pending[c][i + 1]) = k}
        BY <1>2, <1>3 DEF Slots, KeyOf
      <3>2. \A i \in Slots(c, k)' : i \in Nat /\ i + 1 \in Slots(c, k)
                                    /\ pending'[c][i] = pending[c][i + 1]
        <4> SUFFICES ASSUME NEW i \in Slots(c, k)'
                     PROVE  i \in Nat /\ i + 1 \in Slots(c, k) /\ pending'[c][i] = pending[c][i + 1]
          OBVIOUS
        <4>1. i \in 1..(Len(pending[c]) - 1) /\ KeyOf(pending[c][i + 1]) = k
          BY <3>1
        <4>2. i \in Nat /\ i + 1 \in 1..Len(pending[c])
          BY <1>3, <4>1
        <4> QED
          BY <1>3, <4>1, <4>2 DEF Slots
      <3>3. \A i, j \in Slots(c, k)' : i = j
        <4>1. \A i, j \in Slots(c, k)' : i + 1 = j + 1
          BY <2>1, <2>3, <3>2 DEF NewestPlaced
        <4> QED
          BY <3>2, <4>1
      <3>4. ASSUME NEW n \in 1..Len(arrived), NewestAt(n, c, k)
            PROVE  /\ \A i \in Slots(c, k)' : pending'[c][i] = arrived[n]
                   /\ Slots(c, k)' = {} =>
                         \E i \in 1..Len(taken'[c]) :
                            /\ taken'[c][i].req = arrived[n]
                            /\ \A j \in 1..Len(taken'[c]) :
                                  KeyOf(taken'[c][j].req) = k => j <= i
        <4>1. \A i \in Slots(c, k) : pending[c][i] = arrived[n]
          BY <2>1, <2>3, <3>4 DEF NewestPlaced
        <4>2. CASE KeyOf(r) = k
          <5>1. 1 \in Slots(c, k) /\ r = arrived[n]
            BY <1>3, <4>1, <4>2 DEF Slots
          <5>2. m \in 1..Len(taken'[c]) /\ \A j \in 1..Len(taken'[c]) : j <= m
            BY <1>2
          <5> QED
            BY <1>2, <3>2, <4>1, <5>1, <5>2
        <4>3. CASE KeyOf(r) # k
          <5>1. ASSUME Slots(c, k)' = {}
                PROVE  Slots(c, k) = {}
            <6>1. ASSUME NEW i \in Slots(c, k) PROVE FALSE
              <7>1. i # 1
                BY <1>3, <4>3 DEF Slots
              <7>2. i \in 1..Len(pending[c]) /\ KeyOf(pending[c][i]) = k
                BY DEF Slots
              <7>3. PICK j : j = i - 1
                OBVIOUS
              <7>4. j \in 1..(Len(pending[c]) - 1) /\ j + 1 = i
                BY <1>3, <7>1, <7>2, <7>3
              <7>5. j \in Slots(c, k)'
                BY <3>1, <7>2, <7>4
              <7> QED
                BY <5>1, <7>5
            <6> QED
              BY <6>1
          <5>2. ASSUME Slots(c, k) = {}
                PROVE  \E i \in 1..Len(taken'[c]) :
                            /\ taken'[c][i].req = arrived[n]
                            /\ \A j \in 1..Len(taken'[c]) :
                                  KeyOf(taken'[c][j].req) = k => j <= i
            <6>1. PICK i \in 1..Len(taken[c]) :
                     /\ taken[c][i].req = arrived[n]
                     /\ \A j \in 1..Len(taken[c]) : KeyOf(taken[c][j].req) = k => j <= i
              BY <2>1, <2>3, <3>4, <5>2 DEF NewestPlaced, Places, ReqAt
            <6>2. \A j \in 1..Len(taken'[c]) : KeyOf(taken'[c][j].req) = k => j <= i
              BY <1>2, <4>3, <6>1
            <6> QED
              BY <1>2, <6>1, <6>2
          <5> QED
            BY <3>2, <4>1, <5>1, <5>2
        <4> QED
          BY <4>2, <4>3
      <3>5. \A n \in 1..Len(arrived) : NewestAt(n, c, k)' <=> NewestAt(n, c, k)
        BY <1>2 DEF NewestAt, IsFor, CarOf, KeyOf
      <3>6. \A j : KeyOf(taken'[c][j].req) = req'[taken'[c][j].req].key
        BY <1>2 DEF KeyOf
      <3>7. ASSUME NEW n \in 1..Len(arrived'), NewestAt(n, c, k)'
            PROVE  /\ \A i \in Slots(c, k)' : pending'[c][i] = arrived'[n]
                   /\ Slots(c, k)' = {} =>
                         \E i \in 1..Len(taken'[c]) :
                            /\ taken'[c][i].req = arrived'[n]
                            /\ \A j \in 1..Len(taken'[c]) :
                                  req'[taken'[c][j].req].key = k => j <= i
        BY ZenonT(30), <1>2, <3>4, <3>5, <3>6, <3>7
      <3> QED
        BY <2>3, <3>3, <3>7 DEF NewestPlaced, Places, ReqAt, KeyOf
    <2> QED
      BY <2>2, <2>3
  <1> QED
    BY <1>4 DEF NewestInv, NewestPlaced

\* A new request is the newest of its key, and has the only slot of it.
LEMMA NewestEnters ==
  ASSUME IInv, PlacesInv, NewestInv,
         NEW r \in Requests, NEW c \in Cars, NEW k \in Keys, NEW p \in Payloads,
         Enters(r, c, k, p), Appends(r, c, k) \/ \E i \in Slots(c, k) : Merges(r, c, k, i)
  PROVE  NewestInv'
  <1>0. PICK m, b : m = Len(arrived) + 1 /\ b = Len(pending[c]) + 1
    OBVIOUS
  <1>1. /\ taken' = taken /\ ~Submitted(r)
        /\ req'[r] = [car |-> c, key |-> k, payload |-> p]
        /\ \A s \in Requests : s # r => req'[s] = req[s]
        /\ m \in Nat /\ 1..Len(arrived') = 1..Len(arrived) \cup {m} /\ arrived'[m] = r
        /\ \A n \in 1..Len(arrived) : arrived'[n] = arrived[n] /\ n < m
        /\ \A d \in Cars : d # c => pending'[d] = pending[d]
        /\ b \in Nat \ {0} /\ 1..Len(pending[c]) = 1..(b - 1)
    <2>1. arrived \in Seq(Requests) /\ arrived' = Append(arrived, r) /\ pending[c] \in Seq(Requests)
      BY DEF Enters
    <2> QED
      BY <1>0, <2>1, OneMorePlace DEF Enters
  <1>2. \A n \in 1..Len(arrived) : arrived[n] \in Requests /\ arrived[n] # r
                                   /\ CarOf(arrived[n])' = CarOf(arrived[n])
                                   /\ KeyOf(arrived[n])' = KeyOf(arrived[n])
    <2>1. arrived \in Seq(Requests)
      BY DEF IInv, TypeOK
    <2>2. ASSUME NEW n \in 1..Len(arrived)
          PROVE  arrived[n] \in Requests /\ arrived[n] # r /\ arrived'[n] = arrived[n]
      BY <1>1, <2>1, <2>2, ElementOfSeq DEF PlacesInv, ArrivedOnce
    <2> QED
      BY <1>1, <2>2 DEF CarOf, KeyOf
  <1>3. /\ req'[r].car = c /\ req'[r].key = k
    BY <1>1
  <1>4. ASSUME NEW l \in 1..Len(arrived)
        PROVE  /\ req'[arrived'[l]].car = CarOf(arrived[l])
               /\ req'[arrived'[l]].key = KeyOf(arrived[l])
    BY <1>1, <1>2 DEF CarOf, KeyOf
  <1>5. DOMAIN arrived = 1..Len(arrived) /\ DOMAIN arrived' = 1..Len(arrived')
    BY DEF Enters
  <1>6. ASSUME NEW d \in Cars, NEW g \in Keys, NEW n \in 1..Len(arrived'), NewestAt(n, d, g)'
        PROVE  IF d = c /\ g = k THEN n = m ELSE n \in 1..Len(arrived) /\ NewestAt(n, d, g)
    <2>1. /\ req'[arrived'[n]].car = d /\ req'[arrived'[n]].key = g
          /\ \A l \in 1..Len(arrived') :
                l > n => ~(req'[arrived'[l]].car = d /\ req'[arrived'[l]].key = g)
      BY <1>5, <1>6 DEF NewestAt, IsFor, CarOf, KeyOf
    <2>2. CASE d = c /\ g = k
      <3>1. m \in 1..Len(arrived') /\ ~(m > n)
        BY <1>1, <1>3, <2>1, <2>2
      <3> QED
        BY <1>1, <2>2, <3>1
    <2>3. CASE ~(d = c /\ g = k)
      <3>1. n \in 1..Len(arrived)
        BY <1>1, <1>3, <2>1, <2>3
      <3>2. IsFor(arrived[n], d, g) /\ \A l \in 1..Len(arrived) : l > n => ~IsFor(arrived[l], d, g)
        BY <1>1, <1>4, <2>1, <3>1 DEF IsFor
      <3> QED
        BY <1>5, <2>3, <3>1, <3>2 DEF NewestAt
    <2> QED
      BY <2>2, <2>3
  <1>7. \A d \in Cars : \A i \in 1..Len(pending[d]) :
           pending[d][i] # r /\ req'[pending[d][i]] = req[pending[d][i]]
    BY <1>1, WaitsThere
  <1>8. \A d \in Cars : \A i \in Places(d) : req'[ReqAt(d, i)] = req[ReqAt(d, i)]
    BY <1>1, PlaceTyped DEF PlacesInv, TakenOnce, IInv, Places, ReqAt
  <1>9. ASSUME NEW g \in Keys \ Momentary
        PROVE  /\ g = k => \E i : Slots(c, k)' = {i} /\ pending'[c][i] = r
               /\ g # k => /\ Slots(c, g)' = Slots(c, g)
                           /\ \A i \in Slots(c, g) : pending'[c][i] = pending[c][i]
    <2>1. CASE Appends(r, c, k)
      <3>1. /\ 1..Len(pending'[c]) = 1..Len(pending[c]) \cup {b} /\ pending'[c][b] = r
            /\ \A i \in 1..Len(pending[c]) : pending'[c][i] = pending[c][i] /\ i # b
        <4>1. pending[c] \in Seq(Requests) /\ pending'[c] = Append(pending[c], r)
          BY <2>1 DEF Enters, Appends
        <4> QED
          BY <1>0, <4>1, OneMorePlace
      <3>2. Slots(c, g)' = {i \in 1..Len(pending'[c]) : req'[pending'[c][i]].key = g}
        BY DEF Slots, KeyOf
      <3>3. Slots(c, g)' = Slots(c, g) \cup (IF g = k THEN {b} ELSE {})
        BY <1>3, <1>7, <3>1, <3>2 DEF Slots, KeyOf
      <3>4. g = k => Slots(c, k) = {}
        BY <2>1 DEF Appends, momentary
      <3>5. \A i \in Slots(c, g) : pending'[c][i] = pending[c][i]
        BY <3>1 DEF Slots
      <3> QED
        BY <3>1, <3>3, <3>4, <3>5
    <2>2. CASE \E i \in Slots(c, k) : Merges(r, c, k, i)
      <3>1. PICK i \in Slots(c, k) : Merges(r, c, k, i)
        BY <2>2
      <3>2. /\ 1..Len(pending'[c]) = 1..Len(pending[c]) /\ pending'[c][i] = r
            /\ \A j \in 1..Len(pending[c]) : j # i => pending'[c][j] = pending[c][j]
            /\ i \in 1..Len(pending[c]) /\ KeyOf(pending[c][i]) = k
        BY <3>1 DEF Enters, Merges, Slots
      <3>3. Slots(c, g)' = {j \in 1..Len(pending'[c]) : req'[pending'[c][j]].key = g}
        BY DEF Slots, KeyOf
      <3>4. Slots(c, g)' = Slots(c, g)
        <4>1. \A j \in 1..Len(pending[c]) :
                 req'[pending'[c][j]].key = g <=> KeyOf(pending[c][j]) = g
          BY <1>3, <1>7, <3>2 DEF KeyOf
        <4> QED
          BY <3>2, <3>3, <4>1 DEF Slots
      <3>5. g = k => Slots(c, k) = {i}
        BY <3>1, NewestSplit DEF NewestPlaced
      <3>6. g # k => \A j \in Slots(c, g) : pending'[c][j] = pending[c][j]
        BY <3>2 DEF Slots
      <3> QED
        BY <3>2, <3>4, <3>5, <3>6
    <2> QED
      BY <2>1, <2>2
  <1>10. ASSUME NEW d \in Cars, NEW g \in Keys \ Momentary
         PROVE  NewestPlaced(d, g)'
    <2>1. NewestPlaced(d, g)
      BY NewestSplit
    <2>2. CASE d = c /\ g = k
      <3>1. PICK i : Slots(c, k)' = {i} /\ pending'[c][i] = r
        BY <1>9, <2>2
      <3>2. \A n \in 1..Len(arrived') : NewestAt(n, c, k)' => arrived'[n] = r
        BY <1>1, <1>6
      <3> QED
        BY <2>2, <3>1, <3>2 DEF NewestPlaced
    <2>3. CASE ~(d = c /\ g = k)
      <3>1. Slots(d, g)' = Slots(d, g) /\ \A i \in Slots(d, g) : pending'[d][i] = pending[d][i]
        <4>1. CASE d = c
          BY <1>9, <2>3, <4>1
        <4>2. CASE d # c
          <5>1. pending'[d] = pending[d]
            BY <1>1, <4>2
          <5>2. \A i \in 1..Len(pending[d]) : KeyOf(pending[d][i])' = KeyOf(pending[d][i])
            BY <1>7, <5>1 DEF KeyOf
          <5>3. Slots(d, g)' = {i \in 1..Len(pending[d]) : KeyOf(pending[d][i])' = g}
            BY <5>1 DEF Slots
          <5> QED
            BY <5>1, <5>2, <5>3 DEF Slots
        <4> QED
          BY <4>1, <4>2
      <3>2. \A n \in 1..Len(arrived') : NewestAt(n, d, g)' =>
               n \in 1..Len(arrived) /\ NewestAt(n, d, g) /\ arrived'[n] = arrived[n]
        BY <1>1, <1>6, <2>3
      <3> QED
        BY <1>1, <1>8, <2>1, <3>1, <3>2, NewestStays
    <2> QED
      BY <2>2, <2>3
  <1> QED
    BY <1>10 DEF NewestInv, NewestPlaced

\* The newest request keeps its place after every step.
LEMMA NewestStep ==
  ASSUME IInv, PlacesInv, NewestInv, [Next]_vars
  PROVE  NewestInv'
  <1>1. CASE UNCHANGED <<req, pending, arrived, taken>>
    BY <1>1, NewestQuiet
  <1>2. CASE \E w \in Requests : Take(w)
    BY <1>2, TakeIsPop, NewestPop
  <1> QED
    BY <1>1, <1>2, NewestEnters, Kinds
       DEF Still, AnswersOld, Returns, Records, AnswersJob

(***************************************************************************)
(* The hourly cap.                                                         *)
(***************************************************************************)

\* What WindowHasAll and HourlyCap say of one key of one car.
WindowHas(c, k) ==
  \E f \in Injection(InWindow(c, k), 1..Len(perKey[c][k])) :
     \A i \in InWindow(c, k) : perKey[c][k][f[i]] = taken[c][i].at
CapAt(c, k, j) == Cardinality(InHour(c, k, j)) <= PerKeyPerHour

\* The invariant of the window, car by car and key by key.
LEMMA CapSplit ==
  CapInv <=> \A c \in Cars, k \in Keys : Capped(k) =>
                WindowHas(c, k) /\ \A j \in Handled(c, k) : CapAt(c, k, j)
  BY DEF CapInv, WindowHasAll, HourlyCap, WindowHas, CapAt

\* An injection is a function that keeps its arguments apart.
LEMMA InjectionParts ==
  ASSUME NEW S, NEW T
  PROVE  \A f : f \in Injection(S, T) <=>
                   f \in [S -> T] /\ \A a, b \in S : f[a] = f[b] => a = b
  BY DEF Injection, IsInjective

\* The initial states have no places and empty windows.
LEMMA CapInit == Init => CapInv
  <1> SUFFICES ASSUME Init, NEW c \in Cars, NEW k \in Keys
               PROVE  WindowHas(c, k) /\ \A j \in Handled(c, k) : CapAt(c, k, j)
    BY CapSplit
  <1>1. Handled(c, k) = {} /\ InWindow(c, k) = {}
    BY DEF Init, Handled, InWindow
  <1> DEFINE f == [i \in {} |-> 0]
  <1>2. f \in Injection({}, 1..Len(perKey[c][k]))
    BY ZenonT(30), InjectionParts
  <1> QED
    BY <1>1, <1>2 DEF WindowHas

\* While a car's window and places of a key stay, time only takes places out of the hour.
LEMMA CapStays ==
  ASSUME NEW c \in Cars, NEW k \in Keys, WindowHas(c, k),
         perKey'[c][k] = perKey[c][k], InWindow(c, k)' \subseteq InWindow(c, k),
         \A i \in InWindow(c, k) : taken'[c][i].at = taken[c][i].at
  PROVE  WindowHas(c, k)'
  <1>1. PICK f \in Injection(InWindow(c, k), 1..Len(perKey[c][k])) :
           \A i \in InWindow(c, k) : perKey[c][k][f[i]] = taken[c][i].at
    BY DEF WindowHas
  <1>2. PICK S : S = InWindow(c, k)'
    OBVIOUS
  <1> DEFINE g == [i \in S |-> f[i]]
  <1>3. g \in Injection(S, 1..Len(perKey[c][k]))
    BY <1>1, <1>2, InjectionParts
  <1>4. \A i \in S : perKey[c][k][g[i]] = taken'[c][i].at
    BY <1>1, <1>2
  <1> HIDE DEF g
  <1>5. g \in Injection(InWindow(c, k)', 1..Len(perKey'[c][k]))
    BY <1>2, <1>3
  <1>6. \A i \in InWindow(c, k)' : perKey'[c][k][g[i]] = taken'[c][i].at
    BY <1>2, <1>4
  <1>7. PICK h : h = g
    OBVIOUS
  <1>8. /\ h \in Injection(InWindow(c, k)', 1..Len(perKey'[c][k]))
        /\ \A i \in InWindow(c, k)' : perKey'[c][k][h[i]] = taken'[c][i].at
    BY <1>5, <1>6, <1>7
  <1> QED
    BY <1>8 DEF WindowHas

\* The places that were handled stay, with the hour before each.
LEMMA HandledStays ==
  ASSUME NEW c \in Cars, NEW k \in Keys, taken'[c] = taken[c],
         \A i \in Places(c) : req'[ReqAt(c, i)] = req[ReqAt(c, i)]
  PROVE  /\ Handled(c, k)' = Handled(c, k)
         /\ \A j \in Handled(c, k) : CapAt(c, k, j)' <=> CapAt(c, k, j)
  <1>1. DOMAIN taken'[c] = DOMAIN taken[c]
    OBVIOUS
  <1>2. Handled(c, k)' = Handled(c, k)
    BY DEF Handled, KeyOf, Places, ReqAt
  <1> QED
    BY <1>2 DEF CapAt, InHour

\* The places are where the history is defined.
LEMMA PlacesDomain ==
  ASSUME IInv, NEW c \in Cars
  PROVE  DOMAIN taken[c] = Places(c)
  <1>1. taken[c] \in Seq([req : Requests, at : Times, refusal : Refusals \cup {None}])
    BY DEF IInv, TypeOK
  <1> QED
    BY <1>1 DEF Places

\* Steps that take nothing.
LEMMA CapQuiet ==
  ASSUME IInv, PlacesInv, CapInv, [Next]_vars,
         taken' = taken, perKey' = perKey, now' \in Nat, now' >= now
  PROVE  CapInv'
  <1>1. ASSUME NEW c \in Cars, NEW k \in Keys, Capped(k)
        PROVE  WindowHas(c, k)' /\ \A j \in Handled(c, k)' : CapAt(c, k, j)'
    <2>1. \A i \in Places(c) : req'[ReqAt(c, i)] = req[ReqAt(c, i)]
      BY CommandsStay, PlaceTyped DEF IInv, PlacesInv, TakenOnce, Places, ReqAt
    <2>2. /\ Handled(c, k)' = Handled(c, k)
          /\ \A j \in Handled(c, k) : CapAt(c, k, j)' <=> CapAt(c, k, j)
      BY <2>1, HandledStays
    <2>3. WindowHas(c, k) /\ \A j \in Handled(c, k) : CapAt(c, k, j)
      BY <1>1, CapSplit
    <2>4. now \in Nat /\ \A i \in Handled(c, k) : taken[c][i].at \in Nat
      BY OrderConstants, PlaceTyped, PlacesDomain DEF IInv, TypeOK, Handled, Places
    <2>5. InWindow(c, k)' \subseteq InWindow(c, k)
      BY <2>2, <2>4, OrderConstants DEF InWindow
    <2>6. WindowHas(c, k)'
      BY <2>3, <2>5, CapStays
    <2> QED
      BY <2>2, <2>3, <2>6
  <1>2. \A k : Capped(k)' <=> Capped(k)
    BY DEF Capped
  <1> QED
    BY <1>1, <1>2 DEF CapInv, WindowHasAll, HourlyCap, WindowHas, CapAt

\* What a taken request changes of the places that were handled.
LEMMA HandledPop ==
  ASSUME IInv, PlacesInv, NEW w \in Requests, NEW o \in {None, "duplicate", "capped"}, Pop(w, o)
  PROVE  \E c \in Cars, r \in Requests, n \in Nat :
            /\ c = CarOf(w) /\ r = Head(pending[c]) /\ CarOf(r) = c /\ KeyOf(r) \in Keys
            /\ now' = now /\ n = Len(taken[c]) + 1
            /\ \A i \in Places(c) : i < n
            /\ taken'[c][n].at = now
            /\ \A d \in Cars : \A i \in Places(d) : taken'[d][i] = taken[d][i]
            /\ \A d \in Cars, k \in Keys :
                  Handled(d, k)' = Handled(d, k) \cup
                     (IF d = c /\ k = KeyOf(r) /\ o = None THEN {n} ELSE {})
  <1>1. PICK c \in Cars, r \in Requests : Takes(w, o, c, r)
    BY Took
  <1>2. PICK n : n = Len(taken[c]) + 1
    OBVIOUS
  <1>3. /\ n \in Nat /\ \A i \in Places(c) : i < n
        /\ 1..Len(taken'[c]) = 1..Len(taken[c]) \cup {n}
        /\ taken'[c][n].req = r /\ taken'[c][n].at = now /\ taken'[c][n].refusal = o
        /\ \A d \in Cars : d # c => taken'[d] = taken[d]
        /\ \A i \in 1..Len(taken[c]) : taken'[c][i] = taken[c][i]
        /\ req' = req
    BY <1>1, <1>2 DEF Takes, Places
  <1>4. \A d \in Cars : \A i \in Places(d) : taken'[d][i] = taken[d][i]
    BY <1>3 DEF Places
  <1>5. ASSUME NEW d \in Cars, NEW k \in Keys
        PROVE  Handled(d, k)' = Handled(d, k) \cup
                  (IF d = c /\ k = KeyOf(r) /\ o = None THEN {n} ELSE {})
    <2>1. /\ DOMAIN taken[d] = Places(d)
          /\ DOMAIN taken'[d] = Places(d) \cup (IF d = c THEN {n} ELSE {})
      <3>1. taken[d] \in Seq([req : Requests, at : Times, refusal : Refusals \cup {None}])
        BY DEF IInv, TypeOK
      <3>2. taken[c] \in Seq([req : Requests, at : Times, refusal : Refusals \cup {None}])
        BY DEF IInv, TypeOK
      <3>3. DOMAIN taken'[c] = 1..Len(taken'[c])
        BY <3>2 DEF Pop, Takes, IInv, TypeOK
      <3> QED
        BY <1>3, <3>1, <3>3 DEF Places
    <2>2. Handled(d, k)' = {i \in DOMAIN taken'[d] :
             KeyOf(taken'[d][i].req) = k /\ taken'[d][i].refusal = None}
      BY <1>3 DEF Handled, KeyOf
    <2> QED
      BY <1>3, <1>4, <2>1, <2>2 DEF Handled
  <1> QED
    BY <1>1, <1>2, <1>3, <1>4, <1>5 DEF Takes

\* Steps that take a request and leave the window of its key.
LEMMA CapPop ==
  ASSUME IInv, PlacesInv, CapInv,
         NEW w \in Requests, NEW o \in {None, "duplicate", "capped"}, Pop(w, o), perKey' = perKey,
         o = None => ~Capped(KeyOf(Head(pending[CarOf(w)])))
  PROVE  CapInv'
  <1>1. PICK c \in Cars, r \in Requests, n \in Nat :
            /\ c = CarOf(w) /\ r = Head(pending[c]) /\ CarOf(r) = c /\ KeyOf(r) \in Keys
            /\ now' = now /\ n = Len(taken[c]) + 1
            /\ \A i \in Places(c) : i < n
            /\ taken'[c][n].at = now
            /\ \A d \in Cars : \A i \in Places(d) : taken'[d][i] = taken[d][i]
            /\ \A d \in Cars, k \in Keys :
                  Handled(d, k)' = Handled(d, k) \cup
                     (IF d = c /\ k = KeyOf(r) /\ o = None THEN {n} ELSE {})
    BY HandledPop
  <1>2. ASSUME NEW d \in Cars, NEW k \in Keys, Capped(k)
        PROVE  WindowHas(d, k)' /\ \A j \in Handled(d, k)' : CapAt(d, k, j)'
    <2>0. ~(d = c /\ k = KeyOf(r) /\ o = None)
      BY <1>1, <1>2
    <2>1. Handled(d, k)' = Handled(d, k)
      <3>1. Handled(d, k)' = Handled(d, k) \cup
               (IF d = c /\ k = KeyOf(r) /\ o = None THEN {n} ELSE {})
        BY <1>1
      <3> QED
        BY <2>0, <3>1
    <2>2. \A i \in Handled(d, k) : taken'[d][i] = taken[d][i]
      BY <1>1, PlacesDomain DEF Handled
    <2>3. WindowHas(d, k) /\ \A j \in Handled(d, k) : CapAt(d, k, j)
      BY <1>2, CapSplit
    <2>4. /\ InWindow(d, k)' = InWindow(d, k)
          /\ \A j \in Handled(d, k) : InHour(d, k, j)' = InHour(d, k, j)
      BY <1>1, <2>1, <2>2 DEF InWindow, InHour
    <2>5. \A i \in InWindow(d, k) : taken'[d][i].at = taken[d][i].at
      BY <2>2 DEF InWindow
    <2>6. WindowHas(d, k)'
      BY <2>3, <2>4, <2>5, CapStays
    <2> QED
      BY <2>1, <2>3, <2>4, <2>6 DEF CapAt
  <1>3. \A k : Capped(k)' <=> Capped(k)
    BY DEF Capped
  <1> QED
    BY <1>2, <1>3 DEF CapInv, WindowHasAll, HourlyCap, WindowHas, CapAt

\* What is dropped from a window is out of the hour: the places of the hour keep an event
\* of their own in the rest of it.
LEMMA WindowPruned ==
  ASSUME IInv, PlacesInv, NEW c \in Cars, NEW k \in Keys, WindowHas(c, k),
         NEW i \in 0..Len(perKey[c][k]), Prunes(perKey[c][k], i, now - Hour)
  PROVE  \E g \in Injection(InWindow(c, k), 1..Len(Rest(perKey[c][k], i))) :
            \A j \in InWindow(c, k) : Rest(perKey[c][k], i)[g[j]] = taken[c][j].at
  <1> DEFINE e    == perKey[c][k]
             live == Rest(e, i)
             S    == InWindow(c, k)
  <1>1. e \in Seq(Int) /\ now \in Nat /\ Hour \in Nat
    BY OrderConstants DEF IInv, TypeOK, Times
  <1>2. /\ live \in Seq(Int) /\ Len(live) = Len(e) - i /\ Len(e) \in Nat
        /\ \A j \in 1..(Len(e) - i) : live[j] = e[i + j]
    <2>1. PICK ev : ev = e
      OBVIOUS
    <2>2. ev \in Seq(Int) /\ i \in 0..Len(ev)
      BY <1>1, <2>1
    <2>3. /\ Rest(ev, i) \in Seq(Int) /\ Len(Rest(ev, i)) = Len(ev) - i
          /\ \A j \in 1..(Len(ev) - i) : Rest(ev, i)[j] = ev[i + j]
      BY <2>2, RestProperties
    <2>4. Len(ev) \in Nat
      BY <2>2
    <2> QED
      BY <2>1, <2>3, <2>4
  <1>3. PICK f \in Injection(S, 1..Len(e)) : \A j \in S : e[f[j]] = taken[c][j].at
    BY DEF WindowHas
  <1>4. f \in [S -> 1..Len(e)] /\ \A a, b \in S : f[a] = f[b] => a = b
    BY <1>3, InjectionParts
  <1>5. \A j \in S : taken[c][j].at \in Nat /\ taken[c][j].at > now - Hour
    BY PlacesDomain, PlaceTyped DEF InWindow, Handled, Places, IInv
  <1>6. \A m \in 1..i : e[m] <= now - Hour
    BY DEF Prunes
  <1> HIDE DEF e, live, S
  <1>7. ASSUME NEW j \in S
        PROVE f[j] \in Int /\ f[j] - i \in 1..(Len(e) - i) /\ i + (f[j] - i) = f[j]
    <2>1. f[j] \in 1..Len(e) /\ e[f[j]] = taken[c][j].at
      BY <1>3, <1>4
    <2>2. ~(f[j] \in 1..i)
      <3>1. f[j] \in 1..i => e[f[j]] <= now - Hour
        BY <1>6
      <3> QED
        BY <1>1, <1>5, <2>1, <3>1
    <2> QED
      BY SMTT(20), <1>2, <2>1, <2>2 DEF e
  <1> DEFINE g == [j \in S |-> f[j] - i]
  <1>8. g \in [S -> 1..Len(live)]
    BY <1>2, <1>7
  <1>9. ASSUME NEW a \in S, NEW b \in S, g[a] = g[b] PROVE a = b
    <2>1. f[a] - i = f[b] - i
      BY <1>9
    <2>2. f[a] = f[b]
      BY <1>7, <2>1
    <2> QED
      BY <1>4, <2>2
  <1>10. ASSUME NEW j \in S PROVE live[g[j]] = taken[c][j].at
    <2>1. live[f[j] - i] = e[i + (f[j] - i)]
      BY <1>2, <1>7
    <2> QED
      BY <1>3, <1>7, <2>1
  <1>11. g \in Injection(S, 1..Len(live))
    BY <1>8, <1>9, InjectionParts
  <1> QED
    BY <1>10, <1>11 DEF e, live, S

\* A window that is pruned and refuses keeps the places of the hour.
LEMMA CapRefuses ==
  ASSUME IInv, PlacesInv, CapInv, NEW w \in Requests, Pop(w, "capped"),
         NEW c \in Cars, NEW k \in Keys, c = CarOf(w), k = KeyOf(Head(pending[c])), Capped(k),
         NEW i \in 0..Len(perKey[c][k]), Prunes(perKey[c][k], i, now - Hour),
         perKey' = [perKey EXCEPT ![c][k] = Rest(perKey[c][k], i)]
  PROVE  CapInv'
  <1>1. PICK r \in Requests, n \in Nat :
            /\ now' = now
            /\ \A d \in Cars : \A j \in Places(d) : taken'[d][j] = taken[d][j]
            /\ \A d \in Cars, h \in Keys :
                  Handled(d, h)' = Handled(d, h) \cup
                     (IF d = c /\ h = KeyOf(r) /\ "capped" = None THEN {n} ELSE {})
    BY HandledPop
  <1>2. "capped" # None
    BY OrderConstants DEF Outcomes, Refusals
  <1>3. perKey \in [Cars -> [Keys -> Seq(Times)]]
    BY DEF IInv, TypeOK
  <1>4. /\ perKey'[c][k] = Rest(perKey[c][k], i)
        /\ \A d \in Cars, h \in Keys : ~(d = c /\ h = k) => perKey'[d][h] = perKey[d][h]
    BY <1>3
  <1>5. ASSUME NEW d \in Cars, NEW h \in Keys, Capped(h)
        PROVE  WindowHas(d, h)' /\ \A j \in Handled(d, h)' : CapAt(d, h, j)'
    <2>1. Handled(d, h)' = Handled(d, h)
      <3>1. Handled(d, h)' = Handled(d, h) \cup
               (IF d = c /\ h = KeyOf(r) /\ "capped" = None THEN {n} ELSE {})
        BY <1>1
      <3> QED
        BY <1>2, <3>1
    <2>2. \A j \in Handled(d, h) : taken'[d][j] = taken[d][j]
      BY <1>1, PlacesDomain DEF Handled
    <2>3. WindowHas(d, h) /\ \A j \in Handled(d, h) : CapAt(d, h, j)
      BY <1>5, CapSplit
    <2>4. /\ InWindow(d, h)' = InWindow(d, h)
          /\ \A j \in Handled(d, h) : InHour(d, h, j)' = InHour(d, h, j)
      BY <1>1, <2>1, <2>2 DEF InWindow, InHour
    <2>5. \A j \in InWindow(d, h) : taken'[d][j].at = taken[d][j].at
      BY <2>2 DEF InWindow
    <2>6. CASE d = c /\ h = k
      <3>1. PICK g \in Injection(InWindow(c, k), 1..Len(Rest(perKey[c][k], i))) :
               \A j \in InWindow(c, k) : Rest(perKey[c][k], i)[g[j]] = taken[c][j].at
        BY <2>3, <2>6, WindowPruned
      <3>2. /\ g \in Injection(InWindow(c, k)', 1..Len(perKey'[c][k]))
            /\ \A j \in InWindow(c, k)' : perKey'[c][k][g[j]] = taken'[c][j].at
        BY SMTT(20), <1>4, <2>4, <2>5, <2>6, <3>1
      <3>3. WindowHas(d, h)'
        BY <2>6, <3>2 DEF WindowHas
      <3> QED
        BY <2>1, <2>3, <2>4, <3>3 DEF CapAt
    <2>7. CASE ~(d = c /\ h = k)
      <3>1. WindowHas(d, h)'
        BY <1>4, <2>3, <2>4, <2>5, <2>7, CapStays
      <3> QED
        BY <2>1, <2>3, <2>4, <3>1 DEF CapAt
    <2> QED
      BY <2>6, <2>7
  <1>6. \A h : Capped(h)' <=> Capped(h)
    BY DEF Capped
  <1> QED
    BY <1>5, <1>6 DEF CapInv, WindowHasAll, HourlyCap, WindowHas, CapAt

\* A window that allows a request has an event for it, and had fewer than the cap.
LEMMA CapAllows ==
  ASSUME IInv, PlacesInv, CapInv, NEW w \in Requests, Pop(w, None),
         NEW c \in Cars, NEW k \in Keys, c = CarOf(w), k = KeyOf(Head(pending[c])), Capped(k),
         NEW i \in 0..Len(perKey[c][k]), Prunes(perKey[c][k], i, now - Hour),
         Len(Rest(perKey[c][k], i)) < PerKeyPerHour,
         perKey' = [perKey EXCEPT ![c][k] = Append(Rest(perKey[c][k], i), now)]
  PROVE  CapInv'
  <1>0. PICK live : live = Rest(perKey[c][k], i)
    OBVIOUS
  <1>1. PICK r \in Requests, n \in Nat :
            /\ now' = now /\ r = Head(pending[c])
            /\ \A j \in Places(c) : j < n
            /\ taken'[c][n].at = now
            /\ \A d \in Cars : \A j \in Places(d) : taken'[d][j] = taken[d][j]
            /\ \A d \in Cars, h \in Keys :
                  Handled(d, h)' = Handled(d, h) \cup
                     (IF d = c /\ h = KeyOf(r) /\ None = None THEN {n} ELSE {})
    BY HandledPop
  <1>2. perKey \in [Cars -> [Keys -> Seq(Times)]] /\ now \in Nat /\ Hour \in Nat \ {0}
        /\ PerKeyPerHour \in Nat
    BY OrderConstants DEF IInv, TypeOK
  <1>3. perKey[c][k] \in Seq(Int)
    BY OrderConstants DEF IInv, TypeOK, Times
  <1>4. live \in Seq(Int) /\ Len(live) \in Nat /\ Len(live) < PerKeyPerHour
    BY <1>0, <1>3, RestProperties
  <1>5. /\ perKey'[c][k] = Append(live, now)
        /\ \A d \in Cars, h \in Keys : ~(d = c /\ h = k) => perKey'[d][h] = perKey[d][h]
    BY <1>0, <1>2
  <1>6. PICK m : m = Len(live) + 1
    OBVIOUS
  <1>7. /\ m \in Nat /\ 1..Len(perKey'[c][k]) = 1..m /\ perKey'[c][k][m] = now
        /\ \A j \in 1..Len(live) : perKey'[c][k][j] = live[j] /\ j < m /\ j \in 1..m
        /\ m \in 1..m /\ m <= PerKeyPerHour
    <2>1. /\ 1..Len(perKey'[c][k]) = 1..Len(live) \cup {m} /\ perKey'[c][k][m] = now
          /\ \A j \in 1..Len(live) : perKey'[c][k][j] = live[j] /\ j < m
          /\ Len(perKey'[c][k]) = m
      <3>1. now \in Int
        BY <1>2
      <3> QED
        BY SMTT(20), <1>4, <1>5, <1>6, <3>1, OneMorePlace
    <2>2. m \in Nat /\ m \in 1..m /\ \A j \in 1..Len(live) : j \in 1..m
      BY <1>4, <1>6
    <2>3. m <= PerKeyPerHour
      BY <1>2, <1>4, <1>6
    <2> QED
      BY <2>1, <2>2, <2>3
  <1>8. ASSUME NEW d \in Cars, NEW h \in Keys
        PROVE  \A j \in Handled(d, h) :
                  /\ taken'[d][j] = taken[d][j] /\ InHour(d, h, j) \subseteq Handled(d, h)
                  /\ (d = c => j < n /\ j \in Nat)
    BY <1>1, PlacesDomain DEF Handled, InHour, Places
  <1>9. ASSUME NEW d \in Cars, NEW h \in Keys, Capped(h), ~(d = c /\ h = k)
        PROVE  WindowHas(d, h)' /\ \A j \in Handled(d, h)' : CapAt(d, h, j)'
    <2>1. Handled(d, h)' = Handled(d, h)
      <3>1. Handled(d, h)' = Handled(d, h) \cup
               (IF d = c /\ h = KeyOf(r) /\ None = None THEN {n} ELSE {})
        BY <1>1
      <3>2. KeyOf(r) = k
        BY <1>1
      <3> QED
        BY <1>9, <3>1, <3>2
    <2>3. WindowHas(d, h) /\ \A j \in Handled(d, h) : CapAt(d, h, j)
      BY <1>9, CapSplit
    <2>4. /\ InWindow(d, h)' = InWindow(d, h)
          /\ \A j \in Handled(d, h) : InHour(d, h, j)' = InHour(d, h, j)
      BY <1>1, <1>8, <2>1 DEF InWindow, InHour
    <2>5. \A j \in InWindow(d, h) : taken'[d][j].at = taken[d][j].at
      BY <1>8 DEF InWindow
    <2>6. WindowHas(d, h)'
      BY <1>5, <1>9, <2>3, <2>4, <2>5, CapStays
    <2> QED
      BY <2>1, <2>3, <2>4, <2>6 DEF CapAt
  <1>10. WindowHas(c, k) /\ \A j \in Handled(c, k) : CapAt(c, k, j)
    BY CapSplit
  <1>11. Handled(c, k)' = Handled(c, k) \cup {n}
    BY <1>1
  <1>12. PICK S : S = InWindow(c, k)
    OBVIOUS
  <1>13. InWindow(c, k)' = S \cup {n} /\ n \notin S
    BY <1>1, <1>2, <1>8, <1>11, <1>12 DEF InWindow
  <1>14. PICK f \in Injection(S, 1..Len(live)) : \A j \in S : live[f[j]] = taken[c][j].at
    BY SMTT(20), <1>0, <1>10, <1>12, WindowPruned
  <1> DEFINE g == [j \in S \cup {n} |-> IF j = n THEN m ELSE f[j]]
  <1>15. f \in [S -> 1..Len(live)] /\ \A a, b \in S : f[a] = f[b] => a = b
    BY <1>14, InjectionParts
  <1>16. \A j \in S : g[j] = f[j] /\ f[j] \in 1..Len(live) /\ g[j] # m /\ g[j] \in 1..m
    BY <1>7, <1>13, <1>15
  <1>17. g[n] = m
    OBVIOUS
  <1>18. g \in [S \cup {n} -> 1..m]
    BY <1>7, <1>16, <1>17
  <1>19. \A a, b \in S \cup {n} : g[a] = g[b] => a = b
    BY <1>13, <1>15, <1>16, <1>17
  <1>20. g \in Injection(S \cup {n}, 1..m)
    BY <1>18, <1>19, InjectionParts
  <1>21. \A j \in S \cup {n} : perKey'[c][k][g[j]] = taken'[c][j].at
    <2>1. ASSUME NEW j \in S PROVE perKey'[c][k][g[j]] = taken'[c][j].at
      <3>1. perKey'[c][k][g[j]] = live[f[j]]
        BY <1>7, <1>16
      <3>2. taken'[c][j] = taken[c][j]
        BY <1>8, <1>12 DEF InWindow
      <3> QED
        BY <1>14, <3>1, <3>2
    <2> QED
      BY <1>1, <1>7, <1>17, <2>1
  <1> HIDE DEF g
  <1>22. WindowHas(c, k)'
    <2>1. PICK f2 : f2 = g
      OBVIOUS
    <2>2. /\ f2 \in Injection(InWindow(c, k)', 1..Len(perKey'[c][k]))
          /\ \A j \in InWindow(c, k)' : perKey'[c][k][f2[j]] = taken'[c][j].at
      BY <1>7, <1>13, <1>20, <1>21, <2>1
    <2> QED
      BY <2>2 DEF WindowHas
  <1>23. Cardinality(S \cup {n}) <= PerKeyPerHour
    <2>1. IsFiniteSet(1..m) /\ Cardinality(1..m) = m
      BY <1>7, <1>4, <1>6, FS_Interval
    <2>2. Cardinality(S \cup {n}) <= m /\ IsFiniteSet(S \cup {n})
      BY <1>20, <2>1, FS_Injection
    <2>3. Cardinality(S \cup {n}) \in Nat
      BY <2>2, FS_CardinalityType
    <2> QED
      BY <1>2, <1>7, <2>2, <2>3
  <1>24. ASSUME NEW j \in Handled(c, k)' PROVE CapAt(c, k, j)'
    <2>1. CASE j = n
      <3>1. InHour(c, k, j)' = S \cup {n}
        BY SMTT(20), <1>1, <1>2, <1>8, <1>11, <1>12, <2>1 DEF InHour, InWindow
      <3> QED
        BY <1>23, <3>1 DEF CapAt
    <2>2. CASE j # n
      <3>1. j \in Handled(c, k) /\ InHour(c, k, j)' = InHour(c, k, j)
        BY <1>1, <1>8, <1>11, <2>2 DEF InHour
      <3> QED
        BY <1>10, <3>1 DEF CapAt
    <2> QED
      BY <2>1, <2>2
  <1>25. \A h : Capped(h)' <=> Capped(h)
    BY DEF Capped
  <1>26. \A d \in Cars, h \in Keys : Capped(h) =>
            WindowHas(d, h)' /\ \A j \in Handled(d, h)' : CapAt(d, h, j)'
    BY <1>9, <1>22, <1>24
  <1> QED
    BY ZenonT(30), <1>25, <1>26 DEF CapInv, WindowHasAll, HourlyCap, WindowHas, CapAt

\* The cap holds after every step.
LEMMA CapStep ==
  ASSUME IInv, PlacesInv, CapInv, [Next]_vars
  PROVE  CapInv'
  <1>1. CASE \/ Still
             \/ \E x \in Requests : AnswersOld(x)
             \/ \E r \in Requests, c \in Cars, k \in Keys, p \in Payloads : Enters(r, c, k, p)
             \/ \E w \in Requests, o \in HandlerOutcomes : Returns(w, o)
             \/ \E w, r \in Requests, c \in Cars : Records(w, c, r)
             \/ \E w, r \in Requests, o \in Outcomes : AnswersJob(w, r, o)
    <2>0. now \in Nat
      BY OrderConstants DEF IInv, TypeOK
    <2>1. taken' = taken /\ perKey' = perKey /\ now' \in Nat /\ now' >= now
      <3>1. taken' = taken /\ perKey' = perKey
        BY <1>1 DEF Still, AnswersOld, Enters, Returns, Records, AnswersJob
      <3>2. now' = now \/ (now' \in Nat /\ now' >= now)
        BY <1>1 DEF Still, AnswersOld, Enters, Returns, Records, AnswersJob
      <3> QED
        BY <2>0, <3>1, <3>2
    <2> QED
      BY <2>1, CapQuiet
  <1>2. CASE \E w \in Requests : Take(w)
    <2>1. PICK w \in Requests : Take(w)
      BY <1>2
    <2>2. None # "duplicate"
      BY OrderConstants DEF Outcomes, Refusals
    <2>3. CASE TakeDuplicate(w)
      BY <2>2, <2>3, CapPop DEF TakeDuplicate
    <2>4. CASE TakeUncapped(w)
      BY <2>4, CapPop DEF TakeUncapped
    <2>5. CASE TakeCapped(w)
      <3>1. PICK c, k : c = CarOf(w) /\ k = KeyOf(Head(pending[CarOf(w)]))
        OBVIOUS
      <3>2. c \in Cars /\ k \in Keys
        <4>1. Pop(w, "capped") \/ Pop(w, None)
          BY <2>5 DEF TakeCapped
        <4>2. PICK d \in Cars, r \in Requests :
                 d = CarOf(w) /\ r = Head(pending[d]) /\ KeyOf(r) \in Keys
          <5>1. PICK o \in {None, "duplicate", "capped"} : Pop(w, o)
            BY <4>1
          <5>2. PICK d \in Cars, r \in Requests : Takes(w, o, d, r)
            BY <5>1, Took
          <5> QED
            BY <5>2 DEF Takes
        <4> QED
          BY <3>1, <4>2
      <3>3. Capped(k) /\ \E i \in 0..Len(perKey[c][k]) :
               /\ Prunes(perKey[c][k], i, now - Hour)
               /\ \/ /\ perKey' = [perKey EXCEPT ![c][k] = Rest(perKey[c][k], i)]
                     /\ Pop(w, "capped")
                  \/ /\ Len(Rest(perKey[c][k], i)) < PerKeyPerHour
                     /\ perKey' = [perKey EXCEPT ![c][k] = Append(Rest(perKey[c][k], i), now)]
                     /\ Pop(w, None)
        BY <2>5, <3>1 DEF TakeCapped
      <3>4. PICK i \in 0..Len(perKey[c][k]) :
               /\ Prunes(perKey[c][k], i, now - Hour)
               /\ \/ /\ perKey' = [perKey EXCEPT ![c][k] = Rest(perKey[c][k], i)]
                     /\ Pop(w, "capped")
                  \/ /\ Len(Rest(perKey[c][k], i)) < PerKeyPerHour
                     /\ perKey' = [perKey EXCEPT ![c][k] = Append(Rest(perKey[c][k], i), now)]
                     /\ Pop(w, None)
        BY <3>3
      <3> QED
        BY <3>1, <3>2, <3>3, <3>4, CapRefuses, CapAllows
    <2> QED
      BY <2>1, <2>3, <2>4, <2>5 DEF Take
  <1> QED
    BY <1>1, <1>2, Kinds

(***************************************************************************)
(* The line of a car.                                                      *)
(***************************************************************************)

\* What LineInv says of one car.
CarLine(c) ==
  \A i, j \in Line(c) :
     i < j /\ Before(arrived, At(c, j), At(c, i)) => GaveWay(c, At(c, j), At(c, i))

\* The order of the queue, car by car.
LEMMA LineSplit == LineInv <=> \A c \in Cars : CarLine(c)
  BY DEF LineInv, CarLine

\* Initially nothing has arrived and nothing waits.
LEMMA LineInit == Init => LineInv
  <1> SUFFICES ASSUME Init, NEW c \in Cars PROVE CarLine(c)
    BY LineSplit
  <1>1. Line(c) = {}
    BY DEF Init, Line
  <1> QED
    BY <1>1 DEF CarLine

\* Who stands in a line was submitted for the car, and stands there once.
LEMMA LineTyped ==
  ASSUME IInv, PlacesInv, NEW c \in Cars
  PROVE  /\ \A i \in Line(c) : /\ At(c, i) \in Requests /\ Submitted(At(c, i))
                               /\ CarOf(At(c, i)) = c
         /\ \A i, j \in Line(c) : At(c, i) = At(c, j) => i = j
  <1>1. /\ taken[c] \in Seq([req : Requests, at : Times, refusal : Refusals \cup {None}])
        /\ pending[c] \in Seq(Requests)
    BY DEF IInv, TypeOK
  <1>2. Len(taken[c]) \in Nat /\ Len(pending[c]) \in Nat
    BY <1>1
  <1>3. ASSUME NEW i \in Line(c)
        PROVE  /\ i \in Nat
               /\ \/ i \in Places(c) /\ At(c, i) = ReqAt(c, i)
                  \/ \E m \in 1..Len(pending[c]) :
                        i = Len(taken[c]) + m /\ At(c, i) = pending[c][m] /\ ~(i <= Len(taken[c]))
    <2>0. PICK t \in Nat, b \in Nat : t = Len(taken[c]) /\ b = Len(pending[c])
      BY <1>2
    <2>1. i \in Nat /\ i \in 1..(t + b)
      <3>1. Line(c) = 1..(t + b)
        BY <2>0 DEF Line
      <3> QED
        BY <3>1
    <2>2. CASE i <= t
      BY <2>0, <2>1, <2>2 DEF Places, At, ReqAt
    <2>3. CASE ~(i <= t)
      <3>1. PICK m : m = i - t
        OBVIOUS
      <3>2. m \in 1..b /\ i = t + m
        BY <2>1, <2>3, <3>1
      <3> QED
        BY <2>0, <2>1, <2>3, <3>1, <3>2 DEF At
    <2> QED
      BY <2>2, <2>3
  <1>4. \A i \in Places(c) : /\ ReqAt(c, i) \in Requests /\ Submitted(ReqAt(c, i))
                             /\ CarOf(ReqAt(c, i)) = c
                             /\ \/ answers[ReqAt(c, i)] # <<>>
                                \/ \E w \in Requests : job[w] = ReqAt(c, i)
                             /\ \A j \in Places(c) : ReqAt(c, i) = ReqAt(c, j) => i = j
    BY PlaceTyped DEF PlacesInv, TakenOnce, IInv, Places, ReqAt
  <1>5. \A m \in 1..Len(pending[c]) :
           /\ pending[c][m] \in Requests /\ Submitted(pending[c][m])
           /\ CarOf(pending[c][m]) = c /\ answers[pending[c][m]] = <<>>
           /\ \A w \in Requests : job[w] # pending[c][m]
           /\ \A l \in 1..Len(pending[c]) : pending[c][m] = pending[c][l] => m = l
    BY WaitsThere DEF IInv, Ownership, QueueOwns
  <1>6. \A i \in Line(c) : At(c, i) \in Requests /\ Submitted(At(c, i)) /\ CarOf(At(c, i)) = c
    BY <1>3, <1>4, <1>5
  <1>7. ASSUME NEW i \in Line(c), NEW j \in Line(c), At(c, i) = At(c, j) PROVE i = j
    BY SMTT(20), <1>2, <1>3, <1>4, <1>5, <1>7
  <1> QED
    BY <1>6, <1>7

\* Taking the first of the queue leaves the line as it is.
LEMMA LinePop ==
  ASSUME IInv, PlacesInv, LineInv,
         NEW w \in Requests, NEW o \in {None, "duplicate", "capped"}, Pop(w, o)
  PROVE  LineInv'
  <1>1. PICK c \in Cars, r \in Requests : Takes(w, o, c, r)
    BY Took
  <1>0. PICK t, b : t = Len(taken[c]) /\ b = Len(pending[c])
    OBVIOUS
  <1>2. /\ req' = req /\ arrived' = arrived /\ replaced' = replaced
        /\ \A d \in Cars : d # c => taken'[d] = taken[d] /\ pending'[d] = pending[d]
        /\ t \in Nat /\ Len(taken'[c]) = t + 1
        /\ \A i \in 1..t : taken'[c][i] = taken[c][i]
        /\ taken'[c][t + 1].req = r
        /\ pending'[c] = Tail(pending[c])
    BY <1>0, <1>1 DEF Takes
  <1>3. /\ b \in Nat \ {0} /\ Len(pending'[c]) = b - 1 /\ r = pending[c][1]
        /\ \A i \in 1..(b - 1) : pending'[c][i] = pending[c][i + 1]
    BY <1>0, <1>1, TailParts DEF Takes
  <1>4. Line(c) = 1..(t + b) /\ Line(c)' = 1..(t + b)
    <2>1. Line(c) = 1..(t + b)
      BY <1>0 DEF Line
    <2>2. Line(c)' = 1..(Len(taken'[c]) + Len(pending'[c]))
      BY DEF Line
    <2>3. (t + 1) + (b - 1) = t + b
      BY <1>2, <1>3
    <2>4. Len(taken'[c]) = t + 1 /\ Len(pending'[c]) = b - 1
      BY <1>2, <1>3
    <2> QED
      BY <2>1, <2>2, <2>3, <2>4
  <1>5. ASSUME NEW i \in 1..(t + b) PROVE At(c, i)' = At(c, i)
    <2>1. CASE i \in 1..t
      BY <1>0, <1>2, <2>1 DEF At
    <2>2. CASE i = t + 1
      <3>1. At(c, i) = pending[c][1]
        BY <1>0, <1>2, <2>2 DEF At
      <3>2. At(c, i)' = taken'[c][i].req
        BY <1>2, <2>2 DEF At
      <3> QED
        BY <1>2, <1>3, <2>2, <3>1, <3>2
    <2>3. CASE i > t + 1
      <3>1. PICK m, l : m = i - t /\ l = i - (t + 1)
        OBVIOUS
      <3>2. At(c, i) = pending[c][m]
        BY <1>0, <1>2, <2>3, <3>1 DEF At
      <3>3. At(c, i)' = pending'[c][l]
        <4>1. At(c, i)' = IF i <= Len(taken'[c]) THEN taken'[c][i].req
                          ELSE pending'[c][i - Len(taken'[c])]
          BY DEF At
        <4>2. ~(i <= Len(taken'[c])) /\ i - Len(taken'[c]) = l
          BY <1>2, <2>3, <3>1
        <4> QED
          BY <4>1, <4>2
      <3>4. l \in 1..(b - 1) /\ l + 1 = m
        BY <1>2, <1>3, <2>3, <3>1
      <3> QED
        BY <1>3, <3>2, <3>3, <3>4
    <2> QED
      BY <1>2, <1>3, <2>1, <2>2, <2>3
  <1>6. ASSUME NEW d \in Cars PROVE CarLine(d)'
    <2>1. CarLine(d)
      BY LineSplit
    <2>2. Line(d)' = Line(d) /\ \A i \in Line(d) : At(d, i)' = At(d, i)
      <3>1. CASE d = c
        BY <1>4, <1>5, <3>1
      <3>2. CASE d # c
        BY <1>2, <3>2 DEF Line, At
      <3> QED
        BY <3>1, <3>2
    <2>3. ASSUME NEW x, NEW y PROVE /\ Before(arrived, x, y)' <=> Before(arrived, x, y)
                                    /\ GaveWay(d, x, y)' <=> GaveWay(d, x, y)
      BY <1>2 DEF Before, GaveWay, CarOf, KeyOf
    <2>4. ASSUME NEW i \in Line(d)', NEW j \in Line(d)', i < j, Before(arrived, At(d, j), At(d, i))'
          PROVE  GaveWay(d, At(d, j), At(d, i))'
      <3>1. PICK x, y : x = At(d, j) /\ y = At(d, i)
        OBVIOUS
      <3>2. At(d, j)' = x /\ At(d, i)' = y /\ i \in Line(d) /\ j \in Line(d)
        BY <2>2, <2>4, <3>1
      <3>3. Before(arrived, x, y)'
        BY <2>4, <3>2 DEF Before
      <3>4. GaveWay(d, x, y)
        BY <2>1, <2>3, <2>4, <3>1, <3>2, <3>3 DEF CarLine
      <3>5. GaveWay(d, x, y)'
        BY <2>3, <3>4
      <3> QED
        BY <3>2, <3>5 DEF GaveWay, KeyOf, Before
    <2> QED
      BY <2>4 DEF CarLine
  <1> QED
    BY <1>6 DEF LineInv, CarLine

\* Nothing that a line depends on changes.
LEMMA LineQuiet ==
  ASSUME LineInv, UNCHANGED <<req, pending, arrived, taken, replaced>>
  PROVE  LineInv'
  <1>1. \A c : Line(c)' = Line(c) /\ \A i : At(c, i)' = At(c, i)
    BY DEF Line, At
  <1>2. \A x, y : Before(arrived, x, y)' <=> Before(arrived, x, y)
    BY DEF Before
  <1>3. \A d, x, y : GaveWay(d, x, y)' <=> GaveWay(d, x, y)
    BY <1>2 DEF GaveWay, CarOf, KeyOf
  <1>4. ASSUME NEW c \in Cars, NEW i \in Line(c), NEW j \in Line(c), i < j,
               Before(arrived, At(c, j), At(c, i))'
        PROVE  GaveWay(c, At(c, j), At(c, i))'
    <2>1. PICK x, y : x = At(c, j) /\ y = At(c, i)
      OBVIOUS
    <2>2. At(c, j)' = x /\ At(c, i)' = y
      BY <1>1, <2>1
    <2>3. Before(arrived, x, y)'
      BY <1>4, <2>2 DEF Before
    <2>4. GaveWay(c, x, y)'
      BY <1>2, <1>3, <1>4, <2>1, <2>3 DEF LineInv
    <2> QED
      BY <2>2, <2>4 DEF GaveWay, KeyOf, Before
  <1> QED
    BY <1>1, <1>4 DEF LineInv

\* Among those who arrived, one came before the other.
LEMMA ArrivedInOrder ==
  ASSUME IInv, PlacesInv, NEW x \in Requests, NEW y \in Requests, Submitted(x), Submitted(y), x # y
  PROVE  Before(arrived, x, y) \/ Before(arrived, y, x)
  <1>1. PICK m \in 1..Len(arrived), n \in 1..Len(arrived) : arrived[m] = x /\ arrived[n] = y
    BY DEF PlacesInv, ArrivedOnce
  <1>2. Len(arrived) \in Nat
    BY DEF IInv, TypeOK
  <1>3. m < n \/ n < m
    BY <1>1, <1>2
  <1> QED
    BY <1>1, <1>3 DEF Before

\* A new request arrives after all others, and what was said of the others stays.
LEMMA EntersBefore ==
  ASSUME IInv, PlacesInv,
         NEW r \in Requests, NEW c \in Cars, NEW k \in Keys, NEW p \in Payloads, Enters(r, c, k, p)
  PROVE  /\ \A x : Before(arrived, x, r)' <=> \E n \in 1..Len(arrived) : arrived[n] = x
         /\ \A y : ~Before(arrived, r, y)'
         /\ \A x, y : y # r => (Before(arrived, x, y)' <=> Before(arrived, x, y))
         /\ \A x, y : Before(arrived, x, y) => y # r /\ x # r /\ x \in Requests /\ y \in Requests
                                              /\ Submitted(x) /\ Submitted(y)
  <1>0. PICK m : m = Len(arrived) + 1
    OBVIOUS
  <1>1. /\ ~Submitted(r) /\ Len(arrived) \in Nat
        /\ m \in Nat /\ 1..Len(arrived') = 1..Len(arrived) \cup {m} /\ arrived'[m] = r
        /\ \A n \in 1..Len(arrived) : arrived'[n] = arrived[n] /\ n < m
    BY <1>0, OneMorePlace DEF Enters
  <1>2. \A n \in 1..Len(arrived) :
           arrived[n] \in Requests /\ Submitted(arrived[n]) /\ arrived[n] # r
    BY <1>1, ElementOfSeq DEF PlacesInv, ArrivedOnce, Enters
  <1>3. \A x, y : Before(arrived, x, y)' <=>
                     \E i, j \in 1..Len(arrived') : i < j /\ arrived'[i] = x /\ arrived'[j] = y
    BY DEF Before
  <1>4. ASSUME NEW x PROVE Before(arrived, x, r)' <=> \E n \in 1..Len(arrived) : arrived[n] = x
    <2>1. ASSUME NEW n \in 1..Len(arrived), arrived[n] = x PROVE Before(arrived, x, r)'
      BY <1>1, <1>3, <2>1
    <2>2. ASSUME Before(arrived, x, r)' PROVE \E n \in 1..Len(arrived) : arrived[n] = x
      <3>1. PICK i \in 1..Len(arrived'), j \in 1..Len(arrived') :
               i < j /\ arrived'[i] = x /\ arrived'[j] = r
        BY <1>3, <2>2
      <3>2. i # m
        BY <1>1, <3>1
      <3> QED
        BY <1>1, <3>1, <3>2
    <2> QED
      BY <2>1, <2>2
  <1>5. ASSUME NEW y PROVE ~Before(arrived, r, y)'
    <2>1. SUFFICES ASSUME NEW i \in 1..Len(arrived'), NEW j \in 1..Len(arrived'),
                          i < j, arrived'[i] = r
                   PROVE  FALSE
      BY <1>3
    <2>2. i = m
      BY <1>1, <1>2, <2>1
    <2> QED
      BY <1>1, <2>1, <2>2
  <1>6. ASSUME NEW x, NEW y, y # r PROVE Before(arrived, x, y)' <=> Before(arrived, x, y)
    <2>1. ASSUME Before(arrived, x, y) PROVE Before(arrived, x, y)'
      BY <1>1, <1>3, <2>1 DEF Before
    <2>2. ASSUME Before(arrived, x, y)' PROVE Before(arrived, x, y)
      <3>1. PICK i \in 1..Len(arrived'), j \in 1..Len(arrived') :
               i < j /\ arrived'[i] = x /\ arrived'[j] = y
        BY <1>3, <2>2
      <3>2. j # m
        BY <1>1, <1>6, <3>1
      <3>3. i # m
        BY <1>1, <3>1, <3>2
      <3> QED
        BY <1>1, <3>1, <3>2, <3>3 DEF Before
    <2> QED
      BY <2>1, <2>2
  <1>7. \A x, y : Before(arrived, x, y) => y # r /\ x # r /\ x \in Requests /\ y \in Requests
                                          /\ Submitted(x) /\ Submitted(y)
    BY <1>2 DEF Before
  <1> QED
    BY <1>4, <1>5, <1>6, <1>7

\* Who gave way did so for good.
LEMMA GaveWayStays ==
  ASSUME IInv, PlacesInv,
         NEW r \in Requests, NEW c \in Cars, NEW k \in Keys, NEW p \in Payloads, Enters(r, c, k, p),
         NEW d \in Cars, NEW x, NEW s \in Requests, Submitted(s), GaveWay(d, x, s)
  PROVE  GaveWay(d, x, s)'
  <1>1. PICK y \in Requests :
           /\ Before(arrived, y, x) /\ CarOf(y) = d /\ KeyOf(y) = KeyOf(s) /\ ~momentary(KeyOf(s))
           /\ \E z \in Requests : replaced[z] = y
    BY DEF GaveWay
  <1>2. x # r /\ Submitted(y) /\ Before(arrived, y, x)'
    BY <1>1, EntersBefore
  <1>3. y # r /\ s # r
    BY <1>2 DEF Enters
  <1>4. req'[y] = req[y] /\ req'[s] = req[s]
    BY <1>3 DEF Enters
  <1>5. \E z \in Requests : replaced'[z] = y
    BY <1>1, OrderConstants DEF Enters
  <1> QED
    BY <1>1, <1>2, <1>4, <1>5 DEF GaveWay, CarOf, KeyOf, momentary

\* A new request at the end of the queue overtakes nobody.
LEMMA LineAppend ==
  ASSUME IInv, PlacesInv, LineInv,
         NEW r \in Requests, NEW c \in Cars, NEW k \in Keys, NEW p \in Payloads,
         Enters(r, c, k, p), Appends(r, c, k)
  PROVE  LineInv'
  <1>0. PICK t \in Nat, b \in Nat : t = Len(taken[c]) /\ b = Len(pending[c])
    BY DEF IInv, TypeOK
  <1>1. /\ taken' = taken /\ replaced' = replaced
        /\ \A d \in Cars : d # c => pending'[d] = pending[d]
        /\ 1..Len(pending'[c]) = 1..b \cup {b + 1} /\ pending'[c][b + 1] = r
        /\ Len(pending'[c]) = b + 1
        /\ \A i \in 1..b : pending'[c][i] = pending[c][i]
    BY <1>0, OneMorePlace DEF Enters, Appends
  <1>2. /\ Line(c) = 1..(t + b) /\ Line(c)' = 1..(t + (b + 1))
        /\ \A i : At(c, i) = IF i <= t THEN taken[c][i].req ELSE pending[c][i - t]
        /\ \A i : At(c, i)' = IF i <= t THEN taken[c][i].req ELSE pending'[c][i - t]
    BY <1>0, <1>1 DEF Line, At
  <1>3. ASSUME NEW i \in Line(c) PROVE At(c, i)' = At(c, i)
    <2>1. CASE i <= t
      BY <1>2, <2>1
    <2>2. CASE ~(i <= t)
      <3>1. i - t \in 1..b
        BY <1>2, <2>2
      <3> QED
        BY <1>1, <1>2, <2>2, <3>1
    <2> QED
      BY <2>1, <2>2
  <1>4. ASSUME NEW i \in Line(c)', i \notin Line(c) PROVE i = t + (b + 1) /\ At(c, i)' = r
    <2>1. i = t + (b + 1) /\ i - t = b + 1 /\ ~(i <= t)
      BY <1>2, <1>4
    <2> QED
      BY <1>1, <1>2, <2>1
  <1>5. ASSUME NEW d \in Cars, NEW i \in Line(d)', NEW j \in Line(d)', i < j,
               Before(arrived, At(d, j), At(d, i))'
        PROVE  GaveWay(d, At(d, j), At(d, i))'
    <2>0. PICK x, y : x = At(d, j)' /\ y = At(d, i)'
      OBVIOUS
    <2>1. Before(arrived, x, y)'
      BY <1>5, <2>0 DEF Before
    <2>2. x # r
      BY <2>1, EntersBefore
    <2>3. i \in Line(d) /\ j \in Line(d) /\ x = At(d, j) /\ y = At(d, i)
      <3>1. CASE d # c
        BY <1>1, <2>0, <3>1 DEF Line, At
      <3>2. CASE d = c
        <4>1. j \in Line(c)
          BY <1>4, <2>0, <2>2, <3>2
        <4>2. i \in Line(c)
          BY <1>2, <1>4, <1>5, <3>2, <4>1
        <4> QED
          BY <1>3, <2>0, <3>2, <4>1, <4>2
      <3> QED
        BY <3>1, <3>2
    <2>4. y \in Requests /\ Submitted(y)
      BY <2>3, LineTyped
    <2>5. Before(arrived, x, y)
      BY <2>1, <2>4, EntersBefore DEF Enters
    <2>6. GaveWay(d, x, y)
      BY <1>5, <2>3, <2>5, LineSplit DEF CarLine
    <2>7. GaveWay(d, x, y)'
      BY <2>4, <2>6, GaveWayStays
    <2> QED
      BY <2>0, <2>7 DEF GaveWay, KeyOf, Before
  <1> QED
    BY <1>5 DEF LineInv

\* A request that merges gets its place from the one it supersedes.
LEMMA LineMerge ==
  ASSUME IInv, PlacesInv, LineInv,
         NEW r \in Requests, NEW c \in Cars, NEW k \in Keys, NEW p \in Payloads,
         Enters(r, c, k, p), NEW q \in Slots(c, k), Merges(r, c, k, q)
  PROVE  LineInv'
  <1>0. PICK t \in Nat, b \in Nat : t = Len(taken[c]) /\ b = Len(pending[c])
    BY DEF IInv, TypeOK
  <1>1. /\ taken' = taken /\ q \in 1..b /\ KeyOf(pending[c][q]) = k /\ ~momentary(k)
        /\ \A d \in Cars : d # c => pending'[d] = pending[d]
        /\ Len(pending'[c]) = b /\ pending'[c][q] = r
        /\ \A i \in 1..b : i # q => pending'[c][i] = pending[c][i]
        /\ replaced'[r] = pending[c][q] /\ req'[r].car = c /\ req'[r].key = k
    BY <1>0 DEF Enters, Merges, Slots
  <1>2. /\ Line(c) = 1..(t + b) /\ Line(c)' = 1..(t + b)
        /\ \A i : At(c, i) = IF i <= t THEN taken[c][i].req ELSE pending[c][i - t]
        /\ \A i : At(c, i)' = IF i <= t THEN taken[c][i].req ELSE pending'[c][i - t]
    BY <1>0, <1>1 DEF Line, At
  <1>3. PICK g \in Nat : g = t + q
    BY <1>1
  <1>4. g \in Line(c) /\ At(c, g) = pending[c][q] /\ At(c, g)' = r
    <2>1. g \in 1..(t + b) /\ ~(g <= t) /\ g - t = q
      BY <1>1, <1>3
    <2> QED
      BY <1>1, <1>2, <2>1
  <1>5. ASSUME NEW i \in Line(c), i # g PROVE At(c, i)' = At(c, i)
    <2>1. CASE i <= t
      BY <1>2, <2>1
    <2>2. CASE ~(i <= t)
      <3>1. i - t \in 1..b /\ i - t # q
        BY <1>1, <1>2, <1>3, <1>5, <2>2
      <3> QED
        BY <1>1, <1>2, <2>2, <3>1
    <2> QED
      BY <2>1, <2>2
  <1>6. PICK old \in Requests : old = At(c, g) /\ Submitted(old) /\ CarOf(old) = c /\ KeyOf(old) = k
    BY <1>1, <1>4, LineTyped
  <1>7. /\ \E z \in Requests : replaced'[z] = old
        /\ req'[old] = req[old]
    BY <1>1, <1>4, <1>6 DEF Enters
  <1>8. ASSUME NEW d \in Cars, NEW i \in Line(d)', NEW j \in Line(d)', i < j,
               Before(arrived, At(d, j), At(d, i))'
        PROVE  GaveWay(d, At(d, j), At(d, i))'
    <2>0. PICK x, y : x = At(d, j)' /\ y = At(d, i)'
      OBVIOUS
    <2>1. Before(arrived, x, y)'
      BY <1>8, <2>0 DEF Before
    <2>2. x # r
      BY <2>1, EntersBefore
    <2>3. i \in Line(d) /\ j \in Line(d) /\ x = At(d, j)
      <3>1. CASE d # c
        BY <1>1, <2>0, <3>1 DEF Line, At
      <3>2. CASE d = c
        BY <1>2, <1>4, <1>5, <2>0, <2>2, <3>2
      <3> QED
        BY <3>1, <3>2
    <2>4. x \in Requests /\ Submitted(x)
      BY <2>3, LineTyped
    <2>5. CASE d = c /\ i = g
      <3>1. y = r /\ old # x
        <4>1. j # g
          BY <2>3, <1>8, <1>3, <2>5
        <4>2. At(c, j) # At(c, g)
          BY <1>4, <2>3, <2>5, <4>1, LineTyped
        <4> QED
          BY <1>4, <1>6, <2>0, <2>3, <2>5, <4>2
      <3>2. CASE Before(arrived, old, x)
        <4>1. Before(arrived, old, x)'
          BY <2>2, <3>2, EntersBefore
        <4>2. GaveWay(d, x, r)'
          BY <1>1, <1>6, <1>7, <2>5, <4>1 DEF GaveWay, CarOf, KeyOf, momentary
        <4> QED
          BY <2>0, <3>1, <4>2 DEF GaveWay, KeyOf, Before
      <3>3. CASE ~Before(arrived, old, x)
        <4>1. Before(arrived, x, old)
          BY <1>6, <2>4, <3>1, <3>3, ArrivedInOrder
        <4>2. GaveWay(c, x, old)
          BY <1>4, <1>6, <1>8, <2>3, <2>5, <4>1, LineSplit DEF CarLine
        <4>3. GaveWay(c, x, old)'
          BY <1>6, <4>2, GaveWayStays
        <4>4. KeyOf(old)' = KeyOf(r)'
          BY <1>1, <1>6, <1>7 DEF KeyOf
        <4>5. GaveWay(c, x, r)'
          BY <4>3, <4>4 DEF GaveWay
        <4> QED
          BY <2>0, <2>5, <3>1, <4>5 DEF GaveWay, KeyOf, Before
      <3> QED
        BY <3>2, <3>3
    <2>6. CASE ~(d = c /\ i = g)
      <3>1. y = At(d, i)
        <4>1. CASE d # c
          BY <1>1, <2>0, <4>1 DEF At
        <4>2. CASE d = c
          BY <1>5, <2>0, <2>3, <2>6, <4>2
        <4> QED
          BY <4>1, <4>2
      <3>2. y \in Requests /\ Submitted(y)
        BY <2>3, <3>1, LineTyped
      <3>3. Before(arrived, x, y)
        BY <2>1, <3>2, EntersBefore DEF Enters
      <3>4. GaveWay(d, x, y)
        BY <1>8, <2>3, <3>1, <3>3, LineSplit DEF CarLine
      <3>5. GaveWay(d, x, y)'
        BY <3>2, <3>4, GaveWayStays
      <3> QED
        BY <2>0, <3>5 DEF GaveWay, KeyOf, Before
    <2> QED
      BY <2>5, <2>6
  <1> QED
    BY <1>8 DEF LineInv

\* The line is as it should be after every step.
LEMMA LineStep ==
  ASSUME IInv, PlacesInv, LineInv, [Next]_vars
  PROVE  LineInv'
  <1>1. CASE UNCHANGED <<req, pending, arrived, taken, replaced>>
    BY <1>1, LineQuiet
  <1>2. CASE \E w \in Requests : Take(w)
    BY <1>2, TakeIsPop, LinePop
  <1> QED
    BY ZenonT(30), <1>1, <1>2, LineAppend, LineMerge, Kinds
       DEF Still, AnswersOld, Returns, Records, AnswersJob

(***************************************************************************)
(* The promises.                                                           *)
(***************************************************************************)

\* The inductive invariant: who holds which request, where it stands, what it was answered,
\* and what of it is remembered.
OrderInv == IInv /\ PlacesInv /\ RecordedInv /\ NewestInv /\ CapInv /\ LineInv

\* The initial states satisfy it.
LEMMA OrderInit == Init => OrderInv
  BY TypeInit, OwnInit, PlacesInit, RecordedInit, NewestInit, CapInit, LineInit
     DEF OrderInv, IInv

\* Every step keeps it.
LEMMA OrderStep == OrderInv /\ [Next]_vars => OrderInv'
  BY TypeStep, OwnStep, PlacesStep, RecordedStep, NewestStep, CapStep, LineStep
     DEF OrderInv, IInv

\* The strengthened invariant holds in every reachable state.
LEMMA OrderInvariance == Spec => []OrderInv
  BY OrderInit, OrderStep, PTL DEF Spec

\* What was sent is recorded; what is recorded and not the last place was sent.
LEMMA SentPlaces ==
  ASSUME OrderInv, NEW c \in Cars, NEW k \in Keys
  PROVE  /\ \A i \in Sent(c, k) : i \in Recorded(c, k) /\ taken[c][i].refusal = None
         /\ \A i \in Recorded(c, k) : i \in Nat /\ i <= Len(taken[c])
                                      /\ (i \in Sent(c, k) \/ i = Len(taken[c]))
  <1>1. DOMAIN taken[c] = Places(c) /\ Len(taken[c]) \in Nat
    <2>1. DOMAIN taken[c] = Places(c)
      BY PlacesDomain DEF OrderInv
    <2>2. taken[c] \in Seq([req : Requests, at : Times, refusal : Refusals \cup {None}])
      BY DEF OrderInv, IInv, TypeOK
    <2> QED
      BY <2>1, <2>2
  <1>2. ASSUME NEW i \in Sent(c, k) PROVE i \in Recorded(c, k) /\ taken[c][i].refusal = None
    <2>1. i \in Places(c) /\ KeyOf(ReqAt(c, i)) = k /\ Answered(ReqAt(c, i), "sent")
      BY <1>1 DEF Sent, ReqAt
    <2>2. /\ Verdict(taken[c][i].refusal, "sent")
          /\ taken[c][i].refusal \in {None, "duplicate", "capped"}
      BY <2>1 DEF OrderInv, PlacesInv, Verdicts, Answered
    <2> QED
      BY <2>1, <2>2 DEF Recorded, Verdict
  <1>3. ASSUME NEW i \in Recorded(c, k)
        PROVE  i \in Nat /\ i <= Len(taken[c]) /\ (i \in Sent(c, k) \/ i = Len(taken[c]))
    <2>1. i \in Places(c) /\ KeyOf(ReqAt(c, i)) = k
      BY DEF Recorded
    <2>2. i \in Nat /\ i <= Len(taken[c])
      BY <1>1, <2>1 DEF Places
    <2>3. CASE Answered(ReqAt(c, i), "sent")
      BY <1>1, <2>1, <2>2, <2>3 DEF Sent, ReqAt
    <2>4. CASE \E w \in Requests : job[w] = ReqAt(c, i)
      <3>1. PICK w \in Requests : job[w] = ReqAt(c, i)
        BY <2>4
      <3>2. job[w] # None /\ CarOf(ReqAt(c, i)) = c
        BY <2>1, <3>1, PlaceTyped, OrderConstants
           DEF OrderInv, PlacesInv, TakenOnce, IInv, Places, ReqAt
      <3>3. CarOf(w) = c
        BY <3>1, <3>2 DEF OrderInv, IInv, Ownership, WorkerOwns
      <3>4. Len(taken[c]) \in Places(c) /\ ReqAt(c, Len(taken[c])) = ReqAt(c, i)
        BY <1>1, <3>1, <3>2, <3>3 DEF OrderInv, PlacesInv, JobIsLast, Places
      <3>5. i = Len(taken[c])
        BY <2>1, <3>4 DEF OrderInv, PlacesInv, TakenOnce
      <3> QED
        BY <2>2, <3>5
    <2> QED
      BY <2>3, <2>4 DEF Recorded
  <1> QED
    BY <1>2, <1>3

\* A place between two that were sent, with no other sent between, is the last before it.
LEMMA SentInARow ==
  ASSUME OrderInv, NEW c \in Cars, NEW k \in Keys, NEW i \in Sent(c, k), NEW j \in Places(c),
         i < j, \A m \in Sent(c, k) : m <= i \/ m >= j
  PROVE  LastBefore(c, k, i, j)
  <1>1. \A m \in Recorded(c, k) : m <= i \/ m >= j
    <2> SUFFICES ASSUME NEW m \in Recorded(c, k), m = Len(taken[c]) PROVE m >= j
      BY SentPlaces
    <2>1. Len(taken[c]) \in Nat
      BY DEF OrderInv, IInv, TypeOK
    <2> QED
      BY <2>1 DEF Places
  <1> QED
    BY <1>1, SentPlaces DEF LastBefore

\* A place that is not the last of its car has its answer, and so has the last one when the
\* request that has it was answered.
LEMMA PlacesAnswered ==
  ASSUME OrderInv, NEW c \in Cars, NEW i \in Places(c), answers[ReqAt(c, i)] # <<>>,
         NEW j \in Places(c), j <= i \/ i = Len(taken[c])
  PROVE  answers[ReqAt(c, j)] # <<>>
  <1>1. Len(taken[c]) \in Nat /\ i \in Nat /\ j \in Nat /\ i <= Len(taken[c]) /\ j <= Len(taken[c])
    <2>1. Len(taken[c]) \in Nat
      BY DEF OrderInv, IInv, TypeOK
    <2> QED
      BY <2>1 DEF Places
  <1> SUFFICES ASSUME answers[ReqAt(c, j)] = <<>> PROVE FALSE
    OBVIOUS
  <1>2. PICK w \in Requests : job[w] = ReqAt(c, j)
    BY DEF OrderInv, PlacesInv, TakenOnce
  <1>3. job[w] # None /\ CarOf(ReqAt(c, j)) = c
    BY <1>2, PlaceTyped, OrderConstants DEF OrderInv, PlacesInv, TakenOnce, IInv, Places, ReqAt
  <1>4. CarOf(w) = c
    BY <1>2, <1>3 DEF OrderInv, IInv, Ownership, WorkerOwns
  <1>5. Len(taken[c]) \in Places(c) /\ ReqAt(c, Len(taken[c])) = ReqAt(c, j)
    BY <1>1, <1>2, <1>3, <1>4 DEF OrderInv, PlacesInv, JobIsLast, Places
  <1>6. j = Len(taken[c])
    BY <1>5 DEF OrderInv, PlacesInv, TakenOnce
  <1>7. i = j
    BY <1>1, <1>6
  <1> QED
    BY <1>7

\* The slider promise of dispatch.go:26-28, as far as the dispatcher can keep it: when the
\* newest request for a set-state key was reported sent nothing was handled after it; when it
\* was refused as a duplicate, what was handled since the value it repeats was sent was
\* rejected or reported failed.
THEOREM SettledValueIsNewestHolds == Spec => []SettledValueIsNewest
  <1>1. ASSUME OrderInv, NEW c \in Cars, NEW k \in Keys \ Momentary, NEW n \in DOMAIN arrived,
               NewestAt(n, c, k), Slots(c, k) = {},
               Answered(arrived[n], "sent") \/ Answered(arrived[n], "duplicate")
        PROVE  \E i \in Sent(c, k) :
                  /\ ValueAt(c, i) = normPayload(req[arrived[n]].payload)
                  /\ \A j \in Handled(c, k) : j > i =>
                        \/ Answered(taken[c][j].req, "rejected")
                        \/ /\ Answered(taken[c][j].req, "failed")
                           /\ Answered(arrived[n], "duplicate")
    <2>1. n \in 1..Len(arrived)
      BY <1>1 DEF OrderInv, IInv, TypeOK
    <2>2. PICK i \in Places(c) :
             ReqAt(c, i) = arrived[n] /\ \A j \in Places(c) : KeyOf(ReqAt(c, j)) = k => j <= i
      BY <1>1, <2>1 DEF OrderInv, NewestInv
    <2>3. ValueAt(c, i) = normPayload(req[arrived[n]].payload) /\ KeyOf(ReqAt(c, i)) = k
      BY <1>1, <2>2 DEF ValueAt, ReqAt, NewestAt, IsFor
    <2>4. DOMAIN taken[c] = Places(c) /\ i \in Nat /\ Len(taken[c]) \in Nat /\ i <= Len(taken[c])
      BY <1>1, PlacesDomain DEF OrderInv, IInv, TypeOK, Places
    <2>5. \A j \in Handled(c, k) : j \in Places(c) /\ j \in Nat /\ j <= i
      BY <2>2, <2>4 DEF Handled, ReqAt, Places
    <2>6. CASE Answered(arrived[n], "sent")
      <3>1. i \in Sent(c, k)
        BY <2>2, <2>3, <2>4, <2>6 DEF Sent, ReqAt
      <3>2. \A j \in Handled(c, k) : ~(j > i)
        BY <2>4, <2>5
      <3> QED
        BY <2>3, <3>1, <3>2
    <2>7. CASE Answered(arrived[n], "duplicate")
      <3>1. taken[c][i].refusal = "duplicate"
        <4>1. Verdict(taken[c][i].refusal, "duplicate")
          BY <1>1, <2>2, <2>7 DEF OrderInv, PlacesInv, Verdicts, Answered
        <4> QED
          BY <4>1 DEF Verdict, HandlerOutcomes
      <3>2. PICK m \in Places(c) : LastBefore(c, k, m, i) /\ ValueAt(c, m) = ValueAt(c, i)
        BY <1>1, <2>2, <2>3, <3>1 DEF OrderInv, RecordedInv, DuplicatesTrue
      <3>3. m \in Recorded(c, k) /\ m \in Nat /\ m < i
            /\ \A j \in Recorded(c, k) : j <= m \/ j >= i
        BY <1>1, <3>2, SentPlaces DEF LastBefore
      <3>4. m \in Sent(c, k)
        BY <1>1, <2>4, <3>3, SentPlaces
      <3>5. ASSUME NEW j \in Handled(c, k), j > m
            PROVE  Answered(taken[c][j].req, "rejected") \/ Answered(taken[c][j].req, "failed")
        <4>1. j \in Places(c) /\ j \in Nat /\ j <= i /\ taken[c][j].refusal = None
          BY <2>5 DEF Handled
        <4>2. j # i
          BY <3>1, <4>1, OrderConstants DEF Outcomes, Refusals
        <4>3. answers[ReqAt(c, j)] # <<>>
          BY <1>1, <2>2, <2>7, <4>1, PlacesAnswered DEF Answered
        <4>4. answers[ReqAt(c, j)][1] \in HandlerOutcomes
          BY <1>1, <4>1, <4>3 DEF OrderInv, PlacesInv, Verdicts, Verdict
        <4>5. j \notin Recorded(c, k)
          BY <2>4, <3>3, <3>5, <4>1, <4>2
        <4>6. j \notin Sent(c, k)
          BY <1>1, <4>5, SentPlaces
        <4>7. answers[ReqAt(c, j)][1] # "sent"
          BY <2>4, <4>1, <4>3, <4>6 DEF Sent, Handled, Answered, ReqAt
        <4> QED
          BY <4>3, <4>4, <4>7 DEF HandlerOutcomes, Answered, ReqAt
      <3> QED
        BY <2>3, <2>7, <3>2, <3>4, <3>5
    <2> QED
      BY <1>1, <2>6, <2>7
  <1>2. OrderInv => SettledValueIsNewest
    BY <1>1 DEF SettledValueIsNewest
  <1> QED
    BY <1>2, OrderInvariance, PTL

\* Both limits of dispatch.go:14-20: no key of a car goes to the handler more often than
\* its cap in any rolling hour, and no value twice in a row within DuplicateWindow.
THEOREM LimitsHoldHolds == Spec => []LimitsHold
  <1>1. ASSUME OrderInv, NEW c \in Cars, NEW k \in Keys \ Momentary,
               NEW i \in Sent(c, k), NEW j \in Sent(c, k),
               i < j, \A m \in Sent(c, k) : m <= i \/ m >= j, ValueAt(c, i) = ValueAt(c, j)
        PROVE  taken[c][j].at - taken[c][i].at >= DuplicateWindow
    <2>1. i \in Recorded(c, k) /\ j \in Recorded(c, k) /\ taken[c][j].refusal = None
      BY <1>1, SentPlaces
    <2>2. i \in Places(c) /\ j \in Places(c) /\ KeyOf(ReqAt(c, j)) = k
      BY <2>1 DEF Recorded
    <2>3. LastBefore(c, k, i, j)
      BY <1>1, <2>2, SentInARow
    <2> QED
      BY <1>1, <2>1, <2>2, <2>3 DEF OrderInv, RecordedInv, DuplicatesTrue
  <1>2. OrderInv => LimitsHold
    BY <1>1 DEF OrderInv, CapInv, LimitsHold, NoDuplicateSent
  <1> QED
    BY <1>2, OrderInvariance, PTL

\* The order of dispatch.go:23-24, as far as it holds: a request is taken before one that
\* arrived earlier only in a place that a request of its own key, older than both, gave up.
THEOREM OvertakesOnlyByMergingHolds == Spec => []OvertakesOnlyByMerging
  <1>1. ASSUME OrderInv, NEW c \in Cars, NEW r \in Requests, NEW s \in Requests,
               Before(arrived, r, s), Before(TakenReqs(c), s, r)
        PROVE  GaveWay(c, r, s)
    <2>1. PICK t \in Nat, b \in Nat : t = Len(taken[c]) /\ b = Len(pending[c])
      <3>1. /\ taken[c] \in Seq([req : Requests, at : Times, refusal : Refusals \cup {None}])
            /\ pending[c] \in Seq(Requests)
        BY <1>1 DEF OrderInv, IInv, TypeOK
      <3> QED
        BY <3>1
    <2>2. Len(TakenReqs(c)) = Len(taken[c])
      BY <2>1 DEF TakenReqs
    <2>3. PICK i \in 1..Len(taken[c]), j \in 1..Len(taken[c]) :
             i < j /\ TakenReqs(c)[i] = s /\ TakenReqs(c)[j] = r
      BY <1>1, <2>2 DEF Before
    <2>4. i \in Line(c) /\ j \in Line(c) /\ At(c, i) = s /\ At(c, j) = r
      <3>1. i \in 1..t /\ j \in 1..t /\ 1..t \subseteq 1..(t + b) /\ Line(c) = 1..(t + b)
        <4>1. i \in 1..t /\ j \in 1..t
          BY <2>1, <2>3
        <4>2. Line(c) = 1..(t + b)
          BY <2>1 DEF Line
        <4>3. 1..t \subseteq 1..(t + b)
          OBVIOUS
        <4> QED
          BY <4>1, <4>2, <4>3
      <3>2. TakenReqs(c)[i] = taken[c][i].req /\ TakenReqs(c)[j] = taken[c][j].req
        BY <2>1, <3>1 DEF TakenReqs
      <3>3. i <= t /\ j <= t
        BY <3>1
      <3> QED
        BY <2>1, <2>3, <3>1, <3>2, <3>3 DEF At
    <2> QED
      BY <1>1, <2>3, <2>4 DEF OrderInv, LineInv
  <1>2. OrderInv => OvertakesOnlyByMerging
    BY <1>1 DEF OvertakesOnlyByMerging, GaveWay
  <1> QED
    BY <1>2, OrderInvariance, PTL
=============================================================================
