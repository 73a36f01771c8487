------------------------- MODULE CommandPathProofs -------------------------
(***************************************************************************)
(* The dispatcher in front of the relay, for any requests, keys and        *)
(* bounds: what a caller is told is what happened, and a car that was      *)
(* reported to have the newest value has had it, and since then at most    *)
(* values that were reported failed.                                       *)
(*                                                                         *)
(* A step of the composition is a step of the dispatcher or of the relay,  *)
(* so that what DispatcherProofs and RelayProofs prove holds here.         *)
(* What is added ties them together: the call of a request is made by the  *)
(* worker that has it in hand, its outcome is the worker's result, and     *)
(* what the car ran is in the order of the places, up to what came late.   *)
(***************************************************************************)
EXTENDS CommandPath, DispatcherProofs

P == INSTANCE RelayProofs WITH Calls <- Requests

\* A call that was made has a place in its car's order, and until it returns it is in the
\* hand of a worker that waits for it.
CallsMade ==
  \A r \in Requests :
     /\ pc[r] # "idle" =>
           /\ Submitted(r)
           /\ kind[r] = "wake" => KeyOf(r) = "wake"
           /\ \E i \in Places(CarOf(r)) : ReqAt(CarOf(r), i) = r
     /\ pc[r] \notin {"idle", "returned"} =>
           \E w \in Requests : job[w] = r /\ worker[w] = "handling"

\* o is what has become of r: it was refused and no call was made, or it is what the call
\* returned.
Told(r, o) ==
  \/ o \in Refusals /\ pc[r] = "idle"
  \/ pc[r] = "returned" /\ o = outcome[r]

\* So is every answer, and what a worker is going to answer.
AnswersTold ==
  /\ \A r \in Requests : answers[r] # <<>> => Told(r, answers[r][1])
  /\ \A w \in Requests : job[w] # None /\ result[w] # None => Told(job[w], result[w])

\* Request y was taken after x.
TakenAfter(x, y) ==
  \E i, j \in Places(CarOf(x)) :
     i < j /\ ReqAt(CarOf(x), i) = x /\ ReqAt(CarOf(x), j) = y

\* The i-th request that the car ran for this key is x, and whatever it ran later was
\* taken later, or was reported failed.
RanInOrder(x, i) ==
  LET ran == onCar[CarOf(x)][KeyOf(x)]
  IN  /\ i \in 1..Len(ran) /\ ran[i] = x
      /\ \A j \in 1..Len(ran) : j > i => outcome[ran[j]] = "failed" \/ TakenAfter(x, ran[j])

\* The car ran what was called for it and counted as run, and everything that was reported
\* sent.
CarRan ==
  /\ onCar \in [Cars -> [Keys -> Seq(Requests)]]
  /\ \A c \in Cars, k \in Keys : \A i \in 1..Len(onCar[c][k]) :
        /\ IsFor(onCar[c][k][i], c, k)
        /\ pc[onCar[c][k][i]] # "idle" /\ executed[onCar[c][k][i]] # 0
  /\ \A r \in Requests : outcome[r] = "sent" /\ kind[r] # "wake" => \E i \in Nat : RanInOrder(r, i)

PathInv == OrderInv /\ P!RelayInv /\ P!Reports /\ CallsMade /\ AnswersTold /\ CarRan

(***************************************************************************)
(* The relay of the composition is the one RelayProofs is about.           *)
(***************************************************************************)

\* What both assume of the constants.
LEMMA PathConstants == P!RelayAssumption
  BY PathAssumption DEF Relay!RelayAssumption, P!RelayAssumption, Relay!HandleOutcomes,
                        P!HandleOutcomes, Relay!Kinds, P!Kinds

\* A call takes the same steps in both.
LEMMA SameCall ==
  ASSUME NEW h \in Requests
  PROVE  Relay!CallStep(h) => P!CallStep(h)
  <1>1. Relay!NoToken(h) => P!NoToken(h)
    BY Zenon DEF Relay!NoToken, P!NoToken, Relay!histVars, P!histVars, Relay!Fail, P!Fail,
                 Relay!Return, P!Return, Relay!Goto, P!Goto, Relay!EndFlight, P!EndFlight,
                 Relay!Leads, P!Leads
  <1>2. Relay!PostAgain(h) => P!PostAgain(h)
    BY Zenon DEF Relay!PostAgain, P!PostAgain, Relay!PutOnWire, P!PutOnWire, Relay!Strays, P!Strays,
                 Relay!Retries, P!Retries, Relay!Replies, P!Replies
  <1>3. Relay!Command(h) => P!Command(h)
    BY Zenon DEF Relay!Command, P!Command, Relay!Return, P!Return, Relay!Goto, P!Goto,
                 Relay!PutOnWire, P!PutOnWire, Relay!Strays, P!Strays, Relay!PostEnds, P!PostEnds,
                 Relay!Retries, P!Retries, Relay!Replies, P!Replies
  <1>4. Relay!Retry(h) => P!Retry(h)
    BY Zenon DEF Relay!Retry, P!Retry, Relay!Return, P!Return, Relay!Goto, P!Goto, Relay!PutOnWire,
                 P!PutOnWire, Relay!Strays, P!Strays, Relay!PostEnds, P!PostEnds, Relay!Retries,
                 P!Retries, Relay!Replies, P!Replies
  <1>5. Relay!Navigate(h) => P!Navigate(h)
    BY Zenon DEF Relay!Navigate, P!Navigate, Relay!Return, P!Return, Relay!Goto, P!Goto,
                 Relay!PutOnWire, P!PutOnWire, Relay!Strays, P!Strays, Relay!Replies, P!Replies
  <1>6. Relay!NavigateNowhere(h) => P!NavigateNowhere(h)
    BY Zenon DEF Relay!NavigateNowhere, P!NavigateNowhere, Relay!histVars, P!histVars, Relay!Return,
                 P!Return, Relay!Goto, P!Goto
  <1>7. Relay!EnsureAwake(h) => P!EnsureAwake(h)
    BY Zenon DEF Relay!EnsureAwake, P!EnsureAwake, Relay!histVars, P!histVars, Relay!Goto, P!Goto
  <1>8. Relay!TakeWake(h) => P!TakeWake(h)
    BY Zenon DEF Relay!TakeWake, P!TakeWake, Relay!Goto, P!Goto, Relay!Rest, P!Rest, Relay!Prunes,
                 P!Prunes
  <1>9. Relay!WakeRefused(h) => P!WakeRefused(h)
    BY Zenon DEF Relay!WakeRefused, P!WakeRefused, Relay!histVars, P!histVars, Relay!Return,
                 P!Return, Relay!Goto, P!Goto, Relay!EndFlight, P!EndFlight, Relay!Leads, P!Leads,
                 Relay!Rest, P!Rest, Relay!Prunes, P!Prunes
  <1>10. Relay!Wake(h) => P!Wake(h)
    BY Zenon DEF Relay!Wake, P!Wake, Relay!EndFlight, P!EndFlight, Relay!Leads, P!Leads, Relay!Goto,
                 P!Goto, Relay!Return, P!Return, Relay!Fail, P!Fail, Relay!PostEnds, P!PostEnds,
                 Relay!Retries, P!Retries, Relay!WakeReplies, P!WakeReplies
  <1>11. Relay!PollOnline(h) => P!PollOnline(h)
    BY Zenon DEF Relay!PollOnline, P!PollOnline, Relay!histVars, P!histVars, Relay!EndFlight,
                 P!EndFlight
  <1>12. Relay!PollAgain(h) => P!PollAgain(h)
    BY Zenon DEF Relay!PollAgain, P!PollAgain, Relay!histVars, P!histVars, Relay!EndFlight,
                 P!EndFlight
  <1> QED
    BY <1>1, <1>2, <1>3, <1>4, <1>5, <1>6, <1>7, <1>8, <1>9, <1>10, <1>11, <1>12
       DEF Relay!CallStep, P!CallStep

\* So do the car and the clock, and a call begins in the same way.
LEMMA SameRest ==
  /\ Relay!Init => P!Init
  /\ Relay!Tick => P!Tick
  /\ \A c \in Cars : Relay!CarChanges(c) => P!CarChanges(c)
  /\ \A r \in Requests : Relay!ArrivesLate(r) => P!ArrivesLate(r)
  /\ \A r \in Requests, c \in Cars : Relay!Handle(r, c) => P!Handle(r, c)
  <1>1. Relay!Init => P!Init
    BY Zenon DEF Relay!Init, P!Init
  <1>2. Relay!Tick => P!Tick
    BY Zenon DEF Relay!Tick, P!Tick, Relay!relayVars, P!relayVars, Relay!histVars, P!histVars,
                 Relay!callVars, P!callVars
  <1>3. ASSUME NEW c \in Cars PROVE Relay!CarChanges(c) => P!CarChanges(c)
    BY Zenon DEF Relay!CarChanges, P!CarChanges, Relay!histVars, P!histVars, Relay!callVars,
                 P!callVars
  <1>4. ASSUME NEW r \in Requests PROVE Relay!ArrivesLate(r) => P!ArrivesLate(r)
    BY Zenon DEF Relay!ArrivesLate, P!ArrivesLate, Relay!callVars, P!callVars
  <1>5. ASSUME NEW r \in Requests, NEW c \in Cars PROVE Relay!Handle(r, c) => P!Handle(r, c)
    BY Zenon DEF Relay!Handle, P!Handle, Relay!histVars, P!histVars, Relay!Return, P!Return,
                 Relay!Goto, P!Goto, Relay!Kinds, P!Kinds
  <1> QED
    BY <1>1, <1>2, <1>3, <1>4, <1>5

(***************************************************************************)
(* What the steps of the composition are.                                  *)
(***************************************************************************)

\* The relay rests while the dispatcher moves or time passes. A worker that stops waiting
\* for its call has the result of the call.
DispatcherMoves ==
  /\ [Next]_vars
  /\ UNCHANGED <<handleVars, onCar>>
  /\ \A w \in Requests : worker[w] = "handling" /\ worker'[w] # "handling" =>
        pc[job[w]] = "returned" /\ result'[w] = outcome[job[w]]

\* The dispatcher rests while a call begins, goes on or gets through late, or a car changes.
Begun(w, x) ==
  /\ x = job[w] /\ worker[w] = "handling" /\ P!Begins(x, CarOf(x)) /\ onCar' = onCar
  /\ kind'[x] \in {None, IF KeyOf(x) \in {"wake", "navigate"} THEN KeyOf(x) ELSE "command"}
RelayMoves ==
  /\ UNCHANGED <<now, queueVars, callVars, workVars, answers>>
  /\ \/ UNCHANGED <<pc, kind, outcome, executed, onCar>>
     \/ \E x \in Requests : P!LateDoes(x) /\ Ran(x)
     \/ \E w, x \in Requests : Begun(w, x)
     \/ \E w, x \in Requests : x = job[w] /\ P!CallDoes(x) /\ Ran(x)

\* The steps of the dispatcher alone.
LEMMA QueueMoves ==
  ASSUME PathInv, NEW r \in Requests,
         PathSubmit(r) \/ PathCallerStep(r) \/ QueueStep(r) \/ HandleReturns(r)
  PROVE  DispatcherMoves /\ now' = now
  <1>1. UNCHANGED <<handleVars, onCar>>
    BY DEF PathSubmit, PathCallerStep, QueueStep, HandleReturns
  <1>2. Next /\ now' = now
    BY DEF PathSubmit, PathCallerStep, QueueStep, HandleReturns, Next, WorkerStep, CallerStep,
           Submit, SubmitMerge, SubmitAppend, Enter, AnswerReplaced, StartWorker, WorkerExit,
           Take, TakeDuplicate, TakeUncapped, TakeCapped, Pop, HandlerReturns, RecordSent, Answer
  <1>3. worker \in [Requests -> {"absent", "top", "handling", "recording", "answering", "gone"}]
        /\ result \in [Requests -> Outcomes \cup {None}]
    BY DEF PathInv, OrderInv, IInv, TypeOK
  <1>4. ASSUME NEW w \in Requests, worker[w] = "handling", worker'[w] # "handling"
        PROVE  pc[job[w]] = "returned" /\ result'[w] = outcome[job[w]]
    <2>1. CASE HandleReturns(r)
      <3>1. w = r
        BY <1>3, <1>4, <2>1 DEF HandleReturns, HandlerReturns
      <3> QED
        BY <2>1, <3>1 DEF HandleReturns
    <2>2. CASE PathSubmit(r)
      BY <1>4, <2>2 DEF PathSubmit, Submit, SubmitMerge, SubmitAppend, Enter, workVars
    <2>3. CASE PathCallerStep(r)
      <3>1. CASE AnswerReplaced(r)
        BY <1>4, <3>1 DEF AnswerReplaced, workVars
      <3>2. CASE StartWorker(r)
        <4>1. worker[r] = "absent"
          BY <3>2 DEF StartWorker, PathInv, OrderInv, IInv, Ownership, Threads
        <4> QED
          BY <1>3, <1>4, <3>2, <4>1 DEF StartWorker
      <3> QED
        BY <2>3, <3>1, <3>2 DEF PathCallerStep, CallerStep
    <2>4. CASE QueueStep(r)
      <3>1. CASE WorkerExit(r)
        BY <1>3, <1>4, <3>1 DEF WorkerExit
      <3>2. CASE Take(r)
        BY <1>3, <1>4, <3>2 DEF Take, TakeDuplicate, TakeUncapped, TakeCapped, Pop
      <3>3. CASE RecordSent(r)
        BY <1>3, <1>4, <3>3 DEF RecordSent
      <3>4. CASE Answer(r)
        BY <1>3, <1>4, <3>4 DEF Answer
      <3> QED
        BY <2>4, <3>1, <3>2, <3>3, <3>4 DEF QueueStep
    <2> QED
      BY <2>1, <2>2, <2>3, <2>4
  <1> QED
    BY <1>1, <1>2, <1>4 DEF DispatcherMoves

\* The steps of the relay alone.
LEMMA CallMoves ==
  ASSUME PathInv,
         \/ \E c \in Cars : PathCarChanges(c)
         \/ \E r \in Requests : PathArrivesLate(r) \/ CallHandle(r)
         \/ \E w \in Requests : job[w] # None /\ HandleStep(job[w])
  PROVE  RelayMoves /\ P!Next
  <1> USE PathConstants
  <1>1. /\ P!RelayInv /\ P!Reports
        /\ job \in [Requests -> Requests \cup {None}]
    BY DEF PathInv, OrderInv, IInv, TypeOK
  <1>2. CASE \E c \in Cars : PathCarChanges(c)
    <2>1. PICK c \in Cars : P!CarChanges(c)
                            /\ UNCHANGED <<queueVars, callVars, workVars, answers, onCar>>
      BY <1>2, SameRest DEF PathCarChanges
    <2> QED
      BY <2>1 DEF RelayMoves, P!Next, P!CarChanges, P!callVars, P!histVars
  <1>3. CASE \E r \in Requests : PathArrivesLate(r)
    <2>1. PICK r \in Requests : P!ArrivesLate(r) /\ Ran(r)
                                /\ UNCHANGED <<queueVars, callVars, workVars, answers>>
      BY <1>3, SameRest DEF PathArrivesLate
    <2>2. P!LateDoes(r)
      BY <1>1, <2>1, P!LateDoesStep
    <2> QED
      BY <2>1, <2>2 DEF RelayMoves, P!Next, P!LateDoes
  <1>4. CASE \E w \in Requests : CallHandle(w)
    <2>1. PICK w \in Requests : CallHandle(w)
      BY <1>4
    <2>2. PICK c \in Cars, x \in Requests : c = CarOf(w) /\ x = job[w] /\ CarOf(x) = c
      BY <2>1, Answering DEF CallHandle, PathInv, OrderInv
    <2>3. P!Handle(x, CarOf(x))
      BY <2>1, <2>2, SameRest DEF CallHandle
    <2>4. P!Begins(x, CarOf(x))
      BY <1>1, <2>2, <2>3, P!BeginsStep
    <2>5. Begun(w, x)
      BY <2>1, <2>2, <2>4 DEF CallHandle, Begun
    <2>6. now' = now
      BY <2>4 DEF P!Begins
    <2> QED
      BY <2>1, <2>2, <2>3, <2>5, <2>6 DEF CallHandle, RelayMoves, P!Next
  <1>5. CASE \E w \in Requests : job[w] # None /\ HandleStep(job[w])
    <2>1. PICK w \in Requests : job[w] # None /\ HandleStep(job[w])
      BY <1>5
    <2>2. PICK x \in Requests : x = job[w]
      BY <1>1, <2>1
    <2>3. P!CallStep(x) /\ Ran(x) /\ UNCHANGED <<queueVars, callVars, workVars, answers>>
      BY <2>1, <2>2, SameCall DEF HandleStep
    <2>4. P!CallDoes(x)
      BY <1>1, <2>3, P!CallDoesStep
    <2> QED
      BY <2>2, <2>3, <2>4 DEF RelayMoves, P!Next, P!CallDoes
  <1> QED
    BY <1>2, <1>3, <1>4, <1>5

\* Every step is one or the other, and a step of the dispatcher and of the relay.
LEMMA PathMoves ==
  ASSUME PathInv, [PathNext]_pathVars
  PROVE  [Next]_vars /\ [P!Next]_(P!vars) /\ (DispatcherMoves \/ RelayMoves)
  <1>1. CASE PathTick
    <2>1. Tick /\ P!Tick /\ onCar' = onCar
      BY <1>1, SameRest DEF PathTick
    <2>2. UNCHANGED <<handleVars, worker>>
      BY <2>1 DEF P!Tick, P!relayVars, P!callVars, P!histVars, handleVars, Tick, workVars
    <2> QED
      BY <2>1, <2>2 DEF Next, P!Next, DispatcherMoves
  <1>2. CASE UNCHANGED pathVars
    BY <1>2 DEF pathVars, handleVars, P!vars, P!relayVars, P!callVars, P!histVars,
                DispatcherMoves, vars, workVars
  <1>3. CASE \E r \in Requests :
               PathSubmit(r) \/ PathCallerStep(r) \/ QueueStep(r) \/ HandleReturns(r)
    <2>1. DispatcherMoves /\ now' = now
      BY <1>3, QueueMoves
    <2> QED
      BY <2>1 DEF DispatcherMoves, handleVars, P!vars, P!relayVars, P!callVars, P!histVars
  <1>4. CASE \/ \E c \in Cars : PathCarChanges(c)
             \/ \E r \in Requests : PathArrivesLate(r) \/ CallHandle(r)
             \/ \E w \in Requests : job[w] # None /\ HandleStep(job[w])
    <2>1. RelayMoves /\ P!Next
      BY <1>4, CallMoves
    <2> QED
      BY <2>1 DEF RelayMoves, vars
  <1> QED
    BY <1>1, <1>2, <1>3, <1>4 DEF PathNext, PathWorkerStep

(***************************************************************************)
(* Steps of the dispatcher.                                                *)
(***************************************************************************)

\* What is known of a call, in the form the steps use it.
LEMMA CallFacts ==
  ASSUME PathInv, NEW r \in Requests
  PROVE  /\ None \notin Outcomes /\ None \notin Requests
         /\ "wake" # None /\ "sent" # "failed" /\ "sent" \notin Refusals
         /\ pc[r] = "returned" <=> outcome[r] # None
         /\ late[r] => pc[r] = "returned" /\ outcome[r] = "failed"
         /\ pc[r] # "returned" => executed[r] = 0
         /\ outcome[r] = "sent" /\ kind[r] # "wake" => executed[r] = 1
         /\ outcome[r] = "rejected" => executed[r] = 0
         /\ answers[r] # <<>> => pc[r] = "idle" \/ pc[r] = "returned"
  <1>1. /\ P!RelayInv /\ P!Reports /\ AnswersTold /\ None \notin Outcomes /\ None \notin Requests
    BY OrderConstants DEF PathInv
  <1>2. "wake" # None
    BY PathConstants DEF P!RelayAssumption, P!Kinds
  <1> QED
    BY <1>1, <1>2 DEF P!RelayInv, P!Fires, P!Reports, P!Report, AnswersTold, Told, Outcomes,
                      Refusals, HandlerOutcomes

\* A request nobody took has made no call.
LEMMA NotTaken ==
  ASSUME PathInv, NEW r \in Requests, answers[r] = <<>>, \A w \in Requests : job[w] # r
  PROVE  pc[r] = "idle"
  <1> SUFFICES ASSUME pc[r] # "idle" PROVE FALSE
    OBVIOUS
  <1>1. Submitted(r) /\ \E i \in Places(CarOf(r)) : ReqAt(CarOf(r), i) = r
    BY DEF PathInv, CallsMade
  <1>2. CarOf(r) \in Cars
    BY <1>1, CommandParts DEF PathInv, OrderInv, IInv, Submitted
  <1> QED
    BY <1>1, <1>2 DEF PathInv, OrderInv, PlacesInv, TakenOnce

\* A place that was taken stays.
LEMMA PlacesStay ==
  ASSUME PathInv, [Next]_vars, NEW c \in Cars, NEW i \in Places(c)
  PROVE  i \in Places(c)' /\ ReqAt(c, i)' = ReqAt(c, i)
  <1>1. IInv /\ PlacesInv
    BY DEF PathInv, OrderInv
  <1>2. CASE taken' = taken
    BY <1>2 DEF Places, ReqAt
  <1>3. CASE \E w \in Requests : Take(w)
    <2>1. PICK w \in Requests, o \in {None, "duplicate", "capped"} : Pop(w, o)
      BY <1>1, <1>3, TakeIsPop
    <2>2. PICK d \in Cars, r \in Requests : Takes(w, o, d, r)
      BY <1>1, <2>1, Took
    <2> QED
      BY <2>2 DEF Takes, Places, ReqAt
  <1> QED
    BY ZenonT(60), <1>1, <1>2, <1>3, Kinds DEF Still, AnswersOld, Enters, Returns, Records, AnswersJob

\* A request that has a command keeps its car, its key and its place behind others.
LEMMA OrderStays ==
  ASSUME PathInv, [Next]_vars, NEW x \in Requests, Submitted(x)
  PROVE  /\ Submitted(x)' /\ CarOf(x)' = CarOf(x) /\ KeyOf(x)' = KeyOf(x)
         /\ CarOf(x) \in Cars /\ KeyOf(x) \in Keys
         /\ \A y \in Requests : TakenAfter(x, y) => TakenAfter(x, y)'
         /\ (\E i \in Places(CarOf(x)) : ReqAt(CarOf(x), i) = x) =>
               (\E i \in Places(CarOf(x)) : ReqAt(CarOf(x), i) = x)'
  <1>1. req'[x] = req[x]
    BY CommandsStay DEF PathInv, OrderInv
  <1>2. Submitted(x)' /\ CarOf(x)' = CarOf(x) /\ KeyOf(x)' = KeyOf(x)
    BY <1>1 DEF Submitted, CarOf, KeyOf
  <1>3. CarOf(x) \in Cars /\ KeyOf(x) \in Keys
    BY CommandParts DEF PathInv, OrderInv, IInv, Submitted
  <1>4. PICK c \in Cars : c = CarOf(x) /\ c = CarOf(x)'
    BY <1>2, <1>3
  <1>5. \A i \in Places(c) : i \in Places(c)' /\ ReqAt(c, i)' = ReqAt(c, i)
    BY PlacesStay
  <1>6. \A y \in Requests : TakenAfter(x, y) =>
           \E i, j \in Places(c) : i < j /\ ReqAt(c, i) = x /\ ReqAt(c, j) = y
    BY <1>4 DEF TakenAfter
  <1>7. \A y \in Requests : (\E i, j \in Places(c)' : i < j /\ ReqAt(c, i)' = x /\ ReqAt(c, j)' = y)
           => TakenAfter(x, y)'
    BY <1>4 DEF TakenAfter
  <1>8. \A y \in Requests : TakenAfter(x, y) => TakenAfter(x, y)'
    BY <1>5, <1>6, <1>7
  <1>9. (\E i \in Places(c) : ReqAt(c, i) = x) => (\E i \in Places(c)' : ReqAt(c, i)' = x)
    BY <1>5
  <1> QED
    BY <1>2, <1>3, <1>4, <1>8, <1>9

\* The dispatcher leaves the calls to their workers.
LEMMA CallsMadeQueue ==
  ASSUME PathInv, DispatcherMoves
  PROVE  CallsMade'
  <1>1. [Next]_vars /\ IInv /\ PlacesInv /\ pc' = pc /\ kind' = kind
    BY DEF DispatcherMoves, handleVars, PathInv, OrderInv
  <1>2. ASSUME NEW r \in Requests, pc[r] # "idle"
        PROVE  /\ Submitted(r)' /\ (kind[r] = "wake" => KeyOf(r)' = "wake")
               /\ (\E i \in Places(CarOf(r)) : ReqAt(CarOf(r), i) = r)'
    <2>1. Submitted(r) /\ (kind[r] = "wake" => KeyOf(r) = "wake")
          /\ \E i \in Places(CarOf(r)) : ReqAt(CarOf(r), i) = r
      BY <1>2 DEF PathInv, CallsMade
    <2> QED
      BY <1>1, <2>1, OrderStays
  <1>3. ASSUME NEW r \in Requests, pc[r] \notin {"idle", "returned"}
        PROVE  \E w \in Requests : job'[w] = r /\ worker'[w] = "handling"
    <2>1. PICK w \in Requests : job[w] = r /\ worker[w] = "handling"
      BY <1>3 DEF PathInv, CallsMade
    <2>2. worker'[w] = "handling"
      BY <1>3, <2>1 DEF DispatcherMoves
    <2>3. CASE \E v \in Requests : Take(v)
      <3>1. PICK v \in Requests, o \in {None, "duplicate", "capped"} : Pop(v, o)
        BY <1>1, <2>3, TakeIsPop
      <3>2. PICK d \in Cars, s \in Requests : Takes(v, o, d, s)
        BY <1>1, <3>1, Took
      <3> QED
        BY <2>1, <2>2, <3>1, <3>2 DEF Takes, Pop
    <2>4. CASE job' = job
      BY <2>1, <2>2, <2>4
    <2>5. CASE \E v, s \in Requests, o \in Outcomes : AnswersJob(v, s, o)
      BY <2>1, <2>2, <2>5 DEF AnswersJob
    <2> QED
      BY ZenonT(60), <1>1, <2>3, <2>4, <2>5, Kinds DEF Still, AnswersOld, Enters, Returns, Records
  <1> QED
    BY <1>1, <1>2, <1>3 DEF CallsMade

\* The dispatcher answers with a refusal, or with what the call returned.
LEMMA ToldQueue ==
  ASSUME PathInv, DispatcherMoves
  PROVE  AnswersTold'
  <1>1. [Next]_vars /\ IInv /\ PlacesInv /\ AnswersTold /\ pc' = pc /\ outcome' = outcome
    BY DEF DispatcherMoves, handleVars, PathInv, OrderInv
  <1>2. \A r \in Requests, o \in Outcomes : Told(r, o)' <=> Told(r, o)
    BY <1>1 DEF Told
  <1>3. /\ None \notin Outcomes /\ None \notin Requests
        /\ answers \in [Requests -> Seq(Outcomes)] /\ result \in [Requests -> Outcomes \cup {None}]
        /\ job \in [Requests -> Requests \cup {None}]
    BY <1>1, OrderConstants DEF IInv, TypeOK
  <1>4. \A r \in Requests : answers[r] # <<>> =>
           answers[r][1] \in Outcomes /\ Told(r, answers[r][1])
    BY <1>1, <1>3 DEF AnswersTold
  <1>5. \A w \in Requests : job[w] # None /\ result[w] # None =>
           job[w] \in Requests /\ result[w] \in Outcomes /\ Told(job[w], result[w])
    BY <1>1, <1>3 DEF AnswersTold
  <1>6. SUFFICES /\ \A r \in Requests : answers'[r] # <<>> =>
                       answers'[r][1] \in Outcomes /\ Told(r, answers'[r][1])
                 /\ \A w \in Requests : job'[w] # None /\ result'[w] # None =>
                       /\ job'[w] \in Requests /\ result'[w] \in Outcomes
                       /\ Told(job'[w], result'[w])
    BY <1>2 DEF AnswersTold
  <1>7. CASE UNCHANGED <<answers, job, result>>
    BY <1>4, <1>5, <1>7
  <1>8. CASE \E x \in Requests : AnswersOld(x)
    <2>1. PICK x \in Requests : AnswersOld(x)
      BY <1>8
    <2>2. pc[x] = "idle"
      BY <2>1, NotTaken DEF AnswersOld
    <2>3. Told(x, "replaced") /\ "replaced" \in Outcomes
      BY <2>2 DEF Told, Refusals, Outcomes
    <2> QED
      BY <1>4, <1>5, <2>1, <2>3 DEF AnswersOld
  <1>9. CASE \E w \in Requests : Take(w)
    <2>1. PICK w \in Requests, o \in {None, "duplicate", "capped"} : Pop(w, o)
      BY <1>1, <1>9, TakeIsPop
    <2>2. PICK c \in Cars, x \in Requests : Takes(w, o, c, x)
      BY <1>1, <2>1, Took
    <2>3. pc[x] = "idle"
      BY <2>2, NotTaken DEF Takes
    <2>4. o # None => Told(x, o) /\ o \in Outcomes
      BY <2>3 DEF Told, Refusals, Outcomes
    <2> QED
      BY <1>4, <1>5, <2>2, <2>4 DEF Takes
  <1>10. CASE \E w \in Requests, o \in HandlerOutcomes : Returns(w, o)
    <2>1. PICK w \in Requests, o \in HandlerOutcomes : Returns(w, o)
      BY <1>10
    <2>2. pc[job[w]] = "returned" /\ result'[w] = outcome[job[w]]
      BY <2>1 DEF Returns, DispatcherMoves
    <2>3. Told(job[w], result'[w]) /\ result'[w] \in Outcomes
      BY <2>1, <2>2 DEF Returns, Told, Outcomes
    <2> QED
      BY <1>3, <1>4, <1>5, <2>1, <2>3 DEF Returns
  <1>11. CASE \E w, x \in Requests, o \in Outcomes : AnswersJob(w, x, o)
    <2>1. PICK w \in Requests, x \in Requests, o \in Outcomes : AnswersJob(w, x, o)
      BY <1>11
    <2>2. Told(x, o)
      BY <1>3, <1>5, <2>1 DEF AnswersJob
    <2> QED
      BY <1>4, <1>5, <2>1, <2>2 DEF AnswersJob
  <1>12. \/ UNCHANGED <<answers, job, result>>
         \/ \E x \in Requests : AnswersOld(x)
         \/ \E w \in Requests : Take(w)
         \/ \E w \in Requests, o \in HandlerOutcomes : Returns(w, o)
         \/ \E w, x \in Requests, o \in Outcomes : AnswersJob(w, x, o)
    <2>1. Still => UNCHANGED <<answers, job, result>>
      BY DEF Still
    <2>2. ASSUME NEW r \in Requests, NEW c \in Cars, NEW k \in Keys, NEW p \in Payloads,
                 Enters(r, c, k, p)
          PROVE  UNCHANGED <<answers, job, result>>
      BY <2>2 DEF Enters
    <2>3. ASSUME NEW w \in Requests, NEW r \in Requests, NEW c \in Cars, Records(w, c, r)
          PROVE  UNCHANGED <<answers, job, result>>
      BY <2>3 DEF Records
    <2> QED
      BY <1>1, <2>1, <2>2, <2>3, Kinds
  <1> QED
    BY <1>7, <1>8, <1>9, <1>10, <1>11, <1>12

\* What the car ran is still in order.
LEMMA RanQueue ==
  ASSUME PathInv, DispatcherMoves
  PROVE  CarRan'
  <1>1. /\ [Next]_vars /\ CarRan /\ CallsMade
        /\ pc' = pc /\ outcome' = outcome /\ kind' = kind /\ executed' = executed
        /\ onCar' = onCar
    BY DEF DispatcherMoves, handleVars, PathInv
  <1>2. ASSUME NEW c \in Cars, NEW k \in Keys, NEW i \in 1..Len(onCar[c][k])
        PROVE  /\ IsFor(onCar[c][k][i], c, k)'
               /\ pc[onCar[c][k][i]] # "idle" /\ executed[onCar[c][k][i]] # 0
    <2>1. /\ onCar[c][k] \in Seq(Requests) /\ IsFor(onCar[c][k][i], c, k)
          /\ pc[onCar[c][k][i]] # "idle" /\ executed[onCar[c][k][i]] # 0
      BY <1>1 DEF CarRan
    <2>2. PICK x \in Requests : x = onCar[c][k][i] /\ x = onCar'[c][k][i]
      BY <1>1, <2>1, ElementOfSeq
    <2>3. Submitted(x) /\ CarOf(x) = c /\ KeyOf(x) = k
      BY <1>1, <2>1, <2>2 DEF CallsMade, IsFor
    <2>4. CarOf(x)' = c /\ KeyOf(x)' = k
      BY <1>1, <2>3, OrderStays
    <2> QED
      BY <2>1, <2>2, <2>4 DEF IsFor
  <1>3. ASSUME NEW r \in Requests, outcome[r] = "sent", kind[r] # "wake"
        PROVE  \E i \in Nat : RanInOrder(r, i)'
    <2>1. PICK i \in Nat : RanInOrder(r, i)
      BY <1>1, <1>3 DEF CarRan
    <2>2. pc[r] # "idle"
      BY <1>3, CallFacts
    <2>3. Submitted(r)
      BY <1>1, <2>2 DEF CallsMade
    <2>4. PICK c \in Cars, k \in Keys :
             c = CarOf(r) /\ c = CarOf(r)' /\ k = KeyOf(r) /\ k = KeyOf(r)'
      BY <1>1, <2>3, OrderStays
    <2>5. onCar[c][k] \in Seq(Requests)
      BY <1>1 DEF CarRan
    <2>6. \A j \in 1..Len(onCar[c][k]) : onCar[c][k][j] \in Requests
      BY <2>5, ElementOfSeq
    <2>7. \A y \in Requests : TakenAfter(r, y) => TakenAfter(r, y)'
      BY <1>1, <2>3, OrderStays
    <2>8. /\ i \in 1..Len(onCar[c][k]) /\ onCar[c][k][i] = r
          /\ \A j \in 1..Len(onCar[c][k]) : j > i =>
                outcome[onCar[c][k][j]] = "failed" \/ TakenAfter(r, onCar[c][k][j])
      BY <2>1, <2>4 DEF RanInOrder
    <2>9. \A j \in 1..Len(onCar[c][k]) : j > i =>
             outcome[onCar[c][k][j]] = "failed" \/ TakenAfter(r, onCar[c][k][j])'
      <3> SUFFICES ASSUME NEW j \in 1..Len(onCar[c][k]), j > i, outcome[onCar[c][k][j]] # "failed"
                   PROVE  TakenAfter(r, onCar[c][k][j])'
        OBVIOUS
      <3>1. PICK y \in Requests : y = onCar[c][k][j] /\ y = onCar'[c][k][j]
        BY <1>1, <2>6
      <3>2. TakenAfter(r, y)'
        BY <2>7, <2>8, <3>1
      <3> QED
        BY <1>1, <3>1, <3>2 DEF TakenAfter
    <2> QED
      BY <1>1, <2>4, <2>8, <2>9 DEF RanInOrder
  <1> QED
    BY <1>1, <1>2, <1>3 DEF CarRan

(***************************************************************************)
(* Steps of the relay.                                                     *)
(***************************************************************************)

\* The list of what a car ran grows by x at most, at its end, when x is run.
RanMore(x) ==
  /\ onCar' \in [Cars -> [Keys -> Seq(Requests)]]
  /\ \A c \in Cars, k \in Keys :
        /\ \A i \in 1..Len(onCar[c][k]) :
              i \in 1..Len(onCar'[c][k]) /\ onCar'[c][k][i] = onCar[c][k][i]
        /\ \A i \in 1..Len(onCar'[c][k]) :
              \/ i \in 1..Len(onCar[c][k])
              \/ /\ IsFor(x, c, k) /\ i = Len(onCar'[c][k]) /\ onCar'[c][k][i] = x
                 /\ executed'[x] # executed[x]

\* That is what running is.
LEMMA RanGrows ==
  ASSUME PathInv, NEW x \in Requests, CarOf(x) \in Cars, KeyOf(x) \in Keys, Ran(x)
  PROVE  /\ RanMore(x)
         /\ executed'[x] # executed[x] =>
               LET ran == onCar'[CarOf(x)][KeyOf(x)]
               IN  Len(ran) \in 1..Len(ran) /\ ran[Len(ran)] = x
  <1>1. onCar \in [Cars -> [Keys -> Seq(Requests)]]
    BY DEF PathInv, CarRan
  <1>2. CASE executed'[x] = executed[x]
    BY <1>1, <1>2 DEF Ran, RanMore
  <1>3. CASE executed'[x] # executed[x]
    <2>1. PICK d \in Cars, l \in Keys : d = CarOf(x) /\ l = KeyOf(x)
      OBVIOUS
    <2>2. onCar' = [onCar EXCEPT ![d][l] = Append(onCar[d][l], x)]
      BY <1>3, <2>1 DEF Ran
    <2>3. PICK s \in Seq(Requests) : s = onCar[d][l]
      BY <1>1
    <2>4. Append(s, x) \in Seq(Requests)
      BY <2>3
    <2> DEFINE t == Append(s, x)
    <2> HIDE DEF t
    <2>5. /\ onCar' \in [Cars -> [Keys -> Seq(Requests)]] /\ onCar'[d][l] = t
          /\ \A c \in Cars, k \in Keys : c # d \/ k # l => onCar'[c][k] = onCar[c][k]
      BY <1>1, <2>2, <2>3, <2>4 DEF t
    <2>6. /\ Len(s) \in Nat /\ Len(t) = Len(s) + 1
          /\ 1..Len(t) = 1..Len(s) \cup {Len(s) + 1} /\ Len(s) + 1 \notin 1..Len(s)
          /\ \A i \in 1..Len(s) : t[i] = s[i] /\ i < Len(s) + 1
          /\ t[Len(s) + 1] = x
      BY <2>4, OneMorePlace DEF t
    <2>7. RanMore(x)
      BY <1>3, <2>1, <2>3, <2>5, <2>6 DEF RanMore, IsFor
    <2> QED
      BY <2>1, <2>5, <2>6, <2>7
  <1> QED
    BY <1>2, <1>3

\* What the car ran stays in order when it runs x, if what counts as failed still does and x
\* failed or was taken after what was sent.
LEMMA RanStays ==
  ASSUME PathInv, NEW x \in Requests, RanMore(x), UNCHANGED <<req, taken>>,
         \A r \in Requests : pc[r] # "idle" => pc'[r] # "idle",
         \A r \in Requests : outcome[r] = "failed" => outcome'[r] = "failed",
         \A r \in Requests : executed[r] # 0 => executed'[r] # 0,
         pc'[x] # "idle", executed[x] = 0,
         NEW N \in SUBSET Requests,
         \A r \in Requests : outcome'[r] = "sent" /\ kind'[r] # "wake" =>
            \/ r \in N
            \/ /\ outcome[r] = "sent" /\ kind[r] # "wake"
               /\ CarOf(x) = CarOf(r) => outcome'[x] = "failed" \/ TakenAfter(r, x),
         \A r \in N : \E i \in Nat : RanInOrder(r, i)'
  PROVE  CarRan'
  <1>1. CarRan /\ CallsMade
    BY DEF PathInv
  <1>2. \A y \in Requests : CarOf(y)' = CarOf(y) /\ KeyOf(y)' = KeyOf(y)
    BY DEF CarOf, KeyOf
  <1>3. \A r, y \in Requests : TakenAfter(r, y)' <=> TakenAfter(r, y)
    BY DEF TakenAfter, Places, ReqAt, CarOf
  <1>4. \A c \in Cars, k \in Keys : onCar[c][k] \in Seq(Requests) /\ onCar'[c][k] \in Seq(Requests)
    BY <1>1 DEF CarRan, RanMore
  <1>5. ASSUME NEW c \in Cars, NEW k \in Keys, NEW i \in 1..Len(onCar'[c][k])
        PROVE  /\ IsFor(onCar[c][k][i], c, k)'
               /\ pc'[onCar'[c][k][i]] # "idle" /\ executed'[onCar'[c][k][i]] # 0
    <2>1. PICK y \in Requests : y = onCar'[c][k][i]
      BY <1>4, ElementOfSeq
    <2>2. CASE i \in 1..Len(onCar[c][k])
      <3>1. y = onCar[c][k][i]
        BY <2>1, <2>2 DEF RanMore
      <3>2. IsFor(y, c, k) /\ pc[y] # "idle" /\ executed[y] # 0
        BY <1>1, <2>2, <3>1 DEF CarRan
      <3> QED
        BY <1>2, <2>1, <3>2 DEF IsFor
    <2>3. CASE i \notin 1..Len(onCar[c][k])
      <3>1. /\ IsFor(x, c, k) /\ onCar'[c][k][i] = x
            /\ executed'[x] # executed[x]
        BY <2>3 DEF RanMore
      <3>2. y = x /\ executed'[x] # 0
        BY <2>1, <3>1
      <3> QED
        BY <1>2, <2>1, <3>1, <3>2 DEF IsFor
    <2> QED
      BY <2>2, <2>3
  <1>6. ASSUME NEW r \in Requests, outcome'[r] = "sent", kind'[r] # "wake"
        PROVE  \E i \in Nat : RanInOrder(r, i)'
    <2>1. CASE r \in N
      BY <2>1
    <2>2. CASE r \notin N
      <3>1. /\ outcome[r] = "sent" /\ kind[r] # "wake"
            /\ CarOf(x) = CarOf(r) => outcome'[x] = "failed" \/ TakenAfter(r, x)
        BY <1>6, <2>2
      <3>2. PICK i \in Nat : RanInOrder(r, i)
        BY <1>1, <3>1 DEF CarRan
      <3>3. pc[r] # "idle"
        BY <3>1, CallFacts
      <3>4. Submitted(r)
        BY <1>1, <3>3 DEF CallsMade
      <3>5. PICK c \in Cars, k \in Keys : c = CarOf(r) /\ k = KeyOf(r)
        BY <3>4, CommandParts DEF PathInv, OrderInv, IInv, Submitted
      <3>6. /\ i \in 1..Len(onCar[c][k]) /\ onCar[c][k][i] = r
            /\ \A j \in 1..Len(onCar[c][k]) : j > i =>
                  outcome[onCar[c][k][j]] = "failed" \/ TakenAfter(r, onCar[c][k][j])
        BY <3>2, <3>5 DEF RanInOrder
      <3>7. i \in 1..Len(onCar'[c][k]) /\ onCar'[c][k][i] = r
        BY <3>6 DEF RanMore
      <3>8. ASSUME NEW j \in 1..Len(onCar'[c][k]), j > i
            PROVE  \/ outcome'[onCar'[c][k][j]] = "failed"
                   \/ TakenAfter(r, onCar[c][k][j])'
        <4>1. PICK y \in Requests : y = onCar'[c][k][j]
          BY <1>4, ElementOfSeq
        <4>2. outcome'[y] = "failed" \/ TakenAfter(r, y)
          <5>1. CASE j \in 1..Len(onCar[c][k])
            BY <3>6, <3>8, <4>1, <5>1 DEF RanMore
          <5>2. CASE j \notin 1..Len(onCar[c][k])
            <6>1. y = x /\ CarOf(x) = c
              BY <4>1, <5>2 DEF RanMore, IsFor
            <6> QED
              BY <3>1, <3>5, <6>1
          <5> QED
            BY <5>1, <5>2
        <4>3. outcome'[y] = "failed" \/ TakenAfter(r, y)'
          BY <1>3, <4>2
        <4> QED
          BY <4>1, <4>3 DEF TakenAfter
      <3>9. c = CarOf(r)' /\ k = KeyOf(r)'
        BY <1>2, <3>5
      <3> QED
        BY <3>7, <3>8, <3>9 DEF RanInOrder
    <2> QED
      BY <2>1, <2>2
  <1> QED
    BY <1>5, <1>6 DEF CarRan, RanMore

\* What the dispatcher has is as it was.
Rests == UNCHANGED <<req, worker, job, result, answers, taken>>

\* A call that is made, or goes on, or has returned, is made as before.
LEMMA MadeStays ==
  ASSUME PathInv, Rests, kind' = kind,
         \A r \in Requests :
            /\ pc[r] = "idle" <=> pc'[r] = "idle"
            /\ pc[r] = "returned" => pc'[r] = "returned" /\ outcome'[r] = outcome[r]
  PROVE  CallsMade' /\ AnswersTold'
  <1>1. CallsMade /\ AnswersTold
    BY DEF PathInv
  <1>2. CallsMade'
    BY <1>1 DEF CallsMade, Rests, Submitted, CarOf, KeyOf, Places, ReqAt
  <1>3. \A r \in Requests, o \in Outcomes : Told(r, o) => Told(r, o)'
    BY DEF Told
  <1>4. /\ job \in [Requests -> Requests \cup {None}]
        /\ \A r \in Requests : answers[r] # <<>> => answers[r][1] \in Outcomes
        /\ result \in [Requests -> Outcomes \cup {None}]
    BY DEF PathInv, OrderInv, IInv, TypeOK
  <1>5. ASSUME NEW r \in Requests, answers'[r] # <<>> PROVE Told(r, answers[r][1])'
    <2>1. answers[r] # <<>> /\ Told(r, answers[r][1])
      BY <1>1, <1>5 DEF AnswersTold, Rests
    <2> QED
      BY <1>3, <1>4, <2>1 DEF Rests, Told
  <1>6. ASSUME NEW w \in Requests, job'[w] # None /\ result'[w] # None
        PROVE  Told(job[w], result[w])'
    <2>1. job[w] \in Requests /\ result[w] \in Outcomes /\ Told(job[w], result[w])
      BY <1>1, <1>4, <1>6 DEF AnswersTold, Rests
    <2> QED
      BY <1>3, <2>1 DEF Rests, Told
  <1> QED
    BY <1>2, <1>5, <1>6 DEF AnswersTold

\* A car that changes by itself changes none of it.
LEMMA CarKeeps ==
  ASSUME PathInv, Rests, UNCHANGED <<pc, kind, outcome, executed, onCar>>
  PROVE  CallsMade' /\ AnswersTold' /\ CarRan'
  <1>1. CallsMade' /\ AnswersTold'
    BY MadeStays
  <1>2. CarRan
    BY DEF PathInv
  <1>3. UNCHANGED <<req, taken, pc, kind, outcome, executed, onCar>>
    BY DEF Rests
  <1>4. \A x, y : TakenAfter(x, y)' <=> TakenAfter(x, y)
    BY <1>3 DEF TakenAfter, Places, ReqAt, CarOf
  <1>5. \A x, i : RanInOrder(x, i)' <=> RanInOrder(x, i)
    BY <1>3, <1>4 DEF RanInOrder, CarOf, KeyOf
  <1>6. CarRan'
    BY <1>2, <1>3, <1>5 DEF CarRan, IsFor, CarOf, KeyOf
  <1> QED
    BY <1>1, <1>6

\* What comes late was reported failed.
LEMMA LateKeeps ==
  ASSUME PathInv, Rests, NEW x \in Requests, P!LateDoes(x), Ran(x)
  PROVE  CallsMade' /\ AnswersTold' /\ CarRan'
  <1>1. late[x] /\ UNCHANGED <<pc, kind, outcome>>
    BY DEF P!LateDoes
  <1>2. pc[x] = "returned" /\ outcome[x] = "failed"
    BY <1>1, CallFacts
  <1>3. CallsMade' /\ AnswersTold'
    BY <1>1, MadeStays
  <1>4. Submitted(x)
    BY <1>2 DEF PathInv, CallsMade
  <1>5. CarOf(x) \in Cars /\ KeyOf(x) \in Keys
    BY <1>4, CommandParts DEF PathInv, OrderInv, IInv, Submitted
  <1>6. RanMore(x)
    BY <1>5, RanGrows
  <1>7. executed[x] = 0 /\ \A r \in Requests : executed[r] # 0 => executed'[r] # 0
    BY DEF P!LateDoes
  <1>8. CarRan'
    BY <1>1, <1>2, <1>6, <1>7, RanStays, {} \in SUBSET Requests DEF Rests
  <1> QED
    BY <1>3, <1>8

\* The worker w that has x in hand, while it waits for the call.
LEMMA InHand ==
  ASSUME PathInv, NEW w \in Requests, NEW x \in Requests, x = job[w], worker[w] = "handling"
  PROVE  /\ Submitted(x) /\ CarOf(x) \in Cars /\ KeyOf(x) \in Keys
         /\ answers[x] = <<>> /\ result[w] = None
         /\ \A v \in Requests : job[v] = x => v = w
         /\ Len(taken[CarOf(x)]) \in Places(CarOf(x))
         /\ ReqAt(CarOf(x), Len(taken[CarOf(x)])) = x
  <1>1. IInv /\ PlacesInv
    BY DEF PathInv, OrderInv
  <1>2. result[w] = None
    BY <1>1 DEF IInv, Ownership, Threads, Busy
  <1> QED
    BY <1>1, <1>2, Answering DEF Places

\* It was taken after every other request that has a call.
LEMMA AfterAll ==
  ASSUME PathInv, NEW w \in Requests, NEW x \in Requests, x = job[w], worker[w] = "handling",
         NEW r \in Requests, r # x, pc[r] # "idle", CarOf(x) = CarOf(r)
  PROVE  TakenAfter(r, x)
  <1>1. PICK i \in Places(CarOf(r)) : ReqAt(CarOf(r), i) = r
    BY DEF PathInv, CallsMade
  <1>2. PICK j \in Places(CarOf(r)) : j = Len(taken[CarOf(r)]) /\ ReqAt(CarOf(r), j) = x
    BY InHand
  <1>3. i < j
    BY <1>1, <1>2 DEF Places
  <1> QED
    BY <1>1, <1>2, <1>3 DEF TakenAfter

\* A call begins for a request that has a place and no answer.
LEMMA BegunKeeps ==
  ASSUME PathInv, Rests, NEW w \in Requests, NEW x \in Requests, Begun(w, x)
  PROVE  CallsMade' /\ AnswersTold' /\ CarRan'
  <1>1. /\ x = job[w] /\ worker[w] = "handling" /\ P!Begins(x, CarOf(x)) /\ onCar' = onCar
        /\ kind'[x] \in {None, IF KeyOf(x) \in {"wake", "navigate"} THEN KeyOf(x) ELSE "command"}
    BY DEF Begun
  <1>2. /\ Submitted(x) /\ answers[x] = <<>> /\ result[w] = None
        /\ \A v \in Requests : job[v] = x => v = w
        /\ \E i \in Places(CarOf(x)) : ReqAt(CarOf(x), i) = x
    BY <1>1, InHand
  <1>3. /\ pc[x] = "idle" /\ pc'[x] # "idle" /\ outcome'[x] # "sent"
        /\ \A g \in Requests \ {x} :
              pc'[g] = pc[g] /\ outcome'[g] = outcome[g] /\ kind'[g] = kind[g]
    <2>1. outcome'[x] # "sent"
      <3>1. CASE pc'[x] = "returned" /\ outcome'[x] = "rejected"
        BY <3>1
      <3>2. CASE pc'[x] \in {"take_wake", "command", "navigate"}
        <4>1. P!Report(x)'
          BY <1>1 DEF P!Begins
        <4>2. outcome'[x] = None
          BY <3>2, <4>1 DEF P!Report
        <4> QED
          BY <4>2, OrderConstants DEF Outcomes, HandlerOutcomes
      <3> QED
        BY <1>1, <3>1, <3>2 DEF P!Begins
    <2> QED
      BY <1>1, <2>1 DEF P!Begins
  <1>4. kind'[x] = "wake" => KeyOf(x) = "wake"
    BY <1>1, CallFacts
  <1>5. CallsMade'
    <2>1. CallsMade
      BY DEF PathInv
    <2>2. ASSUME NEW r \in Requests, pc'[r] # "idle"
          PROVE  /\ Submitted(r)' /\ (kind[r] = "wake" => KeyOf(r) = "wake")'
                 /\ (\E i \in Places(CarOf(r)) : ReqAt(CarOf(r), i) = r)'
      <3>1. /\ Submitted(r) /\ (kind'[r] = "wake" => KeyOf(r) = "wake")
            /\ \E i \in Places(CarOf(r)) : ReqAt(CarOf(r), i) = r
        BY <1>2, <1>3, <1>4, <2>1, <2>2 DEF CallsMade
      <3> QED
        BY <3>1 DEF Rests, Submitted, CarOf, KeyOf, Places, ReqAt
    <2>3. ASSUME NEW r \in Requests, pc'[r] \notin {"idle", "returned"}
          PROVE  \E v \in Requests : job'[v] = r /\ worker'[v] = "handling"
      BY <1>1, <1>3, <2>1, <2>3 DEF CallsMade, Rests
    <2> QED
      BY <2>2, <2>3 DEF CallsMade
  <1>6. AnswersTold'
    <2>1. AnswersTold /\ job \in [Requests -> Requests \cup {None}]
      BY DEF PathInv, OrderInv, IInv, TypeOK
    <2>2. ASSUME NEW r \in Requests, answers'[r] # <<>> PROVE Told(r, answers[r][1])'
      BY <1>2, <1>3, <2>1, <2>2 DEF AnswersTold, Told, Rests
    <2>3. ASSUME NEW v \in Requests, job'[v] # None /\ result'[v] # None
          PROVE  Told(job[v], result[v])'
      <3>1. job[v] \in Requests \ {x} /\ Told(job[v], result[v])
        BY <1>2, <2>1, <2>3 DEF AnswersTold, Rests
      <3> QED
        BY <1>3, <3>1 DEF Told, Rests
    <2> QED
      BY <2>2, <2>3 DEF AnswersTold
  <1>7. CarRan'
    <2>1. onCar \in [Cars -> [Keys -> Seq(Requests)]] /\ RanMore(x)
      BY <1>1 DEF PathInv, CarRan, RanMore
    <2>2. outcome[x] = None /\ executed[x] = 0 /\ executed' = executed
      BY <1>1, <1>3, CallFacts DEF P!Begins
    <2>3. outcome[x] # "failed"
      BY <2>2, OrderConstants DEF Outcomes, HandlerOutcomes
    <2>4. ASSUME NEW r \in Requests, outcome'[r] = "sent", kind'[r] # "wake"
          PROVE  /\ outcome[r] = "sent" /\ kind[r] # "wake"
                 /\ CarOf(x) = CarOf(r) => TakenAfter(r, x)
      <3>1. r # x /\ outcome[r] = "sent" /\ kind[r] # "wake"
        BY <1>3, <2>4
      <3>2. pc[r] # "idle"
        BY <3>1, CallFacts
      <3> QED
        BY <1>1, <3>1, <3>2, AfterAll
    <2> QED
      BY ZenonT(60), <1>3, <2>1, <2>2, <2>3, <2>4, RanStays, {} \in SUBSET Requests DEF Rests
  <1> QED
    BY <1>5, <1>6, <1>7

\* A call goes on: when it reports that the car got the command, the car has just run it.
LEMMA CallKeeps ==
  ASSUME PathInv, Rests, NEW w \in Requests, NEW x \in Requests,
         x = job[w], P!CallDoes(x), Ran(x)
  PROVE  CallsMade' /\ AnswersTold' /\ CarRan'
  <1>1. /\ pc[x] \notin {"idle", "returned"} /\ pc'[x] # "idle" /\ kind' = kind
        /\ P!Report(x)' /\ \A g \in Requests \ {x} : P!Bystander(g)
    BY DEF P!CallDoes
  <1>2. worker[w] = "handling"
    <2>1. PICK v \in Requests : job[v] = x /\ worker[v] = "handling"
      BY <1>1 DEF PathInv, CallsMade
    <2> QED
      BY <2>1, InHand
  <1>3. \A r \in Requests :
           /\ pc[r] = "idle" <=> pc'[r] = "idle"
           /\ pc[r] = "returned" => pc'[r] = "returned" /\ outcome'[r] = outcome[r]
    BY <1>1 DEF P!Bystander
  <1>4. CallsMade' /\ AnswersTold'
    BY <1>1, <1>3, MadeStays
  <1>5. Submitted(x) /\ CarOf(x) \in Cars /\ KeyOf(x) \in Keys
    BY <1>2, InHand
  <1>6. RanMore(x)
    BY <1>5, RanGrows
  <1>7. outcome[x] = None /\ executed[x] = 0
    BY <1>1, CallFacts
  <1>8. \A r \in Requests : outcome[r] = "failed" => outcome'[r] = "failed"
    <2> SUFFICES ASSUME NEW r \in Requests, outcome[r] = "failed" PROVE outcome'[r] = "failed"
      OBVIOUS
    <2>1. pc[r] = "returned"
      BY CallFacts, OrderConstants DEF Outcomes, HandlerOutcomes
    <2> QED
      BY <1>3, <2>1
  <1>9. \A r \in Requests : outcome'[r] = "sent" /\ kind'[r] # "wake" =>
           \/ r = x
           \/ /\ outcome[r] = "sent" /\ kind[r] # "wake"
              /\ CarOf(x) = CarOf(r) => TakenAfter(r, x)
    <2> SUFFICES ASSUME NEW r \in Requests, outcome'[r] = "sent", kind'[r] # "wake", r # x
                 PROVE  /\ outcome[r] = "sent" /\ kind[r] # "wake"
                        /\ CarOf(x) = CarOf(r) => TakenAfter(r, x)
      OBVIOUS
    <2>1. outcome[r] = "sent" /\ kind[r] # "wake"
      BY <1>1 DEF P!Bystander
    <2>2. pc[r] # "idle"
      BY <2>1, CallFacts
    <2> QED
      BY <1>2, <2>1, <2>2, AfterAll
  <1>10. outcome'[x] = "sent" /\ kind'[x] # "wake" => \E i \in Nat : RanInOrder(x, i)'
    <2> SUFFICES ASSUME outcome'[x] = "sent", kind'[x] # "wake"
                 PROVE  \E i \in Nat : RanInOrder(x, i)'
      OBVIOUS
    <2>1. executed'[x] # executed[x]
      BY <1>1, <1>7 DEF P!Report
    <2>2. PICK c \in Cars, k \in Keys : c = CarOf(x) /\ k = KeyOf(x)
      BY <1>5
    <2>3. c = CarOf(x)' /\ k = KeyOf(x)'
      BY <2>2 DEF CarOf, KeyOf, Rests
    <2>4. Len(onCar'[c][k]) \in 1..Len(onCar'[c][k]) /\ onCar'[c][k][Len(onCar'[c][k])] = x
      BY <1>5, <2>1, <2>2, RanGrows
    <2>5. PICK i \in Nat : i = Len(onCar'[c][k])
      BY <2>4
    <2>6. RanInOrder(x, i)'
      BY <2>3, <2>4, <2>5 DEF RanInOrder
    <2> QED
      BY <2>6
  <1>11. CarRan'
    <2>1. PICK N \in SUBSET Requests :
             N = IF outcome'[x] = "sent" /\ kind'[x] # "wake" THEN {x} ELSE {}
      OBVIOUS
    <2>2. \A r \in N : \E i \in Nat : RanInOrder(r, i)'
      <3> SUFFICES ASSUME NEW r \in N PROVE \E i \in Nat : RanInOrder(r, i)'
        OBVIOUS
      <3>1. r = x /\ outcome'[x] = "sent" /\ kind'[x] # "wake"
        BY <2>1
      <3>2. PICK i \in Nat : RanInOrder(x, i)'
        BY <1>10, <3>1
      <3>3. RanInOrder(r, i)'
        BY <3>1, <3>2 DEF RanInOrder, TakenAfter
      <3> QED
        BY <3>3
    <2>3. \A r \in Requests : outcome'[r] = "sent" /\ kind'[r] # "wake" =>
             \/ r \in N
             \/ /\ outcome[r] = "sent" /\ kind[r] # "wake"
                /\ CarOf(x) = CarOf(r) => TakenAfter(r, x)
      BY <1>9, <2>1
    <2>4. (\A r \in Requests : pc[r] # "idle" => pc'[r] # "idle") /\ UNCHANGED <<req, taken>>
      BY <1>3 DEF Rests
    <2>5. \A r \in Requests : executed[r] # 0 => executed'[r] # 0
      BY <1>1, <1>7 DEF P!Bystander
    <2> QED
      BY <1>1, <1>6, <1>7, <1>8, <2>2, <2>3, <2>4, <2>5, RanStays
  <1> QED
    BY <1>4, <1>11

\* Every step of the relay keeps the three.
LEMMA RelayKeeps ==
  ASSUME PathInv, RelayMoves
  PROVE  CallsMade' /\ AnswersTold' /\ CarRan'
  <1>1. Rests
    BY DEF RelayMoves, Rests, callVars, workVars
  <1> QED
    BY <1>1, CarKeeps, LateKeeps, BegunKeeps, CallKeeps DEF RelayMoves

(***************************************************************************)
(* The theorems.                                                           *)
(***************************************************************************)

\* The initial states satisfy the invariant.
LEMMA PathInvInit == PathInit => PathInv
  <1> SUFFICES ASSUME PathInit PROVE PathInv
    OBVIOUS
  <1>1. Init /\ P!Init /\ onCar = [c \in Cars |-> [k \in Keys |-> <<>>]]
    BY SameRest DEF PathInit
  <1>2. OrderInv
    BY <1>1, OrderInit
  <1>3. P!RelayInv /\ P!Reports
    BY <1>1, PathConstants, P!RelayInit, P!ReportsInit
  <1>4. \A r \in Requests :
           pc[r] = "idle" /\ outcome[r] = None /\ answers[r] = <<>> /\ job[r] = None
    BY <1>1 DEF Init, P!Init
  <1>5. None # "sent"
    BY OrderConstants DEF Outcomes, HandlerOutcomes
  <1>6. CallsMade /\ AnswersTold
    BY <1>4 DEF CallsMade, AnswersTold
  <1>7. CarRan
    BY <1>1, <1>4, <1>5 DEF CarRan
  <1> QED
    BY <1>2, <1>3, <1>6, <1>7 DEF PathInv

\* Every step keeps it.
LEMMA PathInvStep == PathInv /\ [PathNext]_pathVars => PathInv'
  <1> SUFFICES ASSUME PathInv, [PathNext]_pathVars PROVE PathInv'
    OBVIOUS
  <1>1. [Next]_vars /\ [P!Next]_(P!vars) /\ (DispatcherMoves \/ RelayMoves)
    BY PathMoves
  <1>2. OrderInv'
    BY <1>1, OrderStep DEF PathInv
  <1>3. P!RelayInv' /\ P!Reports'
    BY <1>1, PathConstants, P!RelayStep, P!ReportsStep DEF PathInv
  <1>4. CallsMade' /\ AnswersTold' /\ CarRan'
    BY <1>1, CallsMadeQueue, ToldQueue, RanQueue, RelayKeeps
  <1> QED
    BY <1>2, <1>3, <1>4 DEF PathInv

\* Every reachable state of the composition satisfies it.
LEMMA PathInvariance == PathSpec => []PathInv
  BY PathInvInit, PathInvStep, PTL DEF PathSpec

\* cmd/gateway/main.go: with the relay as its handler the dispatcher is still a dispatcher, so
\* that everything proved of the queue holds of the composition.
THEOREM PathIsDispatcher == PathSpec => Spec
  <1>1. PathInit => Init
    BY DEF PathInit
  <1>2. PathInv /\ [PathNext]_pathVars => [Next]_vars
    BY PathMoves
  <1> QED
    BY <1>1, <1>2, PathInvariance, PTL DEF PathSpec, Spec

\* dispatch.go and relay.go: what the caller is told is what happened. A request answered
\* without being sent was never on the wire, and one answered "sent" reached the car exactly
\* once, if it was not the wake button.
THEOREM AnswersAreHonestHolds == PathSpec => []AnswersAreHonest
  <1>1. PathInv => AnswersAreHonest
    <2> SUFFICES ASSUME PathInv, NEW r \in Requests, answers[r] # <<>>
                 PROVE  /\ answers[r][1] \in Refusals \cup {"rejected"} => posts[r] = 0
                        /\ answers[r][1] = "sent" =>
                              posts[r] > 0 /\ (kind[r] # "wake" => executed[r] = 1)
      BY DEF AnswersAreHonest, Answered
    <2>1. Told(r, answers[r][1]) /\ P!Report(r)
      BY DEF PathInv, AnswersTold, P!Reports
    <2>2. outcome[r] \in HandlerOutcomes \cup {None}
      BY DEF PathInv, P!RelayInv, P!TypeOK, P!HandleOutcomes, HandlerOutcomes
    <2>3. CASE answers[r][1] \in Refusals /\ pc[r] = "idle"
      BY <2>1, <2>3 DEF P!Report, Refusals
    <2>4. CASE pc[r] = "returned" /\ answers[r][1] = outcome[r]
      <3>1. outcome[r] \in HandlerOutcomes
        BY <2>1, <2>2, <2>4 DEF P!Report
      <3> QED
        BY <2>1, <2>4, <3>1 DEF P!Report, HandlerOutcomes, Refusals
    <2> QED
      BY <2>1, <2>3, <2>4 DEF Told
  <1> QED
    BY <1>1, PathInvariance, PTL

\* x is at the place m of its key, the last one that was recorded before p, and the newest
\* request is at p and answered: what the car ran after x was reported failed.
LEMMA FailedAfter ==
  ASSUME PathInv, NEW c \in Cars, NEW k \in Keys,
         NEW p \in Places(c), answers[ReqAt(c, p)] # <<>>,
         \A q \in Places(c) : KeyOf(ReqAt(c, q)) = k => q <= p,
         NEW m \in Places(c), m = p \/ pc[ReqAt(c, p)] = "idle",
         \A q \in Recorded(c, k) : q <= m \/ q >= p,
         NEW x \in Requests, x = ReqAt(c, m), KeyOf(x) = k,
         NEW i \in Nat, RanInOrder(x, i),
         NEW j \in 1..Len(onCar[c][k]), j > i
  PROVE  Answered(onCar[c][k][j], "failed")
  <1>1. OrderInv /\ IInv /\ PlacesInv /\ CallsMade /\ AnswersTold /\ CarRan
    BY DEF PathInv, OrderInv
  <1>2. CarOf(x) = c
    BY <1>1 DEF PlacesInv, TakenOnce
  <1>3. PICK y \in Requests : y = onCar[c][k][j]
    <2>1. onCar[c][k] \in Seq(Requests)
      BY <1>1 DEF CarRan
    <2> QED
      BY <2>1, ElementOfSeq
  <1>4. /\ CarOf(y) = c /\ KeyOf(y) = k /\ pc[y] # "idle" /\ executed[y] # 0
        /\ outcome[y] = "failed" \/ TakenAfter(x, y)
    BY <1>1, <1>2, <1>3 DEF CarRan, RanInOrder, IsFor
  <1>5. PICK q \in Places(c) : ReqAt(c, q) = y
    BY <1>1, <1>4 DEF CallsMade
  <1>6. p \in Nat /\ q \in Nat /\ m \in Nat /\ q <= p
    BY <1>4, <1>5 DEF Places
  <1>7. answers[y] # <<>>
    BY <1>1, <1>5, <1>6, PlacesAnswered
  <1>8. pc[y] = "returned" /\ answers[y][1] = outcome[y]
    BY <1>1, <1>4, <1>7 DEF AnswersTold, Told
  <1>9. outcome[y] \in HandlerOutcomes
    <2>1. outcome[y] \in HandlerOutcomes \cup {None}
      BY DEF PathInv, P!RelayInv, P!TypeOK, P!HandleOutcomes, HandlerOutcomes
    <2> QED
      BY <1>8, <2>1, CallFacts
  <1>10. outcome[y] # "rejected"
    BY <1>4, CallFacts
  <1>11. TakenAfter(x, y) => outcome[y] # "sent"
    <2> SUFFICES ASSUME TakenAfter(x, y), outcome[y] = "sent" PROVE FALSE
      OBVIOUS
    <2>1. PICK a \in Places(c), b \in Places(c) : a < b /\ ReqAt(c, a) = x /\ ReqAt(c, b) = y
      BY <1>2 DEF TakenAfter
    <2>2. a = m /\ b = q
      BY <1>1, <1>5, <2>1 DEF PlacesInv, TakenOnce
    <2>3. m # p /\ q # p
      BY <1>4, <1>5, <1>6, <2>1, <2>2
    <2>4. q \in Recorded(c, k)
      BY <1>4, <1>5, <1>7, <1>8 DEF Recorded, Answered
    <2> QED
      BY <1>6, <2>1, <2>2, <2>3, <2>4
  <1>12. answers[y][1] = "failed"
    BY <1>4, <1>8, <1>9, <1>10, <1>11 DEF HandlerOutcomes
  <1> QED
    BY <1>3, <1>7, <1>12 DEF Answered

\* dispatch.go, the slider promise end to end, as far as the code keeps it: when the newest
\* request for a set-state key was reported sent the car got it, when it was refused as a
\* duplicate the car got its value, and whatever the car got after that was reported failed.
THEOREM CarHasNewestHolds == PathSpec => []CarHasNewest
  <1>1. PathInv => CarHasNewest
    <2> SUFFICES ASSUME PathInv, NEW c \in Cars, NEW k \in Keys \ Momentary,
                        NEW n \in DOMAIN arrived, NewestAt(n, c, k),
                        Answered(arrived[n], "sent") \/ Answered(arrived[n], "duplicate")
                 PROVE  \E i \in DOMAIN onCar[c][k] :
                           /\ Value(onCar[c][k][i]) = Value(arrived[n])
                           /\ Answered(arrived[n], "sent") => onCar[c][k][i] = arrived[n]
                           /\ \A j \in DOMAIN onCar[c][k] :
                                 j > i => Answered(onCar[c][k][j], "failed")
      BY DEF CarHasNewest
    <2>1. /\ OrderInv /\ IInv /\ PlacesInv /\ NewestInv /\ CallsMade /\ AnswersTold /\ CarRan
          /\ arrived \in Seq(Requests) /\ pending \in [Cars -> Seq(Requests)]
      BY DEF PathInv, OrderInv, IInv, TypeOK
    <2>2. n \in 1..Len(arrived)
      BY <2>1
    <2>3. PICK r \in Requests : r = arrived[n]
      BY <2>1, <2>2, ElementOfSeq
    <2>4. CarOf(r) = c /\ KeyOf(r) = k /\ answers[r] # <<>> /\ answers[r][1] \in {"sent", "duplicate"}
      BY <2>3 DEF NewestAt, IsFor, Answered
    \* the newest request has the last place of its key
    <2>5. Slots(c, k) = {}
      <3> SUFFICES ASSUME NEW q \in Slots(c, k) PROVE FALSE
        OBVIOUS
      <3>1. pending[c][q] = r
        BY <2>1, <2>2, <2>3 DEF NewestInv
      <3> QED
        BY <2>1, <2>4, <3>1 DEF Slots, IInv, Ownership, QueueOwns
    <2>6. PICK p \in Places(c) :
             /\ ReqAt(c, p) = r
             /\ \A q \in Places(c) : KeyOf(ReqAt(c, q)) = k => q <= p
      BY <2>1, <2>2, <2>3, <2>5 DEF NewestInv
    \* a request that was reported sent was run, whatever its place
    <2>7. ASSUME NEW x \in Requests, CarOf(x) = c, KeyOf(x) = k, answers[x] # <<>>,
                 answers[x][1] = "sent"
          PROVE  \E i \in Nat : /\ RanInOrder(x, i)
                                 /\ i \in DOMAIN onCar[c][k] /\ onCar[c][k][i] = x
      <3>1. pc[x] = "returned" /\ outcome[x] = "sent"
        BY <2>1, <2>7, CallFacts DEF AnswersTold, Told
      <3>2. kind[x] # "wake"
        BY <2>1, <2>7, <3>1, PathAssumption DEF CallsMade
      <3>3. PICK i \in Nat : RanInOrder(x, i)
        BY <2>1, <3>1, <3>2 DEF CarRan
      <3>4. onCar[c][k] \in Seq(Requests)
        BY <2>1 DEF CarRan
      <3>5. i \in DOMAIN onCar[c][k] /\ onCar[c][k][i] = x
        BY <2>7, <3>3, <3>4 DEF RanInOrder
      <3> QED
        BY <3>3, <3>5
    <2>8. DOMAIN onCar[c][k] = 1..Len(onCar[c][k])
      BY <2>1 DEF CarRan
    <2>9. CASE answers[r][1] = "sent"
      <3>1. PICK i \in Nat : RanInOrder(r, i) /\ i \in DOMAIN onCar[c][k] /\ onCar[c][k][i] = r
        BY <2>4, <2>7, <2>9
      <3>2. \A q \in Recorded(c, k) : q <= p
        BY <2>6 DEF Recorded
      <3>3. \A j \in DOMAIN onCar[c][k] : j > i => Answered(onCar[c][k][j], "failed")
        BY <2>4, <2>6, <2>8, <3>1, <3>2, FailedAfter
      <3> QED
        BY <2>3, <3>1, <3>3 DEF Value
    <2>10. CASE answers[r][1] = "duplicate"
      <3>1. pc[r] = "idle"
        <4>1. outcome[r] \in HandlerOutcomes \cup {None}
          BY DEF PathInv, P!RelayInv, P!TypeOK, P!HandleOutcomes, HandlerOutcomes
        <4>2. Told(r, "duplicate") /\ "duplicate" \in Outcomes
          BY <2>1, <2>4, <2>10 DEF AnswersTold, Outcomes, Refusals
        <4> QED
          BY <4>1, <4>2, OrderConstants DEF Told, HandlerOutcomes
      <3>2. taken[c][p].refusal = "duplicate"
        <4>1. Verdict(taken[c][p].refusal, "duplicate")
          BY <2>1, <2>4, <2>6, <2>10 DEF PlacesInv, Verdicts
        <4> QED
          BY <4>1 DEF Verdict, HandlerOutcomes
      <3>3. PICK m \in Places(c) : LastBefore(c, k, m, p) /\ ValueAt(c, m) = ValueAt(c, p)
        BY <2>1, <2>4, <2>6, <3>2 DEF OrderInv, RecordedInv, DuplicatesTrue
      <3>4. m \in Recorded(c, k) /\ m < p /\ \A q \in Recorded(c, k) : q <= m \/ q >= p
        BY <3>3 DEF LastBefore
      <3>5. m \in Sent(c, k)
        <4>1. /\ m \in Nat /\ m <= Len(taken[c])
              /\ m \in Sent(c, k) \/ m = Len(taken[c])
          BY <2>1, <3>4, SentPlaces
        <4>2. m # Len(taken[c])
          <5>1. p \in Nat /\ p <= Len(taken[c])
            <6>1. Len(taken[c]) \in Nat
              BY <2>1 DEF IInv, TypeOK
            <6> QED
              BY <6>1 DEF Places
          <5> QED
            BY <3>4, <4>1, <5>1
        <4> QED
          BY <4>1, <4>2
      <3>6. PICK x \in Requests : x = ReqAt(c, m)
        BY <2>1, PlaceTyped DEF IInv, Places, ReqAt
      <3>7. CarOf(x) = c /\ KeyOf(x) = k /\ answers[x] # <<>> /\ answers[x][1] = "sent"
        BY <2>1, <3>5, <3>6 DEF Sent, Answered, ReqAt, PlacesInv, TakenOnce
      <3>8. PICK i \in Nat : RanInOrder(x, i) /\ i \in DOMAIN onCar[c][k] /\ onCar[c][k][i] = x
        BY <2>7, <3>7
      <3>9. \A j \in DOMAIN onCar[c][k] : j > i => Answered(onCar[c][k][j], "failed")
        BY <2>4, <2>6, <2>8, <3>1, <3>4, <3>6, <3>7, <3>8, FailedAfter
      <3>10. Value(x) = Value(r)
        BY <2>6, <3>3, <3>6 DEF Value, ValueAt, ReqAt
      <3> QED
        BY <2>3, <2>10, <3>8, <3>9, <3>10 DEF Answered
    <2> QED
      BY <2>4, <2>9, <2>10
  <1> QED
    BY <1>1, PathInvariance, PTL
=============================================================================
