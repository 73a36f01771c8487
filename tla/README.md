# A TLA+ model of community-teslafleet

The gateway sits between Tesla's `fleet-telemetry` and the programs of a home.
It receives what the cars stream (ZMQ), keeps the last value of every field,
answers like the Fleet API, feeds Home Assistant (MQTT) and TeslaMate
(websocket), and sends commands to the cars through the vehicle-command proxy.
It also supervises those two helper processes, records raw telemetry, keeps the
OAuth credential alive and walks its owner through the setup.

This directory models the parts of it that keep state and run concurrently,
checks them with TLC on small instances, and proves their types and every safety
property that the runs check with TLAPS, for every value of the constants.

    tlc -workers 2 -config DispatcherQueue.cfg DispatcherMC.tla   # one run
    tlapm DispatcherProofs.tla          # the proofs of one module, there are eight

## 1. The system

| Component (source) | State | Operations | Talks to |
|---|---|---|---|
| dispatcher (`internal/commands/dispatch.go`) | per car: `pending`, `running`, `perKey`, `lastOK` | `Submit`, the worker `run`, `refuse` | called by the publisher, calls `Relay.Handle` |
| relay (`commands/relay.go`) | per car: wake log, singleflight group; post's attempt | `Handle`, `command`, `post`, `ensureAwake`, `wakeAndWait`, `wake` | proxy, Fleet API, store (lids, position) |
| vocabulary (`relay.go`, `hadiscovery/publisher.go`) | none: two tables | parsers, refusals, advertised configs | Home Assistant |
| token manager (`relay.go`, `onboard/server.go`) | refresh and access token, two errors, the cache file | `token`, `doRefresh`, `adopt`, `persist`, `status` | Tesla auth, wizard |
| ingest (`internal/ingest/zmq.go`) | socket, `connected`, the goroutine | `Start`, `loop`, `reconnect`, `Stop` | writes the store |
| store (`internal/store`) | per car: fields, connectivity, `lastV`, `restored`; the snapshot file | `SetField`, `SetConnectivity`, `Derive`, `Save`, `Load`, `Persist` | read by everyone |
| Fleet API emulator (`internal/fleetapi`, `internal/vehicledata`) | none of its own | `vehicle_data`, `health`, `/admin/enroll` | reads the store, relay |
| discovery publisher (`internal/hadiscovery`) | `announced`, `discovered`, `lastState` | on-connect handler, ticker, `handleCommand`, `Stop` | broker, dispatcher, store |
| names (`internal/config`, `cmd/gateway/main.go`, publisher) | the vehicle list with its display names | `resolve`, the lookup at start, `Slug`, `pubID`, `vinForPubID` | Fleet API, publisher |
| recorder (`internal/recorder`) | buffered writer, file, `failing`, `closed` | `Record`, `rotate`, `flushLoop`, `Close` | called by ingest |
| supervisor (`internal/supervisor`) | restart loop, child, pipes | `supervise`, `runOnce`, `terminate`, `pipe` | helper processes |
| wizard (`internal/onboard`) | key files, `state.json`, progress | domain, keys, registration | Tesla, token manager |
| enrolment (`internal/onboard`, `internal/enroll`, `relay.Enroll`) | the enrolment file and its `.tmp` | `saveEnrollment`, `enroll`, `/admin/enroll`, `Wrap` | proxy |
| TeslaMate server (`internal/wss`) | per connection: tag to stop channel | subscribe, unsubscribe, `push` | reads the store |
| `cmd/gateway/main.go` | none | wiring, order of start and of shutdown | all |
| configuration layers, VIN tables, `streamcfg` | none | pure functions, files read or written once | |

What is hard about it, and what makes each part correct:

* **Dispatcher.** Submitters, the exiting worker and the next worker race for
  `running` and `pending`. Correct: one worker per car and none missing where
  jobs wait, each request answered exactly once, order changed by merging only,
  and the hourly cap and the duplicate window hold over every rolling span. The
  value asked for last wins, as far as the handler's answers tell the truth: a
  command that ran although it was reported failed makes the duplicate window
  refuse a change the car needs (`DuplicateIsOnCar`, section 6).
* **Relay.** Retries (429, and once after a wake) must never execute a command
  twice; callers for one sleeping car share one wake; wakes are budgeted.
  Correct too: what is reported is what happened.
* **Vocabulary.** What is advertised is understood, and nothing unparseable
  falls to a physical state.
* **Credential.** The refresh token rotates while answers are lost, writes fail
  and the process dies. Correct: memory or disk always has the living token
  unless the only copy was lost with an answer or a crash, `status` tells the
  truth about a restart, and a pasted token is not overwritten.
* **Ingest.** `Stop` closes a socket that the goroutine is replacing. Correct:
  no socket leaks or is closed twice, nothing comes up after `Stop`, a fault is
  noticed and repaired, no write follows a joined `Stop`.
* **Store.** Snapshot, crash and restart. Correct: a clean shutdown saves all
  that was received, and what is restored never passes for live data.
* **Discovery.** The on-connect handlers, the ticker and `Stop` overlap while
  the broker forgets. Correct: what counts as announced is on the broker, and
  what is lost comes back.
* **Recorder.** Disks fill up in the middle of a flush. Correct: order is kept,
  no line is written twice, no loss is silent.
* **Supervisor.** Exit, crash and cancellation meet. Correct: no orphan, a
  crashed child comes back, a shutdown ends.
* **Wizard.** Three files, one after the other, and a restart anywhere between.
  Correct: the page claims only what happened. Trusted keys should not be
  replaced unasked; a death between two of the files breaks that
  (`PairedKeysGuarded`, section 6).
* **Enrolment.** Saves write outside the lock over one temporary name and take
  the chain of the old file over. Correct: whatever fails or dies half way, the
  file is a whole config with the chain saved last, and nothing less is sent.
* **Pictures of a car.** Three renderers read one snapshot whose fields stop at
  residuals, turn invalid or come from a restart. Correct: they agree, and what
  is published keeps its keys.
* **Names.** An identifier is made anew by every start, while the broker keeps
  devices and retained commands. Correct: a press runs once at most, on the car
  that was shown.
* **Lids.** The command toggles, so an old `DoorState` reverses it.
* **TeslaMate.** Every pusher has one stop channel, closed exactly once.

## 2. The modules

| Module | Models | Uses |
|---|---|---|
| `CommandService` | abstract: what a submitter is promised | |
| `RollingWindow` | `window` of `dispatch.go` | |
| `Dispatcher` | `dispatch.go` | `RollingWindow`, `CommandService` (refinement) |
| `Relay` | `Handle`'s way to the car | `RollingWindow` |
| `CommandPath` | dispatcher with the relay as its handler | `Dispatcher`, `Relay`; refines `Dispatcher` |
| `CommandTable` | entities, parsers, settings behind the queue | `Dispatcher` |
| `Credential` | `tokenManager` and the wizard's own refresher | |
| `VehicleState` | store, snapshot file, `Derive`, `health`, lifecycle | |
| `Discovery` | the publisher for one car | |
| `Ingest`, `Recorder`, `Supervisor`, `Onboard`, `Lid`, `Streaming` | one component each | |
| `Gateway` | those six, one moving in each behaviour | the six |
| `Enroll` | the enrolment file, the envelope and both ways to send it | |
| `Views` | `buildState`, `vehicle_data`, the streamed row, `carryForward` | |
| `Naming` | display names, identifiers, the broker's devices, `handleCommand` | |
| `Services` | `Credential`, `Enroll`, `VehicleState`, `Views`, `Naming`, one moving in each behaviour | the five |
| `*MC` | instances for TLC | |
| `RollingWindowProofs` | lemmas: a window bounds every rolling span | `RollingWindow` |
| `DispatcherProofs` | types, ownership, refinement, order, values and limits | `Dispatcher`, `RollingWindowProofs` |
| `RelayProofs` | types, one execution, wakes, what a call reports | `Relay`, `RollingWindowProofs` |
| `CommandPathProofs` | the composition | `CommandPath`, `DispatcherProofs`, `RelayProofs` |
| `CommandTableProofs` | the vocabulary | `CommandTable`, `DispatcherProofs` |
| `DiscoveryProofs`, `GatewayProofs`, `ServicesProofs` | the module named, part by part | that module |

How state and actions correspond to the code:

* A **critical section is one action**; where the code unlocks, awaits, calls
  out or writes a file, the action ends. `Submit` is one action
  (`SubmitMerge` / `SubmitAppend`) followed, with the lock released, by
  `AnswerReplaced` or `StartWorker`. `run` is `Take` (pop and `refuse` in one
  section), `HandlerReturns`, `RecordSent` (the second section) and `Answer`.
  A worker is named after the request whose `Submit` started it, so that there
  is one of them is a property of the code and not of the model.
* `Relay`: `pc` is the function a call is in: `Command` and `Retry` are
  `command`'s two requests, `PostAgain` is post's loop after a 429,
  `EnsureAwake` and `EndFlight` are the singleflight group, `TakeWake`,
  `WakeRefused`, `Wake`, `PollOnline`, `PollAgain` are `wake`/`wakeAndWait`. A
  request on the wire is one step that says what the car did *and* what the
  gateway heard, so an executed command may be heard as an error and a lost one
  may arrive late (`ArrivesLate`).
* `CommandPath`: the worker of `Dispatcher` makes the call of its job's name in
  `Relay`; `HandleReturns` hands the outcome over. Requests that the car ran
  are logged per key in `onCar`.
* `Credential`: a token is the login it stems from and the number of rotations.
  `mu` is held from `Token` over `RefreshRotates` to `Receive`, as in the code.
  `relayed` is chosen at the start: with a relay `tokenManager` owns the
  credential, without it the wizard works on the cache file.
* `VehicleState`: `BeginSave`, `CopyVehicle`, `Rename` are `Save`, which locks
  car by car; `Start` is `New` and `Load`; `StopIngest` and `Exit` are `main`'s
  deferred calls in their order.
* `Discovery`: `Claim`, `PublishDevice(Fails)`, `RollBack` are
  `ensureAnnounced`; `LookAtField` to `markFieldDiscovered` is
  `discoverNewFields`; a publish whose acknowledgement is lost may or may not
  be retained.
* `Recorder`: `bufio.Writer` (external) is `FlushOK`, `FlushError`, `Put` with
  its sticky error; `Record` with `RotateFlush` and `RotateReopen` is one hold
  of `r.mu`.
* `Supervisor`: one of the child's two output streams. `os/exec` (external) is
  `Reaps`: `Wait` returns when the child has exited and closes the read end.
* `Ingest`: `dial` ends before `setSocket`, which is `SetSocket` or, cancelled,
  `SetSocketLate`; the old socket is closed after the unlock (`CloseOld`).

* `Enroll`: `os.WriteFile` is `OpenTmp` (created or emptied) and `WriteTmp`;
  `os.Rename` is `Rename`. A file is a number, so that two handlers may hold one
  file, and a rename may take what another has written. What would be sent is an
  operator of the file (`WizardEnroll`, `AdminEnroll`), since sending changes
  nothing here.
* `Views`: `Build`, `buildCSV` and `buildState` are the three renderers for the
  keys that more than one of them shows or that depend on what the snapshot has
  been through; numbers are tenths, so that rounding and truncation differ as in
  the code. `Report` is `SetField`, `PublishState` the ticker for one car,
  `Restart` a clean restart with `Load`. `Enrolments` says which fields a car
  sends at all.
* `Naming`: `Start` is configuration, `Store.New`, `Load` and the lookup of the
  names; `Connect` to `Subscribe` is the on-connect handler, `handleCommand` the
  callback. A name is its slug. The broker keeps what it has: how it loses and
  regains announcements is `Discovery`.

Definitions preceded by a comment that begins with "Broken:" are deliberate
faults, and no specification uses them: each replaces the definition it stands
above, to show that the properties notice.

`Gateway` exists because six components share no variable. What holds of each
of them alone holds of all of them together, so a behaviour moves only the one
that `part` names and TLC adds their states instead of multiplying them. It
says nothing about parts that *do* interact; those are composed in
`CommandPath` and, for ingest, persistence and shutdown, in `VehicleState`.
`Services` does the same for five more. There two parts meet in places, and
each models what the other may do as a free choice: `Naming` lets a car appear
at any time, as the store does; `Views` lets any enrolled field arrive, turn
invalid or come back from a restart; `Enroll` does not ask whether a token can
be had. One interaction is left out: `Record` runs on the ingest goroutine, so a hanging
disk delays the ingest.

## 3. The runs

| Run | Shows | Instance | Why it is enough |
|---|---|---|---|
| `DispatcherQueue` | one owner per request, only merging reorders, both limits, the newest value wins unless a request reported failed ran after it, `CommandService` is implemented | 3 requests, 1 car, a setting and a media press, 3 payloads of which 2 are one value in two spellings, and one for the press (`OnePress`: a button sends but one); cap 1 an hour of 2, window 2, 2 ticks | cars share nothing but `mu`; a worker, a merged request and a merger are the three that race; each window fills, holds and expires |
| `CommandPathSafe` | answers are honest; the car ran the newest value after every other, but for requests reported failed | 3 requests of 1 car, a setting with two values and the wake button, duplicate window 1, 1 wake, 1 poll | retry, wake, refused budget and late arrival all occur with a merge waiting or a duplicate refused |
| `CommandPathImpl` | the path implements `Dispatcher!FairSpec`; every request is answered | the same with 2 requests and 1 tick | liveness without symmetry; two requests are a worker and one that waits behind it or arrives as it exits |
| `RelayWake` | no double fire, wake budget, shared wake | 3 overlapping calls, 1 car, 1 wake an hour, 2 polls, 2 ticks | a leader, a joiner and one more that comes as the flight ends; the budget is spent and regained |
| `TableWords` | advertised words are understood; nothing else moves the car | 1 request, every key, every word of any parser, two that none knows | the tables are finite and taken whole |
| `DiscoveryReturn` | announced means retained; entities return | 2 handlers, the ticker, 1 field, 2 lost connections | two on-connect handlers overlap each other and a tick |
| `GatewayParts` | the six parts, below | 3 sockets, 2 fields; buffer 2, file 3, 7 lines; backoff 1 to 30 s, pipe 2, 3 lines; 2 domains, 2 key pairs; 2 reports; 3 tags of which 2 known, 3 pushers | see below |
| `ServiceParts` | the five parts, below | 2 callers and `main`, 2 logins, 2 rotations each, 2 crashes; 2 saves, 1 chain; 1 car, 3 messages, 2 starts, 2 ticks; 5 enrolments; 2 cars, 2 presses, 2 starts | see below |
| `CommandPathDuplicate`, `ViewsPower`, `DiscoveryRace`, `RecorderRecovers` | the code does not do what it says (section 6) | small | |

`GatewayParts`, part by part. *Ingest*: a socket is faulted, replaced and
faulted again while `Stop` runs. *Recorder*: 7 lines fill the buffer three
times and the file twice, so a rotation meets a half-written buffer and a
backup that is replaced. *Supervisor*: backoff passes 1, 2, 4, 8, 16 and 30 and
is reset; the pipe is full, and a line is too long for the scanner. *Wizard*: a
pair is made, trusted and replaced, with and without failing writes. *Lids*:
prompt reports, where a toggle must do as asked, and late ones, where only the
front lid's promise can hold. *Streaming*: one tag subscribed twice beside
another.

`ServiceParts`, part by part. *Credential*: with the relay or the wizard as
owner, a refresh and a paste race, before and after each crash; the gateway is
not stranded unannounced, a pasted token stays, and `status` is true of the
next start. *Enrolment*: two saves, with a chain or without, fail, die, leave
their temporary file behind or overlap; an envelope of the operator's own may
be there from the start. *Vehicle state*: the grace of 1 and the staleness of 1
both pass before and after a restart; a clean shutdown loses nothing, and no
state of the old process passes for the new. *Views*: each group of fields that
some key is drawn from, with a value above and one below each threshold, a
residual, an invalid one and what a restart brings back. *Naming*: every car of
the stream or a list of two, one of which may be renamed between the starts or
have its lookup fail; presses are retained or not, and arrive in any state of
the connection.

Time is a small clock that ticks between any two steps; only ages around each
limit matter, and `Hour`, `DuplicateWindow`, `Grace` and `Stale` are one or two
ticks. Every run sets `CHECK_DEADLOCK FALSE`: requests, messages and faults are
bounded, and a system that has used them up, or has been stopped, is done.
Symmetry is used only in runs without liveness, over requests and calls,
which the modules never tell apart. `DispatcherQueue` checks a
`PROPERTY` under symmetry too: `ImplementsService` has no fairness and treats
all requests alike.

`TypeOK` is checked in `DispatcherQueue` and for the parts of `Gateway` and
`Services`. `Relay` and `Discovery` state theirs too, which are proved, and
`CommandTable` states `TableTypeOK`; adding it to the `INVARIANTS` of its run
passes.

### Fairness

| Where | Assumed | Why |
|---|---|---|
| `Dispatcher`, `CommandPath` | weak, of each caller and worker | Go schedules every runnable goroutine; each HTTP client has a timeout of 30 s (`relay.go:172,183`), polls end at `wakeTimeout`. `CommandPathImpl` shows that this suffices for the handler to return, which `Dispatcher` assumes |
| `Ingest` | weak of the goroutine except receiving; strong of a successful dial | nobody must send; `reconnect` tries for ever and fleet-telemetry is supervised |
| `Discovery` | weak of handlers, ticker and reconnection; strong of an acknowledged publish | paho reconnects by itself; a working connection acknowledges in the end |
| `Supervisor` | weak of loop, kill timer and reader; strong of a start that succeeds | timers fire; a binary that can never be started is not a crash to recover from. The child owes nothing |
| `Streaming` | weak of pushers and of the reader; strong of `SeesStop` | `select` chooses at random among ready cases; a write returns in the end (TCP gives up) |
| `Recorder` (violation run only) | weak of the ticker, of a rotation and of recording | a two-second ticker; cars keep streaming |

`Gateway`'s fairness is that of its parts, each joined with the part's turn.

Nobody has to submit a command, paste a token, stop the gateway or make a disk
recover.

## 4. The proofs

Every safety property that a passing run checks is also proved, for every value
of the constants; so are the refinement of `CommandService` and the types of all
modules, up to those that `CommandTable` adds to the dispatcher's.

| Theorem | States |
|---|---|
| **`DispatcherProofs`** | |
| `TypeCorrect` | `Spec => []TypeOK` |
| `OneOwner`, `OneWorker` | `Ownership` (with it: where jobs wait there is a worker), `OneWorkerPerCar` |
| `Refinement` | `Spec => ImplementsService`: every step is a step of `CommandService`, or a stutter |
| `OvertakesOnlyByMergingHolds` | a request is taken before an older one only in the place of one of its own key |
| `SettledValueIsNewestHolds` | a settled key whose newest request was sent: what was handled later was rejected. Refused as a duplicate: its value was sent, and what was handled since was rejected or reported failed |
| `LimitsHoldHolds` | the hourly cap and the duplicate window, over every rolling span |
| **`RelayProofs`** | |
| `RelayTypeCorrect` | the types |
| `NoDoubleFireHolds`, `WakesSharedHolds` | a command runs once at most; a car has one flight and stays in its wake budget |
| **`CommandPathProofs`** | |
| `PathIsDispatcher` | every behaviour of the composition is one of `Dispatcher` |
| `AnswersAreHonestHolds`, `CarHasNewestHolds` | what is told is what happened; the car ran the newest request, if sent, after all others, or has had its value, if a duplicate; in both cases what it ran later was reported failed |
| **`CommandTableProofs`** | |
| `AdvertisedIsUnderstoodHolds`, `OnlyWhatWasAskedHolds` | the two promises of the vocabulary |
| **`DiscoveryProofs`** | |
| `DiscoveryTypeCorrect`, `AnnouncedIsRetainedHolds` | the types; what counts as announced is retained, or somebody will notice |
| **`GatewayProofs`** | |
| `TypeOKHolds` | the types of the part that moves |
| `LinesInOrderHolds`, `LossIsReportedHolds` | recorder: order, no line twice, no loss in silence |
| `SocketsAccountedHolds`, `NoWriteAfterStopHolds` | ingest: every socket, and nothing after a joined `Stop` |
| `NoOrphanHolds` | supervisor: no child, no pipe behind |
| `OnePusherPerTagHolds` | TeslaMate: one pusher for a tag |
| `LidsObeyHolds` | lids: actuated only where that moves them as asked |
| `StepsTrueHolds` | wizard: the page is true |
| **`ServicesProofs`** | |
| `TypeOKHolds` | the types of the part that moves |
| `CredentialKeptHolds`, `StatusOkSurvivesRestartHolds` | the credential in use, and the one the next start loads |
| `CleanShutdownKeepsAllHolds`, `NoGhostHolds` | store: nothing is lost, nothing old passes for new |
| `EnrollmentWholeHolds` | enrolment: fields, cars and chain |
| `ViewsAgreeHolds`, `StateKeptHolds` | the pictures of a car agree; no key is taken off |
| `RightCarOnceHolds` | names: the right car, once at most |

`RollingWindowProofs` has the lemmas that the dispatcher and the relay share.

### What they rest on

The named assumptions, which each module states at its constants and TLC
evaluates in every run: that bounds are natural numbers (`Hour`, `MaxPolls`,
the sizes of buffers and the backoff are not 0), that `None` and `Nil` are none
of the values they stand beside, that constants which are subsets are so, and
that the sets that are counted are finite. Some say more:

* `PathAssumption`: if there is a key `wake`, it is a press. `Handle` wakes the
  car for that key alone, and `dispatch.go` lists it in `momentary`.
* `TableAssumption`: the keys are among those of the tables in the code.
* `EnrollAssumption`: what the CA file gives is a chain, nothing, or garbled.
* `CredentialAssumption`: the main goroutine is none of the callers.

One theorem has a hypothesis of its own. `RightCarOnceHolds` assumes
`OwnNames`: no two cars ever have one name, and no name is an identifier made
of a VIN. The owner chooses names and nothing in the code keeps them apart;
section 6 shows what happens to two cars of one name. The instance of
`ServiceParts` satisfies `OwnNames`.

### The arguments

**Dispatcher.** Neither "one worker" nor "answered once" is inductive: they say
nothing about a request while it is passed from hand to hand. `Ownership` does.
Until it is answered, a request is in exactly one place: a slot of its car's
queue (`QueueOwns`), a worker (`WorkerOwns`), or the `Submit` call that
superseded it and has yet to say so (`CallerOwns`). `Workers` ties the flag to
the threads: `running` is true exactly while a worker is live or about to be
started, that one is unique, and a queue that is not empty has it set.
`Threads` is the order in which a `Submit` and a worker go through their
states; in particular `Submit` never supersedes a request *and* starts a worker
(`"replacing_starting"` is unreachable). `IInv == TypeOK /\ Ownership` is
inductive. `Refinement` maps a request's place to the status of the service and
uses `Ownership` for the two facts that the service's guards ask for: the
request being answered has no answer yet, and nothing else of the car is being
executed.

What the queue promises about order and values is said of the *places* that
requests have in `taken[c]`. `OrderInv` adds to `IInv`:

* `PlacesInv`: a request arrives once and is taken once, every place but the
  last has its answer (there is one worker), and the answer is what the place
  says;
* `RecordedInv`: `lastOK` is the value of the last place recorded as sent, so
  that the check of the code, which sees `lastOK` alone, speaks of the history;
* `NewestInv`: the newest request of a set-state key has the one slot of its
  key, or the last place;
* `CapInv`: the dispatches of the last hour have an injection into the window
  `perKey`. Places number the requests of all keys of the car and the window
  has the times of one, so the injection is what lets the length of the window
  bound their number;
* `LineInv`: in the line of what was taken followed by what waits, whoever
  stands before an older request has a place that another gave up by merging.

**Rolling windows.** `Kept`: a window is the end of the history of all its
events, and what it has dropped is older than the cut. With it, a check of the
window's length bounds every rolling hour, not only the current one.

**Relay.** `NoDoubleFire` is not inductive, since what was lost may arrive
later. `Fires` adds that a call which can still send has not been heard, and
that one which gave up has at most one command under way. `Flights` ties the
singleflight map to its leaders and joiners, `Budget` is `Kept` for the wake
log. `Reports` is what `CommandPath` needs of each outcome: nothing is on the
wire of a rejected call, a sent command has run, what may still arrive was
reported failed, and what ran or may still arrive was put on the wire.

**Command path.** Each step is a step of `Dispatcher` or leaves its variables
alone (`PathIsDispatcher`), so `OrderInv` holds as it stands, and the lemmas of
`RelayProofs` are instantiated for its other half. `PathInv` ties the two:
`CallsMade` (a call is in the hand of one worker that waits for it, and its
request has a place), `AnswersTold` (every answer is a refusal without a call,
or what the call returned), and `CarRan`: whatever the car ran after a request
that was reported sent was taken later, or was reported failed; and it ran
nothing of a call that posted nothing. The exception is real: a command that
was given up may have run, or arrive late. A duplicate is refused by the last
request recorded as sent, and what has its answer between the two was refused,
rejected or reported failed (`FailedAfter`), so the car has the value unless a
failed one ran.

**Vocabulary.** Why a request was refused, and what it made the car do, are tied
to its own word (`Explained`, `RanAsAsked`); the two properties are then about
the tables alone and hold entry by entry.

**Discovery.** Entities can be missing only while somebody will notice
(`WillBeNoticed`): the connection is down, a handler has yet to reset, or
whoever claimed the car is publishing or about to take the claim back.

**Gateway and Services.** Each part has an invariant `XInv`, proved action by
action and for the part alone; a behaviour of the whole is, for each part, a
behaviour of it that may stutter (`XPart`), so it has what the part has.

| Invariant | What makes it inductive |
|---|---|
| `RecorderInv` | backup, file and buffer are three stretches of one recording; a flush, whole or broken off, moves a prefix of the buffer to the file |
| `IngestInv` | at each stage of the replacement it is known who holds which socket, and which of them is closed |
| `SupervisorInv` | a child exists, and its pipe is open, exactly while the loop has one to wait for |
| `StreamingInv` | the entry of a tag names a pusher of that tag that was not stopped |
| `LidInv` | with prompt reports, what the store has seen of a lid is unknown or true |
| `OnboardInv` | which files exist at each stage of making keys, and that an answer about to be recorded was Tesla's |
| `CredentialInv` | the one token that Tesla accepts is followed through memory, disk and the answer in hand: whoever sends or receives has `mu` (`Locked`), without an error of the last write the disk has what memory has (`Written`), a pasted token is of a login of its own (`Pending`) |
| `VehicleStateInv` | the last save starts after ingest has stopped and copies a store that no longer changes; what a process has not received does not speak for it |
| `EnrollInv` | while no two saves overlapped, what the file and the save under way hold has the chain that was saved last |
| `ViewsInv` | the publisher remembers what the document shows; that the pictures agree follows from the values that each field may have |
| `NamingInv` | an identifier is made anew by each start, so the proof follows the set of all that a car may ever have (`IdsOf`); two cars have none in common |

Only model-checked: liveness (`EveryRequestAnswered`, `EntitiesReturn`,
`FaultIsRepaired`, `CrashIsRestarted`, `ShutdownCompletes`, `PushersEnd`) and
the fairness in `ImplementsDispatcher`, whose safety is `PathIsDispatcher`.
Fairness and ENABLED are beyond the prover.

## 5. What is left out

* Of the Fleet API emulator: lookup by id, the product list, `wake_up`'s
  constant answer, the debug endpoints. Of the documents and of the streamed
  row: the keys that copy one field each (ranges, temperatures, pressures,
  positions), unit conversions, the captured template, the VIN tables and Home
  Assistant's tables of names and units. None has a state of its own.
* `VehicleData` and `TelemetryConfig` of the relay: one request each.
* Decoding of telemetry payloads in ingest: a message is some number of writes.
* The wizard's probing and sign-in pages; the interval of each single field in
  an enrolment and the estimate of its cost.
* The layers of the configuration, `streamcfg` and certificates: read or written
  once at startup.
* In `Streaming`, the mutex of the writes: over a lock that several pushers
  share, TLC does not finish the liveness check.
* Two promises are conditional. `LidsObey` says of a toggle with late reports
  only what the front lid's refusal can guarantee: with an old `DoorState` the
  code may move the other lid the wrong way. `NoWriteAfterStop` and
  `CleanShutdownKeepsAll` speak of a `Stop` that waited for its goroutine, not
  of one whose bounded wait gave up.
* Three fields stand for all in `VehicleState`; one output stream for two in
  `Supervisor`; one car in `Discovery`, whose cars share no state but the two
  maps that are keyed by car.

## 6. Where the code and its words differ

Found while modelling. The first four have a run that shows the
counterexample; each of the others is stated in its module, with the line it
quotes, and TLC refutes it when it takes the place of the properties in the
configuration named.

| Property | Module and configuration | What happens |
|---|---|---|
| `DuplicateIsOnCar` | run `CommandPathDuplicate` | a value is sent, the next one runs but is reported failed, the first is asked for again: the duplicate window refuses it, and the car keeps the other |
| `PowerPathsAgree` | run `ViewsPower` | the residual of a fast charge makes the streamed power of a drive 0, where `vehicle_data` has the pack's |
| `DiscoveredIsRetained` | run `DiscoveryRace` | a field marked just after the on-connect reset is not published again |
| `RecordingRecovers` | run `RecorderRecovers` | `bufio.Writer`'s error is sticky and nothing replaces the writer before a restart |
| `ChargeLimitIsNewest` | `CommandTable`; `TableWords.cfg` with three requests, `Keys <- MCLimits` and `Payloads <- MCLimitPayloads` | merging goes by key, and three keys set the charge limit: a request can run before an older one, whose value the car then keeps |
| `PressIsItsOwnRequest` | `CommandTable`; the same | the charge limit buttons are merged and refused as duplicates |
| `ArrivalOrder` | `Dispatcher`; `DispatcherQueue.cfg` | a merged command runs in the older one's slot |
| `FailedAttempted` | `Relay`; `RelayWake.cfg` | without a token, or an address, "failed" is reported and nothing was sent |
| `CountSinceStartup` | `VehicleState` alone, with the constants of `ServiceParts.cfg` | the counter goes on from the snapshot file |
| `ReadyMeansStreaming` | `VehicleState`; the same | readiness looks at one of the reasons for being online: a car in gear that went silent is online and ready |
| `StoppedIsOffline` | `Discovery`; `DiscoveryRace.cfg` | the on-connect handler publishes online after `Stop` published offline |
| `RotationKeepsBackup` | `Recorder`; `RecorderRecovers.cfg` as `PROPERTY` | a failed rename is ignored, and the file is truncated |
| `OutputHasReader`, `LastWordsLogged` | `Supervisor` alone, with the constants of `GatewayParts.cfg` | a line above 1 MB ends the reader; `Wait` closes the pipe before it is read out |
| `PairedKeysGuarded` | `Onboard` alone, with the constants of `GatewayParts.cfg` | a death after the public key was written and before `state.json`: the wizard knows of no keys, yet registers, the car pairs with the key that is served, and a click on generate replaces it without asking |
| `ServedKeySigns`, `DoneIsCurrent` | `Onboard`; the same | a restart between two key files; a domain edited after its registration |
| `OverlapKeepsChain` | `Enroll` alone, with the constants of `ServiceParts.cfg` | two saves at once: the file is torn, or lacks the chain that was saved last |
| `NeverWithoutChain` | `Enroll`; the same | `/admin/enroll` sends a config without a chain, which the wizard refuses to |
| `ShowsLastKnown` | `ViewsMC`; `ViewsPower.cfg` with `MCEnrolments == {{"Hvac"}}` | a value that comes and turns invalid between two ticks is never shown, and a restart forgets what was carried forward |
| `RestoredChargeNotShown` | `ViewsMC`; the same with `{{"Charge"}}` | `vehicle_data` says Charging of a restored charge that `Derive` does not trust |
| `CommandsHeard` | `Naming`, with the constants of `ServiceParts.cfg` (below) | a subscription that fails is logged, and the gateway is deaf until the next reconnect |
| `NoFrozenDevice` | `Naming`; the same | a rename, or one failed lookup, leaves the devices of the old name available with values that nobody renews |
| `RightCarOnce` for cars of one name | `Naming`; the same with one title for both cars | a press runs on the first car of that name |

For the last three, a module that extends `Naming` gives `Lists` and `Titles`
their values as `ServicesMC` does.

## 7. Plan

Order of the modules, most important first: dispatcher, relay, their
composition, vocabulary; credential; ingest and vehicle state; discovery;
recorder, supervisor, wizard, lids, TeslaMate; enrolment, pictures, names. All
of these exist.

Next, in the model: ingest and recorder composed, since `Record` runs on the
ingest goroutine; the layers of the configuration (options, environment,
secrets from files) as operators; the write mutex of a TeslaMate connection, as
safety only.

Next, in proofs: `CommandService`-like specifications of the credential, the
recorder and the store, with their refinements; `CommandsHeard`,
`OverlapKeepsChain` and the other statements of section 6 under the conditions
in which they do hold (one save at a time is done: `EnrollInv`); that
`TableNext` is a behaviour of `Dispatcher`, as `PathIsDispatcher` says of the
relay.
