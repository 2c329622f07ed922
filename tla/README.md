# A verification project for sim-rtu

sim-rtu simulates rooftop units: thermostats and power meters whose points are
read and written over a REST API, a Normal Framework (NF) compatible route and
BACnet/IP, while an engine moves their temperatures and stages. This directory
holds TLA+ models of it, the TLC runs that check them, and TLAPS proofs.

All paths below are under `src/internal/` unless they say otherwise.

## 1. The system

| component | state it keeps | operations | talks to |
|---|---|---|---|
| Priority array (`points/priority.go`) | 16 optional commands and a default | Write, Relinquish (never called), ActiveValue | owned by a store |
| Point store (`points/store.go`) | values, object index, arrays, definitions under one RWMutex | Write, WriteByKey, SetInternal, Read, ReadByKey, ReadAll | everything below shares it |
| Registry loading (`points/registry.go`, `NewPointStore`) | rows parsed so far | parse a row, load a definition | builds a store |
| Thermostat controller (`thermal/controller.go`) | last HVAC state, time of the last stage change | Evaluate, CurrentState | called by the engine |
| Thermal model, weather, schedule (`thermal/*.go`) | none | pure functions | called by the engine |
| Power meter (`power/meter.go`) | energy total, random source | Compute | called by the engine |
| Engine (`engine/engine.go`) | devices, elapsed simulated time, a done channel | New, tick, Start, Stop | stores, controllers |
| BACnet/IP server (`bacnet/server.go`, `decode.go`, `objects.go`) | connection, done channel, one receive buffer | WhoIs, ReadProperty, ReadPropertyMultiple, WriteProperty, Start, Stop | stores |
| HTTP API (`api/*.go`) | token | 7 routes | engine's device map, stores |
| Configuration (`config/config.go`) | none | Load, Validate | `main` |
| Process (`src/cmd/sim-rtu/main.go`) | context, signal channel of one place, deferred stops | start-up, shutdown | all |

They interact through shared memory: every store is used by the engine's
goroutine, by one goroutine for each HTTP request and by one for each BACnet
datagram. The store's lock makes one call atomic and no more.

What is hard here, and what makes each part correct:

* **Two ways of writing a point.** Clients go through the priority array, the
  engine's `SetInternal` goes around it. Correct: a slot holds its last command;
  a present value is what the point's whole history calls for; an outranked
  command has no effect.
* **Ticks that are not atomic.** `e.mu` guards the device map only, so a client's
  write falls between any two accesses of a tick. Correct: between ticks the
  outputs belong to one decision; nothing but its own evaluations moves a controller's
  stages and timer; a decision uses setpoints the store had during that tick, though not
  always at one instant, and setpoints left alone take effect; the meter is not older
  than a tick, whatever order Go's maps give.
* **Time.** Stages must rest after a change, second stages included, and yet
  lasting demand must be served.
* **One buffer for all packets.** Handlers parse a slice of the buffer that the
  read loop is filling again. Correct: whoever was parsed in time gets the right
  answer, and every handler tells the truth about what it did.
* **Map order.** Which device answers for an object that several have.
* **Shutdown.** A read that waits for a packet must be woken. Cancellation, the
  engine's `Stop`, the BACnet server's and the HTTP server's come one after the other
  while the loops they end are still running, requests are in flight and listeners may
  never have started. Correct: a signal ends the process whatever else goes on, and
  requests are answered first.
* **Configuration.** What `Validate` accepts must be enough for what `buildDevice` and
  `tick` silently skip when it is missing.
* **Loading.** Repeated names and keys, blank and garbled cells.
* **Encoding.** Lengths and numbers spread over bytes, at 254 characters and at 2^16.

`PROJECT.json` lists the hazards at their lines, each with the properties that
would notice it going wrong, or with the reason why none does yet.

## 2. Modules

    PriorityArray   operators on the slots of one point
      HVAC          operators: what Evaluate decides
      Points        operators: a store's registry, outcomes and effect of a write
        CommandLog      abstract: a store as the log of what it accepted
        PointStore      the store's methods     -- implements CommandLog
        StoreLoad       registry file -> store
        BacnetServer    read loop, handlers, stores (uses Encoding too)
        HttpApi         requests, stores
        Engine          ticks and clients over stores (uses HVAC, Schedule, ThermalModel)
    Schedule            operators: the hours of DefaultSchedule
    ThermalModel        operators: the next zone temperature
    Encoding            operators: the payloads the BACnet server encodes itself
    Config              operators: Validate, engine.New, buildDevice
      Lifecycle         main, engine's loop, HTTP server and an instance of BacnetServer
    ShortCycleGuard     abstract: stages that must rest
    ThermalController   Evaluate and time   -- implements ShortCycleGuard
    *Proofs             theorems;   MC_*    instances for TLC

`Engine` shows its controllers to be `ThermalController`s (an instance for each
device). `BacnetServer`, `HttpApi` and `Engine` each hold the stores' values and
slots by device and use the operators of `Points`, the ones `PointStore` is made of:
what is proved of a store's step holds in them. `Lifecycle` does not abstract the
BACnet server: it is `BacnetServer` itself, whose `Start`, `CloseDone`, `CloseConn` and
cancellation are taken by `main`'s steps instead of its own environment's.

### Correspondence

**PriorityArray, Points.** An array is a function from 1..NumSlots to a value
or `NoValue` (the nil pointer). `WriteReply` is the chain of checks of `Write` in
its order, `ValuesAfterWrite` its last two lines. An error is told apart by kind.

**PointStore.** `values` and `slots` are `ps.values` and `ps.priorities`; the
definitions, writable flags, defaults and index never change after
`NewPointStore` and are the constant `Registry`. One method, one action, as each is
one critical section. `log` is a history variable, which the refinement maps to the
abstract log, and `call` is the last call with its arguments: `CommandLog` chooses a call
and gives it the answer that its log holds for these arguments (`Do`), so an answer that
belongs to another point, or a "not found" for a point there is, is no step of it.

**StoreLoad.** `ParseRow` is an iteration of `ParseRegistryReader`'s loop, which
ends at the first error; `LoadRow` one of `NewPointStore`'s. Its `RegistryWellFormed`
is what `PointStore` assumes of its constants (`RegistryAssumption`,
`InitAssumption`).

**HVAC, ThermalController.** Temperatures are integers in a unit in which half the
dead band is representable (the comparison with half the band is written doubled).
Demand is scaled by the proportional band over 100, so `demand > 50` is
`2 * demand > ProportionalBand`. `sinceChange` is now minus the instant of the last
change, cut at the hold time: that the code compares the difference with nothing
else makes the cut exact. `Elapse` and `NewInput` are the environment: what the
engine does between calls.

**Engine.** `pc` walks through the store accesses of `tick` in program order,
`cur` is the device, `pending` the rest of the map. A missing point reads as 0 and a
write to it is dropped, as in the code. `OrElse` is applied when a setpoint is read,
not at the end (engine.go:208-213): an unoccupied setpoint that replaces it is
positive, so the order makes no difference. The zone takes a temperature next to the
fraction the thermal step gives. `now` is the wall clock as the tick reads it, an instant of the constant
`Instants`, and `Schedule` says whether it is occupied; the weather is a periodic
profile. `writer`, `before` and `shown` are history; `shown` is what the input points of
the device being ticked have shown since its turn began.

**Schedule.** An instant is the weekday and time `StateAt` takes from a `time.Time`; days
are a function from weekdays to windows of seconds, `AlwaysOff` for a day nobody comes.

**ThermalModel.** `Step` is the code's formula times `R * C`, in integers: nothing is
rounded. The units of `R`, `C`, the tick and the capacities are whatever makes them whole;
all thermostats of an instance share them, as those of `configs/default.yml` do. A
temperature off `Temp`'s ends counts as the end, which bounds the instance.

**BacnetServer.** `handlers[i]` is the goroutine of the i-th packet: `overlay` is
what has been written over its bytes so far, its own packet included. `Parse` takes a
message whose fields come from any of these, or fails. `pc` then goes to `find`,
`store`, `send`. A request's object is `Null` if its identifiers do not decode, its value
if it is no number: such a request is refused by the decoder (`Undecodable`). Fields are
taken whole: a field assembled from the bytes of two
packets (type of one, instance of the other) is one more message, about which no
property would say anything different. Widths are constants (2^16 and 2^32 in the
code; TLC's integers stop at 2^31, so the second is 2^30 in the instances). An answer's
`apdu` is the payload of each value, in bytes where `Encoding` has the bytes.

**Encoding.** The server's own payload types (decode.go:12-150), which replace library
encoders that are wrong beyond four bytes: header, length field and the number's bytes for
texts, unsigned and enumerated values, and the size `MarshalLen` announces. A real has no
bytes, a text's characters are only counted. `DataLength` and `Number` take an element apart
as the protocol tells a client to, `WellFramed` compares.

**Config.** A configuration is a record of what `Validate` and `engine.New` look at; an
optional section is a set of at most one member. `TickDurations` is the conversion of
`tick_interval` to nanoseconds in `Start`, truncation and overflow included.
`Lifecycle` is where these operators are used.

**Lifecycle.** `main` is the statement `main` has reached. `process` is how it ended, if
it did: `failed` (`os.Exit(1)`), `killed` by a signal before `signal.Notify`, `crashed`
by a panic, or `exited`. As in Go, no goroutine survives: every action needs a process
that runs. The engine's work is reduced to the time in which it holds `e.mu`
(`engine = "tick"`), during which neither `Devices` nor `Device` can be called. Requests
go from `device` to `body` to `store`, an NF request from `nf body` to `nf device`, in
the order of the handlers; `ListenAndServe`, `Shutdown` and `ReadTimeout` are modelled
from how they are used and are external; the deadline of `Shutdown`'s context is a step of
its own, `DeadlinePasses`, which may come as soon as `Shutdown` was called and before which
`Shutdown` returns only if nothing is active. What a tick does to the stores, and a weather
override, are in `Engine` and `HttpApi` and not repeated.

**HttpApi.** `sessions[i]` is the goroutine of the i-th request; `Arrive` combines the
token check and the checks that precede the first store access, since they read
nothing that changes. NF reads and weather overrides take a step for each object or
device.

## 3. What is checked

Times are for a few workers. All `pass` runs end with the whole space explored.

| run | instance | states | properties |
|---|---|---|---|
| `point_store` | 3 points of which one has two keys, 3 slots, 2 values, 3 accepted operations | 6 175 | `TypeOK`, `SlotsAgree`, `ValuesAgree`, `AnswersFromHistory`, `OutrankedWriteIsInert`, `CommandsStand` |
| `store_load` | all registries of up to 3 of 21 rows; 2 names, 2 keys | 71 604 | `TypeOK`, `RegistryWellFormed`, `LastRowWins`, `StartsCommanded`, `AllOrNothing` |
| `thermal_controller` | 4 temperatures, bands of 2, hold 2 | 7 680 | `TypeOK`, `SafeStaging`, `NoShortCycle`, `DemandIsServed` |
| `engine` | a thermostat and a meter, 3 temperatures, hold 2, 2 client writes to any of the four setpoints, the first second of office hours and the first after them | 210 087 | `TypeOK`, `OutputsPublished`, `DecisionsAreCurrent`, `SetpointsTakeEffect`, `CoolingReachesSetpoint`, `FreeZoneDoesNotOvershoot` |
| `engine_pair` | two thermostats and a meter, 3 temperatures, hold 2, 1 client write, constant weather | 2 352 414 | `MeterLagsOneTick`, `ControllersAlone` |
| `bacnet_race` | two devices, two packets of 8 kinds | 761 597 | `TypeOK`, `RepliesAreTrue`, `UndisturbedAnswers` |
| `bacnet_requests` | two devices, one packet of 27 kinds, two REST writes | 309 464 | `RepliesDecode`, `ShutdownEnds`, `RequestsAreServed` |
| `http_api` | three devices, three requests of some 30 kinds | 809 378 | `TypeOK`, `ChangesAreAuthorized`, `CommandsLand`, `NFReadAllOrNothing`, `OverrideReachesTargets` |
| `lifecycle` | 22 configurations: a good one and what one change makes of it; two devices, one packet of 3 kinds, one HTTP request, one signal | 162 547 | `TypeOK`, `RequestsDrained`, `OneLateDatagram`, `EveryDeviceTicks`, `OnlySignalsEnd`, `SignalEndsProcess` |

`point_store` is explored under a `VIEW` that leaves out the last call and its answer: no
step reads them, so states that differ in nothing else have the same successors. TLC still
checks the refinement and the action properties on each of the 491 941 steps.

Why these bounds. Three operations on a store are enough for a command, another
that outranks it and a simulation write, in every order; the theorems below remove
the bound. Two rows give every way of sharing a name or a key, a third the
difference between the last row and the last writable or valued one. In
`thermal_controller` temperatures 0..3 put the zone on, above, below and between setpoints, crossed setpoints
included, and a band of 2 reaches both stages and saturation. In `engine` a demand
saturates at one degree (band 1), two client writes make one fall before and one
after any access, and the weather alternates between hot and warm, so that one cooling
stage does not suffice and two do, and a zone that is cooled while a change must wait falls
below the heating setpoint; two thermostats are needed for the meter and for mutual
disturbance, and one client write meets every access of either, so `engine_pair` has just
these and a constant outdoor temperature. The two writes of `engine` can also move both
setpoints of a pair around any of the four reads, and 0 is among its temperatures, the value
that makes the engine take a fallback or ignore an unoccupied setpoint. Two
packets are the smallest number that races for the buffer; three would only add to
the overlay. Three requests let one run between the steps of two others. The texts in
`bacnet_requests` have the lengths at which the encoding changes, and values and
invoke identifiers cross 2^8 and 2^16. In `lifecycle` one request and one packet
are enough for every one of their steps to meet every step of the shutdown (`main`
waits for no particular number of them), and each check of `Validate` is failed by a
configuration of its own; intervals are chosen below a nanosecond and beyond the
largest duration.

The `violation` runs each check one statement that a comment, a document or a test
of the repository makes, and that the code does not keep:

| run | statement | what the code does |
|---|---|---|
| `nf_null` | `api/nf_routes.go:245`: a null write relinquishes | commands 0 |
| `rest_write_reads_back` | `tests/integration/bacnet_aems_test.go:696`: a REST write reads back over BACnet | another device with that object may answer |
| `bacnet_overwritten` | `bacnet/server.go:163`, 216: a handler handles its request | it may handle the one received next |

Other places where the code and what is said of it differ, met while modelling and
visible in the models though no run is spent on them:

* `src/cmd/sim-rtu/main.go:106` logs "shutdown complete" before the deferred stops: at that
  line the BACnet loop, the HTTP server and the engine may all be running (`StopBacnet` and
  `StopApi` come after it in `Lifecycle`).
* `config/config.go:98` wants a positive tick interval; one below a nanosecond is
  accepted and is a zero duration at `engine/engine.go:104`, of which `NewTicker` panics
  (`TickDurations`; `OnlySignalsEnd` names that as the one crash).
* `src/README.md:63` and `src/docs/setup-guide.md:66` let a client override the outdoor
  temperature; the tick takes the weather for its decision and for its thermal step, and
  writes the weather over the override (`engine/engine.go:183`-185, 216). That no decision
  uses an override is part of `DecisionsAreCurrent`.
* `bacnet/server.go:358` announces an object identifier; the value goes out as a Real.
* `thermal/controller.go:112`, 119 promise to keep a first stage on in the dead band;
  the branches cannot be reached, which is theorem `HoldBranchesAreDead`.
* `bacnet/server.go:704` speaks of properly typed values; a multi-state or binary point
  without a value is answered with a Real by ReadProperty (line 417, `RPValue`).
* `tests/integration/bacnet_aems_test.go:428` expects an output it wrote to read back;
  the next tick overwrites it (`PublishOutput`).
* `README.md:9` counts 59 points in the Schneider registry, which is its rows; rows that
  share a name are one point (`LastRowWins`).

The instances are cut from the registries of `configs/`: `analogValue 40` is one point
in `schneider.csv` and another in `openstat.csv`, `OutdoorAirTemperature` occurs twice
in `schneider.csv`.

### Fairness

* `ThermalController`: `Evaluate` and `Elapse` are weakly fair, as the ticker fires
  for ever and the clock moves. Inputs are not: nobody has to change them.
* `Engine`: the tick as a whole is weakly fair (one goroutine, which never blocks on
  anything but short critical sections). The schedule and the order of devices are
  not: `SetpointsTakeEffect` holds however the map is ordered, since a tick ends
  only when `pending` is empty. `CoolingReachesSetpoint` needs no more. Its antecedent
  `CoolingSuffices` is about the constants and true of the instance.
* `BacnetServer`: each goroutine is weakly fair, as the Go scheduler is; so are the
  loop's own steps, `Stop` once it has closed `done`, and the failure of a read on a
  closed connection. `Receive` is not: no packet has to come. `ReadFails` on an open
  connection is not either.
* `Lifecycle`: `main` is weakly fair; so are the engine's start and the end of a tick, the
  HTTP server's start and close, the read timeout and the handlers' store accesses, and the
  BACnet goroutines. Two are strongly fair: `EngineReturns`, as `select` chooses at random
  among ready cases and so does not choose the ticker for ever, and `FindDevice`, as Go's
  `RWMutex` does not let a writer starve the readers that wait. Nothing is assumed of
  signals, datagrams, requests or bodies.
* The other modules state safety only.

Deadlock is checked in the stores', controller's and engine's runs, which never stop.
It is off in `StoreLoad` (a load ends), `BacnetServer` (a server that was stopped),
`HttpApi` (all requests answered) and `Lifecycle` (the process ends).

## 4. What is proved

**PointStoreProofs**, for every set of names, keys and values, every registry that
satisfies `RegistryAssumption` and `InitAssumption`, every number of slots:

* `TypeCorrect`, `SlotsCorrect`, `ValuesCorrect`: the three invariants. `ValuesAgree`
  is not inductive alone, as a write computes the new value from the slots: the
  induction is on `TypeOK /\ SlotsAgree /\ ValuesAgree`. Lemmas say what the log's
  `SlotOf` and `Present` become when a command or a simulation write is appended, and
  that an array of agreeing slots has an agreeing active value.
* `OutrankedInert`, `CommandsStandAlways`: action properties from that invariant.
* `Refinement`: `Spec => Abstract!Spec`. The mapping is the identity on `log` and
  `reply`; reads map to answers because of `ValuesAgree`. As the abstract log ties each
  answer to the call's arguments, the theorem says what every call returns.

The bound `MaxLog` is a natural number in the proofs: any behaviour is within
some bound.

**SharedLemmas** holds what several of the proofs need: an array with an occupied slot has
a highest one, `ActiveValue` is its command or the default, a write below it changes
nothing; and of the controller's decision, for every set of integer temperatures,
non-negative dead band and positive proportional band, that its outputs are typed and its
staging safe. Its theorem `HoldBranchesAreDead`: the two dead-band branches are never
taken.

**ThermalControllerProofs**, for the same and every hold time: `TypeCorrect`;
`StagingIsSafe`, inductive with the type invariant since a held-back evaluation returns the
old state; `ShortCycleRefinement`, that the controller implements the guard.

**StoreLoadProofs**, for registry files of any length, with any names, keys and cells:

* `TypeCorrect`, `RegistriesWellFormed`, `LastRowsWin`, `StoresStartCommanded`,
  `LoadsAllOrNothing`: the five invariants of the run. The induction is on the types, on
  `definitions`, `values`, arrays and index saying of each name and key what the last row
  taken so far that bears on them says, and on each of those rows having a definition.
* `RegistriesWellFormed` is what the proofs about `PointStore`, `HttpApi`, `BacnetServer`
  and `Engine` assume of the stores they are given, for every store that `NewPointStore`
  builds.

**HttpApiProofs**, for any devices, registries and requests, in any number and order
(`RegistriesAssumption`, `RequestAssumption`: which fields a route's request has):

* `TypeCorrect`, `ChangesAuthorized`, `CommandsLandAlways`, `NFReadsAllOrNothing`,
  `OverridesReachTargets`: the five invariants of the run. The induction carries, for each
  session, that one still at work has passed its checks; that what changed a store was
  authorized and has not failed; that a session writes once, when it is answered, unless
  it overrides the weather; how far an NF read has got, and which targets an override has
  visited. A step touches one session and its own part of the log (`OnlySession`,
  `WritesForSession`), so each action is proved for its own session alone.

**EngineProofs**, for any number of thermostats and meters taken in any order, any
registries, periodic weather and client writes between any two accesses of a tick:

* `TypeCorrect`, `OutputsArePublished`, `MetersLag`, `DecisionsCurrent`. The last three are
  not inductive, as each is true at some places of a tick only. The invariant says what holds within one: where `pc`
  may stand at which kind of device; that what the tick reads as temperatures are
  temperatures (`Readings`); which of a decision's seven outputs are shown at each `pc`
  (`OutputsShown`); that a thermostat has its old stages until the tick decides for it
  (`StagesKept`), and that a meter the tick has passed counts all those that were still
  undecided by their old stages (`MetersCount`); and, for each place between two reads, that
  what has been read so far is among what the device's points have `shown` in its turn
  (`Gathered`).
* `ControllersStandAlone`: each device's controller implements `ThermalController`, step
  by step: `Evaluate` is its evaluation, `StartTick` its clock, a changed input its
  environment, and everything else a stutter. So what `ThermalControllerProofs` shows holds
  in the engine. Any inputs are an environment's step, so this says nothing of which inputs
  a controller is given: that is `DecisionsCurrent`. What the code does not give, and no
  theorem claims, is a pair of setpoints that stood in the store together.
* `FreeZone`: the action property `FreeZoneDoesNotOvershoot`, however the temperature is
  rounded and whatever clients wrote since it was read, from `FreeZoneFollows`.
* About the operators alone: `DefaultIsOfficeHours`, `StateAt` of `DefaultSchedule` is
  occupied at exactly the instants of Monday to Friday from six to eighteen, for all
  604 800 of them; a run sees two. `FreeZoneFollows`, for all R, C, ticks and
  temperatures: a free step of at most R * C hours ends between zone and outdoors.
  `CoarseTicksSwing`: one of more than twice R * C ends further from the outdoor
  temperature than it began, on its other side. `Validate` accepts both. Lemma `FreeStep`:
  the step multiplies the difference by 1 - dt / (R * C).
* Assumed: clients write temperatures to the five points that the tick takes for
  temperatures (`Reading`), as `Temp` stands for all integers the proofs are about; and
  `Value` holds the sums a meter can publish.

**BacnetServerProofs**, for any devices, registries, texts, requests and any number of
packets over the one buffer:

* `TypeCorrect`, `RepliesTellTheTruth`, `UndisturbedAnswered`, `RepliesAreDecoded`: the
  invariants of the two runs; and `StoresHold`, that the stores of all devices hold exactly
  the writes of both interfaces, which no run repeats, as `point_store` checks the like of
  one store. Most of the inductive invariant
  is about one handler (`HandlerOK`): its types, what it has and has not got at its `pc`
  (`Progress`), that its answers can be encoded and are as many as the properties asked
  for (`Answers`), and that its message is its packet unless that was overwritten
  (`Undisturbed`). `Wrote` ties a handler to the history of writes: one that is its
  message's if it has acknowledged, none otherwise; what was sent is the reply that was
  chosen (`Progress`). `Heard` says who has still to be told of by a WhoIs, and that an
  acknowledgement has gone out while the connection is open. A step changes one handler and at most appends one write, so each action
  is proved of its own handler; a packet that is received changes overlays alone.
  `StoresHoldWrites` needs its own lemma, that the last write to a slot is the appended one
  or the one it was (`AcceptHolds`).
* A torn message is any mixture of the requests' fields, so the theorems hold whatever
  the race makes of a message.
* `TextsAreWellFramed`, that a reader of a text's tag finds its end where it is, for every
  length up to 2^16 - 1, and `UnsignedReadsBack`, that each unsigned number of 32 bits is
  read back as itself, rest on a lemma for two and one for four base-256 digits;
  `RepliesAreDecoded` rests on them.
* Assumed: the stores are as `NewPointStore` leaves them and their objects of mapped types
  (`StoresAssumption`); numbers are integers (`ValueAssumption`); the widths that unsigned
  numbers are cut to are at most 32 bits, as in the code (`WidthsAssumption`); a text fits
  a datagram (`TextsAssumption`, since the tag has two bytes for a length); requests have
  their fields (`RequestsAssumption`); and `Null` is neither a device nor a reply.

**LifecycleProofs**, for any configurations, requests and datagrams:

* `NoRequestCutOff`, `OneDatagramLate`, `EndsAsDesigned`, `EveryAcceptedDeviceTicks`: the
  induction is on what each statement of `main` can rely on: what is not started yet, what
  the configuration has been checked for, that a signal came, that `Shutdown` was called or
  there is no HTTP server, and that `Shutdown` has waited unless its deadline has passed.
* Lemma `AcceptedDevicesTick` is about any number of devices: since `Validate` refuses a
  repeated identifier, the device map has each under its own, with all a tick needs.
* `TypeCorrect` and `ServerKeepsPromises` are proved by composition. `Alone` is an instance
  of `BacnetServerProofs`; the lemmas called `Same...` identify its steps with those of the
  server in `Lifecycle`. A step of the process then is a step of the server, a
  stutter of it, or `cancel()`, which `main` may call in states in which the server's own
  environment would not, and which keeps the server's invariant all the same; a request
  writes only to stores that the server was given, because it comes after `main` has built
  the devices. So all that is proved of the server holds in the process.
  `ServerAssumption` repeats its assumptions, `ConfigsAssumption` says that a configuration
  that loads has the devices of these stores.

Assumptions on constants are named in the modules that declare them and are
evaluated by TLC in every run that extends these.

**Only model-checked**: all liveness (`DemandIsServed`, `SetpointsTakeEffect`,
`CoolingReachesSetpoint`, `ShutdownEnds`, `RequestsAreServed`, `SignalEndsProcess`), which
is beyond the prover used here. Every invariant and every action property of the runs that
pass has its theorem.

## 5. Not modelled

* The envelopes of BACnet messages, which the library writes; the bytes of reals, dates and
  identifiers; YAML, JSON and CSV syntax; flags and logging.
* The weather's sine and the meter's readings (voltages, currents, noise, an energy total
  that is published nowhere): real arithmetic and chance; the engine's model keeps what
  the control flow depends on.
* Floating point: comparisons are exact in the model.
* `Relinquish` and `Slots`: no caller outside tests.
* Listing devices and points, and the health route: they read and change nothing.
* The HTTP and BACnet libraries, except what `bacnet.Parse` may return of a buffer that
  changes under it and when `Shutdown` and `ListenAndServe` return.

## 6. Plan

Done: the store, loading and the HTTP API with their proofs; the controller and its
proofs; the engine with its thermal loop; the BACnet server and the payloads it encodes;
configuration, schedule and the process from start to end; and proofs of all safety
properties of each.

Next, in this order:

1. the hazards without a property, beginning with those of single answers: what a point
   without a value is read as, and the two widths of a multi-state value;
2. that the server within `Lifecycle` implements `BacnetServer` itself, which takes a
   cancellation before `Start` into that module, where now only its invariants carry over;
3. that `BacnetServer`, `HttpApi` and `Engine` implement one `PointStore` for each device,
   so that its theorems about priorities hold in them too.
