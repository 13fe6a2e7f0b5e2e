# A verification model of rs_pool

`rs_pool` is a pool controller written in Rust with tokio. It runs on a
Raspberry Pi, takes commands over MQTT, drives a relay board and a variable
speed pump over one RS485 bus, measures the water temperature through an ADC,
and publishes a status. This directory holds TLA+ models of it, the TLC
configurations that check them, and TLAPS proofs about them. Paths below are
relative to `src/src/` unless they begin with `src/`.

## The system

| Component | State it keeps | Operations | Talks to |
|---|---|---|---|
| Shared `PoolState` (`state.rs`) behind an `RwLock` | `commanded` (mode, speed word, two set temperatures, relay mask), `measured` (relay feedback, rpm, watt, air, pool and spa temperature), `update_relays`, `update_pump`, `water_temp_settling` | `apply_command_json`, `set_*`, `on_active_loop_changed`, `clear_water_temp`, `status_payload` | every task |
| MQTT task (`mqtt.rs`) | session, backoff, `connected`, last payload published | connect, `handle_command`, coalesced and periodic publication, last will | shared state, the file, `bus_notify` (raises), `status_notify` (waits) |
| Persistence (`persist.rs`) | one JSON file | `save` (temporary file, sync, rename), `load_into` (with migration of old speeds) | called by MQTT and at boot |
| Modbus task (`modbus/mod.rs`) | the port, two tickers, `boot_pending` | open, boot run, wake, relay poll, pump poll, all through `service_bus` | shared state, `bus_notify` (waits), `status_notify` (raises), the bus |
| RTU link and frames (`modbus/rtu.rs`, `relay.rs`, `pump.rs`, `crc.rs`) | none of its own; what is in the line and the input buffer | one request, one reply, with a timeout | relay board, pump |
| Temperature task (`temp/`) | previous loop, settle deadline, fault flag | `poll_once`, `handle_fault` | shared state, `status_notify` (raises), ADC |
| Supervisor (`app.rs`, `main.rs`) | the task set, the shutdown channel | start, wait, broadcast shutdown, join | all tasks, systemd |
| Health (`health.rs`), log ring (`log_buffer.rs`), HTTP (`http/`), configuration (`config.rs`) | flags; lines; none; values | set and read | dashboard |

Tasks run on several threads and meet in the lock, in two `tokio::sync::Notify`
objects (one permit each) and in the file. Nothing holds the lock across a save,
a bus frame, a blocking sensor read or a publication; so everything read before
one of these may be stale after it. That, lost frames, half-done runs, and answers that come after their timeout, and the death
of the process between any two steps make the behaviours that are hard.
`PROJECT.json` lists them as hazards, line by line.

What makes each component correct:

* command path: a command is on disk before it acts; none is forgotten; a dirty
  flag goes clear only when the device has what is commanded *now*;
* Modbus task: what it publishes as feedback is what the coils are; whatever
  fails is tried again until the devices are as commanded; no wake-up is lost;
* link: an answer that outlives its timeout does no lasting harm;
* persistence: what was commanded comes back after a restart, in any scale, and
  no failure leaves half a document;
* command objects: one is taken whole or not at all, and what the status shows
  can be sent back without effect;
* log ring: it holds and shows the newest lines;
* temperature: no reading that is not of settled water, none from a sensor that
  does not answer, none moved to the wrong loop, none published late;
* session: the retained `connected` topic tells the truth, the last status
  published is current, whatever the connection does;
* supervisor: every shutdown ends the process, over no task left running.

## Modules

| Part | Specification | Above it, abstract | For TLC | Proofs |
|---|---|---|---|---|
| speeds | `SpeedScale` | | (in the runs of the two that extend it) | `NumberProofs` |
| commands, bus, file, devices | `PoolControl` | `RelayRegister` | `MCPoolControl` | `PoolControlProofs` |
| late answers | `RtuLink`, `BusTalk` | | `MCBusTalk` | `BusTalkProofs` |
| the state file | `DurableFile` | `AtomicDocument` | `MCDurableFile` | `DurableFileProofs` |
| command objects, status, log | `Commands`, `LogRing`, `Dashboard` | | `MCDashboard` | `DashboardProofs` |
| water temperature | `Thermistor`, `WaterTemp` | | `MCWaterTemp` | `WaterTempProofs` |
| MQTT session | `MqttSession` | | | `MqttSessionProofs` |
| the process | `Supervisor` | | | `SupervisorProofs` |

An operator whose comment begins with "Fault:" is a plausible bug in the
definition below it. No specification uses it; putting it in place of that
definition must break the property that `PROJECT.json` names with it.

### SpeedScale and PoolControl

`SpeedScale` is the speed arithmetic: `encode_spd`, `decode_spd`,
`migrate_spd`, `demand_from_spd`, `rpm_from_sensor`, with the floor at 0, the
clamp at the maximum (35 where the configuration says 0), the legacy x655 scale
and the 16 bit saturation of the demand word. No state.

`PoolControl` EXTENDS it and is the core: the MQTT task's command handler, the
Modbus task, the file, the relay board and the pump, and the death and restart
of the process. An action is what one task does between two points where
another may act.

| Variables | Code |
|---|---|
| `commanded`, `updateRelays`, `updatePump`, `relayStatus`, `busPermit` | `PoolState` and the permit of `bus_notify` |
| `disk`, `unread` | the file: `{}` or `{document}`; whether this process could not read it |
| `mqtt`, `draft` | where `handle_command` is, and its clone of the state |
| `bus`, `doRelay`, `doPump`, `snap`, `channel`, `attempt`, `measured`, `acked` | where the Modbus task is, and the locals of `service_bus`, `run_relay`, `write_then_read`, `run_pump`, `apply_spd` |
| `coils`, `pump` | the hardware: what the relays are, what demand the pump has and whether it runs |
| `received`, `faults` | bounds |

| Actions | Code |
|---|---|
| `ReceiveCommand`, `SaveDraft`, `SaveFails`, `CommitDraft`, `NotifyBus` | `handle_command`: clone and apply; save; its early return; commit under the write lock; `notify_one` |
| `StartBus`, `OpenPort`, `WakeBus`, `RelayTick`, `PumpTick` | `modbus_task`: mark all dirty at the start; boot run; the three branches of `select!` |
| `TakeSnapshot`, `WriteCoil`, `ReadCoils`, `ReadCoilsFails`, `FinishRelays` | the relay half of `service_bus`, one action per frame, with the one retry after a mismatch |
| `SetDemand`, `GoOrStop`, `ReadStatus`, `FinishPump` | the pump half: both frames best effort, the poll that stops a pump that should be off, the compare before the flag is cleared |
| `Crash`, `Restart`, `RestartUnread` | death at any point; `App::new` with `load_into`; a file that is there and unreadable |

Data is abstracted to what the properties tell apart: a mask is a set of
channels; `mode` and the two set temperatures, which dirty nothing, are one
field; sensor values, formatting and logging are left out. The board may miss a
frame, act and not be heard, or answer without acting; a pump frame is
acknowledged only if it was taken.

`RelayRegister` is the abstract specification of the relay half: an intended
mask may change at any time and withdraws the claim that it is in place; the
field may change only while nothing is claimed; the claim may be made only when
the field is as intended. `PoolControl!Register` instantiates it with
`wanted <- commanded.relays`, `field <- coils` and
`settled <- Started /\ ~updateRelays`, and `ImplementsRegister` says that the
controller implements it.

### RtuLink and BusTalk

`PoolControl` lets an answer be lost, not late. `RtuLink` is the line as
`transact` uses it: a request clears the input (`Transmit`), answers come in
when they like (`Arrive`), and what is in the buffer is accepted when it is one
frame of the right function code (`Accepted`); neither coil, value, page nor
sensor id is compared. An answer's age is counted in requests sent since its
own; `MaxLate` bounds it for each device.

`BusTalk` is the Modbus task on that link, with a request and its outcome as
separate steps. `Ask...` are `write_coil`, `read_coils`, `set_demand`, `go`,
`stop`, `get_status`, `read_sensor` up to their wait; `...Outcome` what the code
makes of the answer, wanted or not; `FinishRelays` and `FinishPump` the two lock
sections of `service_bus`. A command is one step (`Commit`), a wake-up may come
whenever something is dirty: `PoolControl` has both in full. New here are the
sensor readings (a reading is the sensor it was taken by) and `ResetBoard`, a
relay board that loses power behind the controller's back. `resetSince` is a
history: the board has lost power since a writing run last read it back.

### DurableFile

`persist::save` a system call at a time (`Create`, `Write`, `Sync`, `Rename`),
any of which may `Fail`, with `load_into` (`Load`, `LoadNothing`, `LoadFails`)
and the rewrite of a migrated document, and the command that commits only what
was saved. `path` is what a reader of the file finds, `after` what a power cut
may leave there, `tmp` and `synced` the temporary file. `Kill` takes the process
and leaves the page cache; `PowerCut` takes that too. The file system is
external and assumed to be a journalling one: a sync carries the changes of the
directory before it along (ext4 does). A file
that was not synced may hold anything.

`AtomicDocument` is what the file promises: replaced whole or not at all. The
refinement maps `doc <- path`, `offered <- after`.

### Commands, LogRing and Dashboard

`Commands` is `apply_command_json` key by key on a draft, with `json_as_i32` and
`json_as_boolish` for values of every JSON kind, and `to_status_json`. `{}` is
the error that the first refused key returns. Numbers are saturated at the
range of i32, which is a constant. `LogRing` is `LogBuffer`; a line is its
number. `Dashboard` composes the two with the runs of the Modbus task that move
feedback and flags (`Service`) and the start of `main`, which logs into a ring
of the first capacity before it reads the configured one (`Configure`).
`PoolControl` takes a command in one step, on channels and one setting;
`CoreAgrees` compares that step, through an instance of `PoolControl`, with
`apply_command_json` on the object: the same draft, the same flags, and saved
exactly when the object counts as a change.

### Thermistor and WaterTemp

`Thermistor` is the way from samples to a temperature: `sample_average` and
`average_raw` with Rust's division, and every check of `raw_to_fahrenheit`. The
formula is monotone, so `celsius_max` and `celsius_min` are two raw values.

`WaterTemp` EXTENDS it and is the temperature task, with the valve moved by the
other tasks and the publisher that takes the permit of `status_notify`. A
reading is present or null. The settle time is counted in ticks. `BeginPoll` is
the first lock section of `poll_once`; `SampleGood`, `SampleRejected` and
`SampleFails` the return of the blocking read with a temperature, with an
average that is none, and with an error of the converter; `StoreSample` the
second lock section, `ClearReading` and `ReportFault` the two of `handle_fault`,
`WakePublisher` and `PublishStatus` the `notified()` branch of the session. It
assumes a connected session: one that is not publishes everything when it
connects. The valve moves freely, so that every behaviour of the relays in
`PoolControl` is covered; a composition of the two would check less.

### MqttSession

`mqtt_task` and `run_session`: the loop with its backoff (`StartSession`,
`EndSession`, `Reconnect`, `StopBetweenSessions`), the branches of `select!`
(`ShutDown`; `ConnAck`, `Command` and `Transmit` for the event loop;
`TakePermit` and `PublishCoalesced`; `Heartbeat`), and the publication they
share (`Publish`, `PublishForced`). The published state is a version; `due` is
the version of the last change that carries a hint or an echo. The broker (its
session, its subscription, what it retains, the last status it was given) and
the connection are external, with the last will published whenever a session
ends without DISCONNECT. `Crash` and `Restart` are those of the process.

### Supervisor

`main` and `App::run`: a configuration that is good, absent or broken
(`StartConfigured`, `StartDefault`, `Refuse`), the `JoinSet` (`set`), the watch
channel (`shutdown`), the biased loop (`SeeShutdown`, `JoinOne`), the join after
it (`Drain`, `Return`), `SignalTask`, and tasks that stop on the broadcast or
panic. The dashboard is a task with a start-up of its own (`Serve`, `GiveUp`)
during which it does not look at the shutdown channel, and with listeners either
of which ends it (`ListenerFails`).

## Runs

| Run | Configuration | Question |
|---|---|---|
| `safety` | 2 channels, 3 commands of 5, 2 faults, 1 551 004 states | are clean flags, published feedback and the file true under every interleaving, loss and crash; is no wake-up lost; are the relays a `RelayRegister` |
| `settles` | 2 channels, 2 commands of 2, 2 faults, fair | do relays and pump come to rest as commanded once commands and faults cease |
| `bus` | 2 channels, 1 commit, 3 faults, answers of the board up to 2 requests late, of the pump 1, fair, 848 471 states | what may late answers do to flags, feedback and readings, and does it pass |
| `durable` | 3 documents, one of them legacy, 3 saves, 2 444 states | what do failing calls, kills and power cuts leave of the file |
| `dashboard` | 2 relays, eight-bit i32, 35 objects, 4 lines, 20 842 states | is an object taken whole or not at all, and as `PoolControl` takes it; is an echo neutral; does the ring hold and show the newest |
| `temp` | settle time 2, 3 valve changes, 3 samples of 2 values, fair, 121 480 states | settling, blanking, loop isolation, averages, timely publication; does the reading come back for ever |
| `session` | 2 changes, 2 faults, fair, 133 928 states | does "1" stand for a session that listens; is what may not wait published; do topic, subscription and status come out right in the end |
| `stops` | 5 tasks and the signal task, every configuration, 2 panics, fair, 40 042 states | does a signal end the run, over no running task |
| `halfAck`, `spdMax40` | 1 channel | two disagreements below |
| `tempLag` | settle time 2, 4 valve changes | the third |
| `hang` | as `stops`, 1 panic, fair | the fourth |

Why the bounds are enough. Two channels are the least with which a mask can be
half written and half right. Two commands give a snapshot and a command that
overtakes it; a third can come after the permit of the second was taken, which
is what a lost wake-up needs. Two faults allow a half-failed run and a failure
of its repair, or a failure and a crash.

In `bus` the lateness is the greatest under which the properties hold for two
channels: a board later than the writes of one run lets a stale mask pass for
the read back, a pump two requests late puts the watts into the air temperature.
Each needs its faults; the flags could be made to lie with later answers and at
least four of them, which the run does not reach, so that beyond three faults
the flags rest on the proofs, which know no bound on faults. For the eight
channels of the board the proof allows eight requests.

In `durable` three saves give one that is under way, the one a power cut may
bring back and the one before it, which it may not. In `dashboard` values of
every kind stand under one key, and pairs of keys have the refused one first and
last; the ring of three is filled and overflows before and after it becomes one
of one, two or four. An i32 of eight bits still holds every speed, both set
temperatures and values beyond it.

A settle time of 2 has a tick strictly inside it; three valve changes allow
there-and-back and there again, through commands and through feedback. Three
samples at the default limits, one value below zero and one so high that two of
it overflow an i16, give averages inside and outside the limits. Two changes let
a hint overtake an echo or a silent change; two faults let a connection break
during the recovery from a break or a crash; refused connections are not
counted, so that the delay runs through all its values up to 30 000 ms, and
`QueueBound` keeps heartbeats, which never end, from piling up while nothing is
sent. Two panics are one before and one during a shutdown.

Deadlock is checked in every run but those of `MqttSession` and `Supervisor`,
which stop for good when they are told to.

Disagreements the violation runs show:

* `halfAck`: the comment in `modbus/mod.rs` says that dirty is cleared only after demand
  and GO/STOP were acknowledged; the code clears it after either. `PumpSettles`
  shows that the polls repair this.
* `spdMax40`: with `spd_max` above 35, a speed above 35 is saved as it is and
  loaded as if it were in the legacy scale, that is as 0.
* `tempLag`: a valve change undone between two polls starts no settle time.
* `hang`: when a background task has failed, `run` broadcasts shutdown and joins
  all tasks; the signal task waits for a signal only, so the process neither
  controls anything any more nor ends, and systemd has nothing to restart. Were
  the join to end, `run` would return `Ok` and the process exit with 0, on which
  `Restart=on-failure` does not act either.

Seen while modelling, without a run:

* a command that changes no speed can make the pump dirty again, when the Modbus
  task clears the flag between the clone and the commit (`mqtt.rs:374`, against
  the comment at `state.rs:211`); it costs one more actuation of the same speed;
* `load_into` does not clamp a speed to `spd_max`; `EchoNeutral` therefore
  starts from a document of the same `spd_max`;
* `port.clear` (`rtu.rs:67`, "Discard stale bytes") discards what has arrived
  only; `bus` shows what the rest may do;
* single samples of the converter are not range-checked, only their average;
* the second that `graceful_shutdown` gives the listeners is cut short by the
  `select!` around them, and a listener that fails takes the other with it;
* `modbus_ok` is set when the port opens and never cleared.

## Fairness

* Both tasks run on (`WF` of `ServeClient`, of `ServeBus`; in `BusTalk` of
  `Ask \/ Hear`): tokio polls a ready task, and every frame and every save
  returns, by its timeout if not before.
* `SF` of `WakeBus`, `RelayTick`, `PumpTick`: the `select!` of `modbus_task` is
  not `biased`, it polls its branches from a random start, and both a stored
  permit and an elapsed tick wait until they are taken. A run in between
  disables the branch again and again, hence strong fairness.
* `WF` of `Receive` in `BusTalk`: what is in the line arrives.
* `WF` of `Restart`: `Crash` is a kill or a loss of power; systemd restarts on
  failure and at boot (`src/deploy/rs-pool.service`). An orderly exit is not a
  `Crash`.
* The port opens in the end: an assumption; with no port nothing can settle.
* `WaterTemp!FairSpec`: the ticker fires, the blocking read returns, time
  passes, the publisher runs; and, an assumption, a sensor that is read for ever
  answers now and then (`SF` of `SampleGood`).
* `MqttSession!FairSpec`: the task runs on; `SF` of `Transmit`, `TakePermit`,
  `Heartbeat`: a branch of the biased `select!` is passed over only while an
  earlier one is ready, and each of those becomes idle again; the broker notices
  a dead connection by its keep alive. `SF` of `ConnAck` is an assumption: some
  attempt to connect succeeds, and fits between two hints, because every other
  branch that is taken drops the attempt under way.
* `Supervisor!FairSpec`: the process starts, every task reaches its shutdown
  branch, the dashboard's start-up ends, and `run` is scheduled. Nothing obliges
  the system to send a signal.

Frames are lost at most `MaxFaults` times: a bus that loses for ever settles
nothing.

## Proofs

TLAPS checks these for every value of the constants, under the assumptions
named in the modules and the hypothesis given here.

| Module | Theorem | Statement |
|---|---|---|
| `PoolControlProofs` | `TypeCorrect` | `Spec => []TypeOK` |
| | `CleanRelaysTheorem`, `FeedbackTheorem` | `Spec => [](CleanRelaysInPlace /\ CleanFeedbackTrue)` |
| | `CleanPumpHalfTheorem` | `Spec => []CleanPumpHalfInPlace` |
| | `CommandsSurviveTheorem` | `Spec => []CommandsSurvive`, for `SpdMax =< 35`: `spdMax40` shows that the bound is needed |
| | `NoWakeLostTheorem` | `Spec => []NoWakeLost` |
| | `RegisterTheorem` | `Spec => ImplementsRegister` |
| `NumberProofs` | `EncodeRange`, `DecodeEncode`, `MigrateRange` | what is encoded or migrated is on the scale, reads back as itself, and moves no more when it is encoded or migrated again |
| | `EncodedSurvives`, `DemandRange` | an encoded speed survives the migration at load; the demand word does not saturate, is 0 only for off, grows with the speed and reads back as the RPM meant |
| `BusTalkProofs` | `TypeCorrect` | `Spec => []TypeOK` |
| | `CleanRelaysLate`, `CleanFeedbackLate` | `Spec => []CleanRelaysInPlace`, `Spec => []CleanFeedbackTrue`, for `MaxLate["relay"] =< NumRelays` |
| | `CleanPumpLate`, `ReadingsLate` | `Spec => []CleanPumpHalfInPlace`, `Spec => []ReadingsOneBehind`, for `MaxLate["pump"] =< 1` |
| `DurableFileProofs` | `TypeCorrect`, `KillTheorem`, `PowerCutTheorem` | `Spec => []TypeOK`, `[]KillLosesNothing`, `[]PowerCutOneBack` |
| | `AtomicTheorem` | `Spec => ImplementsAtomic` |
| `DashboardProofs` | `CommandMeaning` | for any object on any state, the keys taken one after the other, with the return at the first error, come to what they mean together (`Outcome`) |
| | `TypeCorrect`, `WholeTheorem`, `EchoTheorem` | `Spec => []TypeOK`, `[]WholeOrNothing`, `[]EchoNeutral` |
| | `CoreTheorem` | `Spec => []CoreAgrees` |
| | `NewestLinesTheorem`, `LogsTheorem` | `Spec => []NewestLines`, `[]LogsNewest` |
| `WaterTempProofs` | `TypeCorrect`, `SettledTheorem`, `FaultTheorem`, `ShownTheorem`, `OtherLoopTheorem` | `Spec => []TypeOK`, `[]SettledLongEnough`, `[]FaultBlanks`, `[]ValidityShown`, `OtherLoopKept` |
| | `AverageBetween` | the average of 1 to 255 samples of an i16 each is an i16, between the lowest and the highest of them, rounded toward zero; their sum stays within 255 times an i16, so neither the i64 overflows nor the cast truncates |
| | `AverageTheorem` | `Spec => []AverageOfSamples` |
| `MqttSessionProofs` | `TypeCorrect`, `OnlineTheorem`, `HintedTheorem` | `Spec => []TypeOK`, `[]OnlineListens`, `[]HintedPublished` |
| `SupervisorProofs` | `NoneLeftBehindTheorem` | `Spec => []NoneLeftBehind` |

Hardly any of the invariants is inductive. The argument of each:

* relays (`PoolControlProofs!RelayInv`): in each state of a run, the part of the
  mask already written, or read back, is tied to the snapshot, and a clear flag
  to equality of snapshot, measurement and coils. A draft that differs from
  `commanded` in its relays carries the flag (`DraftFlagged`), so a commit can
  falsify nothing;
* pump (`PumpInv`): once a frame of the run was acknowledged, one half of the
  snapshot's speed is in place, whichever of the two it was, and a run that
  acknowledged nothing clears nothing;
* file (`FileInv`): what is on disk is what is commanded, or what is about to be
  committed; an encoded speed is at most `spd_max`, so loading changes it only
  above 35;
* wake-ups (`WakeInv`): what is dirty is about to be notified, has its permit,
  or is covered by the run that is being opened or is under way;
* refinement: these give that coils move only while dirty and that the flag
  falls only on equal masks; the rest is a step-by-step map;
* late answers (`BusTalkProofs!RelayInv`): answers are ordered by age. Between
  the read backs of a writing run lie all its writes, so an older read is too
  old to be still on its way: an accepted read is the run's own and its mask
  that of the coils, whatever the echoes were. So no older mask is left when the
  flag goes clear, and every mask read until it is raised again is that of the
  coils (`FeedbackInv`). In a pump run (`PumpInv`,
  `ReadingInv`) no two successive requests but the sensor reads share a function
  code, so only a reading can be another's, and only the one before it;
* state file (`SaveInv`): at each call the temporary file and the disk are what
  the calls before it made them; the file itself moves by the rename only;
* log (`RingInv`): the ring is a run of consecutive numbers ending with the last
  one logged, within the capacity; a push or a cut keeps that. A snapshot is
  the upper end of that run of numbers (`LastLines` selects the indices above
  `Len - n`);
* command objects (`DashboardProofs`): let `Part(obj, S)` be the object
  restricted to the keys in `S`. The draft after the first i keys is
  `Outcome(Part(obj, S))` for the set S of these keys: true of no key, and each
  of the two kinds of step (`NumberStep`, `RelayStep`) carries it over one more
  key, as a key is another field than those before it, and an error stays.
  After the last key the part is the object. The changed mark is that of the
  whole because no key puts back what another has moved. With that,
  `TypeOK` is inductive (`JsonAsI32` saturates, `EncodeSpd` clamps), and an echo
  is neutral because a speed on the scale is encoded as itself and every other
  number is within i32. `CoreAgrees` follows field by field (`CoreMeaning`), and
  the mark because different sets of relay keys are different sets of channels
  (`ChannelsApart`);
* averages (`AverageBetween`): by induction, the sum of the first i samples lies
  between i times the lowest and i times the highest; a division toward zero
  keeps a quotient between whole bounds between them;
* settling (`SettleInv`): what is left of the settle time and what has passed
  since the change was seen make up the whole; a reading of the loop last seen
  needs an ended deadline. `FaultInv`: a fault was reported after its loop was
  blanked, and no reading came since;
* session (`LinkInv`): on every connection the subscription is the first request
  queued, so no "1" goes out before it. `OrderInv`, `DueInv`: the statuses in
  the queue are in the order of their versions, and what is due is at the
  broker, queued, or still to be published by a permit or by the task;
* supervisor (`JoinInv`): what runs is in the JoinSet.

Only model-checked:

* all liveness (`RelaysSettle`, `PumpSettles`, `FeedbackSettles`,
  `ReadingsSettle`, `ReadingReturns`, `TruthInTheEnd`, `SignalEndsRun`): the
  prover has neither fairness nor ENABLED.

Every other property of the runs that pass, invariant or action property, is
stated by a theorem.

Two of the arguments need induction over data: over the keys of a command and
over the samples of a reading. The library's induction theorems take an operator
as a parameter, which the provers here cannot instantiate, so `NumberProofs`
derives what is needed without one. A set of numbers is `Inductive` when it
holds 0 and with a number the next; `Induction` says that it then holds every
number up to the bound, from the least element of what it would leave out
(`LeastElement`, by the well-foundedness of the order of the naturals).
`Recursion` says that a recursive definition over 0 .. n has a function that obeys
it. `Commands` and `Thermistor` define their loops as such functions; for the
sum of the samples `Recursion` gives the function, for the drafts of a command
the closed form above is one. By `Induction` the function has the bounds, or is
the closed form.

The assumptions this rests on, beside those of the bounds: relay keys are none
of the four number keys (`apply_command_json` matches them apart), an i32 holds
the greatest speed, which is a u16, and a command object's values are JSON
values; `SampleCount` is at most 255 (a u8), a sample an i16.

## Not modelled

* Floating point: the Steinhart formula and `publish_delta_f`. Only which raw
  values have a temperature matters to the properties.
* The CRC, hexadecimal and JSON formatting, TOML parsing, the page, TLS,
  authentication: pure data or libraries.
* The 64 slots of the MQTT request queue and the time a connection attempt
  takes: both are questions of seconds, which the untimed models cannot decide.
* `modbus_ok`, `uptime`, IP and version: written once and shown.
* The deployment scripts.
* The command channel of `App::run`, on which nothing sends.

What is left of the plan: the publish hints of the Modbus task in `BusTalk`
(with values of readings), and a timed model of the MQTT request queue.
