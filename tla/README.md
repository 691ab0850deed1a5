# ByteWaterlevel: a TLA+ model

ByteWaterlevel is the firmware of an ESP32-C3 board that measures the level of
a water tank, switches two relays (an inlet and a pump) by hand, by timer or
automatically, and reports over HTTP and MQTT.  It is small, but it is not
sequential: the Arduino `loop()` task, the web server's task, the ADC tasks and
the MQTT client's callbacks share global variables without a lock, on a single
core, with a 32-bit millisecond clock that wraps; the power may fail between any
two writes to flash, and the web page's calls overtake each other or get lost.  This
project models that, checks it with TLC and proves the central safety properties
with TLAPS.

## 1. Inventory

| Component | State | Operations | Hard part |
|---|---|---|---|
| Relays and timers (`DeviceHandler`) | `ch1`, `ch2` (deadlines), `relay1`, `relay2` (reported), the two GPIOs | `setRelais`, `setRelaisDuration`, `handleRelais`, `getState`, `getDuration` | three unlocked stores per call, written by two tasks; wrap of `millis()`; `(unsigned long)-1` as "no timer"; `int8_t` channel |
| Level sensing (`DeviceHandler`) | `latestVoltage`, `scanWaterLevel`, `scanWaterVolume` | `handleScan`, `scanSensors`, `adcTaskFunction`, `readVoltage`, `getLevel`, `getVolume` | the level is computed before the reading it belongs to; filter lag; a task that does not start, or ends late; 0/0 |
| Automation (`AutomationHandler`) | `mode`, `fillM`, `pumpM`, `autoMillis` | `loop`, `handleFill`, `handlePump`, `setFill`, `setPump` | `fillM` against the real relay; other writers of the same relays |
| Configuration (`FileHandler`) | `/config.json`, its `.bak`, the document in RAM | `loadConfig`, `saveFile`, `copyFile`, `reset`, `saveConfig`, `getConfig` | power loss, failed writes, copy against replace |
| Wi-Fi (`WiFiHandler`) | `apStarted`, `connectionStartTime`, `lastReconnectAttempt`, the radio's mode | `setup`, `checkConnection`, `startAP`, `stopAP` | time-outs, outages at any time, wrap |
| MQTT (`MQTTHandler`) | `isEnabled`, `reconnectMQTT`, `previousMillisMQTT`, client and broker | `setup`, `loop`, `publish`, `onConnect` | late last will, reconnect, configuration changes |
| Web API (`WebHandler`) | none of its own | `relais`, `save`, `reset`, `restart`, `update`, `status`, `info` | runs in its own task; answers before or after the work |
| OTA (`OTAHandler`) | `otaEnabled`, the pull library | `loop`, `hasUpdate`, `update` | one object used from two tasks |
| Web page (`data/index.html`) | `configESP`, `inFlight`, the check boxes | `startStatusPing`, `postRelayState`, `getInfo`, `save`, `restart` | replies out of order or lost; each Save sends the whole configuration |
| Display (`DeviceHandler`) | `displayEnabled` | `setupDisplay`, `handleDisplay`, `updateDisplay` | shows values of two different readings |
| LED, Matter | - | - | output only; not in the build |

`main.cpp` ties them together: `setup()` runs File, Device, WiFi, Web, OTA,
Automation and, if Wi-Fi is up, MQTT; `loop()` runs Device (LED, timers, scan,
display), WiFi, Web, MQTT, OTA, Automation, in that order, for ever.  All
components read the configuration with `getConfig()`.  The web task calls into
`DeviceHandler` and `FileHandler` at any point of that loop.

## 2. Modules

| Module | Models | Composes |
|---|---|---|
| `TimedRelay` | abstract: what a `relais` call promises its caller | |
| `RelayControl` | both relay channels with all their writers; implements `TimedRelay` | relays, timers, automation, the `relais` call, order of `loop()` |
| `MCRelayControl` | set of levels for TLC | |
| `TankControl` | the loop water, sensor, filter, cached level, automation, relays; the display | sensing, automation and display with a physical tank |
| `ConfigStore` | flash, RAM document, boot, `save`/`reset`/`restart` | FileHandler, main, DeviceHandler::setup, WebHandler |
| `StationLink` | abstract: the Wi-Fi link as the rest of the program sees it | |
| `WiFiLink` | station, access point, time-outs, and the radio; implements `StationLink` | |
| `MqttLink` | client, publications, status topic, and the broker | |
| `Connectivity` | from the network to a published reading | `StationLink`, `MqttLink`, the order of main's `setup()` |
| `WebApi` | login, dispatch, replies and effects of every API call, firmware updates | WebHandler, OTAHandler, the restart in main |
| `WebPage` | the page's script, with the device as a server | status poll, switches, Save buttons, other pages |
| `...Proofs` | the proofs about the module of that name; `TimedRelayProofs` has the refinement | |

`PROJECT.json` maps every definition to its lines.  Definitions whose names end
in a description of a defect (`WebReplyForgetsTimer`, `StationOnly`, ...) are
faulty variants of the definition that follows them; no specification uses them.

**RelayControl.**  `setRelais()` is a call (`setRelais`) and three stores
(`ClearTimer`, `StoreRelay`, `WritePin`), each a step of the calling task
`t \in {"loop", "web"}`; `pc[t]`, `relais[t]`, `state[t]` are its program counter
and parameters.  `at` is the place in `loop()`, `cur` the `currentMillis` of
`handleRelais()`.  The web task's call is `WebRelais`, its stores, and
`WebReply` (arm the timer, answer); `acked` and `due` remember what was
answered.  `Int8` narrows the channel; for a channel that is neither 1 nor 2 the
uninitialised `pin` may be any of the two relays or another pin.  Times are
unsigned: `ULONG` stands for 2^32.  With `WebPriority` the loop task makes no
store while the web task is inside its call, which is what the build does (a
single core, async_tcp at a higher priority than loopTask); without it the stores
interleave freely.  The order in which the compiler emits the plain stores to
`ch1` and `relay1` is taken from the source.  The default case of the mode switch
needs a flag that only modes 1 and 2 set, and the mode is read once, so it is
never entered (part of `TypeOK`, proved).  `level` is any member of `Levels` after each pass: the scan has its
own interval and an arbitrary tank, which `TankControl` refines.

The refinement mapping to `TimedRelay` (`Promise` in `RelayControl`) takes the
pins as its outputs, `acked` and `due` as its commands, and the channel of a web
call under way as the call in progress; channels that the automation owns in
the current mode are not manual.  The slack is `2 * MaxLag`: an old reading of the clock and one more pass.

**TankControl.**  Scan and automation run each at the first pass of `loop()` that
finds its own interval over; `since` holds the two ages (`millis()` minus the
timestamp), so their phases are arbitrary and drift against each other.  From one
run of a handler to the next it takes at most a `Period`, the interval and the longest
pass.  `StartAdc` starts the ADC task, or fails to and nobody notices; `ScanLevel` and
`ScanVolume` compute the cached values from whatever voltage is there; `AdcDone` may
come between any two steps until the second next scan, so up to two tasks are under
way.  A task averages 64 samples: its average is any value between the lowest and
the highest water since it was started, which `tasks` keeps.  `Flow` is a tick, in
which the water moves.  The display is refreshed at any time, again and again: `display`
says whether it shows the cached values or older ones.  Voltages are integers,
rounded where the code has floats.  `Lag`, the number of periods `NoOverfill` allows,
is not a guess: `LagAssumption`, which TLC evaluates, says that a filter that starts
from zero and sees the water as late as it can (`Slowest`) is seen as full after
`Lag - 3` readings.

**ConfigStore.**  A write is two steps, `Open` and `CloseFile`: in between the
durable file is old or empty.  `boot` is the place in `setup()`, `web` the place
in the API call.  `Cut` is a loss of power anywhere, and a write may fail
unnoticed.  A factory file that cannot be read is copied as an empty one; the model
counts that as a failed write.  `promised` remembers what the last answered or completed change was
to leave behind, `failed` whether the last write failed in one of these ways or was
cut off by a loss of power.  `getConfig()` only reads; its race with `saveConfig()` is undefined
behaviour of the JSON library and is listed as a hazard.

**WiFiLink, MqttLink.**  One action per pass of `checkConnection()` and of
`MQTTHandler::loop()`; the radio, the network, the client library and the broker are
external and change their state between passes.  All differences of times are
modulo `ULONG`.

**StationLink, Connectivity.**  `StationLink` forgets radio modes, attempts and
times: `setup()` ends with a linked station or with none, and a station it ends
with is kept.  `WiFiLink` implements it, so `Connectivity` uses `StationLink` in
its place next to `MqttLink`: `BootMqtt` is the test of `isConnected()` in main's
`setup()`, and the broker is in reach when the link is up and its host is there.

**WebApi.**  `step` is the place in the handling of the current request: `needAuth`,
`checkRequest`, one action per type, and the work a call does after its answer
(`ResetFile`, `Flash`, `Reboot`).  `LoopOta` is the loop task restarting into a new
firmware in the middle of any of these.  `replies` counts the answers, `before`
remembers the state at arrival.  What a call writes is one step here, which may fail
(`saveFile`): flash then keeps its content or is left empty, while RAM has the new
configuration.  A boot with the reset pin held (`CheckPin`) rewrites flash after it
was loaded.  The login that is asked for is the one in RAM.

**WebPage.**  `calls` is the set of HTTP calls under way, each with its own fate:
`Handle(n)` is the device (one step, `WebApi` has the details), `Return(n)` the
continuation of the `fetch`, `Lose(n)` a network error.  A reload leaves behind the
calls the device may still handle.  A form's value is the number of the event
that saves it, which makes "older" and "newer" visible; `version`, `applied`,
`fresh` and `overlap` are history.

## 3. Runs

Passing runs:

| Run | Shows |
|---|---|
| `relays_manual` | `KeepsPromise` (the refinement of `TimedRelay`), `OffStaysOff`, `BoundedOverrun`, `ReportedOffIsOff`, `RemainingIsTold` with the build's priorities: 3 calls, both channels, durations 0 and 1 |
| `automation_failsafe` | `EnergisedForReason`, `FailSafe`, `TimedGoesOff` and `TypeOK`: channels 2 and 259 (narrowed to 3, which has no pin), NaN level, wrapping clock, passes of up to 3 ticks, so that a deadline may equal the value for "no timer" or be stepped over at the wrap |
| `wifi_link` | `LinkFollowsNetwork` (the refinement of `StationLink`, fairness included), `FallbackInTime`, `Rejoins` with 2 outages and a wrapping clock |
| `config_store` | `SavedSurvives`, `RunsWithPromised`, `BootHasConfig` with any number of calls, failed writes and power cuts |
| `mqtt_link` | `SubscriberKnows`, `ReportsIfSetUp` of `Connectivity`: 3 changes of network, broker or configuration, also between `WiFiHandler::setup()` and the decision about MQTT, wrapping clock |
| `tank_control` | `NoOverfill` (5 periods, and one per task that did not start; 4 are not enough), `Settles`, `DisplaySettles` |
| `web_api` | `Answered`, `RefusedChangesNothing`, `OnlyWithLogin`, `Served`: any sequence of requests, two logins, failed writes, restarts at any point, also with the reset pin held |
| `web_page` | `PollsInOrder`, `NoRollback`, `BoxShowsRelay`: 4 events of reload, click, save, restart, other page or lost call, in any order with the calls they cause |

`ReportsIfSetUp` says both what works and what does not: a device that found Wi-Fi
and an enabled client at boot publishes for ever once everything is in reach, and
one that did not never publishes until it is restarted.  `NoRollback` excludes two
situations in which the page does take a setting back: another page saved in
between, or two saves overtake each other.  `PollsInOrder` is about status replies:
a click changes its box at once, and a status reply from before the click, or a click
that failed, may set the box back until the next poll; that this ends is
`BoxShowsRelay`.  `TimedGoesOff` exempts the deadlines the code does lose
(`MayBeMissed`): the one that equals "no timer", and those less than a pass before
the wrap of the clock, since `currentMillis >= ch1` then holds for less than a pass.

Runs that TLC refutes, each a statement of a comment or a document that the code
does not keep (`findings` in `PROJECT.json` has the quotations):

| Run | What happens |
|---|---|
| `reported_state` | a call between two stores of the loop task: reported on, pin low, for good |
| `low_level_fill` | relay 1 switched off by hand while filling: `fillM` stays true, no filling |
| `wifi_boot_outage` | a first connection attempt that times out, the network being away or slow, leaves a pure access point for ever |
| `mqtt_retained` | the retained status of a connected device is "offline" |

Four more places where the code does not do what a text says were met while
modelling.  The models follow the code there, and the properties say or exempt it:

* Relay 2 is on at any level above min, also above max (`AutomationHandler.cpp:50-51`);
  `AUTOMATION.md:12-13` has it enabled "between the given max and min Level".
  `EnergisedForReason` states what the code does.
* `getDuration()` is negative between a deadline and the pass that handles it, and 0
  for a deadline in the upper half of the clock's range (`DeviceHandler.cpp:652`); its
  comment promises "a non-negative remaining duration" (`DeviceHandler.cpp:634`).
  `RemainingIsTold` is about the time before the deadline, in the lower half.
* A `relais` call without a channel or a state gets no answer (`WebHandler.cpp:155`);
  `API.md:17-21` announces "Invalid request".  `Answered` names the exception.
* ArduinoOTA keeps the password of the boot after a save of another one
  (`OTAHandler.cpp:55`); `OTA.md:13` speaks of the admin password.

Bounds.  `MaxCalls`, `MaxOutages`, `MaxChanges`, `MaxEvents`, `MaxFails` and `Horizon`
bound counters, and `ConfigStore` and `WebApi` need no bound; three calls are enough
for an old timer, a command that races with it and a later one.  A `Horizon` below
`ULONG` keeps the clock from wrapping, for the properties that compare absolute
times; `Horizon = ULONG` lets it wrap.  `MaxLag` is the longest pass of `loop()` in
ticks: the claims of `BoundedOverrun` and `TimedGoesOff` are relative to it.  The three
ticks of `automation_failsafe` are the fewest that step over a deadline before the
wrap, and less than half the clock's range, so that two passes are told apart from
none.  Channel 1 is left to `relays_manual` there: with the automation on, relay 1
is not a manual channel, and channel 259 drives its pin too.  Its levels are
not-a-number, empty and full; `handleFill()` leaves relay 1 alone in an empty tank that
is already being filled.  Three changes let Wi-Fi fail
around boot, come back, and the broker go; four events let two saves, a lost one
and a reload meet, or a click, a restart, a switching and a lost reply.  `Start` has an
almost empty and a half full tank at boot, for the filter starts from zero and catches
up from each of them in a different way; `Interval` and `Pass` of a tick each let the
two handlers run in every order and drift apart by a whole interval; one failed task
is enough to see what it costs.  `WebPage`
has one channel, for the check boxes do not depend on each other.  The states from
which nothing new can happen (calls used up, clock stopped) still let the loop
task or the poll run, so no run disables the deadlock check.

Fairness.  `loop()` is called for ever and the tasks and the clock make
progress, hence weak fairness of the loop, of a web call under way, of an ADC task,
of the clock, and of the radio, the client library and the broker for what they
have begun.  Every pass of `loop()` looks at the display, however the steps of other
tasks come between, hence its strong fairness.  The browser's interval timer fires for
ever and every `fetch` ends, with an answer or an error.  Nobody owes an API call, and the network need not come back:
liveness properties assume it where they need it.

## 4. Proofs

`RelayControlProofs`, for every clock width, lag, number of calls, set of levels
and thresholds:

* `TypeCorrect`: `TypeOK`, for every channel argument.  The strengthening ties the
  place in the loop to the mode (`fillM` is only stored in modes 1 and 2, the
  pump only in mode 1).
* `OffIsSafe`: `OffStaysOff`, from `ValidChannels` (arguments are 1 or 2; any
  other number drives an uninitialised pin).  The invariant says that the loop
  task only ever writes LOW to a channel the automation does not own, and what
  the web call has done so far at each of its stores.
* `NoOverrun`: `BoundedOverrun`, from `ValidChannels` and `NoWrap`.  The invariant
  says that an armed relay has a deadline that equals the answered one, or the
  loop task has already decided to switch it off, and that the clock read by this
  pass is at most `MaxLag` old.
* `RemainderIsTrue`: `RemainingIsTold`, from `ValidChannels` and `NoWrap`.  The same
  invariant (`TimedInv`) says that the stored deadline is the answered one, and
  `DurationIsDifference` that the mixed signed and unsigned arithmetic of
  `getDuration()` is a subtraction in the first half of the clock's range.
* `ReportIsSafe`: `ReportedOffIsOff`, from `ValidChannels` and `WebPriority`.
* `RelaysEnergisedForReason`: `EnergisedForReason`, from nothing.  `CallInv` says that
  a call of the loop task that switches on was decided at the level that still
  holds, for the level is only stored between calls.  For relay 2 that is any level
  above min.

`TimedRelayProofs`, from `ValidChannels` and `NoWrap`: `ImplementsTimedRelay`, that
`RelayControl` implements `TimedRelay` (`KeepsPromise`), for both priorities.  Every
store is a `Switch` or a stutter, and the invariants of `OffIsSafe` and `NoOverrun`
give the two things the abstract steps ask for: the answer to "off" finds the
output off, and no tick finds an output on that should have gone off.

`ConfigStoreProofs`, for every set of configurations: `TypeCorrect`,
`SavedConfigSurvives` (`SavedSurvives`), `RunsWithSaved` (`RunsWithPromised`) and
`RunsConfigured` (`BootHasConfig`).  The invariant `Midway` says what an open file will
contain, that nothing is promised while it is open, and that a save that is not
answered yet is in flash; `InRam` follows the document from the place where `setup()`
has read the file; `Configured` says from which place on there is a file that is
not empty.

`WiFiLinkProofs`, for every clock width and time-outs: `TypeCorrect`,
`AccessPointInTime` (`FallbackInTime`) and `ImplementsStationLink`, that every step is
a step of `StationLink` or a stutter, and `DecisionIsFinal`, that neither a pure access
point nor a station is ever given up again after `setup()`: this is why the run
`wifi_boot_outage` ends as it does for every time-out.  `Modes` ties the radio's mode to the place in
the program; `Outage` says that the time since `connectionStartTime`, modulo `ULONG`,
is that of the outage up to one tick, which needs the time-out to be shorter than
the clock's range.

`ConnectivityProofs`, for every clock width, intervals and number of changes:
`TypeCorrect`, `StatusIsKnown` (`SubscriberKnows`, which is inductive with the types) and
`SilentUntilRestart`, the half of `ReportsIfSetUp` that is a safety property: once
`loop()` runs and MQTT is not enabled, nothing enables it.

`TankControlProofs`, for every calibration, thresholds, tank, flow and water at boot:

* `TypeCorrect`.  It rests on the ranges of the filter (between its arguments), of
  `getLevel` (0 to 100, or not a number) and of `getVolume`.
* `TankNotOverfilled` (`NoOverfill`), from `LagAssumption`, for every interval and
  length of a pass.  `SampleInv` says that what a task under way can still average is
  not far below the water, by the time that has passed since it was started;
  `RiseInv` relates water and filter: while the filter is below `Slowest[n + 1]`, the
  water is at most `n` periods above `Brim`, and one more for every reading that is
  owed (tasks under way, tasks that did not start).  A reading that ends takes the
  filter from `Slowest[n]` to `Slowest[n + 1]`, because the filter is monotonic
  (`FilterMono`).  A level below max was a voltage below `Slowest[Lag - 3]`, so the
  water was at most `Lag - 4` periods above `Brim`; up to two readings are owed, a period
  passes until the next level, and another until the automation acts on it.  `FillInv`
  carries that from the scan through the cached level to the ticks in which the
  water flows.  No induction over
  `Slowest` is needed: `LagAssumption` states the equations that define it, as TLC
  computes them.
* `ReadingsConverge`: the step on which `Settles` and `DisplaySettles` rest.

`WebPageProofs`, for every set of channels and number of events:

* `RepliesAppliedInOrder` (`PollsInOrder`): at most one status call is under way, and
  only while `inFlight`; what it brings is between the last reply that was applied
  and what is true.
* `SavesGoForward` (`NoRollback`): what the page has loaded, what each save under
  way carries and what the device stores are ordered as long as no other page
  saved and no two saves overlapped (`SaveInv`).
* `TypeCorrect` (`TypeOK`): `CallOK` says what each kind of call and of reply carries, and
  that a status call under way is one the page waits for; so one that ends, fails
  or dies with a restart still brings the page the end it waits for (`Awaited`).

`WebApiProofs`, for every set of logins: `TypeCorrect`, `EveryCallAnswered`, `RefusalIsSafe`,
and `ChangesAskTheLogin` (`OnlyWithLogin`).  The invariant says that a request under
check has neither reply nor effect (`Pending`), that late work belongs to an
answered request (`Late`), and that the login of a request that passed `needAuth` is
still the one in RAM when the call, or what follows its answer, takes effect
(`LoggedIn`).

With TLC alone stay the liveness properties (`FailSafe`, `TimedGoesOff`, `Served`,
`Rejoins`, the fairness part of `LinkFollowsNetwork`, `ReportsIfSetUp`, `Settles`,
`DisplaySettles`, `BoxShowsRelay`): the prover has no rule for fairness.  Every invariant
and every action property of the passing runs is also a theorem.

## 5. Plan

Done: relays, automation, sensing and display, configuration, Wi-Fi, MQTT and
their composition, web API, web page, the two refinements, and proofs of every
invariant and action property.  Left:

1. More of the safety halves of the liveness properties, as `SilentUntilRestart` and
   `ReadingsConverge` are: what a pass of `loop()` owes to `FailSafe` and `TimedGoesOff`.
2. The pull library used by two tasks, if its source becomes part of the
   repository: what `OTAHandler` relies on is not visible from its calls.

## 6. Not modelled

* Matter: disabled in the build, its calls in main.cpp are comments.
* `mergeConfigFromBackup()` and `mergeJsonObjects()`: nothing calls them.  (As they
  stand, `target.to<JsonObject>()` would clear the target before merging into it,
  `FileHandler.cpp:265`.)
* The LED of `handleBlink()`, a pin nobody reads; current and CPU temperature,
  which are read and displayed like the level; brightness and layout; the page's
  tabs, theme, chart and number formats; message texts and JSON formatting.
* The formatting of a file system that cannot be mounted.
* Signed overflow of `duration * 1000`.
* What the libraries do when they are used against their rules: the JSON document
  copied by `loop()` while a save replaces it, the pull object used by two tasks,
  and the pointers to temporary strings handed to the MQTT client.
