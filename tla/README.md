# edge-ems: a TLA+ verification of the energy management system

edge-ems regulates the power a site exchanges with the grid (the PCC) by commanding a battery, PV
inverters and flexible load. This directory holds TLA+ models of its services, TLC configurations
that check them on small instances, and TLAPS proofs for all values of the constants. Paths below are
relative to the repository's `src/`; `controller/`, `core/` and `common/` stand for
`packages/<name>/src/<name>/`.

## 1. The system

    external EMS --MQTT--> gateway --HTTP POST--> controller --MQTT setpoints--> core --Modbus--> devices
                                                     ^                            |
                                                     +------- InfluxDB <----------+  (polls, aggregates)
    operator --HTTP--> core config API --HTTP GET--> controller loop state
                            +--MQTT notify / HTTP--> controller config client

The services are processes of their own. Setpoints go one way through an MQTT broker, measurements the
other way through InfluxDB; each side guards against the other's silence with a timer of its own.

| Component | State | Operations | What is hard | What makes it correct |
|---|---|---|---|---|
| control loop, mode ladder (`controller/control_loop.py`, `modes.py`) | mode, HOLD start, last battery setpoint and factors, last published factors | `run_once`, `update` | stale, partial and raising snapshots in any order; publishing on change | what is on the wire is what the controller remembers; bad data only holds or backs off; bounded hold; recovery |
| edge controller (`controller/edge_controller.py`) | integral, derate, curtail, battery setpoint | `compute` | anti-windup, deadband, the order of clamp and slew, in closed loop with a site that saturates | the integral never winds up; back inside the window in time; on target in the end |
| setpoint publisher (`controller/data_connector.py`) | `_seq`, `_pending` | `publish_setpoints`, `flush_pending` | outages of the broker, restarts | latest wins; nothing lost that nobody repeats |
| aggregate reader, live snapshot (`controller/data_connector.py`, `runtime.py`) | none | `read`, `__call__` | a row can be fresh, stale, absent or of another quality | staleness is recognised |
| loop runner (`controller/runtime.py`) | thread, stop event, schedule | `start`, `stop`, `state`, `set_pcc_setpoint_kw` | handlers in pool threads, a join with a timeout, overruns | one loop; "stopped" is true; no burst |
| controller HTTP API (`controller/http_api.py`) | none of its own | loop start, stop, state; PCC target; config | check-then-act on the loop state | as for the runner |
| dispatcher (`core/dispatcher.py`) | last sequence number per class | `dispatch` | late, duplicate and renumbered messages; failed writes | only fresh messages are written, and all of them |
| watchdog (`core/watchdog.py`) | last setpoint time, tripped | `start`, `notify`, `check`, `trip` | late messages of a dead controller, a trip among setpoints, two clocks | silence ends in the safe state; no trip without silence |
| core service loop (`core/main.py`, `orchestrator.py`) | inbound queue, subscription | poll, drain, safety cycle | one clock reading per cycle; a poll that raises; the broker's session | as for dispatcher and watchdog |
| telemetry (`core/orchestrator.py`, `aggregator.py`, `influx_writer.py`) | readings of the poll, rows of the series | poll, aggregate, write | a device that stops answering in the middle of a poll; time stamps set anew on the way; one series per quality tag | what is read as GOOD is recent; everything mends by itself |
| Modbus adapter (`core/adapters/`) | connection, backoff, scale factors | connect, poll, write | reconnection inside the common poll; a stale scale factor | a failure costs a bounded time and leaves nothing behind |
| configuration authority (`core/config_api.py`, `common/config_manager.py`) | live documents and files | put, reload, notify | check-then-act on the loop state; a crash between files; validation after persisting | core uses what it serves; structural changes only while stopped |
| config client (`controller/config_client.py`, `main.py`) | cache files, their `.tmp` files | sync, on notify and by backstop | two threads, one set of files; a lost notification | the controller converges to core's configuration |
| pure parts (`controller/droop.py`, `common/modbus_codec.py`, `register_map.py`, `core/dispatcher.py` sharing) | none | curve, encode and decode, shares | saturation, sign, rounding, no headroom | round trips; shares add up and fit |
| external-EMS gateway (`deploy/ext-ems/ext_ems/`) | last external target and its time, last forwarded target | `on_external`, `tick`, `forward` | a lock held over a POST; timeouts; restarts on either side | follows in time; takes over in time, and only then |
| HIL plant and signal bridge (`hil/plant/`, `hil/schematic/signal_bridge.py`) | stored energy, powers; active assets, server tasks, the model's inputs | `step`; `tick`, drop and restore, profiles, slider | sign and scale of every signal; assets dropped between two ticks; transients | registers and model agree; served exactly when active |
| SunSpec tools (`maps/sunspec/generate.py`, `scripts/sunspec_discovery.py`, `diff_dump_vs_map.py`) | the walk's offset, the dumps | generate, walk, compare | declared lengths that lie, models missing or in another order, other scale factors | the walk finds what is there; the verdict is right; a clean map commands the right register |
| simulator, rig reports, gateway telemetry, schemas | - | - | test doubles, offline evaluation, declarations | out of scope (section 7) |

`PROJECT.json` lists every component with its status, and the hazards of the code, each at its line,
with the properties that cover it or the reason why none does yet.

## 2. The modules

| Module | Models | Checked by | Proved in |
|---|---|---|---|
| `ControlLoop` | mode ladder and control cycle | `control_loop` | `ControlLoopProofs` |
| `SetpointPath` | publisher, broker, core's loop, dispatcher, watchdog, composed | `setpoint_path`, `_healthy`, `_live`, `_trip` | `SetpointPathProofs` |
| `DeadMan` | what `SetpointPath` promises the devices (abstract) | as a property of `setpoint_path` | `SetpointPathProofs` |
| `EdgeController` | one step of the control law, in fixed point | through `PlantLoop` | `PlantLoopProofs` |
| `PlantLoop` | the law in closed loop with battery, PV, loads and droop | `plant_loop` (`MCPlantLoop`) | `PlantLoopProofs` |
| `LoopRunner` | the loop thread, its start and stop requests, core's gate | `loop_runner` | `LoopRunnerProofs` |
| `ConfigAuthority` | PUTs in core, the change signal, the controller's pulls and cache | `config` (`MCConfigAuthority`) | `ConfigAuthorityProofs` |
| `Gateway` | external-EMS gateway, its MQTT input and HTTP output | `gateway` | `GatewayProofs` |
| `Telemetry` | Modbus adapter, poll, aggregate, series, snapshot, sharing | `telemetry` (`MCTelemetry`) | `TelemetryProofs` |
| `ModbusCodec` | words and values of integer registers | through the next two | `RegisterProofs` |
| `SunSpecModels`, `SunSpec` | the catalog as data; image, walk, comparison, commands | `sunspec` (`MCSunSpec`) | `RegisterProofs` |
| `SignalBridge` | the bridge between the model on the rig and the registers | `signal_bridge` (`MCSignalBridge`) | `RegisterProofs` |

`PlantLoop` composes the law with the plant as the software-in-the-loop rig does; `SetpointPath` composes
the two ends of the setpoint path with the broker between them; `Telemetry` composes the whole way back.
`ControlLoop` and `PlantLoop` look at the same cycle from two sides: the first takes any output of the
law and cares for the ladder and the wire, the second takes any decision of the ladder and cares for the
numbers.

**Time.** The code compares time stamps; the modules count ticks and keep every stamp as an age that
stops counting where no comparison can tell a larger age from that cap. Each module has one `Tick`
action, whose guard says what may not take longer than it does (a core cycle, a sleep, a POST).

**ControlLoop.** `snap` is what `read_snapshot` would return now, `None` when it would raise. A cycle
(`RunOnce`) is one action: `ModeController.update`, the three branches of `run_once`, the messages it
publishes. `Regulate` stands for the control law: any battery setpoint in the window one slew step from
the last, any factors; that is all the ladder depends on. `wire` is what each class was last told.
`CycleRaises` is the `except` of `LoopRunner._run`. `frozenAge` and `blind` are history variables.

**SetpointPath.** `ControlCycle` is the publishing end of a control cycle (battery always, factors on
change, each message with a sequence number taken even when it is parked). The broker is a set of
messages, so their order may change; `Faults` says which of pause, loss, delay, dup, linkdown, broker,
writes, controller_restart and core_restart a configuration allows. Two clocks are history variables:
`quiet`, since the last accepted setpoint, and `tenure`, since the last restart of either service. Core's loop is `BeginCycle` (the
clock is read, then devices are polled), `HandleSetpoint` per message of the queue, `SafetyCycle`; all
use the one clock reading, so `lag` is subtracted wherever the code compares with it. A core restart
(which a raising InfluxDB write is enough for) arms the watchdog with a monotonic clock that the checks
compare with the wall clock: `silence` starts at its cap.

**DeadMan.** A device command comes from an accepted setpoint or is the safe value, and time does not run
past a limit since the last accepted setpoint unless the devices are safe. `SetpointPath` implements it
with `Timeout + 2 * CycleMax` for the limit: the timeout, one cycle whose clock was already old when the
last setpoint was accepted, and one until the next check.

**LoopRunner.** Every read or write of the runner's attributes in `start` and `stop` is a step, so
requests interleave as pool threads do; a control cycle is an interval of time (`busy`). Exceptions of
`Thread.start` and `join` on `None` end a request. `gate` is core's `put_assets` between its question
for the loop state and its commit; the history variable `overtaken` says that a start was at work in
between. `calm`, chosen once per behaviour, is one request at a time and no cycle as long as the join;
core's question may come at any time.

**Gateway.** The lock covers a tick with its POST, and a message is received (and stamped) when it gets
the lock. `Apply` is the controller serving the POST, `Answer` the gateway learning of it, `GiveUp` the
client's timeout, after which the controller may still serve the request (`ServeStray`). `faults` is
chosen once per behaviour from `Scenarios`.

**ConfigAuthority.** A document is a version and a flaw, the process whose environment makes it invalid
once `${VAR}` is expanded. A PUT is validated, persisted under the lock, swapped in (or not: the expanded
document may raise), and announced by the retained signal. The controller pulls in three threads (the
main thread at boot, the MQTT callback, the backstop): both documents are fetched, then each goes through
open, write and replace of its one `.tmp` file, then both are loaded. Two threads share the `.tmp` files,
so a write may land in the file another thread opened or has replaced already. The history variables
`alone` and `crossed` record which documents two threads have written at once. `world`, chosen once per
behaviour, says which faults it admits.

**EdgeController, PlantLoop.** Powers and energies are integers, gains fractions with the common
denominator `Gain`, factors integers up to `One`; division rounds towards minus infinity as `\div` does.
`Compute` is `compute`: window, conditional integration, clamp, slew limiter, derate with its deadband,
curtailment. A cycle advances the plant one period under the commands of the cycle before, then samples.
`Disturb` moves loads, irradiance, frequency, target and the ladder's mode. Targets are inside the feed
limit: beyond it curtailment and the PI law work against each other (section 5).

**Telemetry.** Core visits one device at a time (`Poll`, then `Send` for the setpoints): connect or
wait out the backoff, read the missing scale factors, read block by block. A device can go, hang or come
back between any two visits, a single request can fail, and a refused record ends core, which starts
again with nothing cached. A value is kept as the age since it left the device, whether its scale factor
was applied, and who contributed; numbers are not. `Rows` is what the query returns, one row per series,
in any order. `read` is the age of the oldest value in a row, which the code does not know; `ts` is the
age of the time stamp, which it does. `PlanReads` and `Share` are the algorithms themselves; `PlanReads`
says which points a block collects instead of sorting them first.

**ModbusCodec.** Encode rounds half to even after dividing by the scale factor, refuses what the type
cannot hold, and splits into words, most significant first; decode is the way back. The word size is
`Radix`, so that the proofs hold for 2^16 and TLC can work with less.

**SunSpec.** The catalog and the assets are the code's own tables. A device is described by what it
presents: marker, base, model ids with the lengths it declares, scale factors, what follows the last
model. `WalkModel` is the walk shared by both subjects, `CompareModel` the positional comparison,
`CompareBindings` the one of canonical points, `Send` what a controller encodes through a map found clean.
Its assumptions name what the code's tables have and the proofs use: every model begins with its id and
length, a point is as wide as its type (`CatalogAssumption`); what is bound is a numeric point of a model in
the chain, and its scale factor too (`AssetAssumption`); a device is an image, its scale factors fit
their registers and give a whole unit (`DeviceAssumption`). TLC evaluates all three on the tables.

**SignalBridge.** `tick` is a step per asset, because drops, restores, writes by core and moves of the
model happen between them (they are other coroutines or other hardware). `Settled` is what the model's
blocks reach if left alone. Server tasks are created and cancelled by the event loop later (`LoopRuns`):
`closing` and `orphan` are servers whose task is being cancelled or is not held any more. A
cancelled task is taken to close its listener and connections, as the comment at line 464 says; the code
only cancels it. `Start` applies the profile's rows for the first instant and the load base of the command
line. `still` is a history variable: nothing moved during the tick. A transient is no number, negative, or
above what its register holds; the last ends the bridge.

## 3. Runs

| Run | Result | Shows |
|---|---|---|
| `control_loop` | pass, 128,865 states | all safety, action and liveness properties of the ladder |
| `setpoint_path` | pass, 1.57 million | battery and flexible load; silence, loss, delay, core restarts: refinement of `DeadMan`, `TrippedIsSafe`, `WritesAreRecent`, `TripNeedsSilence` |
| `setpoint_path_healthy` | pass, 291,290 | a controller that keeps its period and a network that reorders and duplicates: `Agreement`, the loop is heard |
| `setpoint_path_live` | pass, 202,164 | broker outages on both sides and a restart of each service, one class: `SilenceEndsSafe`, and `HandoverIsBounded`: devices leave the commands of a controller that is gone in bounded time while core discards those of the next |
| `setpoint_path_trip` | violation | the load a trip shed stays shed after the trip is cleared |
| `loop_runner` | pass, 781,022 | calm behaviours (requests one at a time, cycles shorter than the join): one loop, "stopped" is true, a commit under a running loop only if a start overtook the answer, no burst after an overrun; and in all, with overlapping requests and cycles that outlast the join: every request is answered |
| `gateway` | pass, 369,542 | three scenarios: silence only; a steady external EMS with failing, hanging and late POSTs and controller restarts; silence with losses, refusals and gateway restarts |
| `config` | pass, 1.32 million | two documents, two PUTs; overlapping with the signal as the only trigger, or with the backstop and every fault: core serves what it uses, a crash at any instant leaves a complete cache, but for a document two threads have written at once, the controller converges to core's documents |
| `plant_loop` | pass, 459,242 | the example site's ratings and droop curve in units of 25 kW: no windup, a command left outside the window returns in time, the coupling point settles on target or at the battery's limit, the export settles within the feed limit |
| `telemetry` | pass, 837,863 | two batteries and the meter over three faults: `GoodIsRecent`, `Mends`, and `SharesFit` for every setpoint in `Totals` over every headroom in `Reports` |
| `sunspec` | pass, 894 | the real catalog and 58 devices, as mapped and otherwise: the walk recovers the image, the verdict is right both ways, commands through a clean map are understood |
| `signal_bridge` | pass, 8.09 million | drops, restores, profiles, the slider, core's writes and transients in any order: signs and balance, served exactly when active, no transient ends the bridge but a value above its register's range |

Every property of a passing run has a mutant in `PROJECT.json`: a plausible bug in a definition of the
model that makes TLC report that property.

**Bounds, and why they are enough.** `ControlLoop`: powers are -2..2 kW with a slew step of 1: a ramp of
two steps and a sign to cross; factors are 0 and 1; two cycles of HOLD fit into `HoldMax`.
`SetpointPath`: an age limit of one tick, a timeout of two or three and a core cycle of one, so that ages
below, at and above each limit occur and a message can be fresh when the clock is read and old when it is
handled; four messages are two of each class with a trip between; in `setpoint_path_live` each controller process
has one message, and each service restarts once, in either order; `MaxNet` 2 is an overtaking. Bounds are
guards of `ControlCycle`, `Deliver` and the restarts, named in the modules. With faults of kind "pause" a
behaviour that has used up its messages is one whose controller is silent, so the bound hides no
behaviour of the watchdog. `setpoint_path_healthy` stops when its messages are used up (a healthy
controller may not pause), hence its `CHECK_DEADLOCK FALSE`. In `LoopRunner` a thread object is reused
when nothing refers to it; a cycle of three ticks outlasts the join of three, one of two does not.
`ConfigAuthority` has two PUTs (an older and a newer document for every crossing), and one crash or
failed GET, enough to interrupt any step once; it may come to rest with nothing to do, hence its
`CHECK_DEADLOCK FALSE`. `gateway` has a timeout of nine ticks because `FollowsInTime` speaks of the
window between `Reach` (7) and the timeout; its period of six and its delay of two come to one less than
the timeout, the most for which `NoFalseTakeover` holds. `PlantLoop` has two changes of the environment:
one to saturate or leave RUN, one to come back; between them it runs for as long as it likes. `Telemetry`
has three: a device goes, the record of the next poll is refused, a request fails during the recovery.
Its ages stop at a cap one above anything a property compares. `SunSpec` enumerates devices instead of
histories; its words have eleven bits, which hold every model id. Its end, and a bridge that has ended,
are final, hence `CHECK_DEADLOCK FALSE` in those two.

**Fairness.** `ControlLoop`: `WF(Cycle)`, `WF(Tick)`: the loop thread swallows every exception and
goes on. `PlantLoop`: `WF(Cycle)`, for the same reason. `SetpointPath`: `WF(CoreLoop)`, `WF(Tick)`: core's
loop runs or the process is restarted; nothing is assumed of the controller or the broker. `LoopRunner`:
weak fairness of each thread and of each request at work, which the interpreter's scheduler gives, and
`SF(Tick)`: time passes however many requests are served meanwhile. `ConfigAuthority`: weak fairness of
each handler and thread, of the backstop's timer and of the restarts the container runtime makes.
`Gateway`: its tasks run and time passes (weak); `SF(Apply)`: the controller answers now and then however
many POSTs it refuses, without which no gateway could hand over. `Telemetry`, `SunSpec` and
`SignalBridge` state none: `Mends` bounds the time instead of asking for an end.

## 4. Proofs

All theorems hold for every value of the constants their module's ASSUME admits.

* `ControlLoopProofs`. `IInv` is `TypeOK` with `WireAgrees`, `SafeReleases` and that `lastPub` is the
  wire's factors; the last is what makes `WireAgrees` inductive, because publishing on change compares
  with `lastPub` and not with the wire. From it follow `TypeOK`, `WireAgrees`, `SafeReleases`,
  `SlewLimited` and `NoNewCommandOnBadData`. `FrozenCommandBounded` needs `AgeInv`, which bounds the
  age of the command by the time in the mode.
* `SetpointPathProofs`. `SpecTypeOK` for any classes and faults. `Clocks` relates the watchdog's clock,
  the lag of the cycle's clock and the history clock `quiet`; it gives `TripNeedsSilence` and, with
  `TrippedIsSafe`, the refinement `SpecDeadManSwitch`: initial states map to initial states and every
  step to a step of `DeadMan` or a stutter. The last two assume that device writes do not fail: the
  trip does not repeat a failed write. `SpecSafeWhenSilent` carries the promise of `DeadMan` back.
  The other half is about a controller that keeps its period. `SpecLiveLoopIsHeard` holds for a network
  that duplicates, with failing writes and restarts of core (`Calm`), if transit, core's cycle and the
  period fit the age limit and the timeout (`TimingFits`): `Prompt` bounds the age of what is pending and
  `Fed` the watchdog's clock by the last cycle, or by the setpoint of it that is still on its way.
  `SpecAgreement` follows the last command of each class (`Track`): it is parked, in the network, queued,
  or on the device, and everything else pending of its class has a smaller number; of faults only
  duplication is admitted, because a lost, refused or late factor is not repeated.
  `SpecHandoverIsBounded` is about restarts of both sides: `Inherited` bounds the age of what any earlier
  process has on its way, and the watchdog's clock, by `tenure`, as long as core has heard nothing of the
  process that runs (`HeardNow`); failing writes are the one fault it excludes.
* `GatewayProofs`. `Forwarded` (what was forwarded, or is being served, is in force) gives
  `UndisturbedInForce`. `Heard` bounds the age of the last external message by the external EMS's own
  clock or by the age of the head of the queue; with `Period + NetDelay < Timeout` it gives
  `NoFalseTakeover`, however long a POST keeps the lock. `Delivery` bounds what is left of a message's way
  (queue, lock, next tick, POST) by the time since it was sent and gives, with `Following`,
  `SpecFollowsInTime` for every timing. `Releasing` does the same from the timeout on and gives
  `SpecTakesOverInTime` if a tick and a POST fit into the timeout; without that TLC finds a
  counterexample (timeout 4, interval 3, POST 2), the defaults are 360 s against 1 s and 2 s.
* `ConfigAuthorityProofs`. `CoreInv` (one handler between file and swap, only valid documents on disk)
  gives `CoreAgrees` for any number of handlers. `PullOrder` (all fetched before any is written, all
  cached before any is loaded) is what the type invariant needs: nothing but a document is ever loaded.
  `TmpInv` relates each `.tmp` file to who is writing it: incomplete only while a thread writes or after two
  have (`crossed`), and a thread that is `alone` has its own document in it when it replaces. It gives
  `LastKnownGood` for any number of threads, in every world.

* `PlantLoopProofs`. `TypeCorrect`: for every curve, gain and site the law stays in its ranges; the lemmas
  bound interpolation, clamp and each step of `Compute`. `NeverWindsUp`: conditional integration keeps the
  integral's share of the command inside the configured limits; the step is a case for each side of the
  window; the type invariant is all the strengthening it needs. `OutsideReturns` needs one: a count of
  cycles outside bounds how far the command can still be from the window, because every such cycle moved it
  a whole slew step towards it and windows always contain zero.
  `SpecCycles` is the link to `ControlLoop`, which takes any output of the law: each RUN cycle of the closed
  loop is a step of its `Regulate`, HOLD of `Freeze`, SAFE of `FailSafe`, under a mapping that forgets plant
  and integral. The ladder's own state has no part in it: `PlantLoop` takes any decision.
* `LoopRunnerProofs`. `CalmInv` follows the one request of a calm behaviour through its steps and says
  what it leaves behind: whether the stop event is set, whether the thread it refers to is alive, how long
  its cycle has run against the time the join has waited. That the join outlasts a cycle
  (`CalmCycle < JoinTimeout`) is the assumption that makes "stopped" true. `Schedule` relates the due time to the
  starts of the last two cycles and gives `NoBurst`.
* `TelemetryProofs`. `PollAges` bounds the age of each reading by the visits since; `RowsTrail` says that a
  row's time stamp trails its oldest reading by no more than a poll; together they are `GoodIsRecent`
  for any number of devices, units and points, and any faults. `SpecMends` bounds the time a recovery takes.
  `Mending` measures everything by how long nothing has failed: pauses run out, from then on every visit
  reads every point, each round is written and kept for one period, and what failures left in the degraded
  series is at least as old as the calm. It needs `Uniform` (each unit's map has every point of its class;
  otherwise a cycle with no failure is a degraded one and the degraded series never ages) and `PeriodFits`,
  which `config_models.py:229` checks.
  `SpecSharesFit` takes any number of units: the library's sum is a fold, a recursive function, which the
  lemmas show to exist and to be unique by counting up the sizes of the sets summed over (`SumIs`), and what is
  given to each unit is then summed unit by unit (`SumCovers`). `PollReadsOnce` is about the read plan: its
  requests split the points of a map, and neighbours share one exactly when the gap may be bridged.
* `RegisterProofs`, in three parts; it extends `SignalBridge` and `SunSpec` (whose specification is named
  `MapSpec` for that reason), which share the codec.
  Of the codec, for any word size: `CodecRoundTrip` (what a type holds is recovered
  from its words, sign included) and `EncodeIsNear` (what is not refused reads back within half a raw unit).
  Of the bridge: `Held` follows the server tasks through drops and restores and is all `SpecServed` needs.
  `SpecEndsOnlyBeyond` is about the width of the registers: `Rated` keeps the blocks' powers within their
  ratings, and with `RegistersFit` (one unit, and the sum at the meter, fit the registers) nothing ends the
  bridge in a tick but a value above its register's range; for those the code has no ceiling. For `SpecSignsAgree` `Prepared` says what a tick relies on and `Told` what each part of it leaves
  behind; `Resolved` makes every setpoint an exact reference per unit, which in the code is a float and in
  the model an integer that would be rounded.
  Of the discovery, for every catalog, asset table, base and set of devices: `RowExists` and `StartsIs` say
  where things laid end to end start, from which no address belongs to two points of an image (`PlaceOnce`,
  `PointOnce`, `RegisterOnce`) and every register reads what was written there (`WordIs`). `WalkInv` (the
  records so far are the image's first models, and the walk stands at the next header or has ended) is
  inductive then and gives `SpecWalkRecovers`. `CompareInv` says that the differences found so far are those
  of the pairs compared, and `ChainsAgree` and `BoundIs` that a comparison without any is one of equal chains
  with equal scale factors: `SpecVerdict`, both ways. A device `Alike` its map (at its base, the map's chain
  first) has every register of the map at the same address, which makes what is encoded through the map the device's own value:
  `SpecCommandUnderstood`.

Every safety and action property of the runs is stated by a theorem. Only model-checked are the liveness
properties (`FreshEndsRun`, `BadDataEndsSafe`, `SilenceEndsSafe`, `RequestsEnd`, `SilenceEndsSelf`,
`Converges`, `Settles`, `ExportHeld`), since fairness and ENABLED are out of the prover's reach. Where the
proofs need induction over data, the library's induction theorems cannot be used (they take an operator as a
parameter); `CountsUp`, that a set with 0 which is closed under adding one has every natural number, is
proved from the well-foundedness of `<` and used with the set of numbers for which the claim holds.

## 5. Where the code and its documentation disagree

With a violation run (`setpoint_path_trip`, quoted in `PROJECT.json` "findings"): the load left shed after
a trip. Seen in the models, without a run of their own; most follow from a change of constants:

* `core/main.py:149` arms the watchdog with the event loop's monotonic clock, which
  `core/watchdog.py:67-69` compares with the wall clock: `silence` starts at its cap and core's first
  check may trip.
* `controller/data_connector.py:105` numbers from 1 again after a restart; `core/dispatcher.py:87` discards
  such messages as old, which README.md:209 describes as protection against stale ones, until the numbers
  have caught up or core restarts. `HandoverIsBounded` says how long devices follow the old process then. It
  speaks of a core that has accepted nothing of the new one: with several classes, one of which is heard,
  the watchdog is fed and no trip comes while the battery's setpoints are still discarded.
* `controller/runtime.py:127` checks and creates without a lock, and `controller/http_api.py:114` serves
  starts in pool threads: two overlapping starts create two loops; `test_runtime.py:38` expects one. The
  properties of `LoopRunner` are of calm behaviours for this reason.
* `deploy/ext-ems/ext_ems/gateway.py:150` compares with what it last forwarded: a controller that
  restarts with its default target is not repaired until the target changes (README.md:458-468).
* `core/main.py:147` subscribes once with a clean session and no `on_connect`: `LiveLoopIsHeard` fails
  with faults "broker".
* `controller/data_connector.py:134` parks a factor with its old time stamp; after a long outage core
  rejects it as too old and publishing on change never repeats it: `Agreement` fails with "linkdown".
* `controller/runtime.py:138` gives up the join after five periods: "stopped" is not
  true in behaviours of `LoopRunner` that are not calm.
* `core/config_api.py:116` asks for the loop state before it commits: a start in between has a structural
  change committed under a running loop. `CommitWhenStopped` says that this is the only way to it.
* `controller/runtime.py:169` swallows a raising snapshot before the ladder sees it: without the
  antecedent `~blind`, `FrozenCommandBounded` fails.
* `common/config_manager.py:72` replaces the file before line 78 validates the expanded document: "a bad
  PUT can never leave a service with a broken file" (lines 7-8) holds of the document as submitted, not
  of the one the next start loads; with flaw "core" a PUT answered 500 leaves a file core cannot start
  on, and the controller still pulls it.
* `controller/config_client.py:77`: with the backstop two threads share the `.tmp` files, so a crash can
  leave a half-written document as the last-known-good cache (README.md:251). `LastKnownGood` says that it
  takes two threads in one file, and lasts until one of them writes it alone: without `crossed` it fails.
* `controller/edge_controller.py:209-216` curtails PV against the feed limit while the PI law charges or
  discharges towards the target: for a target beyond the limit the two never agree. `PlantLoop` takes its
  targets within the limit.
* `controller/edge_controller.py:253`: a derate factor within the deadband of 1.0 is never released.
* `core/adapters/modbus_tcp.py:126`: when a scale factor cannot be read the point is decoded without it
  and reported GOOD until the next poll. `Mends` says that it is over then, no property that it is not so.
* `core/adapters/modbus_tcp.py:40` bridges gaps and has no cap of 125 registers on a request.
* `controller/data_connector.py:65` promises the "latest aggregate per class"; the query returns one row
  per series, and a degraded cycle leaves a series of its own (the quality tag), so the row taken is the
  last in table order for as long as the window reaches back.
* `core/aggregator.py:35` stamps an aggregate when it is computed: GOOD means `Timeout` plus a poll, not `Timeout`.
* `core/orchestrator.py:68`: a refused write ends core, and with it the control of devices that are well.
* `scripts/diff_dump_vs_map.py:92` compares canonical bindings by address and type: a device that presents
  everything at another base can be reported clean. `Verdict` and `CommandUnderstood` are about
  devices at the map's base.
* `hil/schematic/signal_bridge.py:289` gives measurements a floor and no ceiling: the docstring's "cannot
  crash the encode" does not hold of a value above its register's range (`Beyond`), which ends every server.
  `EndsOnlyBeyond` says that it holds of everything else.
* `hil/schematic/signal_bridge.py:178-180` documents inputs in W/m2 and per unit;
  `hil/profiles.py:107` and `:135` write fractions and Hz.
* `hil/schematic/signal_bridge.py:466` restores an asset that is still served by forgetting its server
  (`orphan`); a serve task that fails is not noticed; a restored asset executes the setpoint left in its
  registers; the slider's reader is resolved once.
* `common/config_models.py:91` (`check_controller_requirements`) is called by tests only.
* `core/main.py:109` builds adapters, dispatcher and watchdog once: a PUT of assets reaches them
  with the next restart.

## 6. Plan

Done: `ControlLoop`, `SetpointPath` with `DeadMan`, `LoopRunner`, `Gateway`, `ConfigAuthority`,
`EdgeController` with `PlantLoop`, `ModbusCodec`, `SunSpec`, `Telemetry`, `SignalBridge`, and proofs of
every safety property of the runs. Left, in this order:

1. `ControlLoop` and `PlantLoop` as one. That the law's cycles are cycles of the ladder is proved
   (`SpecCycles`); left is one state that holds both, so that the time in a mode and the numbers are related.
2. `ConfigAuthority` as an implementation of an abstract register whose copy converges, with the
   standalone controller's own config endpoints.
3. The reactive branch: Q(V) droop and the inverter's capability in `PlantLoop`.
4. Larger instances: two sites' classes in `setpoint_path_live`, an overlapping backstop with two faults.

## 7. Not modelled

* The simulator is a test double; `Telemetry`'s devices do whatever it does. The rig's reports (parity,
  scale, tuning) and scenario scripts evaluate offline.
* Data model, conformity, config models and register-map schemas are declarations; `ConfigAuthority` takes
  their verdict as a flaw of a document.
* The external EMS's settings, telemetry and status API parse, report and swallow errors.
* Left out of modelled operations, each smaller than what the properties tell apart or a limit of what
  they say:
  `SetpointPath`: `flush_pending` sends all parked messages or none (`data_connector.py:140-144` may send
  some); a class is one device that takes a setpoint as it is, so neither a sequence number that advances
  with no unit of the class nor the clipping to headroom is there (`dispatcher.py:49-53, 108-111`; the
  split itself is `Share` in `Telemetry`); a core restart takes no time, so the time core is down comes on
  top of the bounds of `DeadMan` and `HandoverIsBounded`.
  `Gateway`: the InfluxDB write a tick makes under the lock (`gateway.py:154-163`) takes no time, and httpx's
  2 s is a limit per phase (`forwarder.py:20`): `Reach` has to be read with a POST limit that includes both.
  `PlantLoop`: the fixed load that no derate reaches (`hil/plant/models.py:257`) and the devices' own
  `min_derate` (lines 114, 147). `Telemetry`: `VisitTime` is the worst whole visit, in which every block and
  every scale factor times out (`modbus_tcp.py:119-152`). `SunSpec`: that no point of an image is omitted
  from a dump is not stated. `SignalBridge`: the polarity of the model's blocks and the base of each per-unit
  input are the docstring's (`signal_bridge.py:138-150, 198-202`).
* Of modelled components: how aggregates average or sum; strings and floats of the codec; the reactive
  branch of the law; `CONFIG_SOURCE=file`; report formats. MQTT, InfluxDB, Modbus and HTTP are modelled by
  what their callers can observe.
