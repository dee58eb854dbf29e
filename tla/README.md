# TLA+ verification of esp_ajax_if

ESP-AJAX-Lab is the firmware of a small power-electronics controller (ESP32,
phase-shift PWM) together with a Vue web client that operates it over HTTP and
server-sent events.  This directory holds TLA+ models of its control logic,
TLC configurations that check them on small instances, and TLAPS proofs of
their most important safety properties for all instances.

Source references are relative to the repository; `main/` and `vue_app/` stand
for `src/main/` and `src/vue_app/` in `PROJECT.json`, whose `map` names the
lines behind every definition.

Running things, in this directory:

    tlc -config MultiTimer.cfg MultiTimer        # any run: module and cfg below
    tlapm MultiTimerProofs.tla                   # any module named *Proofs

## 1. Inventory

### 1.1 Who runs what

| Task | Core, priority | Runs |
|---|---|---|
| `esp_timer` | core 0, high | timer callbacks: the periodic tick timers, which only set event bits, and the `MultiTimer` lambdas, which act on the hardware |
| `async_tcp` | core 1 (`CONFIG_ASYNC_TCP_RUNNING_CORE=1`), 3 | every HTTP handler, one request after the other |
| `app_event_task` | core 1, 2 (`app_config.hpp:140`) | the application event loop: sensors, ramps, shutdown, state push |
| `loopTask` | core 1, 1 | `setup()`, i.e. the whole boot, then DNS and debug output |

There is one lock in the application, the mutex inside `MultiTimer`.  All other
shared state (`AppState`, `AuxHwDrvState`, the PWM setpoint) is read and written
by three tasks without one.  Two facts stand in for locks: a handler preempts
the event loop but is not preempted by it, and the hardware has its own latches.
The models rely on the first one only where they say so.

### 1.2 Components

| Component | State | Operations | Interacts with | Hard parts |
|---|---|---|---|---|
| Power output (`AppController`) | PWM on/off, hardware fault latch, reset line, overtemperature flag, polled fault flag | set power, one-shot pulse, clear shutdown, temperature limits, overcurrent, slow-tick shutdown | MultiTimer, AuxHwDrv, event loop | three tasks act on one output; flags are checked in one task and used in another; callback sequences that other triggers push on |
| `MultiTimer` | one-shot timer, repeat counter, mutex | start, stop, pause, resume, expiry, callback | power output | the callback runs in the caller or in `esp_timer`; `stop()` takes no mutex |
| Setpoint throttling | target, increment, duty in the driver's struct and in hardware | set duty, change rate, enable, power on, fast tick | power output, settings | read-modify-write of the duty while handlers set it |
| Fan (`AuxHwDrv`) | temperatures, `fan_active`, override, pin | sensor update, evaluation, override, clear shutdown | power output | a decision in a local variable, a pin written only on difference |
| Temperature sensor | filter buffer, index, running sum | acquisition, read-out | fan, power output | unsigned running sum, interpolation at table edges |
| Event loop and push | event group, serialised state, client queue | setters, events, serialisation, send, connect | web client | lost wake-ups, mixed snapshots, dropped messages |
| Settings store | settings in RAM, settings.json | save, restore | throttling, boot | power loss during a write, order of restoring |
| WiFi configurator | NVS, RAM copy, driver credentials | begin, reconnect, fall-back, request | boot | reboots as a retry mechanism, half-saved configurations |
| Web client: commands | rate limit flag, one-slot buffer, timer | send command, timer | HTTP handlers | coalescing against timers, overtaking and loss on the network |
| Web client: events | EventSource, reconnect timers, watchdog timers | open, error, reconnect, message, debug | state push | timers whose ids are overwritten |
| Web client: store | state object, disabled flag | dispatch action, update state | commands, events, views | commands are enabled by the one path and sent through the other |
| Vue widgets | displayed value, edit mode, timeout, properties | input, change, blur, drag, timeout, watchers | views | an entered value against a value that arrives |
| Vue views, router | 25 controls and their limits, tab, slider or dial | open a tab, choose, mount | store, widgets | widgets are made and destroyed under their timers; limits computed from values that are about to change |
| Network form | form, requests and answers | load, enter, submit, answer | WiFi configurator | an answer overwrites what is being entered |
| API server | command map | register, dispatch, convert numbers | all handlers | map filled while requests come in |
| Setters | one value each | set, limit | state push, views | a command must come back to the control that sent it |
| Boot (`setup()`) | – | begin of all of the above | all | tasks run before the state is restored |
| Firmware update | – | upload | – | inside the Update library |
| DSP backend, LUT generator, generated documentation | – | – | – | not part of the running program |

What makes each of them correct is stated under the runs in section 3; the
hazards list of `PROJECT.json` relates every hard spot, at its line, to the
properties that would notice it going wrong.

## 2. Modules and the code

General conventions: an access to shared state is a step of its own where
another task can come between; a callback or handler that cannot be interleaved
is one step.  Names follow the code.  Definitions whose comment begins with
"Bug:" are not part of any specification; each is a plausible mistake in the
definition that follows it, by which the properties were shown to be able to
fail.  Variables marked "history" record what the properties talk about and
influence no guard.

| Module | Code | Correspondence |
|---|---|---|
| `RepeatCycle` | contract of `attach_static_ms`, `multi_timer.hpp` | abstract: calls are numbered 1..n, over and over, and a round that began is finished, until the timer is stopped or paused |
| `CountedTimer` | `_cb_lambda`, `multi_timer.hpp` | abstract: mutex, counting and arming in one step, as the tasks that share a timer see it; nothing is promised after a stop or pause |
| `MultiTimer` | `multi_timer.hpp` | `_repeat_count` is `count`, the lambda's local is `repeat_count[t]`, the esp_timer is `armed`.  `Enter` .. `Give` are the lambda's statements; `start()`, `stop()` (two unprotected steps), `pause()`, `resume()` from any caller; both values of `_first_tick_nodelay`.  Refines `RepeatCycle` by `last` and `disturbed`, and `CountedTimer`: there a task holds the mutex and has counted from `Rearm` on |
| `PowerOutput` | `app_controller.cpp`, `aux_hw_drv.cpp` | three tasks step through `set_power_pwm_active`, `trigger_oneshot`, `clear_shutdown`, the two timer callbacks and the two ticks.  The two MultiTimers are used in a coarser form (`TakeAndCount`), the one of `CountedTimer` (theorem `TimersAreCounted`).  `OneCore` says whether `async_tcp` and `app_task` share a core |
| `SoftStart` | `app_controller.cpp` (throttling, fast tick) | the tick's loads and stores against whole handlers: `throttle_value` reads the duty for the difference (`TickLoad`) and may read it again for the sum (`TickReload`, either value, as the build decides); the setpoint struct and the hardware's duty are two variables; any rate, zero and negative ones included |
| `FanControl` | `aux_hw_drv.cpp` | the slow tick's local `fan_active`, the comparison, the state and the pin are separate steps; `overtaken` remembers a handler between the last two; temperatures are bands relative to the two thresholds |
| `TemperatureSensor` | `esp32_adc_channel.*`, `adc_filter_interpolation.hpp`, `sensor_kty81_1xx.*` | sums modulo the width of the accumulator, integer arithmetic scaled by the table's range |
| `EventLoop` | `app_controller.cpp` (events, push), `app_state_model.cpp`, `api_server.cpp` | bits are taken and cleared together, fields are serialised one at a time, the event source drops messages at its limit |
| `WiFiConfigurator` | `wifi_configurator.cpp` | NVS, RAM and the WiFi driver's own stored credentials are three memories; mode, SSID and password are saved one after the other, passwords are named after their networks |
| `Settings` | `app_controller.cpp`, `app_state_model.cpp`, `fs_io.cpp` | opening truncates the file, writing comes later and may fail; power may be lost in every state.  The length of the one-shot pulse loses up to one when it is read back (`Truncated`) |
| `AuxHwDrv` | `aux_hw_drv.cpp` | composes `TemperatureSensor` (sensor 1, from the samples on) with `FanControl`, of which it is an instance: the band is computed from the interpolated temperature and two thresholds.  The event loop takes the steps of both one after the other, handlers preempt it |
| `RequestGenerator` | `async_requests_sse.js` | `_rate_limit_active`, `_pending_req_str` and the timers; the network is a set; requests may fail |
| `LiveView` | `async_requests_sse.js`, `useApiStore.js` | timers are counted, apart from the one whose id is remembered |
| `RemoteControl` | header comments of `async_requests_sse.js` and `EspAjaxLab.vue` | abstract: the device follows the commands in order and ends up with the last one; the view shows what the device has done |
| `ApiStore` | `useApiStore.js` | composes `RequestGenerator` and `LiveView`: `dispatch_action` needs enabled controls, the device executes while it is up, `update_state` copies the device's state.  Refines `RemoteControl` |
| `Widgets` | `vue_app/src/widgets` | each handler, timeout and watcher of the number, range, dial, toggle and button widgets is an operator on the widget's data.  Rounding to digits and the angle of the knob are left out |
| `Views` | `views/LiveController.vue`, `OperationSettings.vue`, `router`, state object of `useApiStore.js` | all controls with action, fed-back field and limits; the default state.  Values are steps of a small scale |
| `NetworkAndUpdate` | `views/NetworkAndUpdate.vue`, `do_json_request` | the form, its requests and answers, against the device, which takes a request field by field (`Taken`), saves mode and SSID one after the other and may restart in between; `WiFiConfigurator` has that in detail |
| `EspAjaxLab` | `EspAjaxLab.vue`, the command handlers of `app_controller.cpp` | composes `RequestGenerator`, `Widgets`, `Views` and `NetworkAndUpdate`: user, rendering, requests, setters, ramps, push, another client.  A behaviour follows the one or two controls of a session |
| `MC*` | – | tables and sessions for the instances that TLC checks |
| `*Proofs` | – | theorems, see section 4 |

### External parts

Modelled from how the code uses them: the pspwm module (an enabled output is
switched off by an overcurrent, the fault latch must be cleared before it can be
enabled again), the AsyncEventSource queue, the WiFi driver's persistent
credentials, EventSource and checkboxes in the browser, the network, Arduino's
`String::toFloat`, which gives zero for `NaN` (`api_server.cpp:73`).

## 3. Runs

| Run | Instance | Distinct states | What it shows |
|---|---|---|---|
| `MultiTimer` | two callers and `esp_timer`, 3 repeats, all methods | 32 156 | callbacks never overlap, get numbers in range even with an unprotected `stop()`; without a stop or pause no round is abandoned; the timer implements `RepeatCycle`, liveness included, and `CountedTimer` |
| `PowerOutput` | all commands, tasks interleaving freely | 214 788 | nothing enables the output before the first `clear_shutdown`; the fault latch is given up only after a complete reset pulse; pulses end, the reset line is released, the overtemperature shutdown wins in the end |
| `PowerOutput_reenable` | all commands, one core | – | violation, see section 6 |
| `SoftStart` | duties 0..3, increments -1..2 | 176 816 | the duty leaves the range by one increment at most, unless a negative rate was set; with a positive rate the ramp arrives once the commands end, whatever they did to a tick in progress |
| `AuxHwDrv` | filter of 2, 3-bit readings, two conversions, an uneven table of 4, both thresholds inside | 21 712 | from the samples to the pin: the running sum never drifts, temperatures stay within those of the window; the fan is never stopped when hot; state and pin follow demand and coolness, the pin unless a handler has overtaken its write; hysteresis |
| `FanControl_override` | two sensors, three bands | – | violation, see section 6 |
| `EventLoop` | two writers, two fields, one change each, queue of 2 | 92 244 | an announced change is in a later push; a connected client sees every change in the end; no field goes backwards on the display |
| `WiFiConfigurator` | three networks, one of them refused as an access point, passwords of the right or another network, 2 reboots, 2 attempts, 2 power losses | 929 180 | the device is up again and again; outside of a save NVS holds all of a configuration that was found to work, unless the latest save was cut off |
| `Settings` | duties and pulse lengths 0..2 | 1 195 320 | what is restored is a whole earlier save or the defaults; a save of a settled state is restored as it was, but for the pulse, which may be one less |
| `ApiStore` | 3 commands, 2 overwritten timers of each kind | 134 820 | the store implements `RemoteControl`, liveness included; requests are sent in order, none twice, the latest one in the end; the client ends up connected; controls are disabled on stale data |
| `EspAjaxLab` | every control alone, 7 pairs, the network form | 360 876 | controls show what the device has unless they are being edited; the last command reaches the field its control displays; dead times that are entered one after the other never exceed their sum; no accidental access point, but by a refused SSID or a save that was cut off |
| `EspAjaxLab_toggle` | the same | – | violation, see section 6 |

### Bounds

* `MultiTimer`: 3 repeats are the most that the application uses, and the least
  with a first, a middle and a last one.  Two callers allow a caller to race
  with another caller and with the timer.  Both limits are lifted by the proofs.
* `PowerOutput`: nothing is bounded; repeat numbers and counters are finite.
* `SoftStart`: a range of three increments with increments that do and do not
  divide it; the last, shortened step of a ramp occurs.  Zero and one negative
  increment (`MaxDecrement`) occur; a duty that runs away with a negative rate
  is followed for `Runaway` steps out of the range, which is more than any
  excursion the properties speak of.
* `EventLoop`: each field changes once, so a change can fall before or after
  the read of its field in every push, and with two fields in both orders.
  `MaxQueue` 2 is reached, so messages are dropped.
* `WiFiConfigurator`: `MaxCounter` only keeps users from making requests for
  ever while the counter grows; two power losses are enough to cut off two
  saves, of a request and of the fall-back to the defaults.  Two reboots and two
  attempts stand for the four and three of `app_config.hpp`: the fall-back comes
  after more than one counted restart, and attempts fail with and without
  another one left.  The proofs are for any limits.
* `Settings`: duties on both sides of the default limit, pulses that can be
  shortened twice in a row.
* `AuxHwDrv`: a filter of two is the least with an index that moves and wraps;
  its sum exceeds the width of a reading.  Readings lie outside the table on
  both sides, and the input range is no multiple of the table's intervals.
* `ApiStore`: with three commands one is sent, one waits in the slot and one
  overwrites it, also while the first is still on its way.  Lost timers of a kind are interchangeable, so only their number
  counts; two make it possible that one fires and another is still pending.
* `EspAjaxLab`: values are the steps 0..3 of a scale, so that a minimum, a
  maximum and values on either side of both differ.  The views keep no state
  between controls, so the sessions are every control alone (with another
  client and an emptied field) and the pairs that do depend on each other: two
  controls of one setpoint, a setpoint with its limit, its rate or the button
  that restarts its ramp, a dial with its limits, two toggles that compete for
  the slot, the two dead times.  Up to two commands, three for the toggles, whose
  finding needs one sent, one waiting and one that overwrites it.  The session
  of the network form has a default, a station's and a refused SSID
  (`TooLong`); in the others the device keeps its configuration.  `MaxSubmits`,
  one submitted form: its answer can meet those to any number of requests that load
  the form; more are covered by the theorem.

### Fairness

Assumed is only what the scheduling gives: a task that is runnable runs, an
armed timer expires, periodic timers keep ticking, the browser fires its timers
and delivers.  Users, faults, networks and power losses owe nothing.  Strong
fairness appears where a runnable step can be disabled by something else being
served first:

* `PowerOutput`: `Expire(m)`, since the `esp_timer` task serves alarms in the
  order of their times and cannot pass one over for ever; `TakeAndCount` in
  `esp_timer`, because FreeRTOS hands a mutex to the waiter of the highest
  priority; the slow tick, because the event loop handles all bits of a round.
* `AuxHwDrv` and `FanControl`: the slow tick, for the same reason.

A handler in `async_tcp` could starve `app_task` on the shared core for as long
as requests come in without a gap; that is why the liveness run of `PowerOutput`
uses freely interleaving tasks and the finding, which is about safety, uses
`OneCore = TRUE`, the configured and more restrictive scheduling.

* `ApiStore`, `EspAjaxLab`: only weak fairness.  A request on the network
  arrives or fails, timers fire, a device that is up pushes its state.  Which
  of the two happens to a request is open: what needs success is stated for a
  network that is not `disturbed` (a request was lost or overtaken).

Deadlock is checked in every run.

## 4. Proofs

All theorems are about every value of the constants that satisfies the named
assumptions in the modules.  The statements are the same definitions that TLC
checks.

### `MultiTimerProofs`

Assumptions: the timer's task is not one of the callers, `NoTask` is no task,
at least one repeat.

1. `TypeCorrect`, with `LockInv` (a task is past `Enter` exactly when it holds
   the mutex) and `RangeInv` (a local number between counting and the call is in
   `1 .. Requested`; the shared counter may only equal `Requested` while its
   owner is about to reset it).  `RangeInv` is needed because `stop()` writes the
   counter without the mutex: the numbers can be wrong in order, not in range.
2. `MutexHolds` and `NumbersInRange` follow from these.
3. As long as the timer is undisturbed, `CountInv` ties the counter and the
   local numbers to the latest callback and `ArmedInv` says that a positive
   counter has its timer armed or already served.  Together they are inductive
   (`RoundInvariant`), and `RoundsAreContinued` follows.
4. `CallsInOrder`: every step is a step of `RepeatCycle` or a stutter.  This is
   the safety part of the refinement; that rounds are finished is checked by TLC.
5. `TimerIsCounted`: `Rearm` is the step that counts, arms and takes the mutex
   in `CountedTimer`, the lambda's statements before it are stutters, and while
   a task is between `Store` and `Rearm` the counter stands for one less.  By
   `CountInv` that is the number it will be called with.  Steps that disturb the
   timer are `Disturbed` steps, after which the contract says nothing.

### `PowerOutputProofs`

Assumptions: the tasks and timers are distinct.  `Commands` and `OneCore` are
arbitrary.

`LockInv` relates program points, timers and mutexes; `RepeatInv` says which
callback can be next, given the counter, and that the reset line is high exactly
between the first and the second call.  `Inv` (type, lock, repeats) is inductive:

* `PowerOutputTypeCorrect`;
* `FaultResetIsComplete`: the third call follows the second, so the latch is
  cleared only after the line went high and low again, whichever tasks made the
  calls;
* `BootsSafely`: with `BootInv` (before the first `clear_shutdown` the flag is
  set and no task is past the check).
* `NotReenabledWithoutPulses`: if no client sends `trigger_oneshot`, the promise
  that `PowerOutput_reenable` finds broken (section 6) is kept.  `NoPulseInv`
  says that the pulse's timer is then idle and that after a `clear_shutdown`
  no task is on its way to enabling the output.
* `TimersAreCounted`, for each of the two timers: what all three tasks do is,
  seen from one timer (`TimerPlace`), a `CountedTimer` that nobody disturbs.
  It needs `HolderInv`: a mutex is held only from the counting to the return.
  With `TimerIsCounted` this justifies the coarse form: what the module takes
  for one step is what the statements of the lambda amount to.

### `EventLoopProofs`

The two parts of the event loop that another task interrupts.  Assumptions: the
queue takes at least one message; the bounds of duties and increments are
numbers.  Six invariants, inductive together: three for types; `PushInv`, which says that while the bit is neither
set nor taken, the latest push holds what was announced, and so do the fields
already read for the next one; `OrderInv` and `QueueInv`, by which displayed,
queued, pushed, read and stored values are one non-decreasing chain.

* `LoopTypeCorrect`, with the limit of the queue;
* `NoLostWakeUp` from `PushInv`;
* `DisplayInOrder` from the chain: receiving a message is the only step that
  changes the display;
* `RampStaysInRange`, about `SoftStart`: what a tick adds goes towards the target
  it has read, no further, and is one increment at most (`StepIsShort`).  It is
  added to the value the difference was taken from, or to a duty that a handler
  has set between the two reads and that is in the range (`RampForwards`); so the
  sum leaves the range by less than an increment.  This holds until a negative
  rate is set.

### `AuxHwDrvProofs`

Assumptions: those the source asserts of filter and table (length of the filter
within the width of a reading, a rising table, a range that is not empty), the
thresholds in order.  That the lengths are powers of two is not needed.

* Sums over windows.  What a recursive function computes for every length needs
  an induction; the library's induction theorems cannot be used here, so it is
  done by a smallest counterexample (`LeastElement`): a sum over a prefix has its
  recursive equation (`PrefixSums`), is bounded (`SumBounds`) and changes by the
  difference of the ends when the window moves (`SumShifted`).
* `FilterStaysMean`: `SensorInv` says that the ring buffer, read from
  `current_index` on, is the window (`BufferInv`), and that the running sum,
  which wraps at the width of its variable, is the window's sum (`SumInv`).
* `TemperatureBetweenReadings`: the interpolation rises, inside each interval of
  the table and across their borders, also with the table's ends and readings
  outside of it (`InterpolateRises`), and the mean lies between the readings.
* `AuxImplementsFanControl`: every step of the composed driver is a step of
  `FanControl` or a stutter; this carries the fan's theorems over to it.
* `HotIsNeverStopped`: `DecisionInv` says that a decision to stop the fan, once
  made, has no hot sensor until it is carried out, because the same task stores
  the temperatures; the other place that lowers the pin evaluates in one piece.
* `PinIsState`: when no tick is about to write it, the pin is what `fan_active`
  says, unless a handler came between a tick's writes of the two (`PinInv`).  So
  this interleaving is the only cause of the violation that
  `FanControl_override` shows.
* `HysteresisHolds`: once the sensors are never cool and the override is off, no
  step stops a fan that no decision was made to stop.  The theorem has the form
  "eventually always" and still needs no fairness.
* `AuxTypeCorrect` combines the types of both parts.

### `WiFiConfiguratorProofs`

Assumptions: the default network is an access point that works
(`wifi_configurator.cpp:66` supposes so), at least one attempt to reconnect.

* `SavedHasWorked`: what a request saves is read from RAM, what the device
  connects with from the driver's credentials; they agree because a request
  configures the interface before it tries again, and a save that is not cut off
  writes every key of it (`SavedInv`).
* `ConfiguratorTypeCorrect`: the bound of the saved counter needs `CounterInv`.
  The counter is incremented from a copy in RAM that is never reset; `begin()`
  fails with at most `max_reboots` in it only, since with more it has fallen
  back to the default access point.

### `SettingsProofs`

Assumption: the defaults are values of their types.

`FileInv` says that the settings do not change during a save, so that buffer and
file differ from them in the duty at most, and that a file that is not whole is
never read; `RestoredInv` and `RoundTripInv` carry this, with the pulse truncated
once, over the boot to the first command.  `SettingsTypeCorrect`, `BootsWithWholeSettings` and
`SettledSaveComesBack` follow.

### `ApiStoreProofs`

Assumptions: the bounds are numbers.

* `RequestsInOrder`: the command part's own invariant orders the numbers of
  sent, waiting and issued requests; the view's actions leave it alone.
* `StoreTypeCorrect`, with the agreement of the watchdog's two flags.
* `StoreImplementsRemoteControl`: every step of the store is a step of
  `RemoteControl` or a stutter, from the invariant that the device has executed
  nothing that was not sent and, undisturbed, nothing out of order.

### `EspAjaxLabProofs`

Assumptions: those on sessions, SSIDs and the number of requests; the scale has
more than three steps, since some defaults are at the third.

* What is shown (`WidgetInv`): a rendered widget has the properties of the
  current state object and an edited number input has its timeout running.
  `Fitting` state objects on both sides, with the tables of controls checked once
  (`ControlsDeclared`), make every emitted value one of the scale or `NaN`.
* What is under way (`CommandsInv`): numbers, flags, slot and network of the
  command path, as in `ApiStoreProofs`.  The lemmas about them stand in both
  modules, each for its own composition.
* `DeadTimesAlwaysFit`, from `DeadTimesInv`: of the requests after the state that
  is shown, at most one is for a dead time while each is entered after the effect
  of the one before was shown; so what the limit of a dead time was computed from
  is still true when the command is executed (`EmitKeeps`, `ArriveKeeps`,
  `ShownKeeps`).  Commands that are lost or overtaken, another client and a hasty
  user are excluded by the property itself.
* `LabTypeCorrect`: the above with `FormSession`, the types and flags of the
  network form, and `LabFlags`, those of the client and the other client.
* `ApSsidIsIntended`: a configuration is fit when it is not one of an access
  point with an SSID that nobody gave it, or when `mixed` remembers one of the
  two ways in which the device itself puts a mode and another configuration's
  SSID together (section 6).  `FormInv`: form, requests, answers, device and,
  outside of a save, NVS hold fit configurations, but for a form in which the
  user has just entered an SSID, which submitting it makes intended.
  `LabSteps` shows that nothing else in the application touches any of them.

### Only model-checked

Every invariant and every safety property of the runs is a theorem.  What is
left to TLC needs fairness, which is outside of the prover's reach:

* that something is reached: `OvertempShutsDown`, `PulseEnds`,
  `ResetLineReleased`, `Settles`, `FanFollows`, `ClientCatchesUp`, `GetsUp`,
  `LatestIsSent`, `EndsConnected`, `StaleDataDisables`, `ControlsShowDevice`,
  `OperatedControlFollows`;
* the liveness parts of `ImplementsRepeatCycle` and `ImplementsRemoteControl`;
  their safety parts are theorems.

The findings of section 6 are runs: a counterexample needs no proof.

## 5. Not modelled

* The frequency ramp inside a tick: it is the duty ramp of `SoftStart` without
  the restart at zero; `EspAjaxLab` has both ramps in whole ticks.
* The boot over several components: `setup()` in `main/app_main.cpp`.  Each
  component's start is in its own module.  What happens between them, requests
  that come in while the map of commands is being filled
  (`api_server.cpp:229`), ends in a container that is read while it is written;
  its outcomes are not defined, so there is nothing to state.
* Static pages, redirects, portal templates, DNS, mDNS: no state of their own
  that another part depends on.  The firmware upload is inside a library.
* Setters that no command reaches (clock dividers, driver supply), the
  calibration of the ADC, `get_temp_lin`.
* Rounding to digits, the angle of the knob, the text of `hw_error`, the help
  text; HTML and styles.
* `main/not_implemented_yet`, scripts, examples, generated documentation, build
  and deployment configuration: not part of the running program.
* Real time: timers have an order of expiry only through fairness, and a rate
  limit is a flag.  Memory exhaustion and the stack sizes of tasks.

Two restrictions of `EspAjaxLab`: throttling of the setpoints is always on (its
switch is in `Settings` and `SoftStart`), and `DeadTimesFit` speaks only of dead
times that are entered one after the other, each when the effect of the one
before was displayed.  Entered faster (`hasty`) they do exceed the sum: no
property covers that, and the device does not check it (section 6).

What the models take for granted of values: floats other than the length of the
pulse are restored as they were but for rounding; a key of NVS is written as a
whole, when it is set; the PWM driver takes a duty in range and may refuse
another one.  `Settings` has a step of the ramp in one piece.

## 6. Disagreements with the comments

Three are shown by runs that end in a violation:

* `PowerOutput_reenable`: `app_controller.cpp:204` says of a cleared shutdown
  that the output is not enabled again.  A one-shot pulse triggered a second
  time while it runs leaves its timer armed; the timer expires with repeat
  number 1 and enables the output, also after the shutdown has been cleared.
  Theorem `NotReenabledWithoutPulses` shows that nothing else does.
* `FanControl_override`: `app_state_model.hpp:32` says that the override keeps
  the fan on.  An override between the event loop's write of `fan_active` and
  its write of the pin leaves the flag on and the pin off, and later rounds see
  no difference.

* `EspAjaxLab_toggle`: `LiveToggleSwitch.vue:7-8` says that the control is a
  live view of the value fed back.  The browser has changed the checkbox with
  the click; when the command is overwritten in the slot by that of another
  control, the value fed back never changes and the checkbox is not written
  again.

Others were met while modelling.  The models contain the behaviour, no run is
dedicated to it:

* `start()` in the middle of a round leaves the timer armed after the last
  repeat (`multi_timer.hpp:114` and `:208`), and `stop()` resets the counter
  outside the mutex (`:225`).
* The overtemperature flag is set by `clear_shutdown` too, and the output stays
  on until the next slow tick (`app_controller.cpp:209`).
* A second `clear_shutdown` shortens the reset pulse: its phases are pushed on
  by the trigger instead of the timer.
* A duty of zero, set when power is switched on, is lost to a tick that has
  already read the old duty (`app_controller.cpp:177`, `:597`).  If it comes
  between the tick's two reads of the duty, the step is taken from the zero with
  the difference of the old duty, and leads out of the range by up to an
  increment (`:590`, `:597-599`); the comment before `throttle_value` counts on
  an exact difference.
* No command checks the change rates: with zero, which an emptied field sends, a
  ramp never arrives, and with a negative rate it runs away from the target
  (`app_controller.cpp:141-144`).
* After a failed request the WiFi driver has stored the new credentials, and
  the next reconnection uses them (`wifi_configurator.cpp:77`, `:303`).
* The fall-back comes after `max_reboots + 1` failed boots (`app_config.hpp:45`,
  `wifi_configurator.cpp:70`), and the RAM copy of the counter is not reset
  with the one in NVS (`:96-97`).
* A power loss between two keys of a save leaves a mode, SSID and password that do
  not belong together (`wifi_configurator.cpp:196`, `:216`, `:218`), among them an
  access point with the SSID of a station.  A request for the other mode with an
  SSID that is refused has the same effect at once, since each field is checked
  for itself (`:376-381`).  The comment at `NetworkAndUpdate.vue:255` is about
  the same accident in the form.
* The length of the one-shot pulse is truncated when it is read back: 1009 ms are
  saved as 1.009 s and restored as 1008 (`app_state_model.cpp:77`, `:126`), so
  it can get shorter with every save and boot.
* `app_state_model.cpp:46` says that the sum of the dead times must be smaller
  than `dt_sum_max_hw`; the view allows the sum itself
  (`OperationSettings.vue:334-341`), and the device takes anything.
* A save during a ramp stores the momentary duty (`app_controller.cpp:251`,
  `app_state_model.cpp:42`); opening the file truncates the former settings
  (`fs_io.cpp:20`).
* The debug switch removes a listener that was never added and does not stop
  timers whose ids were overwritten (`useApiStore.js:100`,
  `async_requests_sse.js:168`, `:179`).
* An emptied number field emits `NaN`, since a comparison with `NaN` is always
  unequal, and the device takes it for zero (`LiveNumberInput.vue`,
  `api_server.cpp:73`).
* The dial keeps a value that it clamped while another client's limits were
  narrow (`LiveJogDial.vue`).
* A command that waits in the slot is sent even after the controls have been
  disabled (`async_requests_sse.js`).
* Submitting the network form before it has been loaded sends hard-coded
  defaults (`NetworkAndUpdate.vue`); the answer says what was requested, before
  it is tried (`wifi_configurator.cpp:385`).
* A boot that fails as a station opens an access point with the station's SSID
  in the moment before it restarts (`wifi_configurator.cpp:92`).
* `get_temp_pwl` triggers a second acquisition per tick
  (`sensor_kty81_1xx.hpp:134-135`).

## 7. Plan

Done: `MultiTimer` with `RepeatCycle`, `PowerOutput` and their proofs;
`SoftStart`, `FanControl`, `TemperatureSensor`; `EventLoop`,
`RequestGenerator`, `LiveView`; `Settings`, `WiFiConfigurator`.  Then the
compositions: `AuxHwDrv` out of sensor and fan, `ApiStore` out of commands and
events with `RemoteControl` above it, and `EspAjaxLab` with `Widgets`, `Views`
and `NetworkAndUpdate`; then the proofs about all of them.

Open:

1. *Refinement.*  An abstract power stage (off, enabled, pulse, latched) that
   `PowerOutput` implements.
2. *Composition.*  `NetworkAndUpdate` against `WiFiConfigurator` in full, and
   the queue of `EventLoop` between device and `ApiStore`.
3. *Proofs.*  That of the refinement in 1, step by step.
