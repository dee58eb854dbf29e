---------------------------- MODULE PowerOutput ----------------------------
(***************************************************************************)
(* The power output and its shutdowns (main/app_controller.cpp): three     *)
(* tasks act on one PWM stage.                                             *)
(*   async_tcp  runs the HTTP command handlers, one after the other        *)
(*   app_task   runs the application event loop (_app_event_task)          *)
(*   esp_timer  runs the MultiTimer callbacks of expired timers            *)
(* Every access to shared state is a step.  esp_timer runs on core 0.  The *)
(* other two share core 1 as configured (OneCore), where async_tcp has the *)
(* higher priority and app_task only gets the core when async_tcp waits.   *)
(* With OneCore = FALSE they interleave freely, which also covers a build  *)
(* with another CONFIG_ASYNC_TCP_RUNNING_CORE.                             *)
(*                                                                         *)
(* The two MultiTimers are used as CountedTimer says, which MultiTimer is  *)
(* shown to implement: _repeat_count and the decision to arm are touched   *)
(* by the mutex's owner only, so taking it, counting and arming are one    *)
(* step here.                                                              *)
(* The event group is left out (module EventLoop): the event loop may wake *)
(* up for a fast or a slow tick at any time.  The duty is in SoftStart.    *)
(***************************************************************************)
EXTENDS Naturals

CONSTANTS
  async_tcp, app_task, esp_timer,     \* the tasks
  power_output_timer, oc_reset_timer, \* the MultiTimers
  None,
  Commands,                           \* the HTTP commands the clients send
  OneCore                             \* async_tcp and app_task share a core

ASSUME DistinctTasks ==
         async_tcp # app_task /\ async_tcp # esp_timer /\ app_task # esp_timer
ASSUME DistinctTimers == power_output_timer # oc_reset_timer
ASSUME NoneAssumption ==
         None \notin {async_tcp, app_task, esp_timer,
                      power_output_timer, oc_reset_timer}

ASSUME CommandsAssumption ==
         Commands \subseteq {"set_power_pwm_active", "trigger_oneshot",
                             "clear_shutdown", "set_temp_limit"}
ASSUME OneCoreAssumption == OneCore \in BOOLEAN

Tasks == {async_tcp, app_task, esp_timer}
Timers == {power_output_timer, oc_reset_timer}

\* total_repeat_count given to attach_static_ms
Repeats(m) == IF m = power_output_timer THEN 2 ELSE 3

VARIABLES
  output,          \* pspwm: PWM output enabled
  soc_fault,       \* pspwm: hardware fault shutdown occurred (latched)
  reset_pin,       \* gpio_overcurrent_reset level
  hw_overtemp,     \* aux_hw_drv.state.hw_overtemp
  too_hot,         \* a sensor value is above its limit
  oc_occurred,     \* state.hw_oc_fault_occurred, polled copy of soc_fault
  armed, holder, count,  \* per MultiTimer, see module MultiTimer
  pc,              \* where each task is
  timer,           \* the MultiTimer whose lambda a task is in, or None
  repeat_count,    \* the repeat number that lambda works with
  last,            \* history, per timer: number of the latest callback
  consent          \* history: "boot" before the first clear_shutdown,
                   \*   "cleared" after one that found the output off,
                   \*   "wanted" once a command has asked for power since

hardware == <<output, soc_fault, reset_pin>>
thermal == <<hw_overtemp, too_hot>>
multitimers == <<armed, holder, count>>
locals == <<timer, repeat_count>>
history == <<last, consent>>
vars == <<hardware, thermal, oc_occurred, multitimers, pc, locals, history>>

(***************************************************************************)
(* begin() has run: output off, flags at their defaults, timers attached.  *)
(* The first fast tick has not polled the hardware yet.                    *)
(***************************************************************************)
Init ==
  /\ output = FALSE
  /\ soc_fault \in BOOLEAN
  /\ reset_pin = FALSE
  /\ hw_overtemp = TRUE
  /\ too_hot \in BOOLEAN
  /\ oc_occurred = TRUE
  /\ armed = [m \in Timers |-> FALSE]
  /\ holder = [m \in Timers |-> None]
  /\ count = [m \in Timers |-> 0]
  /\ pc = [t \in Tasks |-> "idle"]
  /\ timer = [t \in Tasks |-> None]
  /\ repeat_count = [t \in Tasks |-> 0]
  /\ last = [m \in Timers |-> 0]
  /\ consent = "boot"

Goto(t, from, to) ==
  /\ pc[t] = from
  /\ pc' = [pc EXCEPT ![t] = to]

(***************************************************************************)
(* pspwm module and power stage (external).  An overcurrent disables the   *)
(* output in hardware and latches the fault.                               *)
(***************************************************************************)
Overcurrent ==
  /\ output' = FALSE
  /\ soc_fault' = TRUE
  /\ UNCHANGED <<reset_pin, thermal, oc_occurred, multitimers, pc, locals,
                 history>>

(***************************************************************************)
(* set_power_pwm_active, in the command handler or in a timer callback.    *)
(***************************************************************************)

\* Bug: no overtemperature check.
CheckNothing(t) ==
  /\ Goto(t, "check", "enable")
  /\ UNCHANGED <<hardware, thermal, oc_occurred, multitimers, locals, history>>

\* hw_overtemp refuses activation.
CheckOvertemp(t) ==
  /\ Goto(t, "check", IF hw_overtemp THEN "return" ELSE "enable")
  /\ UNCHANGED <<hardware, thermal, oc_occurred, multitimers, locals, history>>

\* pspwm_resync_enable_output: a latched fault has to be reset first.
EnableOutput(t) ==
  /\ Goto(t, "enable", "return")
  /\ output' = (output \/ ~soc_fault)
  /\ UNCHANGED <<soc_fault, reset_pin, thermal, oc_occurred, multitimers,
                 locals, history>>

\* pspwm_disable_output
DisableOutput(t) ==
  /\ Goto(t, "disable", "return")
  /\ output' = FALSE
  /\ UNCHANGED <<soc_fault, reset_pin, thermal, oc_occurred, multitimers,
                 locals, history>>

(***************************************************************************)
(* The MultiTimer lambda, in the task that called start() or in esp_timer. *)
(***************************************************************************)

\* Bug: the counter is not reset after the last repeat.
TakeCountingOn(t) ==
  LET m == timer[t]
      n == count[m] + 1
  IN /\ Goto(t, "take", "call")
     /\ holder[m] = None
     /\ holder' = [holder EXCEPT ![m] = t]
     /\ repeat_count' = [repeat_count EXCEPT ![t] = n]
     /\ count' = [count EXCEPT ![m] = n]
     /\ armed' = [armed EXCEPT ![m] = @ \/ n < Repeats(m)]
     /\ UNCHANGED <<hardware, thermal, oc_occurred, timer, history>>

\* _mutex_take, ++_repeat_count, arm for the next repeat or reset.
TakeAndCount(t) ==
  LET m == timer[t]
      n == count[m] + 1
  IN /\ Goto(t, "take", "call")
     /\ holder[m] = None
     /\ holder' = [holder EXCEPT ![m] = t]
     /\ repeat_count' = [repeat_count EXCEPT ![t] = n]
     /\ count' = [count EXCEPT ![m] = IF n < Repeats(m) THEN n ELSE 0]
     /\ armed' = [armed EXCEPT ![m] = @ \/ n < Repeats(m)]
     /\ UNCHANGED <<hardware, thermal, oc_occurred, timer, history>>

\* Bug: the second repeat enables the output as well.
PulseCallbackNeverOff(t) ==
  /\ timer[t] = power_output_timer
  /\ Goto(t, "call", "check")
  /\ last' = [last EXCEPT ![power_output_timer] = repeat_count[t]]
  /\ UNCHANGED <<hardware, thermal, oc_occurred, multitimers, locals,
                 consent>>

\* Callback of power_output_timer: on at the first repeat, off at the second.
PulseCallback(t) ==
  /\ timer[t] = power_output_timer
  /\ Goto(t, "call", IF repeat_count[t] = 1 THEN "check" ELSE "disable")
  /\ last' = [last EXCEPT ![power_output_timer] = repeat_count[t]]
  /\ UNCHANGED <<hardware, thermal, oc_occurred, multitimers, locals,
                 consent>>

\* Bug: the fault latch is reset while the reset line is still active.
ResetCallbackTooEarly(t) ==
  /\ timer[t] = oc_reset_timer
  /\ Goto(t, "call", "return")
  /\ reset_pin' = (repeat_count[t] < 3)
  /\ soc_fault' = (soc_fault /\ repeat_count[t] # 2)
  /\ last' = [last EXCEPT ![oc_reset_timer] = repeat_count[t]]
  /\ UNCHANGED <<output, thermal, oc_occurred, multitimers, locals,
                 consent>>

\* Bug: the reset line is never taken back.
ResetCallbackPinStuck(t) ==
  /\ timer[t] = oc_reset_timer
  /\ Goto(t, "call", "return")
  /\ reset_pin' = (reset_pin \/ repeat_count[t] = 1)
  /\ soc_fault' = (soc_fault /\ repeat_count[t] # 3)
  /\ last' = [last EXCEPT ![oc_reset_timer] = repeat_count[t]]
  /\ UNCHANGED <<output, thermal, oc_occurred, multitimers, locals,
                 consent>>

\* Callback of oc_reset_timer: reset line high, low, then the fault latch.
ResetCallback(t) ==
  /\ timer[t] = oc_reset_timer
  /\ Goto(t, "call", "return")
  /\ \/ /\ repeat_count[t] = 1
        /\ reset_pin' = TRUE
        /\ soc_fault' = soc_fault
     \/ /\ repeat_count[t] = 2
        /\ reset_pin' = FALSE
        /\ soc_fault' = soc_fault
     \/ /\ repeat_count[t] = 3
        /\ soc_fault' = FALSE
        /\ reset_pin' = reset_pin
  /\ last' = [last EXCEPT ![oc_reset_timer] = repeat_count[t]]
  /\ UNCHANGED <<output, thermal, oc_occurred, multitimers, locals,
                 consent>>

\* The handler or the lambda (with _mutex_give) returns.
Return(t) ==
  /\ Goto(t, "return", "idle")
  /\ holder' = [m \in Timers |-> IF holder[m] = t THEN None ELSE holder[m]]
  /\ timer' = [timer EXCEPT ![t] = None]
  /\ repeat_count' = [repeat_count EXCEPT ![t] = 0]
  /\ UNCHANGED <<hardware, thermal, oc_occurred, armed, count, history>>

\* A one-shot timer expires; the esp_timer task runs one lambda at a time.
Expire(m) ==
  /\ armed[m]
  /\ Goto(esp_timer, "idle", "take")
  /\ armed' = [armed EXCEPT ![m] = FALSE]
  /\ timer' = [timer EXCEPT ![esp_timer] = m]
  /\ UNCHANGED <<hardware, thermal, oc_occurred, holder, count, repeat_count,
                 history>>

(***************************************************************************)
(* HTTP commands.  The handler of one command runs to its end before the   *)
(* next one begins.                                                        *)
(***************************************************************************)

set_power_pwm_active(new_val) ==
  /\ "set_power_pwm_active" \in Commands
  /\ Goto(async_tcp, "idle", IF new_val THEN "check" ELSE "disable")
  /\ consent' = IF new_val /\ consent # "boot" THEN "wanted" ELSE consent
  /\ UNCHANGED <<hardware, thermal, oc_occurred, multitimers, locals, last>>

trigger_oneshot ==
  /\ "trigger_oneshot" \in Commands
  /\ Goto(async_tcp, "idle", "take")
  /\ timer' = [timer EXCEPT ![async_tcp] = power_output_timer]
  /\ consent' = IF consent = "boot" THEN "boot" ELSE "wanted"
  /\ UNCHANGED <<hardware, thermal, oc_occurred, multitimers, repeat_count,
                 last>>

\* First statement of clear_shutdown: the overtemperature flag.
clear_shutdown ==
  /\ "clear_shutdown" \in Commands
  /\ Goto(async_tcp, "idle", "evaluate")
  /\ hw_overtemp' = FALSE
  /\ consent' = IF output THEN "wanted" ELSE "cleared"
  /\ UNCHANGED <<hardware, too_hot, oc_occurred, multitimers, locals, last>>

\* Second: the sensors set the flag again.
ClearEvaluate ==
  /\ Goto(async_tcp, "evaluate", "branch")
  /\ hw_overtemp' = (hw_overtemp \/ too_hot)
  /\ UNCHANGED <<hardware, too_hot, oc_occurred, multitimers, locals, history>>

\* Third: the reset pulse is started if the polled flag says so.
ClearBranch ==
  /\ Goto(async_tcp, "branch", IF oc_occurred THEN "take" ELSE "return")
  /\ timer' = [timer EXCEPT ![async_tcp] =
                 IF oc_occurred THEN oc_reset_timer ELSE None]
  /\ UNCHANGED <<hardware, thermal, oc_occurred, multitimers, repeat_count,
                 history>>

\* set_temp_1_limit, set_temp_2_limit: a new limit for the same sensor value.
set_temp_limit ==
  /\ "set_temp_limit" \in Commands
  /\ pc[async_tcp] = "idle"
  /\ too_hot' \in BOOLEAN
  /\ UNCHANGED <<hardware, hw_overtemp, oc_occurred, multitimers, pc, locals,
                 history>>

(***************************************************************************)
(* The application event loop.                                             *)
(***************************************************************************)

\* async_tcp leaves the core: no request to handle, or waiting for a mutex.
AppTaskScheduled ==
  \/ ~OneCore
  \/ pc[async_tcp] = "idle"
  \/ pc[async_tcp] = "take" /\ holder[timer[async_tcp]] # None

\* _on_fast_timer_event_update_state: poll the fault latch ...
FastPoll ==
  /\ Goto(app_task, "idle", "sensors")
  /\ oc_occurred' = soc_fault
  /\ UNCHANGED <<hardware, thermal, multitimers, locals, history>>

\* ... and read the sensors.
FastSensors ==
  /\ Goto(app_task, "sensors", "idle")
  /\ too_hot' \in BOOLEAN
  /\ UNCHANGED <<hardware, hw_overtemp, oc_occurred, multitimers, locals,
                 history>>

\* _evaluate_temperature_sensors: the driver sets the flag ...
SlowEvaluate ==
  /\ Goto(app_task, "idle", "shutdown")
  /\ hw_overtemp' = (hw_overtemp \/ too_hot)
  /\ UNCHANGED <<hardware, too_hot, oc_occurred, multitimers, locals, history>>

\* ... the controller reads it again ...
SlowCheck ==
  /\ Goto(app_task, "shutdown", IF hw_overtemp THEN "disable" ELSE "idle")
  /\ UNCHANGED <<hardware, thermal, oc_occurred, multitimers, locals, history>>

\* Bug: the flag is reported but the output is left on.
SlowReport ==
  /\ Goto(app_task, "disable", "idle")
  /\ UNCHANGED <<hardware, thermal, oc_occurred, multitimers, locals, history>>

\* ... and disables the output.
SlowShutdown ==
  /\ Goto(app_task, "disable", "idle")
  /\ output' = FALSE
  /\ UNCHANGED <<soc_fault, reset_pin, thermal, oc_occurred, multitimers,
                 locals, history>>

(***************************************************************************)
(* Specification.                                                          *)
(***************************************************************************)
Running(t) ==
  \/ CheckOvertemp(t) \/ EnableOutput(t) \/ DisableOutput(t)
  \/ TakeAndCount(t) \/ PulseCallback(t) \/ ResetCallback(t)
  \/ Return(t)

Command ==
  \/ \E new_val \in BOOLEAN : set_power_pwm_active(new_val)
  \/ trigger_oneshot
  \/ clear_shutdown
  \/ set_temp_limit

Handler == ClearEvaluate \/ ClearBranch

EventLoop ==
  /\ AppTaskScheduled
  /\ FastPoll \/ FastSensors \/ SlowEvaluate \/ SlowCheck \/ SlowShutdown

Next ==
  \/ \E t \in {async_tcp, esp_timer} : Running(t)
  \/ \E m \in Timers : Expire(m)
  \/ Command
  \/ Handler
  \/ EventLoop
  \/ Overcurrent

Spec == Init /\ [][Next]_vars

(***************************************************************************)
(* Tasks that are runnable run, an armed timer expires, and the slow tick  *)
(* keeps coming.  Commands, overcurrents and fast ticks need not happen.   *)
(* An expired timer waits while the esp_timer task serves the other one,   *)
(* and a slow tick while the event loop serves a fast one, so both need    *)
(* strong fairness: the esp_timer service takes alarms in the order of     *)
(* their times, and the event loop handles all flags set in each round.    *)
(* Waiters for a FreeRTOS mutex are queued by priority and the esp_timer   *)
(* task has the highest one: it gets the mutex although the commands take  *)
(* it again and again.                                                     *)
(***************************************************************************)
FairSpec ==
  /\ Spec
  /\ \A t \in {async_tcp, esp_timer} : WF_vars(Running(t))
  /\ \A m \in Timers : SF_vars(Expire(m))
  /\ SF_vars(TakeAndCount(esp_timer))
  /\ WF_vars(Handler)
  /\ WF_vars(FastSensors)
  /\ SF_vars(SlowEvaluate) /\ WF_vars(SlowCheck) /\ WF_vars(SlowShutdown)

-----------------------------------------------------------------------------
(***************************************************************************)
(* Properties.                                                             *)
(***************************************************************************)

\* Every variable keeps its type, and no MultiTimer counts to more repeats than
\* it was attached with.
TypeOK ==
  /\ output \in BOOLEAN /\ soc_fault \in BOOLEAN /\ reset_pin \in BOOLEAN
  /\ hw_overtemp \in BOOLEAN /\ too_hot \in BOOLEAN /\ oc_occurred \in BOOLEAN
  /\ armed \in [Timers -> BOOLEAN]
  /\ holder \in [Timers -> {async_tcp, esp_timer, None}]
  /\ count \in [Timers -> 0 .. 2] /\ last \in [Timers -> 0 .. 3]
  /\ \A m \in Timers : count[m] < Repeats(m) /\ last[m] <= Repeats(m)
  /\ pc \in [Tasks -> {"idle", "check", "enable", "disable", "take", "call",
                       "return", "evaluate", "branch", "sensors", "shutdown"}]
  /\ timer \in [Tasks -> Timers \cup {None}]
  /\ repeat_count \in [Tasks -> 0 .. 3]
  /\ consent \in {"boot", "cleared", "wanted"}

\* After power-up nothing can switch the output on, neither a command nor
\* the one-shot pulse, before the operator has called clear_shutdown: the
\* overtemperature flag starts latched (app_state_model.hpp:37) and every
\* path to the output checks it (app_controller.cpp:172).
OffUntilFirstClear == consent = "boot" => ~output

\* The fault latch of the PWM module is only given up after the external
\* overcurrent detector got a complete reset pulse, line high and low again,
\* even if further clear_shutdown commands push the sequence on from another
\* task while it runs (app_controller.cpp:468-472).
FaultClearedAfterReset ==
  [][soc_fault /\ ~soc_fault' =>
       last[oc_reset_timer] = 2 /\ ~reset_pin]_vars

\* A one-shot pulse ends: whatever commands, faults and further triggers
\* interfere, once the pulse has begun the output is off at some later time
\* (app_controller.cpp:446-451).
PulseEnds == last[power_output_timer] = 1 ~> ~output

\* The external detector is never held in reset: the reset line goes low
\* again after every reset pulse (app_controller.cpp:478-481).
ResetLineReleased == reset_pin ~> ~reset_pin

\* The overtemperature shutdown wins in the end: with the flag latched the
\* output is switched off, or an operator has cleared the flag
\* (app_controller.cpp:555-562), although an activation that passed the check
\* earlier may still switch the output on after the shutdown.
OvertempShutsDown == hw_overtemp /\ output ~> ~output \/ ~hw_overtemp

\* app_controller.cpp:204 "The output is /not/ enabled again, it must be
\* re-enabled explicitly": after clear_shutdown found the output off, it
\* stays off until power is requested by a command.
NotReenabledByClear == consent = "cleared" => ~output
=============================================================================
