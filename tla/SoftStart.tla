----------------------------- MODULE SoftStart -----------------------------
(***************************************************************************)
(* Setpoint throttling, the soft-start feature (main/app_controller.cpp):  *)
(* with throttling enabled a new duty setpoint is only a target, which the *)
(* fast tick of the event loop approaches by one increment at a time, and  *)
(* switching the output on starts the ramp at zero.  The frequency         *)
(* setpoint is throttled by the same code, without the restart at zero.    *)
(*                                                                         *)
(* The HTTP handlers run in async_tcp, which shares the core with app_task *)
(* and has the higher priority: a handler may preempt the tick between any *)
(* two of its accesses and is one step here, a tick is several.            *)
(*                                                                         *)
(* Duties and increments are small integers; the user's limits may be      *)
(* changed at any time, so a target is any number in range.  The change    *)
(* rate is checked nowhere: the views keep it positive, but an emptied     *)
(* field sends 0 and another client may send a negative rate, with which   *)
(* every tick leads away from the target.                                  *)
(***************************************************************************)
EXTENDS Integers

CONSTANTS
  MaxDuty,      \* the largest duty
  InitDuty,     \* constants.init_ps_duty
  MaxIncrement, \* bound of the change rate in both directions
  MaxDecrement,
  Runaway       \* bound: how far out of range a negative rate is followed

ASSUME DutyAssumption ==
         MaxDuty \in Nat /\ InitDuty \in 0 .. MaxDuty /\ Runaway \in Nat
ASSUME IncrementsAssumption == MaxIncrement \in Nat /\ MaxDecrement \in Nat

Duties == 0 .. MaxDuty
Increments == -MaxDecrement .. MaxIncrement

VARIABLES
  setpoint_throttling_enabled,
  duty_target,
  duty_increment,
  ps_duty,      \* pspwm_setpoint->ps_duty
  pwm_duty,     \* duty the PWM hardware runs with
  ramp_pc,      \* where app_task is in the fast tick
  x_target, x_increment, \* arguments of throttle_value
  dx,           \* its local: what is left to the target
  x,            \* the register *x_current is in
  n,            \* argument of _set_duty_raw in app_task
  backwards     \* history: a negative change rate was set

settings == <<setpoint_throttling_enabled, duty_target, duty_increment,
              backwards>>
hardware == <<ps_duty, pwm_duty>>
tick == <<ramp_pc, x_target, x_increment, dx, x, n>>
rampVars == <<settings, hardware, tick>>

Smaller(a, b) == IF a < b THEN a ELSE b
Larger(a, b) == IF a < b THEN b ELSE a

\* A float goes on and on; the model stops at the bound.
Capped(v) == Larger(-Runaway, Smaller(v, MaxDuty + Runaway))

\* Bug: the way down takes the increment without its sign.
StepUpwardsOnly(left, increment) ==
  IF left > 0 THEN Smaller(left, increment) ELSE Larger(left, increment)

\* throttle_value: what is added to *x_current.
Step(left, increment) ==
  IF left > 0 THEN Smaller(left, increment) ELSE Larger(left, -increment)

(***************************************************************************)
(* begin() has restored the settings: without throttling the duty has been *)
(* set to the target, with it the ramp begins at the driver's value.       *)
(***************************************************************************)
RampInit ==
  /\ setpoint_throttling_enabled \in BOOLEAN
  /\ duty_target \in Duties
  /\ duty_increment \in Increments
  /\ backwards = (duty_increment < 0)
  /\ ps_duty = IF setpoint_throttling_enabled THEN InitDuty ELSE duty_target
  /\ pwm_duty = ps_duty
  /\ ramp_pc = "idle"
  /\ x_target = 0
  /\ x_increment = 0
  /\ dx = 0
  /\ x = 0
  /\ n = 0

(***************************************************************************)
(* HTTP handlers.                                                          *)
(***************************************************************************)
set_setpoint_throttling_enabled(new_val) ==
  /\ setpoint_throttling_enabled' = new_val
  /\ UNCHANGED <<duty_target, duty_increment, backwards, hardware, tick>>

\* set_duty_percent: a target, or set at once without throttling.
set_duty_percent(d) ==
  /\ duty_target' = d
  /\ \/ setpoint_throttling_enabled /\ UNCHANGED hardware
     \/ ~setpoint_throttling_enabled /\ ps_duty' = d /\ pwm_duty' = d
  /\ UNCHANGED <<setpoint_throttling_enabled, duty_increment, backwards,
                 tick>>

\* set_duty_changerate_percent_sec: any number is stored.
set_duty_changerate_percent_sec(i) ==
  /\ duty_increment' = i
  /\ backwards' = (backwards \/ i < 0)
  /\ UNCHANGED <<setpoint_throttling_enabled, duty_target, hardware, tick>>

\* set_power_pwm_active(true), not refused for overtemperature: the ramp
\* starts at zero.  What becomes of the output itself is in PowerOutput.
set_power_pwm_active ==
  /\ setpoint_throttling_enabled
  /\ ps_duty' = 0
  /\ pwm_duty' = 0
  /\ UNCHANGED <<settings, tick>>

(***************************************************************************)
(* Fast tick in app_task.  A local that is dead is 0.                      *)
(***************************************************************************)
Goto(from, to) == ramp_pc = from /\ ramp_pc' = to

\* The arguments of throttle_value.
TickBegin ==
  /\ setpoint_throttling_enabled
  /\ Goto("idle", "load")
  /\ x_target' = duty_target
  /\ x_increment' = duty_increment
  /\ UNCHANGED <<settings, hardware, dx, x, n>>

\* auto dx = x_target - *x_current; with dx == 0 there is nothing to do.
TickLoad ==
  /\ \/ /\ x_target = ps_duty
        /\ Goto("load", "idle")
        /\ x_increment' = 0
        /\ UNCHANGED <<dx, x>>
     \/ /\ x_target # ps_duty
        /\ Goto("load", "reload")
        /\ dx' = x_target - ps_duty
        /\ x' = ps_duty
        /\ UNCHANGED x_increment
  /\ x_target' = 0
  /\ UNCHANGED <<settings, hardware, n>>

\* *x_current += ...: the build loads the value again or has kept it in a
\* register.
TickReload ==
  /\ Goto("reload", "store")
  /\ x' \in {x, ps_duty}
  /\ UNCHANGED <<settings, hardware, x_target, x_increment, dx, n>>

TickStore ==
  /\ Goto("store", "argument")
  /\ ps_duty' = Capped(x + Step(dx, x_increment))
  /\ x_increment' = 0
  /\ dx' = 0
  /\ x' = 0
  /\ UNCHANGED <<settings, pwm_duty, x_target, n>>

\* _set_duty_raw(state.pspwm_setpoint->ps_duty): the argument ...
TickArgument ==
  /\ Goto("argument", "set")
  /\ n' = ps_duty
  /\ UNCHANGED <<settings, hardware, x_target, x_increment, dx, x>>

\* Bug: the new duty never gets to the hardware.
TickSetNothing ==
  /\ Goto("set", "idle")
  /\ ps_duty' = n
  /\ n' = 0
  /\ UNCHANGED <<settings, pwm_duty, x_target, x_increment, dx, x>>

\* ... and pspwm_set_ps_duty.  The driver, which is not part of the
\* repository, may refuse a duty out of range.
TickSet ==
  /\ Goto("set", "idle")
  /\ \/ ps_duty' = n /\ pwm_duty' = n
     \/ n \notin Duties /\ UNCHANGED hardware
  /\ n' = 0
  /\ UNCHANGED <<settings, x_target, x_increment, dx, x>>

Command ==
  \/ \E new_val \in BOOLEAN : set_setpoint_throttling_enabled(new_val)
  \/ \E d \in Duties : set_duty_percent(d)
  \/ \E i \in Increments : set_duty_changerate_percent_sec(i)
  \/ set_power_pwm_active

FastTick == TickBegin \/ TickLoad \/ TickReload \/ TickStore
              \/ TickArgument \/ TickSet

RampNext == Command \/ FastTick

RampSpec == RampInit /\ [][RampNext]_rampVars

\* The fast tick keeps coming; async_tcp leaves the core again and again.
RampFairSpec == RampSpec /\ WF_rampVars(FastTick)

-----------------------------------------------------------------------------
(***************************************************************************)
(* Properties.                                                             *)
(***************************************************************************)

\* The duties a ramp can get to that was never told to go backwards.
NearDuties == -MaxIncrement .. MaxDuty + MaxIncrement

\* Every variable keeps its type, and no sequence of ticks and handlers takes
\* the duty more than one increment out of the range of the targets, unless a
\* negative rate was set.  One increment it may: throttle_value reads
\* *x_current twice, and a handler that sets the duty in between makes it add
\* a difference to a value the difference was not taken from
\* (app_controller.cpp:590-599).
RampTypeOK ==
  /\ {setpoint_throttling_enabled, backwards} \subseteq BOOLEAN
  /\ {duty_target, x_target} \subseteq Duties
  /\ {duty_increment, x_increment} \subseteq Increments
  /\ {ps_duty, pwm_duty, dx, x, n} \subseteq Int
  /\ ramp_pc \in {"idle", "load", "reload", "store", "argument", "set"}
  /\ ~backwards => {ps_duty, pwm_duty, n} \subseteq NearDuties

\* The ramp arrives: when the commands end, whatever they did to a tick in
\* progress, the setpoint and the hardware get to the target and stay there
\* if throttling is on with a positive rate (app_controller.cpp:537-543).
Settles ==
  <>[][FastTick]_rampVars =>
    <>[](setpoint_throttling_enabled /\ duty_increment > 0 =>
           ps_duty = duty_target /\ pwm_duty = duty_target)
=============================================================================
