------------------------------- MODULE Views -------------------------------
(***************************************************************************)
(* The controls of the two views that operate the device                   *)
(* (vue_app/src/views/LiveController.vue and OperationSettings.vue), the   *)
(* routes to the views (router/index.js) and the client's state object     *)
(* with its default values (api/useApiStore.js).                           *)
(*                                                                         *)
(* A control is its widget, the action it emits, the field of the state it *)
(* displays and its limits.  A limit is a field, a property computed by    *)
(* the view, or a number.                                                  *)
(***************************************************************************)
EXTENDS Integers

CONSTANT MaxValue   \* bound: values are the steps 0 .. MaxValue of a scale

ASSUME ValueAssumption == MaxValue \in Nat /\ MaxValue > 2

Values == 0 .. MaxValue

LiveControl == "/app"
Settings == "/app/Settings"
NetworkUpdate == "/app/NetworkAndUpdate"
Tabs == {LiveControl, Settings, "/app/Documentation", NetworkUpdate}

Control(tab, kind, action, feedback, min, max) ==
  [tab |-> tab, kind |-> kind, action |-> action, feedback |-> feedback,
   min |-> min, max |-> max]

Switch(action, feedback) ==
  Control(LiveControl, "toggle", action, feedback, "0", "1")

\* Buttons and the indicator for a shutdown have a name and no feedback.
Button(tab, action) == Control(tab, "button", action, "", "0", "1")

\* LiveController: a setpoint with its number input, slider and dial.
Setpoint(action, feedback, min, max) ==
  {Control(LiveControl, kind, action, feedback, min, max) :
     kind \in {"number", "range", "dial"}}

HardwareStatus ==
  {Button(LiveControl, "clear_shutdown"), Switch("set_fan_override", "fan_override")}

Operation ==
  Setpoint("set_frequency", "frequency", "frequency_min", "frequency_max") \cup
  Setpoint("set_duty", "duty", "duty_min", "duty_max")

PowerOutputSwitches ==
  {Button(LiveControl, "set_power_pwm_active"),
   Switch("set_relay_ref_active", "relay_ref_active"),
   Switch("set_relay_dut_active", "relay_dut_active")}

IntervalTimer ==
  {Control(LiveControl, "number", "set_oneshot_len", "oneshot_len", "0", "1800"),
   Button(LiveControl, "trigger_oneshot")}

\* OperationSettings: number inputs and a button.
Setting(action, feedback, min, max) ==
  Control(Settings, "number", action, feedback, min, max)

LimitValues ==
  {Setting("set_temp_1_limit", "temp_1_limit", "0", "150"),
   Setting("set_temp_2_limit", "temp_2_limit", "0", "150"),
   Setting("set_frequency_min", "frequency_min", "frequency_min_hw", "frequency_max_hw"),
   Setting("set_frequency_max", "frequency_max", "frequency_min_hw", "frequency_max_hw"),
   Setting("set_duty_min", "duty_min", "0", "duty_max_hw"),
   Setting("set_duty_max", "duty_max", "0", "duty_max_hw"),
   Setting("set_current_limit", "current_limit", "0", "100")}

\* Bug: each dead time is limited by itself instead of by the other one.
DeadTimesSwapped ==
  {Setting("set_lead_dt", "lead_dt", "6", "lag_dt_max_hw"),
   Setting("set_lag_dt", "lag_dt", "6", "lead_dt_max_hw")}

DeadTimes ==
  {Setting("set_lead_dt", "lead_dt", "6", "lead_dt_max_hw"),
   Setting("set_lag_dt", "lag_dt", "6", "lag_dt_max_hw")}

Throttling ==
  {Setting("set_frequency_changerate", "frequency_changerate", "0.01", "1000"),
   Setting("set_duty_changerate", "duty_changerate", "0.1", "5000")}

PersistentStorage == {Button(Settings, "save_settings")}

Controls ==
  UNION {HardwareStatus, Operation, PowerOutputSwitches, IntervalTimer,
         LimitValues, DeadTimes, Throttling, PersistentStorage}

\* A limit of a control, when the state object is s.
LimitOf(name, s) ==
  CASE name = "lead_dt_max_hw" -> s.dt_sum_max_hw - s.lag_dt
    [] name = "lag_dt_max_hw" -> s.dt_sum_max_hw - s.lead_dt
    [] name \in DOMAIN s -> s[name]
    [] name = "0" -> 0
    [] name \in {"1", "6", "0.01", "0.1"} -> 1
    [] OTHER -> MaxValue

\* The properties a control is rendered with.
PropsOf(c, s) ==
  [feedback |-> IF c.kind = "button" THEN 0 ELSE s[c.feedback],
   min |-> LimitOf(c.min, s), max |-> LimitOf(c.max, s)]

\* The state object before the first message.
StateDefaults ==
  [frequency_min_hw |-> 0, frequency_max_hw |-> MaxValue, dt_sum_max_hw |-> MaxValue + 1,
   duty_max_hw |-> MaxValue, frequency_min |-> 1, frequency_max |-> 2,
   duty_min |-> 0, duty_max |-> 2, frequency |-> 2, frequency_changerate |-> 1,
   duty |-> 0, duty_changerate |-> 1, lead_dt |-> 2, lag_dt |-> 2,
   current_limit |-> 0, relay_ref_active |-> 0, relay_dut_active |-> 0,
   temp_1_limit |-> 1, temp_2_limit |-> 1, fan_override |-> 0, oneshot_len |-> 1]
=============================================================================
