----------------------------- MODULE FanControl -----------------------------
(***************************************************************************)
(* The temperature sensors, the fan and its manual override                *)
(* (main/aux_hw_drv.cpp).  AuxHwDrv has no lock.  The application event    *)
(* loop updates and evaluates the sensors in app_task; the HTTP handlers   *)
(* set_fan_override and clear_shutdown run in async_tcp, which shares the  *)
(* core with app_task and has the higher priority: a handler may preempt   *)
(* app_task between any two accesses and then runs to its end, so it is    *)
(* one step here, and each access of app_task is a step.                   *)
(*                                                                         *)
(* A temperature is a band: "cold" is below the fan's lower threshold,     *)
(* "hot" is at or above the upper one and "mild" is in between.            *)
(***************************************************************************)
EXTENDS Naturals

VARIABLES
  temp,          \* band of temp_1 and temp_2
  fan_active, fan_override,
  gpio_fan,      \* level of the fan's output pin
  pc,            \* where app_task is
  fan_new,       \* app_task's local variable fan_active
  overtaken      \* history: a handler wrote state and pin between app_task's
                 \*   writes of the two, and they were not written since

state == <<temp, fan_active, fan_override>>
outputs == <<gpio_fan, overtaken>>
vars == <<state, outputs, pc, fan_new>>

Bands == {"cold", "mild", "hot"}
Sensors == {1, 2}

\* The condition that turns the fan on, and the one that turns it off.
Demand(t, override) == (\E s \in Sensors : t[s] = "hot") \/ override
Cool(t) == \A s \in Sensors : t[s] = "cold"

\* evaluate_temperature_sensors without its shutdown flag, run in one piece.
Evaluated(t, override, active) ==
  \/ Demand(t, override)
  \/ active /\ ~Cool(t)

(***************************************************************************)
(* begin() has restored the settings and evaluated the sensors once; the   *)
(* fan was on before.                                                      *)
(***************************************************************************)
Init ==
  /\ temp \in [Sensors -> Bands]
  /\ fan_override \in BOOLEAN
  /\ fan_active = Evaluated(temp, fan_override, TRUE)
  /\ gpio_fan = fan_active
  /\ pc = "idle"
  /\ fan_new = FALSE
  /\ overtaken = FALSE

Goto(from, to) == pc = from /\ pc' = to

(***************************************************************************)
(* HTTP handlers in async_tcp.                                             *)
(***************************************************************************)

\* Whether app_task still has another level to write to the pin.
Overtakes(level) == pc = "pin" /\ fan_new # level

\* set_fan_override: true switches the fan on at once.
set_fan_override(new_state) ==
  /\ fan_override' = new_state
  /\ fan_active' = (fan_active \/ new_state)
  /\ gpio_fan' = (gpio_fan \/ new_state)
  /\ overtaken' = IF new_state THEN Overtakes(TRUE) ELSE overtaken
  /\ UNCHANGED <<temp, pc, fan_new>>

\* The part of clear_shutdown that concerns the fan: it evaluates the
\* sensors and writes the pin if the state differs.
clear_shutdown ==
  LET on == Evaluated(temp, fan_override, fan_active)
  IN /\ fan_active' = on
     /\ gpio_fan' = IF on # fan_active THEN on ELSE gpio_fan
     /\ overtaken' = IF on # fan_active THEN Overtakes(on) ELSE overtaken
     /\ UNCHANGED <<temp, fan_override, pc, fan_new>>

(***************************************************************************)
(* Fast tick: update_temperature_sensors, one sensor after the other.      *)
(***************************************************************************)

UpdateSensor(s) ==
  /\ \/ s = 1 /\ Goto("idle", "temp_2")
     \/ s = 2 /\ Goto("temp_2", "idle")
  /\ \E band \in Bands : temp' = [temp EXCEPT ![s] = band]
  /\ UNCHANGED <<fan_active, fan_override, outputs, fan_new>>

(***************************************************************************)
(* Slow tick: evaluate_temperature_sensors.                                *)
(***************************************************************************)

\* auto fan_active = state.fan_active
LoadFan ==
  /\ Goto("idle", "decide")
  /\ fan_new' = fan_active
  /\ UNCHANGED <<state, outputs>>

\* Bug: the band between the thresholds counts as cool.
DecideWithoutHysteresis ==
  /\ Goto("decide", "compare")
  /\ fan_new' = Demand(temp, fan_override)
  /\ UNCHANGED <<state, outputs>>

\* Bug: both sensors have to be hot.
DecideOnBoth ==
  /\ Goto("decide", "compare")
  /\ fan_new' = \/ (\A s \in Sensors : temp[s] = "hot") \/ fan_override
                \/ fan_new /\ (\E s \in Sensors : temp[s] = "mild")
  /\ UNCHANGED <<state, outputs>>

\* Only app_task writes the temperatures, so one step reads them all.
DecideFan ==
  /\ Goto("decide", "compare")
  /\ fan_new' = Evaluated(temp, fan_override, fan_new)
  /\ UNCHANGED <<state, outputs>>

\* if (fan_active != state.fan_active)
CompareFan ==
  /\ Goto("compare", IF fan_new # fan_active THEN "set" ELSE "idle")
  /\ UNCHANGED <<state, outputs, fan_new>>

\* set_fan_active, first the state and then the pin.
SetFanState ==
  /\ Goto("set", "pin")
  /\ fan_active' = fan_new
  /\ overtaken' = FALSE
  /\ UNCHANGED <<temp, fan_override, gpio_fan, fan_new>>

\* Bug: the new level is set only if it switches the fan on.
SetFanPinHighOnly ==
  /\ Goto("pin", "idle")
  /\ gpio_fan' = (gpio_fan \/ fan_new)
  /\ UNCHANGED <<state, fan_new, overtaken>>

SetFanPin ==
  /\ Goto("pin", "idle")
  /\ gpio_fan' = fan_new
  /\ UNCHANGED <<state, fan_new, overtaken>>

Handler ==
  \/ \E new_state \in BOOLEAN : set_fan_override(new_state)
  \/ clear_shutdown

SlowTick == LoadFan \/ DecideFan \/ CompareFan \/ SetFanState \/ SetFanPin

Next ==
  \/ Handler
  \/ \E s \in Sensors : UpdateSensor(s)
  \/ SlowTick

Spec == Init /\ [][Next]_vars

(***************************************************************************)
(* The slow tick comes again and again although fast ticks occupy the      *)
(* event loop in between, and the event loop is not stuck in a tick.       *)
(***************************************************************************)
FairSpec ==
  /\ Spec
  /\ SF_vars(LoadFan)
  /\ WF_vars(DecideFan \/ CompareFan \/ SetFanState \/ SetFanPin)
  /\ WF_vars(UpdateSensor(2))

-----------------------------------------------------------------------------
(***************************************************************************)
(* Properties.                                                             *)
(***************************************************************************)

\* Every variable keeps its type.
TypeOK ==
  /\ temp \in [Sensors -> Bands]
  /\ {fan_active, fan_override, gpio_fan, fan_new, overtaken} \subseteq BOOLEAN
  /\ pc \in {"idle", "temp_2", "decide", "compare", "set", "pin"}

\* The fan's pin never goes low while a sensor is hot, although a tick takes
\* several steps from its readings to the pin and handlers evaluate the same
\* sensors in between (aux_hw_drv.cpp:131-148).
NotStoppedWhenHot ==
  [][gpio_fan /\ ~gpio_fan' => \A s \in Sensors : temp[s] # "hot"]_vars

\* A hot sensor or the override switches the fan on in the end, state and pin,
\* even when a tick was decided on older readings and switched it off after
\* the override came in; and it goes off after both sensors have become cold
\* and the override is off (aux_hw_drv.cpp:136-147).  The pin is excused for
\* one reason only, a handler that came between the tick's writes of the two:
\* as the pin is only written when the state changes, it may then stay the
\* wrong way, as OverrideMeansOn shows.
FanFollows ==
  /\ Demand(temp, fan_override) ~>
       \/ fan_active /\ (gpio_fan \/ overtaken)
       \/ ~Demand(temp, fan_override)
  /\ Cool(temp) /\ ~fan_override ~>
       \/ ~fan_active /\ (~gpio_fan \/ overtaken)
       \/ ~Cool(temp) \/ fan_override

\* No chatter: once the sensors no longer become cold both and the override
\* stays off, the fan's state changes to on at most, and then stays on however
\* often the sensors cross the upper threshold: the two thresholds work as a
\* hysteresis (aux_hw_drv.cpp:136-144).
NoChatter ==
  <>[](~Cool(temp) /\ ~fan_override) => <>[]fan_active \/ <>[]~fan_active

\* app_state_model.hpp:32 "Manual override, fan is permanently "on" when
\* true": with the override on, the fan's pin is high or becomes high.
OverrideMeansOn ==
  fan_override ~> gpio_fan \/ ~fan_override
=============================================================================
