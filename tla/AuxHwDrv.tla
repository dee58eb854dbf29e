------------------------------ MODULE AuxHwDrv ------------------------------
(***************************************************************************)
(* The driver for the auxiliary hardware (main/aux_hw_drv.cpp): sensor 1   *)
(* as a whole channel, TemperatureSensor, and the fan that follows it,     *)
(* FanControl.  The event loop takes the steps of both, so a fast tick and *)
(* an evaluation never overlap; the handlers come in between any two.      *)
(* The fan sees the temperature as a band between its thresholds.  Sensor  *)
(* 2 is a second channel with readings of its own and only its band is     *)
(* kept.                                                                   *)
(***************************************************************************)
EXTENDS TemperatureSensor

CONSTANTS
  temp_1_fan_threshold_lo,   \* aux_hw_conf, in units of the table
  temp_1_fan_threshold_hi

ASSUME ThresholdAssumption ==
  /\ temp_1_fan_threshold_lo \in Int /\ temp_1_fan_threshold_hi \in Int
  /\ temp_1_fan_threshold_lo < temp_1_fan_threshold_hi

VARIABLES
  band_2,                    \* band of temp_2
  fan_active, fan_override, gpio_fan,
  fan_pc, fan_new,           \* where the event loop is, and its local
  overtaken                  \* history, see FanControl

fan == <<fan_active, fan_override, gpio_fan, fan_new, overtaken>>
auxVars == <<vars, band_2, fan_pc, fan>>

Band(t) ==
  LET d == _in_fsr_top - _in_fsr_bot
  IN CASE t >= d * temp_1_fan_threshold_hi -> "hot"
       [] t < d * temp_1_fan_threshold_lo -> "cold"
       [] OTHER -> "mild"

Fan == INSTANCE FanControl WITH
         temp <- <<Band(temp), band_2>>, pc <- fan_pc

AuxInit ==
  /\ Init
  /\ band_2 \in Fan!Bands
  /\ Fan!Init

\* update_temperature_sensors, the filters of both sensors.
UpdateFilters ==
  /\ fan_pc = "idle"
  /\ \E samples \in [1 .. averaged_samples -> Raw] : UpdateFilter(samples)
  /\ UNCHANGED <<band_2, fan_pc, fan>>

\* state.temp_1 = sensor_temp_1.get_temp_pwl()
StoreTemp1 ==
  /\ \E samples \in [1 .. averaged_samples -> Raw] : GetTempPwl(samples)
  /\ UNCHANGED band_2
  /\ Fan!UpdateSensor(1)

\* state.temp_2 = sensor_temp_2.get_temp_pwl()
StoreTemp2 ==
  /\ UNCHANGED vars
  /\ band_2' \in Fan!Bands
  /\ Fan!UpdateSensor(2)

\* An evaluation begins between two fast ticks only.
SlowTick ==
  /\ pc = "update"
  /\ UNCHANGED <<vars, band_2>>
  /\ Fan!SlowTick

\* The HTTP handlers, at any time.
Handler ==
  /\ UNCHANGED <<vars, band_2>>
  /\ Fan!Handler

AuxNext ==
  \/ UpdateFilters
  \/ StoreTemp1
  \/ StoreTemp2
  \/ SlowTick
  \/ Handler

AuxSpec == AuxInit /\ [][AuxNext]_auxVars

(***************************************************************************)
(* The event loop finishes a tick it has begun, and the slow tick comes    *)
(* again and again although fast ticks occupy the loop in between: their   *)
(* event bits stay set until they are served.  No handler has to come.     *)
(***************************************************************************)
FairSpec ==
  /\ AuxSpec
  /\ WF_auxVars(StoreTemp1 \/ StoreTemp2)
  /\ SF_auxVars(SlowTick /\ fan_pc = "idle")
  /\ WF_auxVars(SlowTick /\ fan_pc # "idle")

-----------------------------------------------------------------------------
(***************************************************************************)
(* Properties; FilterIsMean and TemperatureWithinWindow come with the      *)
(* sensor.                                                                 *)
(***************************************************************************)

\* Every variable of the channel and of the fan keeps its type.
AuxTypeOK ==
  /\ TypeOK
  /\ Fan!TypeOK

\* The fan's pin never goes low while a sensor is hot (FanControl).
NotStoppedWhenHot == Fan!NotStoppedWhenHot

\* The fan's state and, unless a handler came between the writes of the two,
\* its pin follow the sensors and the override in the end (FanControl).
FanFollows == Fan!FanFollows

\* No chatter inside the hysteresis (FanControl), with the temperatures that
\* the averaged and filtered readings really produce.
NoChatter == Fan!NoChatter
=============================================================================
