------------------------- MODULE TemperatureSensor -------------------------
(***************************************************************************)
(* One temperature sensor channel: the ADC with its plain average          *)
(* (main/esp32_adc_channel.cpp), the moving average filter and the         *)
(* look-up-table interpolation (main/include/adc_filter_interpolation.hpp) *)
(* and the sensor (main/sensor_kty81_1xx.cpp), called by the fast tick     *)
(* through AuxHwDrv::update_temperature_sensors.                           *)
(*                                                                         *)
(* All steps are taken by the application event task.  The ADC runs in     *)
(* 12 bits mode, so its reading is not scaled.  Temperatures are computed  *)
(* exactly, as integer multiples of 1/(_in_fsr_top - _in_fsr_bot) of the   *)
(* unit of the table; float rounding is left out.                          *)
(***************************************************************************)
EXTENDS Integers, SequencesExt, FiniteSetsExt

CONSTANTS
  N,             \* filter_length
  RawSize,       \* values of a filter input, 1 << 16 for an uint16_t
  averaged_samples, \* conversions for one filter input
  Lut,           \* look-up-table of the sensor, rising
  _in_fsr_bot,   \* raw value of the first entry
  _in_fsr_top    \* raw value of the last entry

Raw == 0 .. RawSize - 1

\* The sum is an uint32_t, of twice the width of an input.
SumSize == RawSize * RawSize

\* static_assert(N <= 1<<16 ...) and assert(in_fsr_top > in_fsr_bot)
ASSUME FilterAssumption ==
  /\ RawSize \in Nat /\ N \in 1 .. RawSize
  /\ averaged_samples \in Nat \ {0}
  /\ Lut \in Seq(Int) /\ Len(Lut) > 1
  /\ \A i \in 1 .. Len(Lut) - 1 : Lut[i] < Lut[i + 1]
  /\ {_in_fsr_bot, _in_fsr_top} \subseteq Raw /\ _in_fsr_top > _in_fsr_bot

\* static_assert(... (N & (N-1)) == 0), and the same test of averaged_samples:
\* a shift by division_shift is a division.
ASSUME PowersOfTwo ==
  \A n \in {N, averaged_samples} : \E e \in 0 .. n : n = 2 ^ e

VARIABLES
  pc,              \* "update" or "get", the two calls of the fast tick
  current_index,
  input_buffer,
  result_sum,      \* modulo SumSize
  temp,            \* state.temp_1, scaled
  window           \* history: the last N acquisitions, the oldest first

vars == <<pc, current_index, input_buffer, result_sum, temp, window>>

-----------------------------------------------------------------------------
\* The sum of a sequence of numbers, by the sums of its prefixes.
SumOf(s) ==
  LET prefix[i \in 0 .. Len(s)] == IF i = 0 THEN 0 ELSE prefix[i - 1] + s[i]
  IN prefix[Len(s)]

\* Bug: the sum of the conversions is scaled for 11 bits, one shift short.
AveragedShiftedShort(samples) == SumOf(samples) \div (averaged_samples \div 2)

\* get_raw_averaged: the plain average of the conversions.
get_raw_averaged(samples) == SumOf(samples) \div averaged_samples

\* Bug: the rest of the division counts from the table's first interval on.
InterpolateRunningRest(x) ==
  LET d == _in_fsr_top - _in_fsr_bot
      n == (Len(Lut) - 1) * (x - _in_fsr_bot)
      start == Lut[n \div d + 1]
      end == Lut[n \div d + 2]
  IN CASE x <= _in_fsr_bot -> d * Lut[1]
       [] x >= _in_fsr_top -> d * Last(Lut)
       [] OTHER -> d * start + n * (end - start)

\* interpolate(x), scaled by the width of the input range.
interpolate(x) ==
  LET d == _in_fsr_top - _in_fsr_bot
      n == (Len(Lut) - 1) * (x - _in_fsr_bot)
      start == Lut[n \div d + 1]
      end == Lut[n \div d + 2]
  IN CASE x <= _in_fsr_bot -> d * Lut[1]
       [] x >= _in_fsr_top -> d * Last(Lut)
       [] OTHER -> d * start + (n % d) * (end - start)

\* get_result of the filter: the average, rounded down.
get_result(sum) == sum \div N

\* The ADC channel constructor fills the filter with a first reading.
Init ==
  /\ pc = "update"
  /\ current_index = 0
  /\ \E first \in Raw :
       /\ input_buffer = [i \in 0 .. N - 1 |-> first]
       /\ result_sum = (N * first) % SumSize
       /\ window = [i \in 1 .. N |-> first]
  /\ temp = interpolate(_in_fsr_top)   \* 150.0, the table's last entry

\* Bug: the value that leaves the filter is read after the index has moved.
AcquireIndexFirst(samples) ==
  LET value_in == get_raw_averaged(samples)
      next == (current_index + 1) % N
  IN /\ input_buffer' = [input_buffer EXCEPT ![current_index] = value_in]
     /\ current_index' = next
     /\ result_sum' =
          (result_sum + value_in - input_buffer[next]) % SumSize
     /\ window' = Append(Tail(window), value_in)

\* trigger_acquisition and input_data(value_in).
trigger_acquisition(samples) ==
  LET value_in == get_raw_averaged(samples)
      value_out == input_buffer[current_index]
  IN /\ input_buffer' = [input_buffer EXCEPT ![current_index] = value_in]
     /\ current_index' = (current_index + 1) % N
     /\ result_sum' = (result_sum + value_in - value_out) % SumSize
     /\ window' = Append(Tail(window), value_in)

\* update_filter.
UpdateFilter(samples) ==
  /\ pc = "update"
  /\ trigger_acquisition(samples)
  /\ pc' = "get"
  /\ UNCHANGED temp

\* get_temp_pwl: get_raw_filtered triggers a new acquisition by default.
GetTempPwl(samples) ==
  /\ pc = "get"
  /\ trigger_acquisition(samples)
  /\ temp' = interpolate(get_result(result_sum'))
  /\ pc' = "update"

Next ==
  \E samples \in [1 .. averaged_samples -> Raw] :
    UpdateFilter(samples) \/ GetTempPwl(samples)

Spec == Init /\ [][Next]_vars

-----------------------------------------------------------------------------
(***************************************************************************)
(* Properties.                                                             *)
(***************************************************************************)

\* Every variable keeps its type: the index stays inside the buffer.
TypeOK ==
  /\ pc \in {"update", "get"}
  /\ current_index \in 0 .. N - 1
  /\ input_buffer \in [0 .. N - 1 -> Raw]
  /\ result_sum \in 0 .. SumSize - 1
  /\ temp \in Int
  /\ window \in [1 .. N -> Raw]

\* The running sum, corrected by one value in and one value out at a time, in
\* an unsigned number of limited width, stays the sum of the last N readings
\* for ever: the result is their average, rounded down.  An error of a single
\* step would stay in the sum until the device is restarted.
FilterIsMean ==
  get_result(result_sum) = SumOf(window) \div N

\* A new temperature lies between those of the smallest and of the largest
\* reading in the window: neither the filter nor the steps between the
\* intervals of the table make the temperature leave the readings' range.
TemperatureWithinWindow ==
  [][temp' # temp =>
       /\ interpolate(Min(ToSet(window'))) <= temp'
       /\ temp' <= interpolate(Max(ToSet(window')))]_vars
=============================================================================
