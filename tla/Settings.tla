------------------------------ MODULE Settings ------------------------------
(***************************************************************************)
(* Saving the runtime settings to flash and restoring them at boot         *)
(* (main/app_controller.cpp, app_state_model.cpp, fs_io.cpp), with a power *)
(* loss possible at any time.                                              *)
(*                                                                         *)
(* The settings are represented by the duty, which is throttled and kept   *)
(* within duty_min and duty_max, by the length of the one-shot pulse,      *)
(* which is truncated to whole milliseconds when it is read back, and by   *)
(* the switch and the two limits, which stand for all that is read back    *)
(* as it was written.  (Numbers are scaled and printed; the floats among   *)
(* them come back equal but for rounding.)  Duties are small numbers and   *)
(* the ramp's increment is one; module SoftStart has the interleavings     *)
(* inside a step of the ramp.                                              *)
(***************************************************************************)
EXTENDS Naturals

CONSTANTS
  MaxDuty,
  DefaultMax,  \* initial duty_max
  InitDuty,    \* constants.init_ps_duty
  MaxPulse,    \* bound on the length of the pulse
  DefaultPulse \* constants.oneshot_power_pulse_length_ms

Duties == 0 .. MaxDuty
Pulses == 0 .. MaxPulse

\* The settings in RAM.  target is duty_target, pulse is
\* oneshot_power_pulse_length_ms.
Values == [throttling : BOOLEAN, min : Duties, max : Duties,
           target : Duties, pulse : Pulses]

\* The initial values in AppState.
Defaults == [throttling |-> TRUE, min |-> 0, max |-> DefaultMax,
             target |-> 0, pulse |-> DefaultPulse]

ASSUME DefaultsAssumption ==
         /\ MaxDuty \in Nat /\ {InitDuty, DefaultMax} \subseteq Duties
         /\ MaxPulse \in Nat /\ DefaultPulse \in Pulses

\* No settings.json, or one that was not written to its end.
NoFile == [state |-> "missing", json |-> Defaults]
Incomplete == [state |-> "incomplete", json |-> Defaults]
Whole(values) == [state |-> "whole", json |-> values]

VARIABLES
  settings,    \* the settings
  duty,        \* pspwm_setpoint->ps_duty
  file,        \* settings.json
  pc,          \* where the boot or save_settings is
  json,        \* json_buf of save_to_file
  saved,       \* history: those of the latest completed save; {} before
  undisturbed, \* history: no save has failed or was cut off after that one
  settled,     \* history: the ramp had arrived when that save was called
  fresh        \* history: no command since boot

ram == <<settings, duty, pc, json>>
history == <<saved, undisturbed, settled, fresh>>
vars == <<file, ram, history>>

Smaller(a, b) == IF a < b THEN a ELSE b
Larger(a, b) == IF a < b THEN b ELSE a

\* set_duty_percent: the target, for the limits at this time.
Limited(d, min, max) == Smaller(Larger(d, min), max)

\* What the length n may be after it was written in seconds and read back:
\* n * 1e-3f, printed, parsed, * 1e3f and truncated.  1009 becomes 1008.
Truncated(n) == {m \in Pulses : m = n \/ m + 1 = n}

Init ==
  /\ settings = Defaults
  /\ duty = InitDuty
  /\ file = NoFile
  /\ pc = "boot"
  /\ json = Defaults
  /\ saved = {}
  /\ undisturbed = TRUE
  /\ settled = TRUE
  /\ fresh = FALSE

(***************************************************************************)
(* restore_settings                                                        *)
(***************************************************************************)

\* restore_from_file: the settings are left alone if there is no file or the
\* JSON does not parse.
ReadBack ==
  IF file.state = "whole"
  THEN {[file.json EXCEPT !.pulse = n] : n \in Truncated(file.json.pulse)}
  ELSE {settings}

\* Bug: the duty is set before the limits are restored.
RestoreDutyFirst ==
  /\ pc = "boot" /\ pc' = "idle"
  /\ \E new \in ReadBack :
       LET target == Limited(new.target, settings.min, settings.max)
       IN /\ settings' = [new EXCEPT !.target = target]
          /\ duty' = IF new.throttling THEN duty ELSE target
  /\ fresh' = TRUE
  /\ UNCHANGED <<file, json, saved, undisturbed, settled>>

\* Bug: a file that does not parse is used as well, missing keys are zero.
RestoreAnything ==
  /\ pc = "boot" /\ pc' = "idle"
  /\ LET zero == [throttling |-> FALSE, min |-> 0, max |-> 0,
                  target |-> 0, pulse |-> 0]
         new == IF file.state = "whole" THEN file.json
                ELSE IF file.state = "incomplete" THEN zero ELSE settings
         target == Limited(new.target, new.min, new.max)
     IN /\ settings' = [new EXCEPT !.target = target]
        /\ duty' = IF new.throttling THEN duty ELSE target
  /\ fresh' = TRUE
  /\ UNCHANGED <<file, json, saved, undisturbed, settled>>

\* The settings are read, then the setters run.
RestoreSettings ==
  /\ pc = "boot" /\ pc' = "idle"
  /\ \E new \in ReadBack :
       LET target == Limited(new.target, new.min, new.max)
       IN /\ settings' = [new EXCEPT !.target = target]
          /\ duty' = IF new.throttling THEN duty ELSE target
  /\ fresh' = TRUE
  /\ UNCHANGED <<file, json, saved, undisturbed, settled>>

(***************************************************************************)
(* HTTP commands, in async_tcp one after the other.                        *)
(***************************************************************************)
Set(new) ==
  /\ pc = "idle"
  /\ settings' = new
  /\ fresh' = FALSE
  /\ UNCHANGED <<file, pc, json, saved, undisturbed, settled>>

set_setpoint_throttling_enabled(new_val) ==
  /\ Set([settings EXCEPT !.throttling = new_val])
  /\ duty' = duty

set_duty_min_percent(d) ==
  Set([settings EXCEPT !.min = d]) /\ duty' = duty

set_duty_max_percent(d) ==
  Set([settings EXCEPT !.max = d]) /\ duty' = duty

set_duty_percent(d) ==
  LET target == Limited(d, settings.min, settings.max)
  IN /\ Set([settings EXCEPT !.target = target])
     /\ duty' = IF settings.throttling THEN duty ELSE target

set_oneshot_len(n) ==
  Set([settings EXCEPT !.pulse = n]) /\ duty' = duty

\* set_power_pwm_active(true) starts the ramp at zero.
PowerOn ==
  /\ Set(settings)
  /\ duty' = IF settings.throttling THEN 0 ELSE duty

(***************************************************************************)
(* save_settings: serialize_full_state writes the duty of the moment, then *)
(* write_to_file_uint8 opens the file, which truncates it, and writes.     *)
(***************************************************************************)
SaveSettings ==
  /\ pc = "idle" /\ pc' = "open"
  /\ json' = [settings EXCEPT !.target = duty]
  /\ fresh' = FALSE
  /\ UNCHANGED <<settings, duty, file, saved, undisturbed, settled>>

OpenFile ==
  /\ pc = "open" /\ pc' = "write"
  /\ file' = Incomplete
  /\ undisturbed' = FALSE
  /\ UNCHANGED <<settings, duty, json, saved, settled, fresh>>

WriteFile ==
  /\ pc = "write" /\ pc' = "idle"
  /\ file' = Whole(json)
  /\ saved' = {settings}
  /\ undisturbed' = TRUE
  /\ settled' = (json.target = settings.target)
  /\ json' = Defaults
  /\ UNCHANGED <<settings, duty, fresh>>

\* Less was written than wanted: an error is logged.
WriteFails ==
  /\ pc = "write" /\ pc' = "idle"
  /\ json' = Defaults
  /\ UNCHANGED <<file, settings, duty, history>>

(***************************************************************************)
(* The rest of the system.                                                 *)
(***************************************************************************)

\* Bug: the step is not limited to what is left.
ThrottleAlways ==
  /\ pc # "boot"
  /\ settings.throttling
  /\ duty' = IF duty < settings.target THEN duty + 1 ELSE duty - 1
  /\ UNCHANGED <<file, settings, pc, json, history>>

\* Fast tick of the event loop: one step of the ramp.
Throttle ==
  /\ pc # "boot"
  /\ settings.throttling
  /\ duty # settings.target
  /\ duty' = IF duty < settings.target THEN duty + 1 ELSE duty - 1
  /\ UNCHANGED <<file, settings, pc, json, history>>

\* The RAM gets its initial values, the file stays as it is.
PowerLoss ==
  /\ settings' = Defaults
  /\ duty' = InitDuty
  /\ pc' = "boot"
  /\ json' = Defaults
  /\ fresh' = FALSE
  /\ UNCHANGED <<file, saved, undisturbed, settled>>

Command ==
  \/ \E new_val \in BOOLEAN : set_setpoint_throttling_enabled(new_val)
  \/ \E d \in Duties : \/ set_duty_min_percent(d) \/ set_duty_max_percent(d)
                       \/ set_duty_percent(d)
  \/ \E n \in Pulses : set_oneshot_len(n)
  \/ PowerOn
  \/ SaveSettings

Next ==
  \/ RestoreSettings
  \/ Command
  \/ OpenFile \/ WriteFile \/ WriteFails
  \/ Throttle
  \/ PowerLoss

Spec == Init /\ [][Next]_vars

-----------------------------------------------------------------------------
(***************************************************************************)
(* Properties.                                                             *)
(***************************************************************************)

\* Every variable keeps its type.
TypeOK ==
  /\ {settings, json} \subseteq Values
  /\ duty \in Duties
  /\ file \in {NoFile, Incomplete} \cup {Whole(v) : v \in Values}
  /\ saved \in {{}} \cup {{v} : v \in Values}
  /\ pc \in {"boot", "idle", "open", "write"}
  /\ {undisturbed, settled, fresh} \subseteq BOOLEAN

\* A boot never comes up with a mixture: whatever saves were cut off or
\* failed, the settings other than the duty are all those of the latest
\* completed save, the length of the pulse at most one less, or all the
\* defaults (app_state_model.cpp:94-98).
RestoredWhole ==
  fresh =>
    \E source \in saved \cup {Defaults} :
      /\ settings = [source EXCEPT !.target = settings.target,
                                   !.pulse = settings.pulse]
      /\ settings.pulse \in Truncated(source.pulse)

\* What was saved with the ramp at its target and the target inside of the
\* limits comes back, if no later save was cut off or failed: the serialised
\* duty, the order of the setters and their limiting agree.  Only the length
\* of the pulse may be one less than it was, never more than that
\* (app_state_model.cpp:42, 77, 112, 126, app_controller.cpp:263-269).
SettledRoundTrip ==
  \A v \in saved :
    fresh /\ undisturbed /\ settled
      /\ v.target = Limited(v.target, v.min, v.max)
    => /\ settings = [v EXCEPT !.pulse = settings.pulse]
       /\ settings.pulse \in Truncated(v.pulse)
=============================================================================
