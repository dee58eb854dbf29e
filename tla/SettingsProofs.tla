--------------------------- MODULE SettingsProofs ---------------------------
(***************************************************************************)
(* Theorems about Settings, for every range of duties and of pulses.       *)
(*                                                                         *)
(* The settings do not change while a save is under way, so the buffer and *)
(* then the file hold them all but for the duty; a file that is not whole  *)
(* is never read (FileInv).  What a boot made of it, with the length of    *)
(* the pulse truncated once, stays until the first command (RestoredInv,   *)
(* RoundTripInv).                                                          *)
(***************************************************************************)
EXTENDS Settings, TLAPS

USE DefaultsAssumption

SettingsTypes ==
  /\ settings \in Values /\ json \in Values
  /\ duty \in Duties

FileTypes ==
  /\ file \in {NoFile, Incomplete} \cup {Whole(v) : v \in Values}
  /\ saved \in {{}} \cup {{v} : v \in Values}

FlagTypes ==
  /\ pc \in {"boot", "idle", "open", "write"}
  /\ undisturbed \in BOOLEAN /\ settled \in BOOLEAN /\ fresh \in BOOLEAN

\* Two settings that differ in the duty at most.
SameButDuty(a, b) == a = [b EXCEPT !.target = a.target]

\* a is b as read back: the pulse may be one shorter.
ButPulse(a, b) ==
  /\ a = [b EXCEPT !.pulse = a.pulse]
  /\ a.pulse \in Truncated(b.pulse)

\* As read back, and with another duty.
ReadFrom(a, b) ==
  /\ a = [b EXCEPT !.target = a.target, !.pulse = a.pulse]
  /\ a.pulse \in Truncated(b.pulse)

FileInv ==
  /\ pc = "boot" => settings = Defaults
  /\ fresh => pc = "idle"
  /\ pc \in {"open", "write"} => SameButDuty(json, settings)
  /\ file.state = "whole" => \E v \in saved : SameButDuty(file.json, v)

RestoredInv ==
  fresh => \E source \in saved \cup {Defaults} : ReadFrom(settings, source)

RoundTripInv ==
  \A v \in saved :
    /\ undisturbed /\ settled => file = Whole(v)
    /\ fresh /\ undisturbed /\ settled
         /\ v.target = Limited(v.target, v.min, v.max)
       => ButPulse(settings, v)

Inv ==
  /\ SettingsTypes /\ FileTypes /\ FlagTypes
  /\ FileInv /\ RestoredInv /\ RoundTripInv

LEMMA DefaultsAreValues == Defaults \in Values /\ InitDuty \in Duties
<1>1. 0 \in Duties /\ DefaultMax \in Duties /\ InitDuty \in Duties
  BY DEF Duties
<1>2. QED
  BY <1>1 DEF Defaults, Values

LEMMA Updates ==
  ASSUME NEW v \in Values
  PROVE  /\ \A b \in BOOLEAN : [v EXCEPT !.throttling = b] \in Values
         /\ \A d \in Duties : /\ [v EXCEPT !.min = d] \in Values
                              /\ [v EXCEPT !.max = d] \in Values
                              /\ [v EXCEPT !.target = d] \in Values
         /\ \A n \in Pulses : [v EXCEPT !.pulse = n] \in Values
         /\ v.min \in Duties /\ v.max \in Duties /\ v.target \in Duties
         /\ v.pulse \in Pulses
  BY DEF Values

LEMMA LimitedIsDuty ==
  \A d, min, max \in Duties : Limited(d, min, max) \in Duties
  BY DEF Limited, Smaller, Larger

LEMMA InitInv == Init => Inv
<1> SUFFICES ASSUME Init
             PROVE  Inv
  OBVIOUS
<1>1. SettingsTypes /\ FileTypes
  BY DefaultsAreValues DEF Init, SettingsTypes, FileTypes
<1>2. FlagTypes
  BY DEF Init, FlagTypes
<1>3. FileInv /\ RestoredInv /\ RoundTripInv
  BY DEF Init, FileInv, RestoredInv, RoundTripInv, NoFile
<1>4. QED
  BY <1>1, <1>2, <1>3 DEF Inv

\* What a boot reads is well-formed, and it is the file's contents but for
\* the truncation, or the settings as they are.
LEMMA ReadValues ==
  ASSUME SettingsTypes, FileTypes, NEW new \in ReadBack
  PROVE  /\ file.json \in Values /\ new \in Values
         /\ IF file.state = "whole" THEN ButPulse(new, file.json)
            ELSE new = settings
<1>1. file.json \in Values
  BY DefaultsAreValues DEF SettingsTypes, FileTypes, NoFile, Incomplete, Whole
<1>2. CASE file.state = "whole"
  <2>1. PICK n \in Truncated(file.json.pulse) :
          new = [file.json EXCEPT !.pulse = n]
    BY <1>2 DEF ReadBack
  <2>2. n \in Pulses
    BY DEF Truncated
  <2>3. new \in Values /\ new.pulse = n
    BY <1>1, <2>1, <2>2, Updates DEF Values
  <2>4. QED
    BY <1>1, <1>2, <2>1, <2>3 DEF ButPulse
<1>3. CASE file.state # "whole"
  BY <1>1, <1>3 DEF ReadBack, SettingsTypes
<1>4. QED
  BY <1>2, <1>3

\* A length may be read back as it is.
LEMMA TruncatedSame == \A n \in Pulses : n \in Truncated(n)
  BY DEF Truncated

LEMMA SettingsStep ==
  ASSUME SettingsTypes, FileTypes, [Next]_vars
  PROVE  SettingsTypes'
<1> USE DEF SettingsTypes, FileTypes, ram, history
<1>1. ASSUME NEW new_val \in BOOLEAN, set_setpoint_throttling_enabled(new_val)
      PROVE  SettingsTypes'
  BY <1>1, Updates, LimitedIsDuty DEF set_setpoint_throttling_enabled, Set
<1>2. ASSUME NEW d \in Duties, set_duty_min_percent(d)
      PROVE  SettingsTypes'
  BY <1>2, Updates, LimitedIsDuty DEF set_duty_min_percent, Set
<1>3. ASSUME NEW d \in Duties, set_duty_max_percent(d)
      PROVE  SettingsTypes'
  BY <1>3, Updates, LimitedIsDuty DEF set_duty_max_percent, Set
<1>4. ASSUME NEW d \in Duties, set_duty_percent(d)
      PROVE  SettingsTypes'
  BY <1>4, Updates, LimitedIsDuty DEF set_duty_percent, Set
<1>5. ASSUME NEW n \in Pulses, set_oneshot_len(n)
      PROVE  SettingsTypes'
  BY <1>5, Updates, LimitedIsDuty DEF set_oneshot_len, Set
<1>6. CASE RestoreSettings
  <2>1. PICK new \in ReadBack :
          /\ settings' = [new EXCEPT !.target =
                             Limited(new.target, new.min, new.max)]
          /\ duty' \in {duty, Limited(new.target, new.min, new.max)}
          /\ json' = json
    BY <1>6 DEF RestoreSettings
  <2>2. new \in Values
    BY ReadValues
  <2>3. Limited(new.target, new.min, new.max) \in Duties
    BY <2>2, Updates, LimitedIsDuty
  <2>4. QED
    BY <2>1, <2>2, <2>3, Updates
<1>7. CASE PowerOn
  <2>1. 0 \in Duties
    BY DEF Duties
  <2>2. QED
    BY <1>7, <2>1 DEF PowerOn, Set
<1>8. CASE SaveSettings
  BY <1>8, Updates DEF SaveSettings
<1>9. CASE OpenFile
  BY <1>9 DEF OpenFile
<1>10. CASE WriteFile
  BY <1>10, DefaultsAreValues DEF WriteFile
<1>11. CASE WriteFails
  BY <1>11, DefaultsAreValues DEF WriteFails
<1>12. CASE Throttle
  <2>1. settings.target \in Duties
    BY Updates
  <2>2. duty' \in Duties
    BY <1>12, <2>1 DEF Throttle, Duties
  <2>3. QED
    BY <1>12, <2>2 DEF Throttle
<1>13. CASE PowerLoss
  BY <1>13, DefaultsAreValues DEF PowerLoss
<1>14. CASE UNCHANGED vars
  BY <1>14 DEF vars
<1>15. QED
  BY <1>1, <1>2, <1>3, <1>4, <1>5, <1>6, <1>7, <1>8, <1>9,
     <1>10, <1>11, <1>12, <1>13, <1>14
     DEF Next, Command

LEMMA FileStep ==
  ASSUME SettingsTypes, FileTypes, [Next]_vars
  PROVE  FileTypes'
<1> USE DEF SettingsTypes, FileTypes, ram, history
<1>1. ASSUME NEW new_val \in BOOLEAN, set_setpoint_throttling_enabled(new_val)
      PROVE  FileTypes'
  BY <1>1 DEF set_setpoint_throttling_enabled, Set
<1>2. ASSUME NEW d \in Duties, set_duty_min_percent(d)
      PROVE  FileTypes'
  BY <1>2 DEF set_duty_min_percent, Set
<1>3. ASSUME NEW d \in Duties, set_duty_max_percent(d)
      PROVE  FileTypes'
  BY <1>3 DEF set_duty_max_percent, Set
<1>4. ASSUME NEW d \in Duties, set_duty_percent(d)
      PROVE  FileTypes'
  BY <1>4 DEF set_duty_percent, Set
<1>5. ASSUME NEW n \in Pulses, set_oneshot_len(n)
      PROVE  FileTypes'
  BY <1>5 DEF set_oneshot_len, Set
<1>6. CASE RestoreSettings
  BY <1>6 DEF RestoreSettings
<1>7. CASE PowerOn
  BY <1>7 DEF PowerOn, Set
<1>8. CASE SaveSettings
  BY <1>8 DEF SaveSettings
<1>9. CASE OpenFile
  BY <1>9 DEF OpenFile
<1>10. CASE WriteFile
  BY <1>10 DEF WriteFile
<1>11. CASE WriteFails
  BY <1>11 DEF WriteFails
<1>12. CASE Throttle
  BY <1>12 DEF Throttle
<1>13. CASE PowerLoss
  BY <1>13 DEF PowerLoss
<1>14. CASE UNCHANGED vars
  BY <1>14 DEF vars
<1>15. QED
  BY <1>1, <1>2, <1>3, <1>4, <1>5, <1>6, <1>7, <1>8, <1>9,
     <1>10, <1>11, <1>12, <1>13, <1>14
     DEF Next, Command

LEMMA FlagStep ==
  ASSUME FlagTypes, [Next]_vars
  PROVE  FlagTypes'
<1> USE DEF FlagTypes, ram, history
<1>1. ASSUME NEW new_val \in BOOLEAN, set_setpoint_throttling_enabled(new_val)
      PROVE  FlagTypes'
  BY <1>1 DEF set_setpoint_throttling_enabled, Set
<1>2. ASSUME NEW d \in Duties, set_duty_min_percent(d)
      PROVE  FlagTypes'
  BY <1>2 DEF set_duty_min_percent, Set
<1>3. ASSUME NEW d \in Duties, set_duty_max_percent(d)
      PROVE  FlagTypes'
  BY <1>3 DEF set_duty_max_percent, Set
<1>4. ASSUME NEW d \in Duties, set_duty_percent(d)
      PROVE  FlagTypes'
  BY <1>4 DEF set_duty_percent, Set
<1>5. ASSUME NEW n \in Pulses, set_oneshot_len(n)
      PROVE  FlagTypes'
  BY <1>5 DEF set_oneshot_len, Set
<1>6. CASE RestoreSettings
  BY <1>6 DEF RestoreSettings
<1>7. CASE PowerOn
  BY <1>7 DEF PowerOn, Set
<1>8. CASE SaveSettings
  BY <1>8 DEF SaveSettings
<1>9. CASE OpenFile
  BY <1>9 DEF OpenFile
<1>10. CASE WriteFile
  BY <1>10 DEF WriteFile
<1>11. CASE WriteFails
  BY <1>11 DEF WriteFails
<1>12. CASE Throttle
  BY <1>12 DEF Throttle
<1>13. CASE PowerLoss
  BY <1>13 DEF PowerLoss
<1>14. CASE UNCHANGED vars
  BY <1>14 DEF vars
<1>15. QED
  BY <1>1, <1>2, <1>3, <1>4, <1>5, <1>6, <1>7, <1>8, <1>9,
     <1>10, <1>11, <1>12, <1>13, <1>14
     DEF Next, Command

LEMMA FileInvStep ==
  ASSUME SettingsTypes, FileTypes, FileInv, [Next]_vars
  PROVE  FileInv'
<1> USE DEF SettingsTypes, FileTypes, FileInv, SameButDuty, Values, NoFile,
            Incomplete, Whole, ram, history
<1>1. ASSUME NEW new_val \in BOOLEAN, set_setpoint_throttling_enabled(new_val)
      PROVE  FileInv'
  BY <1>1 DEF set_setpoint_throttling_enabled, Set
<1>2. ASSUME NEW d \in Duties, set_duty_min_percent(d)
      PROVE  FileInv'
  BY <1>2 DEF set_duty_min_percent, Set
<1>3. ASSUME NEW d \in Duties, set_duty_max_percent(d)
      PROVE  FileInv'
  BY <1>3 DEF set_duty_max_percent, Set
<1>4. ASSUME NEW d \in Duties, set_duty_percent(d)
      PROVE  FileInv'
  BY <1>4 DEF set_duty_percent, Set
<1>5. ASSUME NEW n \in Pulses, set_oneshot_len(n)
      PROVE  FileInv'
  BY <1>5 DEF set_oneshot_len, Set
<1>6. CASE RestoreSettings
  BY <1>6 DEF RestoreSettings
<1>7. CASE PowerOn
  BY <1>7 DEF PowerOn, Set
<1>8. CASE SaveSettings
  BY <1>8 DEF SaveSettings
<1>9. CASE OpenFile
  BY <1>9 DEF OpenFile
<1>10. CASE WriteFile
  BY <1>10 DEF WriteFile
<1>11. CASE WriteFails
  BY <1>11 DEF WriteFails
<1>12. CASE Throttle
  <2>1. UNCHANGED <<file, settings, pc, json, saved, fresh>>
    BY <1>12 DEF Throttle
  <2>2. QED
    BY <2>1
<1>13. CASE PowerLoss
  BY <1>13 DEF PowerLoss
<1>14. CASE UNCHANGED vars
  BY <1>14 DEF vars
<1>15. QED
  BY <1>1, <1>2, <1>3, <1>4, <1>5, <1>6, <1>7, <1>8, <1>9,
     <1>10, <1>11, <1>12, <1>13, <1>14
     DEF Next, Command

LEMMA RestoredStep ==
  ASSUME SettingsTypes, FileTypes, FileInv, RestoredInv, [Next]_vars
  PROVE  RestoredInv'
<1> USE DEF SettingsTypes, FileTypes, FileInv, RestoredInv, ram, history
<1>1. ASSUME NEW new_val \in BOOLEAN, set_setpoint_throttling_enabled(new_val)
      PROVE  RestoredInv'
  BY <1>1 DEF set_setpoint_throttling_enabled, Set
<1>2. ASSUME NEW d \in Duties, set_duty_min_percent(d)
      PROVE  RestoredInv'
  BY <1>2 DEF set_duty_min_percent, Set
<1>3. ASSUME NEW d \in Duties, set_duty_max_percent(d)
      PROVE  RestoredInv'
  BY <1>3 DEF set_duty_max_percent, Set
<1>4. ASSUME NEW d \in Duties, set_duty_percent(d)
      PROVE  RestoredInv'
  BY <1>4 DEF set_duty_percent, Set
<1>5. ASSUME NEW n \in Pulses, set_oneshot_len(n)
      PROVE  RestoredInv'
  BY <1>5 DEF set_oneshot_len, Set
<1>6. CASE RestoreSettings
  <2>1. PICK new \in ReadBack :
          settings' = [new EXCEPT !.target =
                         Limited(new.target, new.min, new.max)]
    BY <1>6 DEF RestoreSettings
  <2>2. new \in Values /\ saved \cup {Defaults} \subseteq Values
    BY ReadValues, DefaultsAreValues
  <2>3. PICK source \in saved \cup {Defaults} : ReadFrom(new, source)
    <3>1. CASE file.state = "whole"
      <4>1. PICK v \in saved : SameButDuty(file.json, v)
        BY <3>1
      <4>2. ButPulse(new, file.json)
        BY <3>1, ReadValues
      <4>3. file.json.pulse = v.pulse
        BY <4>1, <2>2 DEF SameButDuty, Values
      <4>4. ReadFrom(new, v)
        BY <2>2, <4>1, <4>2, <4>3 DEF ButPulse, ReadFrom, SameButDuty, Values
      <4>5. QED
        BY <4>4
    <3>2. CASE file.state # "whole"
      <4>1. new = Defaults
        BY <1>6, <3>2, ReadValues DEF RestoreSettings
      <4>2. ReadFrom(Defaults, Defaults)
        <5>1. Defaults.pulse \in Truncated(Defaults.pulse)
          BY DefaultsAreValues, TruncatedSame, Updates
        <5>2. Defaults = [Defaults EXCEPT !.target = Defaults.target,
                                          !.pulse = Defaults.pulse]
          BY DEF Defaults
        <5>3. QED
          BY <5>1, <5>2 DEF ReadFrom
      <4>3. QED
        BY <4>1, <4>2
    <3>3. QED
      BY <3>1, <3>2
  <2>4. ReadFrom(settings', source)
    BY <2>1, <2>2, <2>3 DEF ReadFrom, Values
  <2>5. QED
    BY <1>6, <2>4 DEF RestoreSettings
<1>7. CASE PowerOn
  BY <1>7 DEF PowerOn, Set
<1>8. CASE SaveSettings
  BY <1>8 DEF SaveSettings
<1>9. CASE OpenFile
  BY <1>9 DEF OpenFile
<1>10. CASE WriteFile
  BY <1>10 DEF WriteFile
<1>11. CASE WriteFails
  BY <1>11 DEF WriteFails
<1>12. CASE Throttle
  BY <1>12 DEF Throttle
<1>13. CASE PowerLoss
  BY <1>13 DEF PowerLoss
<1>14. CASE UNCHANGED vars
  BY <1>14 DEF vars
<1>15. QED
  BY <1>1, <1>2, <1>3, <1>4, <1>5, <1>6, <1>7, <1>8, <1>9,
     <1>10, <1>11, <1>12, <1>13, <1>14
     DEF Next, Command

LEMMA RoundTripStep ==
  ASSUME SettingsTypes, FileTypes, FileInv, RoundTripInv, [Next]_vars
  PROVE  RoundTripInv'
<1> USE DEF SettingsTypes, FileTypes, FileInv, RoundTripInv, NoFile,
            Incomplete, Whole, ram, history
<1>1. ASSUME NEW new_val \in BOOLEAN, set_setpoint_throttling_enabled(new_val)
      PROVE  RoundTripInv'
  BY <1>1 DEF set_setpoint_throttling_enabled, Set
<1>2. ASSUME NEW d \in Duties, set_duty_min_percent(d)
      PROVE  RoundTripInv'
  BY <1>2 DEF set_duty_min_percent, Set
<1>3. ASSUME NEW d \in Duties, set_duty_max_percent(d)
      PROVE  RoundTripInv'
  BY <1>3 DEF set_duty_max_percent, Set
<1>4. ASSUME NEW d \in Duties, set_duty_percent(d)
      PROVE  RoundTripInv'
  BY <1>4 DEF set_duty_percent, Set
<1>5. ASSUME NEW n \in Pulses, set_oneshot_len(n)
      PROVE  RoundTripInv'
  BY <1>5 DEF set_oneshot_len, Set
<1>6. CASE RestoreSettings
  <2>1. PICK new \in ReadBack :
          settings' = [new EXCEPT !.target =
                         Limited(new.target, new.min, new.max)]
    BY <1>6 DEF RestoreSettings
  <2>2. ASSUME NEW v \in saved, undisturbed, settled,
               v.target = Limited(v.target, v.min, v.max)
        PROVE  ButPulse(settings', v)
    <3>1. file.state = "whole" /\ file.json = v
      BY <2>2
    <3>2. v \in Values /\ new \in Values /\ ButPulse(new, v)
      BY <3>1, ReadValues
    <3>3. new.target = v.target /\ new.min = v.min /\ new.max = v.max
      BY <3>2 DEF ButPulse, Values
    <3>4. settings' = [new EXCEPT !.target = new.target]
      BY <2>1, <2>2, <3>3
    <3>5. settings' = new
      BY <3>2, <3>4 DEF Values
    <3>6. QED
      BY <3>2, <3>5
  <2>3. UNCHANGED <<saved, undisturbed, settled, file>>
    BY <1>6 DEF RestoreSettings
  <2>4. QED
    BY <2>2, <2>3
<1>7. CASE PowerOn
  BY <1>7 DEF PowerOn, Set
<1>8. CASE SaveSettings
  BY <1>8 DEF SaveSettings
<1>9. CASE OpenFile
  BY <1>9 DEF OpenFile
<1>10. CASE WriteFile
  BY <1>10 DEF WriteFile, SameButDuty, Values
<1>11. CASE WriteFails
  BY <1>11 DEF WriteFails
<1>12. CASE Throttle
  BY <1>12 DEF Throttle
<1>13. CASE PowerLoss
  BY <1>13 DEF PowerLoss
<1>14. CASE UNCHANGED vars
  BY <1>14 DEF vars
<1>15. QED
  BY <1>1, <1>2, <1>3, <1>4, <1>5, <1>6, <1>7, <1>8, <1>9,
     <1>10, <1>11, <1>12, <1>13, <1>14
     DEF Next, Command

LEMMA Invariant == Spec => []Inv
<1>1. Inv /\ [Next]_vars => Inv'
  BY SettingsStep, FileStep, FlagStep, FileInvStep, RestoredStep,
     RoundTripStep DEF Inv
<1>2. QED
  BY InitInv, <1>1, PTL DEF Spec

\* Every variable keeps its type: restored, limited and throttled duties stay
\* in the range (app_state_model.cpp:94-126, app_controller.cpp:263-269).
THEOREM SettingsTypeCorrect == Spec => []TypeOK
<1>1. FlagTypes => {undisturbed, settled, fresh} \subseteq BOOLEAN
  BY Zenon DEF FlagTypes
<1>2. Inv => TypeOK
  BY <1>1 DEF Inv, SettingsTypes, FileTypes, FlagTypes, TypeOK
<1>3. QED
  BY Invariant, <1>2, PTL

\* A boot comes up with all settings of one completed save, or with all the
\* defaults, wherever saves before it were cut off or failed
\* (app_state_model.cpp:94-98).
THEOREM BootsWithWholeSettings == Spec => []RestoredWhole
<1>1. Inv => RestoredWhole
  BY DEF Inv, RestoredInv, ReadFrom, RestoredWhole
<1>2. QED
  BY Invariant, <1>1, PTL

\* Settings saved with the ramp at rest are restored as they were, the length
\* of the pulse at most one less, for every range of duties and of pulses and
\* every pair of limits (app_state_model.cpp:42, 77, 112, 126).
THEOREM SettledSaveComesBack == Spec => []SettledRoundTrip
<1>1. Inv => SettledRoundTrip
  BY DEF Inv, RoundTripInv, ButPulse, SettledRoundTrip
<1>2. QED
  BY Invariant, <1>1, PTL
=============================================================================
