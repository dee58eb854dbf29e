-------------------------- MODULE EspAjaxLabProofs --------------------------
(***************************************************************************)
(* Theorems about EspAjaxLab, for all sessions, SSIDs and bounds.          *)
(*                                                                         *)
(* The argument for the dead times: a widget that is rendered has the      *)
(* properties of the current state object (WidgetInv), so the limit of a   *)
(* dead time is what the other one, as it was fed back last, leaves of     *)
(* their sum.  While the user waits for the effect of a dead time before   *)
(* entering the next, at most one of the requests after the state that is  *)
(* shown is for a dead time; so the fed-back value of the other one is     *)
(* still the device's, from the entry to the execution (DeadTimesInv).     *)
(* This needs the order of the requests on the network (NetworkInv).       *)
(*                                                                         *)
(* The argument for the network form: a configuration is fit when it is    *)
(* not one of an access point with an SSID nobody gave it.  The form is    *)
(* fit until the user enters an SSID there, which its submission makes     *)
(* intended; everything on the network and in the device is a copy of a    *)
(* submitted form or of the device's own configuration (FormInv).  All of  *)
(* it holds until the device mixes two configurations.                     *)
(***************************************************************************)
EXTENDS EspAjaxLab, TLAPS

USE SsidsAssumption, RequestsAssumption

-----------------------------------------------------------------------------
\* The fields of the state object; all but the sum of the dead times have values
\* of the scale, and those of the switches are bits.
Fields == DOMAIN StateDefaults
Ordinary == Fields \ {"dt_sum_max_hw"}
Bits == {0, 1}
Switched == {"fan_override", "relay_ref_active", "relay_dut_active"}
Switching == {"set_fan_override", "set_relay_ref_active",
  "set_relay_dut_active"}
Entered == Values \cup {NaN}
Names == {""} \cup {c.action : c \in Controls}

\* A state object, in the client or on the device.
Fitting(s) ==
  /\ s \in [Fields -> 0 .. MaxValue + 1]
  /\ s["dt_sum_max_hw"] = MaxValue + 1
  /\ \A f \in Ordinary : s[f] \in Values
  /\ \A f \in Switched : s[f] \in Bits

Kinds == {"number", "range", "dial", "toggle", "button"}
Minima == {"0", "6", "0.01", "0.1", "frequency_min", "duty_min",
  "frequency_min_hw"}
FieldMaxima == {"frequency_max", "duty_max", "frequency_max_hw", "duty_max_hw"}
Maxima == FieldMaxima \cup {"1", "100", "150", "1800", "1000", "5000"}
DeadMaxima == {"lead_dt_max_hw", "lag_dt_max_hw"}

\* What the views declare: the limits of a control are numbers or fields, only
\* number inputs have computed limits, and only toggles operate the switches.
Declared(c) ==
  /\ c.kind \in Kinds /\ c.min \in Minima
  /\ IF c.kind = "number" THEN c.max \in Maxima \cup DeadMaxima
       ELSE c.max \in Maxima
  /\ c.kind # "button" => c.feedback \in Ordinary
  /\ c.kind = "toggle" => c.feedback \in Switched
  /\ c.action \in Switching => c.kind = "toggle"
  /\ c.action = "set_lead_dt" => c.kind = "number" /\ c.max = "lead_dt_max_hw"
  /\ c.action = "set_lag_dt" => c.kind = "number" /\ c.max = "lag_dt_max_hw"

-----------------------------------------------------------------------------
LEMMA FieldNames ==
  Fields = {"frequency_min_hw", "frequency_max_hw", "dt_sum_max_hw",
   "duty_max_hw", "frequency_min", "frequency_max",
   "duty_min", "duty_max", "frequency", "frequency_changerate",
   "duty", "duty_changerate", "lead_dt", "lag_dt",
   "current_limit", "relay_ref_active", "relay_dut_active",
   "temp_1_limit", "temp_2_limit", "fan_override", "oneshot_len"}
  BY DEF Fields, StateDefaults

DeadTimeSetters == {"set_lead_dt", "set_lag_dt"}

LEMMA ButtonsDeclared ==
  ASSUME NEW view, NEW action, action \notin Switching \cup DeadTimeSetters
  PROVE  Declared(Button(view, action))
  BY DEF Declared, Kinds, Minima, Maxima, Switching, DeadTimeSetters, Control,
     Button

LEMMA SwitchesDeclared ==
  ASSUME NEW action \in Switching, NEW feedback \in Switched
  PROVE  Declared(Switch(action, feedback))
<1>1. feedback \in Ordinary
  BY FieldNames DEF Ordinary, Switched
<1>2. action \notin DeadTimeSetters
  BY DEF Switching, DeadTimeSetters
<1>3. QED
  BY <1>1, <1>2
     DEF Declared, Kinds, Minima, Maxima, DeadTimeSetters, Control, Switch

LEMMA ControlsDeclared == \A c \in Controls : Declared(c)
<1> USE DEF Switched, Switching, DeadTimeSetters
<1>1. \A c \in HardwareStatus : Declared(c)
  BY ButtonsDeclared, SwitchesDeclared DEF HardwareStatus
<1>2. \A c \in PowerOutputSwitches : Declared(c)
  BY ButtonsDeclared, SwitchesDeclared DEF PowerOutputSwitches
<1>3. \A c \in PersistentStorage : Declared(c)
  BY ButtonsDeclared DEF PersistentStorage
<1>4. Declared(Button(LiveControl, "trigger_oneshot"))
  BY ButtonsDeclared
<1> USE FieldNames
      DEF Declared, Kinds, Minima, Maxima, FieldMaxima, DeadMaxima,
          Ordinary, Control, Setpoint, Setting
<1>5. \A c \in Operation : Declared(c)
  BY DEF Operation
<1>6. \A c \in IntervalTimer : Declared(c)
  <2>1. Declared(Control(LiveControl, "number", "set_oneshot_len",
          "oneshot_len", "0", "1800"))
    OBVIOUS
  <2> HIDE DEF Declared, Control
  <2>2. QED
    BY <1>4, <2>1 DEF IntervalTimer
<1>7. \A c \in LimitValues : Declared(c)
  BY DEF LimitValues
<1>8. \A c \in DeadTimes : Declared(c)
  BY DEF DeadTimes
<1>9. \A c \in Throttling : Declared(c)
  BY DEF Throttling
<1> HIDE DEF Declared
<1>10. QED
  BY <1>1, <1>2, <1>3, <1>5, <1>6, <1>7, <1>8, <1>9 DEF Controls

\* The limits a control is rendered with, for any state object.
LEMMA LimitsFit ==
  ASSUME NEW s, Fitting(s), NEW c, Declared(c)
  PROVE  /\ LimitOf(c.min, s) \in Values
         /\ LimitOf(c.max, s) \in 0 .. MaxValue + 1
         /\ c.kind # "number" => LimitOf(c.max, s) \in Values
         /\ c.max = "lead_dt_max_hw"
              => LimitOf(c.max, s) = MaxValue + 1 - s.lag_dt
         /\ c.max = "lag_dt_max_hw"
              => LimitOf(c.max, s) = MaxValue + 1 - s.lead_dt
<1> USE ValueAssumption DEF Values
<1>0. /\ DOMAIN s = Fields /\ "lead_dt" \in Ordinary /\ "lag_dt" \in Ordinary
      /\ \A name \in {"frequency_min", "duty_min",
           "frequency_min_hw"} \cup FieldMaxima : name \in Ordinary
  BY FieldNames DEF Fitting, Ordinary, FieldMaxima
<1>1. LimitOf(c.min, s) \in Values
  <2>1. c.min = "0" => LimitOf(c.min, s) = 0
    BY <1>0, FieldNames DEF LimitOf
  <2>2. CASE c.min \in {"6", "0.01", "0.1"}
    <3>1. c.min \notin DOMAIN s
      BY <1>0, <2>2, FieldNames
    <3>2. LimitOf(c.min, s) = 1
      BY <2>2, <3>1 DEF LimitOf
    <3>3. QED
      BY <3>2
  <2>3. CASE c.min \in {"frequency_min", "duty_min", "frequency_min_hw"}
    BY <1>0, <2>3, FieldNames DEF LimitOf, Fitting
  <2>4. QED
    BY <2>1, <2>2, <2>3 DEF Declared, Minima
<1>2. CASE c.max \in FieldMaxima
  <2>1. LimitOf(c.max, s) \in Values
    BY <1>0, <1>2, FieldNames DEF LimitOf, Fitting, FieldMaxima
  <2>2. QED
    BY <1>1, <2>1, <1>2 DEF FieldMaxima
<1>3. CASE c.max \in {"1", "100", "150", "1800", "1000", "5000"}
  <2>1. LimitOf(c.max, s) \in Values
    BY <1>0, <1>3, FieldNames DEF LimitOf
  <2>2. QED
    BY <1>1, <2>1, <1>3
<1>4. CASE c.max = "lead_dt_max_hw"
  <2>1. LimitOf(c.max, s) = MaxValue + 1 - s["lag_dt"]
    BY <1>0, <1>4, FieldNames DEF LimitOf, Fitting
  <2>2. s["lag_dt"] \in 0 .. MaxValue
    BY <1>0 DEF Fitting
  <2>3. c.kind = "number"
    BY <1>4 DEF Declared, Maxima, FieldMaxima
  <2>4. QED
    BY <1>1, <1>4, <2>1, <2>2, <2>3
<1>5. CASE c.max = "lag_dt_max_hw"
  <2>1. LimitOf(c.max, s) = MaxValue + 1 - s["lead_dt"]
    BY <1>0, <1>5, FieldNames DEF LimitOf, Fitting
  <2>2. s["lead_dt"] \in 0 .. MaxValue
    BY <1>0 DEF Fitting
  <2>3. c.kind = "number"
    BY <1>5 DEF Declared, Maxima, FieldMaxima
  <2>4. QED
    BY <1>1, <1>5, <2>1, <2>2, <2>3
<1>6. QED
  BY <1>2, <1>3, <1>4, <1>5 DEF Declared, Maxima, DeadMaxima

-----------------------------------------------------------------------------
\* A widget of a control c.  A number input that is edited has its timeout.
PropsFor(c) ==
  [feedback : IF c.kind = "toggle" THEN Bits ELSE Values, min : Values,
   max : IF c.kind = "number" THEN 0 .. MaxValue + 1 ELSE Values]

WidgetFor(c) ==
  [phase : Phases, shown : IF c.kind = "toggle" THEN Bits ELSE Entered,
   timer : BOOLEAN, props : PropsFor(c)]

Proper(c, w) ==
  /\ w \in WidgetFor(c)
  /\ c.kind = "number" /\ Editing(w) => w.timer

LEMMA PropsFit ==
  ASSUME NEW s, Fitting(s), NEW c, Declared(c)
  PROVE  PropsOf(c, s) \in PropsFor(c)
<1> DEFINE p == PropsOf(c, s)
<1>1. p = [feedback |-> p.feedback, min |-> LimitOf(c.min, s),
        max |-> LimitOf(c.max, s)]
  BY DEF PropsOf
<1>2. c.kind = "button" => p.feedback = 0
  BY DEF PropsOf
<1>3. c.kind # "button" => p.feedback \in Values
  BY DEF PropsOf, Fitting, Declared
<1>4. c.kind = "toggle" => p.feedback \in Bits
  BY DEF PropsOf, Fitting, Declared
<1>5. p.feedback \in IF c.kind = "toggle" THEN Bits ELSE Values
  BY <1>2, <1>3, <1>4, ValueAssumption DEF Values
<1>6. /\ LimitOf(c.min, s) \in Values
      /\ LimitOf(c.max, s) \in IF c.kind = "number" THEN 0 .. MaxValue + 1
           ELSE Values
  BY LimitsFit
<1> DEFINE F == IF c.kind = "toggle" THEN Bits ELSE Values
           M == IF c.kind = "number" THEN 0 .. MaxValue + 1 ELSE Values
           min == LimitOf(c.min, s)
           max == LimitOf(c.max, s)
<1>7. PropsFor(c) = [feedback : F, min : Values, max : M]
  BY DEF PropsFor
<1> HIDE DEF p, F, M, min, max
<1>8. QED
  BY <1>1, <1>5, <1>6, <1>7 DEF p, F, M, min, max

LEMMA ValuesAreNumbers ==
  /\ Values \subseteq Int /\ Entered \subseteq Int /\ Bits \subseteq Values
  /\ Values \subseteq Entered
  BY ValueAssumption DEF Values, Entered, Bits, NaN

\* A dial clamps within its limits.
LEMMA Clamped ==
  ASSUME NEW val \in Entered, NEW p, p.min \in Values, p.max \in Values
  PROVE  set_value(val, p) \in Entered
  BY ValuesAreNumbers DEF set_value

LEMMA UnmountedFits ==
  ASSUME NEW c
  PROVE  Proper(c, Unmounted)
  BY ValueAssumption
  DEF Proper, WidgetFor, PropsFor, Unmounted, Editing, Phases, Bits, Entered,
    Values

LEMMA MountedFits ==
  ASSUME NEW c, NEW p \in PropsFor(c), c.kind \in Kinds
  PROVE  Proper(c, Mounted(c.kind, p)) /\ Mounted(c.kind, p).props = p
<1> DEFINE w == Mounted(c.kind, p)
<1>1. /\ p.min \in Values
         /\ p.max \in IF c.kind = "number" THEN 0 .. MaxValue + 1 ELSE Values
      /\ p.feedback \in IF c.kind = "toggle" THEN Bits ELSE Values
  BY DEF PropsFor
<1>2. /\ DOMAIN w = {"phase", "timer", "props", "shown"} /\ w.phase = "idle"
         /\ w.timer = FALSE
      /\ w.props = p
         /\ w = [phase |-> w.phase, shown |-> w.shown, timer |-> w.timer,
              props |-> w.props]
  BY DEF Mounted
<1>3. c.kind = "dial" => set_value(p.feedback, p) \in Entered
  BY <1>1, Clamped, ValuesAreNumbers
<1>4. w.shown \in IF c.kind = "toggle" THEN Bits ELSE Entered
  BY <1>1, <1>3, ValuesAreNumbers DEF Mounted
<1> HIDE DEF w
<1> DEFINE S == IF c.kind = "toggle" THEN Bits ELSE Entered
<1>5. WidgetFor(c) =
        [phase : Phases, shown : S, timer : BOOLEAN, props : PropsFor(c)]
  BY DEF WidgetFor
<1>6. w.phase \in Phases /\ ~Editing(w)
  BY <1>2 DEF Phases, Editing
<1>7. w.timer \in BOOLEAN
  BY <1>2
<1> HIDE DEF S
<1>8. w \in WidgetFor(c)
  BY <1>2, <1>4, <1>5, <1>6, <1>7 DEF S
<1>9. QED
  BY <1>2, <1>6, <1>8 DEF w, Proper

LEMMA PatchedFits ==
  ASSUME NEW c, NEW p \in PropsFor(c), c.kind \in Kinds, NEW w, Proper(c, w)
  PROVE  Proper(c, Patched(c.kind, w, p)) /\ Patched(c.kind, w, p).props = p
<1> DEFINE v == Patched(c.kind, w, p)
<1>1. /\ p.min \in Values
         /\ p.max \in IF c.kind = "number" THEN 0 .. MaxValue + 1 ELSE Values
      /\ p.feedback \in IF c.kind = "toggle" THEN Bits ELSE Values
  BY DEF PropsFor
<1>2. w.shown \in IF c.kind = "toggle" THEN Bits ELSE Entered
  BY DEF Proper, WidgetFor
<1>3. CASE c.kind \in {"number", "range"}
  BY <1>1, <1>2, <1>3, ValuesAreNumbers
  DEF Proper, WidgetFor, Patched, number_watch, range_watch, Editing
<1>4. CASE c.kind = "dial"
  <2>1. (IF Fresh(w, p) THEN p.feedback ELSE w.shown) \in Entered
    BY <1>1, <1>2, <1>4, ValuesAreNumbers
  <2>2. dial_watch(w, p) \in Entered
    BY <1>1, <1>4, <2>1, Clamped DEF dial_watch
  <2>3. v = [w EXCEPT !.props = p, !.shown = dial_watch(w, p)]
    BY <1>4 DEF Patched
  <2>4. QED
    BY <1>4, <2>2, <2>3 DEF Proper, WidgetFor
<1>5. CASE c.kind = "toggle"
  BY <1>1, <1>2, <1>5 DEF Proper, WidgetFor, Patched, toggle_render
<1>6. CASE c.kind = "button"
  BY <1>6 DEF Proper, WidgetFor, Patched
<1>7. QED
  BY <1>3, <1>4, <1>5, <1>6 DEF Kinds

-----------------------------------------------------------------------------
SessionInv ==
  /\ session \in Sessions /\ tab \in Tabs
  /\ dials \subseteq {"frequency", "duty"}

\* A widget that is rendered has the properties of the current state object.
WidgetInv ==
  /\ DOMAIN widgets = 1 .. Len(session.controls)
  /\ widgets = [i \in DOMAIN widgets |-> widgets[i]]
  /\ \A i \in DOMAIN widgets :
       /\ Proper(session.controls[i], widgets[i])
       /\ Rendered(session.controls[i]) =>
            widgets[i].props = PropsOf(session.controls[i], state)

LEMMA ControlOf ==
  ASSUME session \in Sessions, NEW i \in 1 .. Len(session.controls)
  PROVE  session.controls[i] \in Controls /\ Declared(session.controls[i])
  BY ControlsDeclared, SessionsAssumption

\* The limits of a number input's value.
LEMMA LimitFits ==
  ASSUME NEW val \in Entered, NEW min \in Values, NEW max \in 0 .. MaxValue + 1
  PROVE  /\ Limit(val, min, max) \in Entered /\ Limit(val, min, max) <= max
         /\ val # NaN => Limit(val, min, max) \in Values
  BY ValueAssumption DEF Limit, Entered, Values, NaN

\* A step of one widget that leaves its properties alone.
LEMMA BecomesKeeps ==
  ASSUME WidgetInv, NEW i \in DOMAIN widgets, NEW w, Becomes(i, w),
         Proper(session.controls[i], w), w.props = widgets[i].props,
         UNCHANGED <<session, tab, dials, state>>
  PROVE  WidgetInv'
<1>1. widgets' = [widgets EXCEPT ![i] = w]
  BY DEF Becomes
<1>2. \A j \in DOMAIN widgets : Rendered(session.controls[j])'
        <=> Rendered(session.controls[j])
  BY DEF Rendered
<1>3. QED
  BY <1>1, <1>2 DEF WidgetInv, Proper, Editing, WidgetFor, PropsFor

-----------------------------------------------------------------------------
\* What the widgets' methods keep.
LEMMA InputsFit ==
  ASSUME NEW c, NEW w \in WidgetFor(c), NEW val, c.kind = "number"
  PROVE  /\ val \in Entered => Proper(c, number_on_input(w, val))
         /\ Proper(c, number_on_change(w))
         /\ w.props.feedback \in Entered =>
              Proper(c, number_leave_edit_mode(w))
              /\ Proper(c, number_timeout(w))
  BY DEF Proper, WidgetFor, Editing, Phases, number_on_input, number_on_change,
         number_leave_edit_mode, number_timeout

LEMMA OthersFit ==
  ASSUME NEW c, NEW w \in WidgetFor(c), NEW val, c.kind # "number"
  PROVE  /\ c.kind = "range" /\ val \in Entered
              => Proper(c, range_on_input(w, val))
         /\ c.kind = "range" /\ w.props.feedback \in Entered
              => Proper(c, range_on_change(w))
         /\ c.kind = "dial" => Proper(c, on_dial_mousedown(w))
         /\ c.kind = "dial" /\ set_value(w.shown, w.props) \in Entered =>
              Proper(c, on_dial_mouseup(w))
         /\ c.kind = "toggle" => Proper(c, toggle_on_change(w))
            /\ 1 - w.shown \in Bits
<1>1. c.kind = "toggle" => w.shown \in Bits
  BY DEF WidgetFor
<1>2. c.kind = "toggle" => 1 - w.shown \in Bits
  BY <1>1 DEF Bits
<1>3. QED
  BY <1>2 DEF Proper, WidgetFor, Phases, range_on_input, range_on_change,
     on_dial_mousedown, on_dial_mouseup, toggle_on_change

LEMMA PropsKept ==
  ASSUME NEW c, NEW w \in WidgetFor(c), NEW val
  PROVE  /\ number_on_input(w, val).props = w.props
         /\ number_on_change(w).props = w.props
         /\ number_leave_edit_mode(w).props = w.props
         /\ number_timeout(w).props = w.props
         /\ range_on_input(w, val).props = w.props
         /\ range_on_change(w).props = w.props
         /\ on_dial_mousedown(w).props = w.props
         /\ on_dial_mouseup(w).props = w.props
         /\ toggle_on_change(w).props = w.props
  BY DEF WidgetFor, number_on_input, number_on_change, number_leave_edit_mode,
         number_timeout, range_on_input, range_on_change, on_dial_mousedown,
         on_dial_mouseup, toggle_on_change

\* What a control emits: switches emit bits, a dead time is within its limit.
Emits(c) ==
  \E val \in Entered :
    /\ Emit(c.action, val)
    /\ c.action \in Switching => val \in Bits
    /\ c.action \in DeadTimeSetters => ToFloat(val) <= LimitOf(c.max, state)

Turns(i) ==
  \/ widgets' = widgets
  \/ \E w : /\ Becomes(i, w) /\ Proper(session.controls[i], w)
            /\ w.props = widgets[i].props

\* A step of the user or of a timeout changes one widget or none, and emits a
\* value or none.
LEMMA UserStep ==
  ASSUME SessionInv, Fitting(state), WidgetInv, NEW i \in DOMAIN widgets,
         User(i) \/ NumberTimeout(i)
  PROVE  Turns(i) /\ (NoEmit \/ Emits(session.controls[i]))
<1> DEFINE c == session.controls[i]
           w == widgets[i]
<1>1. c.kind = Kind(i) /\ Declared(c)
  BY ControlOf DEF Kind, WidgetInv, SessionInv
<1>2. Proper(c, w) /\ (Rendered(c) => w.props = PropsOf(c, state))
  BY DEF WidgetInv
<1>3. w \in WidgetFor(c) /\ w.props \in PropsFor(c)
  BY <1>2 DEF Proper, WidgetFor
<1>4. /\ w.props.feedback \in Entered /\ w.props.min \in Values
      /\ w.props.max \in 0 .. MaxValue + 1
      /\ w.shown \in Entered
  <2>1. w.props.feedback \in IF c.kind = "toggle" THEN Bits ELSE Values
    BY <1>3 DEF PropsFor
  <2>2. w.props.max \in IF c.kind = "number" THEN 0 .. MaxValue + 1 ELSE Values
    BY <1>3 DEF PropsFor
  <2>3. w.shown \in IF c.kind = "toggle" THEN Bits ELSE Entered
    BY <1>3 DEF WidgetFor
  <2>4. w.props.min \in Values
    BY <1>3 DEF PropsFor
  <2>5. Values \subseteq 0 .. MaxValue + 1
    BY ValueAssumption DEF Values
  <2>6. QED
    BY <2>1, <2>2, <2>3, <2>4, <2>5, ValuesAreNumbers
<1>5. c.kind # "number" => w.props.max \in Values
  BY <1>3 DEF PropsFor
<1>6. /\ c.action \in Switching => c.kind = "toggle"
      /\ c.action \in DeadTimeSetters => c.kind = "number"
  BY <1>1 DEF Declared, DeadTimeSetters
<1>7. session.entries \subseteq Entered
  BY SessionsAssumption DEF SessionInv, Entered
<1>8. \A v : Becomes(i, v) /\ Proper(c, v) /\ v.props = w.props => Turns(i)
  BY DEF Turns
<1>9. \A v \in Entered : Emit(c.action, v)
      /\ c.action \notin Switching \cup DeadTimeSetters => Emits(c)
  BY DEF Emits
<1>10. \A v \in Bits : Emit(c.action, v) /\ c.kind # "number" => Emits(c)
  BY <1>6, ValuesAreNumbers DEF Emits
<1> HIDE DEF c, w
<1>11. CASE EnterNumber(i)
  BY <1>1, <1>3, <1>7, <1>8, <1>11, InputsFit, PropsKept
  DEF EnterNumber, Available, c, w
<1>12. CASE ChangeNumber(i)
  <2> DEFINE val == number_emits(w)
  <2>1. /\ c.kind = "number" /\ Rendered(c) /\ Becomes(i, number_on_change(w))
        /\ Emit(c.action, val)
    BY <1>1, <1>12 DEF ChangeNumber, Available, c, w
  <2>2. val \in Entered /\ val <= w.props.max
    BY <1>4, LimitFits DEF number_emits
  <2>3. w.props.max = LimitOf(c.max, state)
    BY <1>2, <2>1 DEF PropsOf
  <2> HIDE DEF val
  <2>4. ToFloat(val) <= LimitOf(c.max, state)
    BY <1>4, <2>2, <2>3, ValuesAreNumbers DEF ToFloat
  <2>5. Emits(c)
    BY <1>6, <2>1, <2>2, <2>4 DEF Emits
  <2>6. Turns(i)
    BY <1>3, <1>8, <2>1, InputsFit, PropsKept
  <2>7. QED
    BY <2>5, <2>6 DEF c
<1>13. CASE BlurNumber(i) \/ NumberTimeout(i)
  BY <1>1, <1>3, <1>4, <1>8, <1>13, InputsFit, PropsKept
  DEF BlurNumber, NumberTimeout, c, w
<1>14. CASE SlideRange(i)
  <2>1. PICK val \in w.props.min .. w.props.max :
          Becomes(i, range_on_input(w, val)) /\ Emit(c.action, val)
    BY <1>14 DEF SlideRange, c, w
  <2>2. c.kind = "range"
    BY <1>1, <1>14 DEF SlideRange, Available
  <2>3. val \in Entered
    BY <1>4, <1>5, <2>1, <2>2, ValueAssumption DEF Values, Entered
  <2>4. QED
    BY <1>3, <1>6, <1>8, <1>9, <2>1, <2>2, <2>3, OthersFit, PropsKept DEF c
<1>15. CASE ReleaseRange(i)
  BY <1>1, <1>3, <1>4, <1>8, <1>15, OthersFit, PropsKept DEF ReleaseRange, c, w
<1>16. CASE PressDial(i)
  BY <1>1, <1>3, <1>8, <1>16, OthersFit, PropsKept DEF PressDial, c, w
<1>17. CASE TurnDial(i)
  <2>1. PICK val \in w.props.min .. w.props.max : Emit(c.action, val)
    BY <1>17 DEF TurnDial, c, w
  <2>2. c.kind = "dial" /\ widgets' = widgets
    BY <1>1, <1>17 DEF TurnDial, Available
  <2>3. val \in Entered
    BY <1>4, <1>5, <2>1, <2>2, ValueAssumption DEF Values, Entered
  <2>4. QED
    BY <1>6, <1>9, <2>1, <2>2, <2>3 DEF c, Turns
<1>18. CASE ReleaseDial(i)
  <2>1. c.kind = "dial" /\ Becomes(i, on_dial_mouseup(w)) /\ NoEmit
    BY <1>1, <1>18 DEF ReleaseDial, w
  <2>2. set_value(w.shown, w.props) \in Entered
    BY <1>4, <1>5, <2>1, Clamped
  <2>3. QED
    BY <1>3, <1>8, <2>1, <2>2, OthersFit, PropsKept
<1>19. CASE ClickToggle(i)
  <2>1. /\ c.kind = "toggle" /\ Becomes(i, toggle_on_change(w))
        /\ Emit(c.action, 1 - w.shown)
    BY <1>1, <1>19 DEF ClickToggle, Available, c, w
  <2>2. QED
    BY <1>3, <1>8, <1>10, <2>1, OthersFit, PropsKept DEF c
<1>20. CASE ClickButton(i)
  <2>1. c.kind = "button" /\ widgets' = widgets
    BY <1>1, <1>20 DEF ClickButton, Available
  <2>2. \E val \in Bits : Emit(c.action, val)
    BY <1>20 DEF ClickButton, Bits, c
  <2>3. QED
    BY <1>10, <2>1, <2>2 DEF Turns, c
<1>21. QED
  BY <1>11, <1>12, <1>13, <1>14, <1>15, <1>16, <1>17, <1>18, <1>19, <1>20
     DEF User

-----------------------------------------------------------------------------
\* A widget after a change of the view or of the representation.
LEMMA RerenderedFits ==
  ASSUME SessionInv, Fitting(state), WidgetInv, NEW i \in DOMAIN widgets,
         NEW opened
  PROVE  LET c == session.controls[i]
         IN /\ Proper(c, Rerendered(i, opened))
            /\ RenderedIn(c, tab', dials') =>
                 Rerendered(i, opened).props = PropsOf(c, state)
<1> DEFINE c == session.controls[i]
           w == widgets[i]
           p == PropsOf(c, state)
           visible == RenderedIn(c, tab', dials')
           created == opened \/ w.phase = "unmounted"
<1>1. Declared(c) /\ c.kind \in Kinds
  BY ControlOf DEF WidgetInv, SessionInv, Declared
<1>2. Proper(c, w)
  BY DEF WidgetInv
<1>3. p \in PropsFor(c)
  BY <1>1, PropsFit
<1>4. Rerendered(i, opened) =
        CASE visible /\ created -> Mounted(c.kind, p)
          [] visible /\ ~created -> Patched(c.kind, w, p)
          [] ~visible /\ opened -> Unmounted
          [] ~visible /\ ~opened -> w
  BY DEF Rerendered
<1>5. /\ Proper(c, Mounted(c.kind, p)) /\ Mounted(c.kind, p).props = p
      /\ Proper(c, Patched(c.kind, w, p)) /\ Patched(c.kind, w, p).props = p
      /\ Proper(c, Unmounted)
  <2> HIDE DEF c, w, p
  <2>1. QED
    BY <1>1, <1>2, <1>3, MountedFits, PatchedFits, UnmountedFits
<1> HIDE DEF c, w, p, visible
<1>6. /\ Proper(c, Rerendered(i, opened))
      /\ visible => Rerendered(i, opened).props = p
  BY <1>2, <1>4, <1>5
<1>7. QED
  BY <1>6 DEF c, p, visible

LEMMA RenderKeeps ==
  ASSUME SessionInv, Fitting(state), WidgetInv, NEW opened,
         widgets' = [i \in DOMAIN widgets |-> Rerendered(i, opened)],
         UNCHANGED <<session, state>>
  PROVE  WidgetInv'
<1>1. \A i \in DOMAIN widgets :
        LET c == session.controls[i]
        IN /\ Proper(c, widgets'[i])
           /\ RenderedIn(c, tab', dials')
                => widgets'[i].props = PropsOf(c, state)
  BY RerenderedFits
<1>2. DOMAIN widgets' = DOMAIN widgets
      /\ widgets' = [i \in DOMAIN widgets' |-> widgets'[i]]
  OBVIOUS
<1>3. \A c : Rendered(c)' <=> RenderedIn(c, tab', dials')
  BY DEF Rendered
<1> HIDE DEF Proper
<1>4. QED
  BY <1>1, <1>2, <1>3 DEF WidgetInv

LEMMA MessageKeeps ==
  ASSUME SessionInv, WidgetInv, Fitting(state), Fitting(hardware), Message
  PROVE  WidgetInv' /\ Fitting(state')
<1>1. /\ state' = [hardware EXCEPT !["duty_max_hw"] = state["duty_max_hw"]]
      /\ UNCHANGED <<session, tab, dials>>
  BY DEF Message
<1>2. Fitting(state')
  BY <1>1, FieldNames DEF Fitting, Ordinary, Switched
<1>3. ASSUME NEW i \in DOMAIN widgets
      PROVE  LET c == session.controls[i]
             IN /\ Proper(c, widgets'[i])
                /\ Rendered(c) => widgets'[i].props = PropsOf(c, state')
  <2> DEFINE c == session.controls[i]
             p == PropsOf(c, state')
  <2>1. Declared(c) /\ c.kind \in Kinds
    BY ControlOf DEF WidgetInv, SessionInv, Declared
  <2>2. Proper(c, widgets[i])
    BY DEF WidgetInv
  <2>3. p \in PropsFor(c)
    BY <1>2, <2>1, PropsFit
  <2>4. widgets'[i] = IF Rendered(c) THEN Patched(c.kind, widgets[i], p)
          ELSE widgets[i]
    BY DEF Message
  <2> HIDE DEF c, p
  <2>5. /\ Proper(c, Patched(c.kind, widgets[i], p))
        /\ Patched(c.kind, widgets[i], p).props = p
    BY <2>1, <2>2, <2>3, PatchedFits
  <2>6. Proper(c, widgets'[i]) /\ (Rendered(c) => widgets'[i].props = p)
    BY <2>2, <2>4, <2>5
  <2>7. QED
    BY <2>6 DEF c, p
<1>4. DOMAIN widgets' = DOMAIN widgets
      /\ widgets' = [i \in DOMAIN widgets' |-> widgets'[i]]
  BY DEF Message
<1>5. \A c : Rendered(c)' <=> Rendered(c)
  BY <1>1 DEF Rendered
<1>6. QED
  BY <1>1, <1>2, <1>3, <1>4, <1>5 DEF WidgetInv

-----------------------------------------------------------------------------
\* The device.
Targets == [frequency : Values, duty : Values]

Sound(cmd) ==
  /\ cmd \in [name : Names, value : Entered]
  /\ cmd.name \in Switching => cmd.value \in Bits

LEMMA SettersStore ==
  \A name \in DOMAIN Setters :
    /\ Stores(name) \in Ordinary
    /\ Stores(name) \in Switched => name \in Switching
    /\ Stores(name) = "lead_dt" <=> name = "set_lead_dt"
    /\ Stores(name) = "lag_dt" <=> name = "set_lag_dt"
  BY FieldNames DEF Stores, Setters, Ordinary, Switched, Switching

LEMMA NumbersRead ==
  ASSUME NEW val \in Entered
  PROVE  ToFloat(val) \in Values /\ (val \in Bits => ToFloat(val) = val)
  BY ValueAssumption DEF ToFloat, Entered, Values, NaN, Bits

\* Storing a value of the scale, or a bit for a switch, leaves a state object.
LEMMA StoringFits ==
  ASSUME NEW s, Fitting(s), NEW f \in Ordinary, NEW n \in Values,
         f \in Switched => n \in Bits
  PROVE  Fitting([s EXCEPT ![f] = n])
<1> DEFINE t == [s EXCEPT ![f] = n]
<1>1. /\ Ordinary \subseteq Fields /\ Values \subseteq 0 .. MaxValue + 1
      /\ f # "dt_sum_max_hw"
  BY ValueAssumption DEF Ordinary, Values
<1>2. t \in [Fields -> 0 .. MaxValue + 1]
  BY <1>1 DEF Fitting
<1>3. \A g \in Fields : t[g] = IF g = f THEN n ELSE s[g]
  BY DEF Fitting
<1>4. "dt_sum_max_hw" \in Fields /\ Switched \subseteq Fields
  BY FieldNames DEF Switched
<1> HIDE DEF t
<1>5. Fitting(t)
  BY <1>1, <1>2, <1>3, <1>4 DEF Fitting
<1>6. QED
  BY <1>5 DEF t

\* Only the two setters change the device's dead times.
LEMMA PerformKeeps ==
  ASSUME Fitting(hardware), targets \in Targets, NEW cmd, Sound(cmd),
         Perform(cmd)
  PROVE  /\ Fitting(hardware') /\ targets' \in Targets
         /\ hardware'["lead_dt"] =
              IF cmd.name = "set_lead_dt" THEN ToFloat(cmd.value)
                                          ELSE hardware["lead_dt"]
         /\ hardware'["lag_dt"] =
              IF cmd.name = "set_lag_dt" THEN ToFloat(cmd.value)
                                         ELSE hardware["lag_dt"]
<1> DEFINE n == ToFloat(cmd.value)
<1>1. n \in Values /\ (cmd.name \in Switching => n \in Bits)
  BY NumbersRead DEF Sound
<1>2. {"lead_dt", "lag_dt", "frequency_min", "frequency_max", "duty_min",
       "duty_max", "duty"} \subseteq Ordinary
      /\ "duty" \notin Switched /\ Ordinary \subseteq Fields
      /\ "dt_sum_max_hw" \notin Ordinary
  BY FieldNames DEF Ordinary, Switched
<1>3. \A f \in Ordinary : hardware[f] \in Values
  BY DEF Fitting
<1>4. Values \subseteq 0 .. MaxValue + 1 /\ NaN \notin Values
      /\ Values \subseteq Entered /\ 0 \in Values
  BY ValueAssumption DEF Values, Entered, NaN
<1>5. CASE cmd.name \in DOMAIN Setters
  <2> DEFINE f == Stores(cmd.name)
  <2>1. hardware' = [hardware EXCEPT ![f] = n] /\ targets' = targets
    BY <1>5 DEF Perform, Setters
  <2>2. /\ f \in Ordinary /\ (f \in Switched => cmd.name \in Switching)
        /\ f = "lead_dt" <=> cmd.name = "set_lead_dt"
        /\ f = "lag_dt" <=> cmd.name = "set_lag_dt"
    BY <1>5, SettersStore
  <2> HIDE DEF f
  <2>3. Fitting(hardware')
    BY <1>1, <2>1, <2>2, StoringFits DEF n
  <2>4. QED
    BY <1>2, <2>1, <2>2, <2>3 DEF Fitting, n
<1>6. CASE cmd.name \notin DOMAIN Setters
  <2>1. cmd.name \notin DeadTimeSetters
    BY <1>6 DEF Setters, DeadTimeSetters
  <2>2. \/ hardware' = hardware
        \/ hardware' = [hardware EXCEPT !["duty"] = 0]
    BY <1>6 DEF Perform
  <2>3. Fitting(hardware')
    BY <1>2, <1>4, <2>2, StoringFits
  <2>4. \/ targets' = targets
        \/ targets' = [targets EXCEPT !.frequency =
             Limit(n, hardware["frequency_min"], hardware["frequency_max"])]
        \/ targets' = [targets EXCEPT !.duty =
             Limit(n, hardware["duty_min"], hardware["duty_max"])]
    BY <1>6 DEF Perform
  <2>5. \A f, g \in Ordinary : Limit(n, hardware[f], hardware[g]) \in Values
    BY <1>1, <1>3, <1>4, LimitFits
  <2> HIDE DEF n
  <2>6. targets' \in Targets
    BY <1>2, <2>4, <2>5 DEF Targets
  <2>7. hardware'["lead_dt"] = hardware["lead_dt"]
        /\ hardware'["lag_dt"] = hardware["lag_dt"]
    BY <1>2, <2>2 DEF Fitting
  <2>8. QED
    BY <2>1, <2>3, <2>6, <2>7 DEF DeadTimeSetters
<1>7. QED
  BY <1>5, <1>6

LEMMA RampsKeep ==
  ASSUME Fitting(hardware), targets \in Targets, FastTick
  PROVE  /\ Fitting(hardware')
         /\ hardware'["lead_dt"] = hardware["lead_dt"]
         /\ hardware'["lag_dt"] = hardware["lag_dt"]
<1>1. \A x, t, d \in Values : Throttled(x, t, d) \in Values
  BY ValueAssumption DEF Values, Throttled
<1>2. {"lead_dt", "lag_dt", "frequency", "frequency_changerate", "duty",
        "duty_changerate"} \subseteq Ordinary
      /\ "duty" \notin Switched /\ "frequency" \notin Switched
         /\ Ordinary \subseteq Fields
      /\ "dt_sum_max_hw" \notin Ordinary
  BY FieldNames DEF Ordinary, Switched
<1> DEFINE d == Throttled(hardware["duty"], targets.duty,
      hardware["duty_changerate"])
           f == Throttled(hardware["frequency"], targets.frequency,
             hardware["frequency_changerate"])
<1>3. d \in Values /\ f \in Values
  BY <1>1, <1>2 DEF Fitting, Targets
<1>4. hardware' = [hardware EXCEPT !["duty"] = d, !["frequency"] = f]
  BY DEF FastTick
<1> HIDE DEF d, f
<1>5. hardware' = [[hardware EXCEPT !["duty"] = d] EXCEPT !["frequency"] = f]
  BY <1>4
<1>6. Fitting([hardware EXCEPT !["duty"] = d])
  BY <1>2, <1>3, StoringFits
<1>7. Fitting(hardware')
  BY <1>2, <1>3, <1>5, <1>6, StoringFits
<1>8. QED
  BY <1>2, <1>4, <1>7 DEF Fitting

-----------------------------------------------------------------------------
\* The requests, with the variables of RequestGenerator.

\* TypeOK, variable by variable.
Numbers ==
  /\ issued \in 0 .. MaxRequests /\ pending \in 0 .. MaxRequests
  /\ last_sent \in 0 .. MaxRequests /\ device \in 0 .. MaxRequests
  /\ fetches \in 0 .. MaxRequests
  /\ in_flight \subseteq 1 .. MaxRequests

Flags ==
  /\ rate_limit_active \in BOOLEAN /\ disturbed \in BOOLEAN
  /\ timers = IF rate_limit_active THEN 1 ELSE 0

\* The slot and the requests sent so far.
SlotInv ==
  /\ last_sent <= issued /\ pending <= issued /\ device <= last_sent
  /\ fetches <= last_sent
  /\ pending # None => rate_limit_active /\ pending > last_sent
  /\ \A request \in in_flight : request <= last_sent

\* The network while it is not disturbed.
NetworkInv ==
  ~disturbed =>
    \A request \in in_flight : request = last_sent /\ request > device

CommandsInv == Numbers /\ Flags /\ SlotInv /\ NetworkInv

LEMMA CommandTypesSuffice == Numbers /\ Flags => TypeOK
<1> SUFFICES ASSUME Numbers, Flags PROVE TypeOK
  OBVIOUS
<1>1. {issued, pending, last_sent, device} \subseteq Requests \cup {None}
  BY DEF Numbers, Requests, None
<1>2. {rate_limit_active, disturbed} \subseteq BOOLEAN
  BY Zenon DEF Flags
<1>3. QED
  BY <1>1, <1>2 DEF Numbers, Flags, TypeOK, Requests

LEMMA CommandsInit == Init => CommandsInv
<1> SUFFICES ASSUME Init PROVE CommandsInv
  OBVIOUS
<1>1. Numbers
  BY DEF Init, Numbers, None
<1>2. Flags
  BY DEF Init, Flags
<1>3. SlotInv /\ NetworkInv
  BY DEF Init, SlotInv, NetworkInv, None
<1>4. QED
  BY <1>1, <1>2, <1>3 DEF CommandsInv

\* A fetch of a request newer than the one before keeps the network's part.
LEMMA FetchKeeps ==
  ASSUME NEW request \in 1 .. MaxRequests, NEW running, Numbers, Flags,
         SlotInv,
         NetworkInv, Fetch(request, running), request > last_sent,
         running = 0, device' = device
  PROVE  /\ Flags' /\ NetworkInv'
         /\ last_sent' = request /\ in_flight' \subseteq 1 .. MaxRequests
         /\ \A r \in in_flight' : r <= request
         /\ fetches' = fetches + 1 /\ rate_limit_active'
<1>1. Flags'
  <2>1. timers' = 1 /\ rate_limit_active' = TRUE
    BY DEF Fetch
  <2>2. disturbed' \in BOOLEAN
    BY Zenon DEF Fetch
  <2>3. QED
    BY <2>1, <2>2 DEF Flags
<1>2. NetworkInv'
  <2> SUFFICES ASSUME ~disturbed', NEW r \in in_flight'
               PROVE  r = last_sent' /\ r > device'
    BY DEF NetworkInv
  <2>1. in_flight = {}
    BY Zenon DEF Fetch
  <2>2. r = request
    BY <2>1 DEF Fetch
  <2>3. QED
    BY <2>2 DEF Fetch, Numbers, SlotInv
<1>3. QED
  BY <1>1, <1>2 DEF Fetch, Numbers, SlotInv

\* The invariant of the command path is kept by each of its steps, and what
\* is sent is newer than what was sent before.
LEMMA CommandsStep ==
  ASSUME CommandsInv, [Next]_vars
  PROVE  CommandsInv' /\ (fetches' # fetches => last_sent' > last_sent)
<1> USE DEF CommandsInv
<1>1. CASE SendCmd
  <2>1. issued' = issued + 1 /\ issued' \in 1 .. MaxRequests
        /\ device' = device
    BY <1>1 DEF SendCmd, Numbers
  <2>2. CASE rate_limit_active
    <3>1. /\ pending' = issued'
          /\ UNCHANGED <<rate_limit_active, timers, last_sent, fetches,
                         in_flight, disturbed>>
      BY <1>1, <2>2 DEF SendCmd
    <3>2. Numbers' /\ Flags' /\ NetworkInv'
      BY <2>1, <3>1 DEF Numbers, Flags, NetworkInv
    <3>3. SlotInv'
      BY <2>1, <2>2, <3>1 DEF SlotInv, Numbers, None
    <3>4. QED
      BY <3>1, <3>2, <3>3
  <2>3. CASE ~rate_limit_active
    <3>1. Fetch(issued', timers) /\ pending' = pending
      BY <1>1, <2>3 DEF SendCmd
    <3>2. timers = 0 /\ issued' > last_sent /\ pending = None
      BY <2>1, <2>3 DEF Flags, SlotInv, Numbers
    <3>3. /\ Flags' /\ NetworkInv'
          /\ last_sent' = issued' /\ in_flight' \subseteq 1 .. MaxRequests
          /\ \A r \in in_flight' : r <= issued'
          /\ fetches' = fetches + 1
      BY <2>1, <3>1, <3>2, FetchKeeps
    <3>4. Numbers' /\ SlotInv'
      BY <2>1, <3>1, <3>2, <3>3 DEF Numbers, SlotInv, None
    <3>5. QED
      BY <3>2, <3>3, <3>4
  <2>4. QED
    BY <2>2, <2>3
<1>2. CASE TimerExpires
  <2>1. issued' = issued /\ device' = device /\ timers = 1
    BY <1>2 DEF TimerExpires, Flags
  <2>2. CASE pending # None
    <3>1. Fetch(pending, 0) /\ pending' = None
      BY <1>2, <2>1, <2>2 DEF TimerExpires
    <3>2. pending \in 1 .. MaxRequests /\ pending > last_sent
      BY <2>2 DEF Numbers, SlotInv, None
    <3>3. /\ Flags' /\ NetworkInv'
          /\ last_sent' = pending /\ in_flight' \subseteq 1 .. MaxRequests
          /\ \A r \in in_flight' : r <= pending
          /\ fetches' = fetches + 1
      BY <2>1, <3>1, <3>2, FetchKeeps
    <3>4. Numbers' /\ SlotInv'
      BY <2>1, <3>1, <3>2, <3>3 DEF Numbers, SlotInv, None
    <3>5. QED
      BY <3>2, <3>3, <3>4
  <2>3. CASE pending = None
    <3>1. /\ rate_limit_active' = FALSE /\ timers' = 0
          /\ UNCHANGED <<pending, last_sent, fetches, in_flight, disturbed>>
      BY <1>2, <2>1, <2>3 DEF TimerExpires
    <3>2. Numbers' /\ Flags' /\ NetworkInv'
      BY <2>1, <3>1 DEF Numbers, Flags, NetworkInv
    <3>3. SlotInv'
      BY <2>1, <2>3, <3>1 DEF SlotInv
    <3>4. QED
      BY <3>1, <3>2, <3>3
  <2>4. QED
    BY <2>2, <2>3
<1>3. ASSUME NEW request \in Requests, Execute(request) \/ Fail(request)
      PROVE  CommandsInv' /\ fetches' = fetches
  <2>1. /\ UNCHANGED <<issued, generator, last_sent, fetches>>
        /\ in_flight' \subseteq in_flight /\ request \in in_flight
        /\ \/ device' = request /\ disturbed' = disturbed
           \/ device' = device /\ disturbed' = TRUE
        /\ request \notin in_flight'
    BY <1>3 DEF Execute, Fail
  <2>2. Numbers'
    BY <2>1 DEF Numbers, generator
  <2>3. Flags'
    BY <2>1 DEF Flags, generator
  <2>4. SlotInv'
    BY <2>1 DEF SlotInv, Numbers, generator
  <2>5. NetworkInv'
    BY <2>1 DEF NetworkInv, Numbers
  <2>6. QED
    BY <2>1, <2>2, <2>3, <2>4, <2>5
<1>4. CASE UNCHANGED vars
  BY <1>4 DEF vars, generator, network, Numbers, Flags, SlotInv, NetworkInv
<1>5. QED
  BY <1>1, <1>2, <1>3, <1>4 DEF Next

-----------------------------------------------------------------------------
\* The dead times.
Named(r, action) == commands[r].name = action

Dead(r) == commands[r].name \in DeadTimeSetters

\* There is room for what a request that has not been executed will store.
Room(r) ==
  LET n == ToFloat(commands[r].value)
  IN /\ Named(r, "set_lead_dt") => n + hardware["lag_dt"] <= MaxValue + 1
     /\ Named(r, "set_lag_dt") => n + hardware["lead_dt"] <= MaxValue + 1

\* A fed-back dead time is at most outdated by an executed request.
Current(field, action) ==
  \/ hardware[field] <= state[field]
  \/ \E r \in shown_request + 1 .. device : Named(r, action)

Calm == ~hasty /\ ~disturbed /\ foreign = 0

CommandTypes ==
  /\ commands = [r \in Requests |-> commands[r]]
  /\ \A r \in Requests : Sound(commands[r])
  /\ shown_request \in 0 .. MaxRequests

DeadTimesInv ==
  /\ foreign \in Nat
  /\ Calm =>
       /\ shown_request <= device
       /\ \A q, r \in shown_request + 1 .. issued : Dead(q) /\ Dead(r) => q = r
       /\ \A r \in device + 1 .. issued : Room(r)
       /\ Current("lead_dt", "set_lead_dt") /\ Current("lag_dt", "set_lag_dt")
       /\ hardware["lead_dt"] + hardware["lag_dt"] <= MaxValue + 1

LEMMA DeadTimesStay ==
  ASSUME DeadTimesInv,
         UNCHANGED <<issued, device, commands, shown_request, foreign>>,
         Calm' => Calm,
         UNCHANGED <<hardware["lead_dt"], hardware["lag_dt"]>>,
         UNCHANGED <<state["lead_dt"], state["lag_dt"]>>
  PROVE  DeadTimesInv'
<1>1. /\ \A r : Room(r)' <=> Room(r)
      /\ \A q : Dead(q)' <=> Dead(q)
      /\ Current("lead_dt", "set_lead_dt")'
           <=> Current("lead_dt", "set_lead_dt")
      /\ Current("lag_dt", "set_lag_dt")' <=> Current("lag_dt", "set_lag_dt")
  BY DEF Room, Dead, Named, Current
<1>2. QED
  BY <1>1 DEF DeadTimesInv

\* The requests are recorded by their numbers.
LEMMA OneMoreCommand ==
  ASSUME Numbers, CommandTypes, NEW name \in Names, NEW value \in Entered,
         name \in Switching => value \in Bits,
         SendCmd, commands' =
           [commands EXCEPT ![issued'] = [name |-> name, value |-> value]],
         shown_request' = shown_request
  PROVE  /\ CommandTypes'
         /\ issued' = issued + 1 /\ issued' \in Requests
         /\ device' = device /\ (disturbed => disturbed')
         /\ commands'[issued'].name = name /\ commands'[issued'].value = value
         /\ \A r \in 1 .. issued : commands'[r] = commands[r]
<1>1. /\ issued' = issued + 1 /\ issued' \in Requests /\ issued \in Nat
      /\ device' = device
  BY RequestsAssumption DEF SendCmd, Requests, Numbers
<1>2. disturbed => disturbed'
  BY Zenon DEF SendCmd, Fetch
<1>3. Sound([name |-> name, value |-> value])
  BY DEF Sound
<1>4. \A r \in Requests :
        commands'[r] = IF r = issued' THEN [name |-> name, value |-> value]
          ELSE commands[r]
  BY DEF CommandTypes
<1>5. commands' = [r \in Requests |-> commands'[r]]
  BY DEF CommandTypes
<1>6. CommandTypes'
  BY <1>3, <1>4, <1>5 DEF CommandTypes, Sound
<1>7. \A r \in 1 .. issued : r \in Requests /\ r # issued'
  BY <1>1, RequestsAssumption DEF Requests
<1>8. QED
  BY <1>1, <1>2, <1>4, <1>6, <1>7

\* A dead time that is entered while the one before has been shown fits.
LEMMA EmitKeeps ==
  ASSUME CommandsInv, CommandTypes, DeadTimesInv, Fitting(state),
         Fitting(hardware),
         NEW c, Declared(c), NEW val \in Entered, Emit(c.action, val),
         c.action \in Names, c.action \in Switching => val \in Bits,
         c.action \in DeadTimeSetters => ToFloat(val) <= LimitOf(c.max, state)
  PROVE  DeadTimesInv' /\ CommandTypes'
<1>1. /\ UNCHANGED <<state, shown_request, hardware, foreign>> /\ SendCmd
      /\ commands' =
           [commands EXCEPT ![issued'] = [name |-> c.action, value |-> val]]
  BY DEF Emit, hardwareVars
<1>2. /\ CommandTypes'
      /\ issued' = issued + 1 /\ issued' \in Requests
      /\ device' = device /\ (disturbed => disturbed')
      /\ commands'[issued'].name = c.action /\ commands'[issued'].value = val
      /\ \A r \in 1 .. issued : commands'[r] = commands[r]
  BY <1>1, OneMoreCommand DEF CommandsInv
<1>3. hasty' <=> \/ hasty
                 \/ /\ c.action \in DeadTimeSetters
                    /\ \E r \in shown_request + 1 .. issued : Dead(r)
  BY Zenon DEF Emit, Dead, DeadTimeSetters
<1>4. ASSUME Calm'
      PROVE  /\ shown_request <= device
             /\ \A q, r \in shown_request + 1 .. issued' : Dead(q)' /\ Dead(r)'
                  => q = r
             /\ \A r \in device + 1 .. issued' : Room(r)'
             /\ Current("lead_dt", "set_lead_dt")'
                /\ Current("lag_dt", "set_lag_dt")'
             /\ hardware["lead_dt"] + hardware["lag_dt"] <= MaxValue + 1
  <2>1. Calm
    BY <1>1, <1>2, <1>3, <1>4 DEF Calm
  <2>2. /\ shown_request <= device
        /\ \A q, r \in shown_request + 1 .. issued : Dead(q) /\ Dead(r)
             => q = r
        /\ \A r \in device + 1 .. issued : Room(r)
        /\ Current("lead_dt", "set_lead_dt") /\ Current("lag_dt", "set_lag_dt")
        /\ hardware["lead_dt"] + hardware["lag_dt"] <= MaxValue + 1
    BY <2>1 DEF DeadTimesInv
  <2>3. /\ shown_request \in Nat /\ device \in Nat /\ issued \in Nat
           /\ device <= issued
        /\ MaxRequests \in Nat
    BY RequestsAssumption DEF CommandsInv, Numbers, SlotInv, CommandTypes
  <2>4. c.action \in DeadTimeSetters
          => \A r \in shown_request + 1 .. issued : ~Dead(r)
    BY <1>3, <1>4 DEF Calm
  <2>5. \A r \in 1 .. issued : (Dead(r)' <=> Dead(r)) /\ (Room(r)' <=> Room(r))
                                /\ \A a : Named(r, a)' <=> Named(r, a)
    BY <1>1, <1>2 DEF Dead, Room, Named
  <2>6. Dead(issued)' <=> c.action \in DeadTimeSetters
    BY <1>2 DEF Dead
  <2>7. \A q, r \in shown_request + 1 .. issued' : Dead(q)' /\ Dead(r)'
          => q = r
    <3> SUFFICES ASSUME NEW q \in shown_request + 1 .. issued',
                        NEW r \in shown_request + 1 .. issued',
                        Dead(q)', Dead(r)', q # r
                 PROVE  FALSE
      OBVIOUS
    <3>1. /\ q \in shown_request + 1 .. issued \/ q = issued'
          /\ r \in shown_request + 1 .. issued \/ r = issued'
      BY <1>2, <2>3
    <3>2. shown_request + 1 .. issued \subseteq 1 .. issued
      BY <2>3
    <3>3. \A x \in shown_request + 1 .. issued : Dead(x)' <=> Dead(x)
      BY <2>5, <3>2
    <3> QED
      BY <2>2, <2>4, <2>6, <3>1, <3>3
  <2>8. /\ Current("lead_dt", "set_lead_dt")'
             <=> Current("lead_dt", "set_lead_dt")
        /\ Current("lag_dt", "set_lag_dt")' <=> Current("lag_dt", "set_lag_dt")
    <3>1. \A r \in shown_request + 1 .. device : r \in 1 .. issued
      BY <2>3
    <3>2. QED
      BY <1>1, <1>2, <2>5, <3>1 DEF Current
  <2>9. c.action \in DeadTimeSetters =>
          hardware["lead_dt"] <= state["lead_dt"]
          /\ hardware["lag_dt"] <= state["lag_dt"]
    <3>1. \A r \in shown_request + 1 .. device :
            r \in shown_request + 1 .. issued
      BY <2>3
    <3>2. QED
      BY <2>2, <2>4, <3>1 DEF Current, Dead, Named, DeadTimeSetters
  <2>10. Room(issued)'
    <3>1. /\ {state["lead_dt"], state["lag_dt"], hardware["lead_dt"],
               hardware["lag_dt"]} \subseteq Int
          /\ ToFloat(val) \in Int
      BY FieldNames, NumbersRead, ValueAssumption DEF Fitting, Ordinary, Values
    <3>2. c.action = "set_lead_dt"
            => ToFloat(val) <= MaxValue + 1 - state["lag_dt"]
      BY LimitsFit DEF Declared, DeadTimeSetters
    <3>3. c.action = "set_lag_dt"
            => ToFloat(val) <= MaxValue + 1 - state["lead_dt"]
      BY LimitsFit DEF Declared, DeadTimeSetters
    <3>4. /\ c.action = "set_lead_dt"
               => ToFloat(val) + hardware["lag_dt"] <= MaxValue + 1
          /\ c.action = "set_lag_dt"
               => ToFloat(val) + hardware["lead_dt"] <= MaxValue + 1
      BY <2>9, <3>1, <3>2, <3>3, ValueAssumption DEF DeadTimeSetters
    <3>5. QED
      BY <1>1, <1>2, <3>4 DEF Room, Named
  <2>11. \A r \in device + 1 .. issued' : Room(r)'
    <3>1. \A r \in device + 1 .. issued' : r = issued'
          \/ (r \in device + 1 .. issued /\ r \in 1 .. issued)
      BY <1>2, <2>3
    <3>2. QED
      BY <2>2, <2>5, <2>10, <3>1
  <2>12. QED
    BY <2>2, <2>7, <2>8, <2>11
<1>5. DeadTimesInv'
  BY <1>1, <1>2, <1>4 DEF DeadTimesInv
<1>6. QED
  BY <1>2, <1>5

\* A request arrives, as the only one on the network and newer than the one
\* before, or fails, or the network is disturbed.
LEMMA ArriveKeeps ==
  ASSUME CommandsInv, CommandTypes, DeadTimesInv, Fitting(state),
         Fitting(hardware),
         targets \in Targets, Arrive
  PROVE  DeadTimesInv' /\ CommandTypes' /\ Fitting(hardware')
         /\ targets' \in Targets
<1>1. UNCHANGED <<state, shown_request, commands, hasty, foreign>>
  BY DEF Arrive, client, record
<1>2. CommandTypes'
  BY <1>1 DEF CommandTypes, Sound
<1>3. ASSUME NEW request \in Requests, Fail(request),
             UNCHANGED <<hardware, targets>>
      PROVE  DeadTimesInv' /\ Fitting(hardware') /\ targets' \in Targets
  <2>1. ~Calm'
    BY <1>3 DEF Fail, Calm
  <2>2. QED
    BY <1>1, <1>3, <2>1 DEF DeadTimesInv
<1>4. ASSUME NEW request \in Requests, Execute(request),
             Perform(commands[request])
      PROVE  DeadTimesInv' /\ Fitting(hardware') /\ targets' \in Targets
  <2> DEFINE cmd == commands[request]
             n == ToFloat(cmd.value)
  <2>1. Sound(cmd) /\ cmd.value \in Entered
    BY DEF CommandTypes, Sound
  <2>2. /\ Fitting(hardware') /\ targets' \in Targets
        /\ hardware'["lead_dt"] =
             IF cmd.name = "set_lead_dt" THEN n ELSE hardware["lead_dt"]
        /\ hardware'["lag_dt"] =
             IF cmd.name = "set_lag_dt" THEN n ELSE hardware["lag_dt"]
    BY <1>4, <2>1, PerformKeeps
  <2>3. /\ device' = request /\ issued' = issued /\ disturbed' = disturbed
        /\ request \in in_flight
    BY <1>4 DEF Execute
  <2>4. ASSUME Calm
        PROVE  /\ shown_request <= device'
               /\ \A q, r \in shown_request + 1 .. issued : Dead(q) /\ Dead(r)
                    => q = r
               /\ \A r \in device' + 1 .. issued : Room(r)'
               /\ Current("lead_dt", "set_lead_dt")'
                  /\ Current("lag_dt", "set_lag_dt")'
               /\ hardware'["lead_dt"] + hardware'["lag_dt"] <= MaxValue + 1
    <3>1. /\ shown_request <= device
          /\ \A q, r \in shown_request + 1 .. issued : Dead(q) /\ Dead(r)
               => q = r
          /\ \A r \in device + 1 .. issued : Room(r)
          /\ Current("lead_dt", "set_lead_dt")
             /\ Current("lag_dt", "set_lag_dt")
          /\ hardware["lead_dt"] + hardware["lag_dt"] <= MaxValue + 1
      BY <2>4 DEF DeadTimesInv
    <3>2. /\ request > device /\ request <= issued
          /\ {shown_request, device, issued, request} \subseteq Nat
      BY <2>3, <2>4
         DEF Calm, CommandsInv, NetworkInv, SlotInv, Numbers, CommandTypes
    <3>3. Room(request) /\ request \in shown_request + 1 .. issued
      BY <3>1, <3>2
    <3>4. /\ n \in Int /\ n + hardware["lag_dt"] \in Int
          /\ {hardware["lead_dt"], hardware["lag_dt"]} \subseteq Int
      BY <2>1, NumbersRead, FieldNames, ValueAssumption
         DEF Fitting, Ordinary, Values
    <3>5. hardware'["lead_dt"] + hardware'["lag_dt"] <= MaxValue + 1
      BY <2>2, <3>1, <3>3, <3>4, ValueAssumption DEF Room, Named
    <3>6. \A r \in device' + 1 .. issued : Room(r)'
      <4> SUFFICES ASSUME NEW r \in device' + 1 .. issued
                   PROVE  Room(r)'
        OBVIOUS
      <4>1. r \in device + 1 .. issued /\ r \in shown_request + 1 .. issued
            /\ r # request
        BY <2>3, <3>1, <3>2
      <4>2. Room(r) /\ ~(Dead(r) /\ Dead(request))
        BY <3>1, <3>3, <4>1
      <4>3. CASE Dead(r)
        <5>1. /\ hardware'["lead_dt"] = hardware["lead_dt"]
              /\ hardware'["lag_dt"] = hardware["lag_dt"]
          BY <2>2, <4>2, <4>3 DEF Dead, DeadTimeSetters
        <5>2. QED
          BY <1>1, <4>2, <5>1 DEF Room, Named
      <4>4. CASE ~Dead(r)
        BY <1>1, <4>4 DEF Room, Named, Dead, DeadTimeSetters
      <4>5. QED
        BY <4>3, <4>4
    <3>7. /\ \A r \in shown_request + 1 .. device :
               r \in shown_request + 1 .. device'
          /\ request \in shown_request + 1 .. device'
      BY <2>3, <3>1, <3>2
    <3>8. Current("lead_dt", "set_lead_dt")'
      BY <1>1, <2>2, <3>1, <3>7 DEF Current, Named
    <3>9. Current("lag_dt", "set_lag_dt")'
      BY <1>1, <2>2, <3>1, <3>7 DEF Current, Named
    <3>10. shown_request <= device'
      BY <2>3, <3>1, <3>2
    <3>11. QED
      BY <3>1, <3>5, <3>6, <3>8, <3>9, <3>10
  <2>5. Calm' => Calm
    BY <1>1, <2>3 DEF Calm
  <2>6. \A r : Dead(r)' <=> Dead(r)
    BY <1>1 DEF Dead
  <2>7. DeadTimesInv'
    BY <1>1, <2>3, <2>4, <2>5, <2>6 DEF DeadTimesInv
  <2>8. QED
    BY <2>2, <2>7
<1>5. QED
  BY <1>2, <1>3, <1>4 DEF Arrive

\* After a push the fed-back dead times are the device's.
LEMMA ShownKeeps ==
  ASSUME CommandsInv, CommandTypes, DeadTimesInv, Fitting(hardware), Message
  PROVE  DeadTimesInv' /\ CommandTypes'
<1>1. /\ shown_request' = device
      /\ UNCHANGED <<commands, hasty, issued, device, disturbed, hardware,
           foreign>>
  BY DEF Message, vars, network, record, hardwareVars
<1>2. /\ state'["lead_dt"] = hardware["lead_dt"]
         /\ state'["lag_dt"] = hardware["lag_dt"]
      /\ {hardware["lead_dt"], hardware["lag_dt"]} \subseteq Int
  BY FieldNames, ValueAssumption DEF Message, Fitting, Ordinary, Values
<1>3. CommandTypes'
  BY <1>1 DEF CommandTypes, Sound, CommandsInv, Numbers
<1>4. Current("lead_dt", "set_lead_dt")' /\ Current("lag_dt", "set_lag_dt")'
  BY <1>1, <1>2 DEF Current
<1>5. (\A r : Room(r)' <=> Room(r)) /\ (\A r : Dead(r)' <=> Dead(r))
      /\ (Calm' => Calm)
  BY <1>1 DEF Room, Dead, Named, Calm
<1>6. /\ {shown_request, device, issued} \subseteq Nat /\ device <= device
      /\ shown_request <= device
           => device + 1 .. issued \subseteq shown_request + 1 .. issued
  BY DEF CommandsInv, Numbers, CommandTypes
<1>7. DeadTimesInv'
  BY <1>1, <1>4, <1>5, <1>6 DEF DeadTimesInv
<1>8. QED
  BY <1>3, <1>7

-----------------------------------------------------------------------------
ControlsInv ==
  /\ SessionInv /\ WidgetInv
  /\ Fitting(state) /\ Fitting(hardware) /\ targets \in Targets
  /\ CommandsInv /\ CommandTypes /\ DeadTimesInv

LEMMA DefaultsFit ==
  /\ Fitting(StateDefaults)
  /\ Fitting([StateDefaults EXCEPT !.lead_dt = 1, !.lag_dt = 1,
                !.frequency = 1, !.relay_ref_active = 1, !.temp_1_limit = 2])
<1>1. Fitting(StateDefaults)
  BY FieldNames, ValueAssumption
  DEF Fitting, StateDefaults, Ordinary, Switched, Bits, Values, Fields
<1>2. {"lead_dt", "lag_dt", "frequency", "relay_ref_active", "temp_1_limit"}
        \subseteq Ordinary
      /\ {1, 2} \subseteq Values /\ 1 \in Bits
         /\ "temp_1_limit" \notin Switched
  BY FieldNames, ValueAssumption DEF Ordinary, Values, Bits, Switched
<1> DEFINE s1 == [StateDefaults EXCEPT !["lead_dt"] = 1]
           s2 == [s1 EXCEPT !["lag_dt"] = 1]
           s3 == [s2 EXCEPT !["frequency"] = 1]
           s4 == [s3 EXCEPT !["relay_ref_active"] = 1]
           s5 == [s4 EXCEPT !["temp_1_limit"] = 2]
<1>3. s5 = [StateDefaults EXCEPT !.lead_dt = 1, !.lag_dt = 1,
                !.frequency = 1, !.relay_ref_active = 1, !.temp_1_limit = 2]
  OBVIOUS
<1> HIDE DEF s5
<1>4. Fitting(s5)
  <2> HIDE DEF s4
  <2>1. Fitting(s4)
    <3> HIDE DEF s3
    <3>1. Fitting(s3)
      <4> HIDE DEF s2
      <4>1. Fitting(s2)
        <5> HIDE DEF s1
        <5>1. Fitting(s1)
          BY <1>1, <1>2, StoringFits DEF s1
        <5>2. QED
          BY <1>2, <5>1, StoringFits DEF s2
      <4>2. QED
        BY <1>2, <4>1, StoringFits DEF s3
    <3>2. QED
      BY <1>2, <3>1, StoringFits DEF s4
  <2>2. QED
    BY <1>2, <2>1, StoringFits DEF s5
<1>5. QED
  BY <1>1, <1>3, <1>4

LEMMA ControlsInit == LabInit => ControlsInv
<1> SUFFICES ASSUME LabInit PROVE ControlsInv
  OBVIOUS
<1>1. CommandsInv
  BY CommandsInit DEF LabInit
<1>2. SessionInv
  BY DEF LabInit, SessionInv, Tabs
<1>3. Fitting(state) /\ Fitting(hardware)
  BY DefaultsFit DEF LabInit
<1>4. targets \in Targets
  BY ValueAssumption DEF LabInit, Targets, Values
<1>5. CommandTypes
  <2>1. Sound(NoCommand)
    BY ValueAssumption DEF Sound, NoCommand, Names, Entered, Values, Switching
  <2>2. commands = [r \in Requests |-> NoCommand] /\ shown_request = None
    BY DEF LabInit
  <2> HIDE DEF Sound, NoCommand
  <2>3. QED
    BY <2>1, <2>2, RequestsAssumption DEF CommandTypes, None
<1>6. DeadTimesInv
  <2>1. shown_request = 0 /\ device = 0 /\ issued = 0 /\ foreign = 0
    BY DEF LabInit, Init, None
  <2>2. /\ hardware["lead_dt"] = 1 /\ hardware["lag_dt"] = 1
        /\ state["lead_dt"] = 2 /\ state["lag_dt"] = 2
    BY DEF LabInit, StateDefaults
  <2>3. Current("lead_dt", "set_lead_dt") /\ Current("lag_dt", "set_lag_dt")
    BY <2>2 DEF Current
  <2>4. QED
    BY <2>1, <2>2, <2>3, ValueAssumption DEF DeadTimesInv
<1>7. WidgetInv
  <2>1. widgets = [i \in 1 .. Len(session.controls) |->
          IF Rendered(session.controls[i])
          THEN Mounted(session.controls[i].kind,
            PropsOf(session.controls[i], state))
          ELSE Unmounted]
    BY DEF LabInit
  <2>2. ASSUME NEW i \in 1 .. Len(session.controls)
        PROVE  /\ Proper(session.controls[i], widgets[i])
               /\ Rendered(session.controls[i]) =>
                    widgets[i].props = PropsOf(session.controls[i], state)
    <3> DEFINE c == session.controls[i]
               p == PropsOf(c, state)
    <3>1. Declared(c) /\ c.kind \in Kinds
      BY <1>2, ControlOf DEF SessionInv, Declared
    <3>2. p \in PropsFor(c)
      BY <1>3, <3>1, PropsFit
    <3>3. widgets[i] = IF Rendered(c) THEN Mounted(c.kind, p) ELSE Unmounted
      BY <2>1
    <3> HIDE DEF c, p
    <3>4. /\ Proper(c, Mounted(c.kind, p)) /\ Mounted(c.kind, p).props = p
          /\ Proper(c, Unmounted)
      BY <3>1, <3>2, MountedFits, UnmountedFits
    <3>5. QED
      BY <3>3, <3>4 DEF c, p
  <2>3. DOMAIN widgets = 1 .. Len(session.controls)
        /\ widgets = [i \in DOMAIN widgets |-> widgets[i]]
    BY <2>1
  <2>4. QED
    BY <2>2, <2>3 DEF WidgetInv
<1>8. QED
  BY <1>1, <1>2, <1>3, <1>4, <1>5, <1>6, <1>7 DEF ControlsInv

LEMMA CommandsKept == CommandsInv /\ UNCHANGED vars => CommandsInv'
  BY CommandsStep

LEMMA WidgetsStay ==
  ASSUME WidgetInv, UNCHANGED <<widgets, session, tab, dials, state>>
  PROVE  WidgetInv'
<1>1. \A c : Rendered(c)' <=> Rendered(c)
  BY DEF Rendered
<1>2. QED
  BY <1>1 DEF WidgetInv

LEMMA RestStays ==
  ASSUME CommandTypes, DeadTimesInv,
         UNCHANGED <<vars, record, hardwareVars, state, shown_request>>
  PROVE  CommandTypes' /\ DeadTimesInv'
<1>1. UNCHANGED <<issued, device, disturbed, commands, hasty, hardware,
        foreign>>
  BY DEF vars, network, record, hardwareVars
<1>2. DeadTimesInv'
  BY <1>1, DeadTimesStay DEF Calm
<1>3. CommandTypes'
  BY <1>1 DEF CommandTypes, Sound
<1>4. QED
  BY <1>2, <1>3

LEMMA OperatedKeeps ==
  ASSUME ControlsInv, NEW i \in DOMAIN widgets, User(i) \/ NumberTimeout(i)
  PROVE  ControlsInv'
<1> DEFINE c == session.controls[i]
<1>1. Turns(i) /\ (NoEmit \/ Emits(c))
  BY UserStep DEF ControlsInv
<1>2. UNCHANGED <<session, tab, dials, state, hardware, targets>>
  BY <1>1 DEF NoEmit, Emits, Emit, hardwareVars
<1>3. WidgetInv'
  BY <1>1, <1>2, BecomesKeeps, WidgetsStay DEF Turns, ControlsInv
<1>4. SessionInv' /\ Fitting(state') /\ Fitting(hardware')
      /\ targets' \in Targets
  BY <1>2 DEF ControlsInv, SessionInv
<1>5. CommandsInv' /\ CommandTypes' /\ DeadTimesInv'
  <2>1. CASE NoEmit
    <3>1. UNCHANGED <<vars, record, hardwareVars, state, shown_request>>
      BY <2>1 DEF NoEmit
    <3>2. QED
      BY <3>1, CommandsKept, RestStays DEF ControlsInv
  <2>2. CASE Emits(c)
    <3>1. Declared(c) /\ c \in Controls /\ c.action \in Names
      BY ControlOf DEF ControlsInv, SessionInv, WidgetInv, Names
    <3> HIDE DEF c
    <3>2. PICK val \in Entered :
            /\ Emit(c.action, val)
            /\ c.action \in Switching => val \in Bits
            /\ c.action \in DeadTimeSetters
                 => ToFloat(val) <= LimitOf(c.max, state)
      BY <2>2 DEF Emits
    <3>3. SendCmd
      BY <3>2 DEF Emit
    <3>4. CommandsInv'
      BY <3>3, CommandsStep DEF ControlsInv, Next
    <3>5. DeadTimesInv' /\ CommandTypes'
      BY <3>1, <3>2, EmitKeeps DEF ControlsInv
    <3>6. QED
      BY <3>4, <3>5
  <2>3. QED
    BY <1>1, <2>1, <2>2
<1>6. QED
  BY <1>3, <1>4, <1>5 DEF ControlsInv

\* Another client's command is a proper one.
LEMMA ForeignKeeps ==
  ASSUME ControlsInv, Foreign
  PROVE  ControlsInv'
<1>1. /\ UNCHANGED <<session, vars, tab, dials, widgets, state, shown_request,
           commands>>
      /\ foreign' = foreign + 1
  BY DEF Foreign, client, record
<1>2. PICK i \in DOMAIN widgets :
        \E val \in IF Kind(i) \in {"toggle", "button"} THEN {0, 1}
          ELSE Values :
          Perform([name |-> session.controls[i].action, value |-> val])
  BY DEF Foreign
<1> DEFINE c == session.controls[i]
<1>3. PICK val \in IF Kind(i) \in {"toggle", "button"} THEN {0, 1}
        ELSE Values :
        Perform([name |-> c.action, value |-> val])
  BY <1>2
<1>4. c \in Controls /\ Declared(c) /\ c.kind = Kind(i)
  BY ControlOf DEF ControlsInv, WidgetInv, SessionInv, Kind
<1> HIDE DEF c
<1>5. Sound([name |-> c.action, value |-> val])
  <2>1. val \in Entered
    BY <1>3, ValuesAreNumbers DEF Bits
  <2>2. c.action \in Names
    BY <1>4 DEF Names
  <2>3. c.action \in Switching => val \in Bits
    BY <1>3, <1>4 DEF Declared, Bits
  <2>4. QED
    BY <2>1, <2>2, <2>3 DEF Sound
<1>6. Fitting(hardware') /\ targets' \in Targets
  BY <1>3, <1>5, PerformKeeps DEF ControlsInv
<1>7. foreign' \in Nat /\ ~Calm'
  BY <1>1 DEF ControlsInv, DeadTimesInv, Calm
<1>8. CommandsInv' /\ WidgetInv' /\ SessionInv' /\ Fitting(state')
  BY <1>1, CommandsKept, WidgetsStay DEF ControlsInv, SessionInv
<1>9. CommandTypes' /\ DeadTimesInv'
  BY <1>1, <1>7 DEF ControlsInv, CommandTypes, Sound, DeadTimesInv
<1>10. QED
  BY <1>6, <1>8, <1>9 DEF ControlsInv

LEMMA ControlsStep ==
  ASSUME ControlsInv, [LabNext]_labVars
  PROVE  ControlsInv'
<1>1. ASSUME NEW i \in DOMAIN widgets, User(i) \/ NumberTimeout(i)
      PROVE  ControlsInv'
  BY <1>1, OperatedKeeps
<1>2. CASE OpenTab \/ ChooseDial
  <2>1. /\ UNCHANGED <<session, vars, record, state, shown_request,
             hardwareVars>>
        /\ UNCHANGED <<hardware, targets>>
    BY <1>2 DEF OpenTab, ChooseDial, hardwareVars
  <2>2. \/ widgets' = [i \in DOMAIN widgets |-> Rerendered(i, TRUE)]
        \/ widgets' = [i \in DOMAIN widgets |-> Rerendered(i, FALSE)]
    BY <1>2 DEF OpenTab, ChooseDial
  <2>3. WidgetInv'
    BY <2>1, <2>2, RenderKeeps DEF ControlsInv
  <2>4. SessionInv'
    BY <1>2, SessionsAssumption
       DEF OpenTab, ChooseDial, ControlsInv, SessionInv
  <2>5. CommandsInv' /\ CommandTypes' /\ DeadTimesInv'
    BY <2>1, CommandsKept, RestStays DEF ControlsInv
  <2>6. QED
    BY <2>1, <2>3, <2>4, <2>5 DEF ControlsInv
<1>3. CASE RateLimitTimer
  <2>1. TimerExpires
        /\ UNCHANGED <<session, tab, dials, widgets, state, shown_request,
                                    commands, hasty, hardware, targets,
                                      foreign>>
    BY <1>3 DEF RateLimitTimer, client, record, hardwareVars
  <2>2. issued' = issued /\ device' = device /\ (disturbed => disturbed')
    <3>1. issued' = issued /\ device' = device
      BY <2>1 DEF TimerExpires
    <3>2. (\E running : Fetch(pending, running)) \/ disturbed' = disturbed
      BY <2>1 DEF TimerExpires
    <3>3. disturbed => disturbed'
      BY <3>2, Zenon DEF Fetch
    <3>4. QED
      BY <3>1, <3>3
  <2>3. CommandsInv'
    BY <2>1, CommandsStep DEF ControlsInv, Next
  <2>4. DeadTimesInv'
    BY <2>1, <2>2, DeadTimesStay DEF ControlsInv, Calm
  <2>5. WidgetInv' /\ SessionInv' /\ CommandTypes'
    BY <2>1, WidgetsStay DEF ControlsInv, SessionInv, CommandTypes, Sound
  <2>6. QED
    BY <2>1, <2>3, <2>4, <2>5 DEF ControlsInv
<1>4. CASE Arrive
  <2>1. /\ UNCHANGED <<session, tab, dials, widgets, state>>
        /\ \E request \in Requests : Execute(request) \/ Fail(request)
    BY <1>4 DEF Arrive, client
  <2>2. CommandsInv'
    BY <2>1, CommandsStep DEF ControlsInv, Next
  <2>3. DeadTimesInv' /\ CommandTypes' /\ Fitting(hardware')
        /\ targets' \in Targets
    BY <1>4, ArriveKeeps DEF ControlsInv
  <2>4. WidgetInv' /\ SessionInv' /\ Fitting(state')
    BY <2>1, WidgetsStay DEF ControlsInv, SessionInv
  <2>5. QED
    BY <2>2, <2>3, <2>4 DEF ControlsInv
<1>5. CASE FastTick
  <2>1. UNCHANGED <<session, vars, tab, dials, widgets, state, shown_request,
                    commands, hasty, targets, foreign>>
    BY <1>5 DEF FastTick, client, record
  <2>2. /\ Fitting(hardware') /\ hardware'["lead_dt"] = hardware["lead_dt"]
        /\ hardware'["lag_dt"] = hardware["lag_dt"]
    BY <1>5, RampsKeep DEF ControlsInv
  <2>3. UNCHANGED <<issued, device, disturbed>>
    BY <2>1 DEF vars, network
  <2>4. DeadTimesInv'
    BY <2>1, <2>2, <2>3, DeadTimesStay DEF ControlsInv, Calm
  <2>5. CommandsInv' /\ WidgetInv' /\ SessionInv' /\ CommandTypes'
    BY <2>1, CommandsKept, WidgetsStay
       DEF ControlsInv, SessionInv, CommandTypes, Sound
  <2>6. QED
    BY <2>1, <2>2, <2>4, <2>5 DEF ControlsInv
<1>6. CASE Foreign
  BY <1>6, ForeignKeeps
<1>7. CASE Message
  <2>1. UNCHANGED <<session, vars, tab, dials, hardware, targets>>
    BY <1>7 DEF Message, hardwareVars
  <2>2. WidgetInv' /\ Fitting(state')
    BY <1>7, MessageKeeps DEF ControlsInv
  <2>3. DeadTimesInv' /\ CommandTypes'
    BY <1>7, ShownKeeps DEF ControlsInv
  <2>4. CommandsInv' /\ SessionInv'
    BY <2>1, CommandsKept DEF ControlsInv, SessionInv
  <2>5. QED
    BY <2>1, <2>2, <2>3, <2>4 DEF ControlsInv
<1>8. CASE Disable \/ Form \/ UNCHANGED labVars
  <2>1. UNCHANGED <<session, vars, tab, dials, widgets, state, shown_request,
                    record, hardwareVars>>
    BY <1>8 DEF Disable, Form, labVars, client
  <2>2. UNCHANGED <<hardware, targets>>
    BY <2>1 DEF hardwareVars
  <2>3. CommandsInv' /\ CommandTypes' /\ DeadTimesInv' /\ WidgetInv'
        /\ SessionInv'
    BY <2>1, CommandsKept, RestStays, WidgetsStay DEF ControlsInv, SessionInv
  <2>4. QED
    BY <2>1, <2>2, <2>3 DEF ControlsInv
<1>9. QED
  BY <1>1, <1>2, <1>3, <1>4, <1>5, <1>6, <1>7, <1>8 DEF LabNext

-----------------------------------------------------------------------------
\* The network form.

Confs == [ap : BOOLEAN, ssid : Ssids]

Exchanges ==
  [number : 0 .. MaxSubmits, conf : Confs, answer : BOOLEAN, alive : BOOLEAN]

FormTypes ==
  /\ form \in Confs /\ device_conf \in Confs /\ saved_conf \in Confs
  /\ exchanges \in SUBSET Exchanges
  /\ submits \in 0 .. MaxSubmits

Fit(conf) == conf.ap => conf.ssid \in intended \/ mixed

\* The form may be unfit only where the user has just entered the SSID; a
\* request for the configuration carries none of its own.  During a save the
\* mode is already the new one and the SSID still the old one.
FormInv ==
  /\ FormTypes
  /\ DefaultSsid \in intended
  /\ Fit(device_conf)
  /\ wifi # "saving" => Fit(saved_conf)
  /\ wifi = "saving" => saved_conf.ap = device_conf.ap
  /\ entered \/ Fit(form)
  /\ \A e \in exchanges : e.answer \/ e.number > 0 => Fit(e.conf)

USE DEF Confs, Exchanges, FormTypes, Fit, FormInv, NetForm!Confs,
  NetForm!FormDefaults

LEMMA FormInit == NetForm!Init => FormInv
  BY DEF NetForm!Init

LEMMA FormStep ==
  ASSUME FormInv, NetForm!FormNext
  PROVE  FormInv'
<1> USE DEF NetForm!network, NetForm!history
<1>1. CASE NetForm!set_ap_mode_defaults
  BY <1>1 DEF NetForm!set_ap_mode_defaults
<1>2. CASE NetForm!ChooseStation
  BY <1>2 DEF NetForm!ChooseStation
<1>3. CASE NetForm!submit_net_conf
  <2> DEFINE r == [number |-> submits + 1, conf |-> form, answer |-> FALSE,
                   alive |-> TRUE]
  <2>1. /\ submits' = submits + 1 /\ submits < MaxSubmits
        /\ exchanges' = exchanges \cup {r}
        /\ UNCHANGED <<form, device_conf, saved_conf, wifi, entered, mixed>>
    BY <1>3 DEF NetForm!submit_net_conf, NetForm!Request
  <2>2. intended \subseteq intended' /\ (entered => form.ssid \in intended')
    BY <1>3 DEF NetForm!submit_net_conf
  <2>3. r \in Exchanges /\ submits' \in 0 .. MaxSubmits
    BY <2>1
  <2>4. FormTypes'
    BY <2>1, <2>3
  <2>5. r.conf = form
    OBVIOUS
  <2>6. \A e \in exchanges' : e.answer \/ e.number > 0 => Fit(e.conf)'
    BY <2>1, <2>2, <2>5
  <2>7. QED
    BY <2>1, <2>2, <2>4, <2>6
<1>4. CASE NetForm!SaveMode \/ NetForm!SaveSsid \/ NetForm!Restart
           \/ NetForm!RestoreDefaults
  <2>1. UNCHANGED <<form, exchanges, submits, entered, intended>>
    BY <1>4 DEF NetForm!SaveMode, NetForm!SaveSsid, NetForm!Restart,
                NetForm!RestoreDefaults
  <2>2. \A conf : Fit(conf) => Fit(conf)'
    <3>1. mixed => mixed'
      BY <1>4, Zenon DEF NetForm!SaveMode, NetForm!SaveSsid, NetForm!Restart,
                        NetForm!RestoreDefaults
    <3>2. QED
      BY <2>1, <3>1
  <2>3. NetForm!FormDefaults \in Confs /\ Fit(NetForm!FormDefaults)
    OBVIOUS
  <2>4. CASE NetForm!SaveMode
    <3>1. /\ wifi' = "saving" /\ device_conf' = device_conf
          /\ saved_conf' = [saved_conf EXCEPT !.ap = device_conf.ap]
      BY <2>4 DEF NetForm!SaveMode
    <3>2. saved_conf' \in Confs /\ saved_conf'.ap = device_conf'.ap
      BY <3>1
    <3>3. QED
      BY <2>1, <2>2, <3>1, <3>2
  <2>5. CASE NetForm!SaveSsid
    <3>1. /\ wifi' = "ready" /\ device_conf' = device_conf
          /\ wifi = "saving"
          /\ saved_conf' = [saved_conf EXCEPT !.ssid = device_conf.ssid]
      BY <2>5 DEF NetForm!SaveSsid
    <3>2. saved_conf' = device_conf
      BY <3>1
    <3>3. QED
      BY <2>1, <2>2, <3>1, <3>2
  <2>6. CASE NetForm!Restart
    <3>1. /\ wifi' = "ready" /\ device_conf' = saved_conf
          /\ saved_conf' = saved_conf /\ (wifi = "saving" => mixed')
      BY <2>6, Zenon DEF NetForm!Restart
    <3>2. Fit(saved_conf)'
      BY <2>1, <2>2, <3>1
    <3>3. QED
      BY <2>1, <2>2, <3>1, <3>2
  <2>7. CASE NetForm!RestoreDefaults
    <3>1. /\ wifi' = "trying" /\ device_conf' = NetForm!FormDefaults
          /\ saved_conf' = saved_conf /\ (wifi = "saving" => mixed')
      BY <2>7, Zenon DEF NetForm!RestoreDefaults
    <3>2. Fit(saved_conf)'
      BY <2>1, <2>2, <3>1
    <3>3. QED
      BY <2>1, <2>2, <2>3, <3>1, <3>2
  <2>8. QED
    BY <1>4, <2>4, <2>5, <2>6, <2>7
<1>5. ASSUME NEW ssid \in Ssids, NetForm!EnterSsid(ssid)
      PROVE  FormInv'
  BY <1>5 DEF NetForm!EnterSsid
<1>6. ASSUME NEW e \in exchanges, NetForm!Answer(e)
      PROVE  FormInv'
  <2> DEFINE a == [e EXCEPT !.answer = TRUE, !.conf = device_conf']
  <2>1. /\ e \in Exchanges /\ ~e.answer
        /\ exchanges' = (exchanges \ {e}) \cup {a}
        /\ UNCHANGED <<form, submits, entered, intended, saved_conf>>
        /\ wifi = "ready" /\ wifi' \in {"ready", "trying"}
    BY <1>6 DEF NetForm!Answer
  <2>2. \/ e.number = 0 /\ device_conf' = device_conf
        \/ e.number > 0 /\ device_conf' = NetForm!Taken(e.conf)
    <3>1. IF e.number = 0 THEN device_conf' = device_conf
            ELSE device_conf' = NetForm!Taken(e.conf)
      BY <1>6, Zenon DEF NetForm!Answer
    <3>2. QED
      BY <2>1, <3>1
  <2>8. /\ mixed => mixed'
        /\ e.number # 0 /\ e.conf.ssid \in TooLong /\ e.conf.ap # device_conf.ap
             => mixed'
    BY <1>6, Zenon DEF NetForm!Answer
  <2>9. \A conf : Fit(conf) => Fit(conf)'
    BY <2>1, <2>8
  <2>3. device_conf' \in Confs /\ Fit(device_conf)'
    <3>1. CASE device_conf' = device_conf
      BY <2>9, <3>1
    <3>2. CASE e.number > 0 /\ device_conf' = NetForm!Taken(e.conf)
      <4>1. e.conf \in Confs /\ Fit(e.conf) /\ device_conf \in Confs
        BY <2>1, <3>2
      <4>2. device_conf'.ap = e.conf.ap /\ device_conf' \in Confs
        BY <3>2, <4>1 DEF NetForm!Taken
      <4>3. CASE e.conf.ssid \notin TooLong
        <5>1. device_conf' = e.conf
          BY <3>2, <4>1, <4>3 DEF NetForm!Taken
        <5>2. QED
          BY <2>9, <4>1, <5>1
      <4>4. CASE e.conf.ssid \in TooLong /\ e.conf.ap = device_conf.ap
        <5>1. device_conf' = device_conf
          BY <3>2, <4>1, <4>4 DEF NetForm!Taken
        <5>2. QED
          BY <2>9, <5>1
      <4>5. CASE e.conf.ssid \in TooLong /\ e.conf.ap # device_conf.ap
        BY <2>8, <3>2, <4>2, <4>5
      <4>6. QED
        BY <4>3, <4>4, <4>5
    <3>3. QED
      BY <2>2, <3>1, <3>2
  <2>4. a \in Exchanges /\ a.conf = device_conf'
    BY <2>1, <2>3
  <2>5. FormTypes'
    BY <2>1, <2>3, <2>4
  <2>6. \A x \in exchanges' : x.answer \/ x.number > 0 => Fit(x.conf)'
    BY <2>1, <2>3, <2>4, <2>9
  <2>7. QED
    BY <2>1, <2>3, <2>5, <2>6, <2>9
<1>7. ASSUME NEW e \in exchanges, NetForm!update_net_conf(e)
      PROVE  FormInv'
  BY <1>7 DEF NetForm!update_net_conf
<1>8. ASSUME NEW e \in exchanges, NetForm!Lose(e)
      PROVE  FormInv'
  BY <1>8 DEF NetForm!Lose
<1>9. QED
  BY <1>1, <1>2, <1>3, <1>4, <1>5, <1>6, <1>7, <1>8 DEF NetForm!FormNext

LEMMA MountStep ==
  ASSUME FormInv, NetForm!Mount \/ NetForm!Unmount
  PROVE  FormInv'
<1> USE DEF NetForm!network, NetForm!history
<1>1. CASE NetForm!Mount
  <2> DEFINE r == [number |-> 0, conf |-> NetForm!FormDefaults,
        answer |-> FALSE,
                   alive |-> TRUE]
  <2>1. /\ exchanges' = exchanges \cup {r}
        /\ form' = NetForm!FormDefaults
        /\ UNCHANGED <<submits, device_conf, saved_conf, wifi, intended, mixed>>
    BY <1>1 DEF NetForm!Mount, NetForm!Request
  <2>2. r \in Exchanges /\ NetForm!FormDefaults \in Confs
    OBVIOUS
  <2>3. FormTypes'
    BY <2>1, <2>2
  <2>4. r.number = 0 /\ ~r.answer
    OBVIOUS
  <2>5. Fit(form)'
    BY <2>1
  <2> HIDE DEF r
  <2>6. \A e \in exchanges' : (e.answer \/ e.number > 0 => Fit(e.conf)')
    BY <2>1, <2>4
  <2>7. QED
    BY <2>1, <2>3, <2>5, <2>6
<1>2. CASE NetForm!Unmount
  <2>1. UNCHANGED <<form, submits, device_conf, saved_conf, wifi,
                    entered, intended, mixed>>
    BY <1>2 DEF NetForm!Unmount
  <2>2. ASSUME NEW x \in exchanges'
        PROVE  \E e \in exchanges : e.number > 0
               /\ x = [e EXCEPT !.alive = FALSE]
    BY <1>2 DEF NetForm!Unmount
  <2>3. ASSUME NEW x \in exchanges'
        PROVE  x \in Exchanges /\ Fit(x.conf)
    <3>1. PICK e \in exchanges : e.number > 0 /\ x = [e EXCEPT !.alive = FALSE]
      BY <2>2
    <3>2. e \in Exchanges /\ Fit(e.conf)
      BY <3>1
    <3>3. QED
      BY <3>1, <3>2
  <2>4. exchanges' \subseteq Exchanges
    BY <2>3
  <2>5. FormTypes'
    BY <2>1, <2>4
  <2>6. \A x \in exchanges' : (x.answer \/ x.number > 0 => Fit(x.conf)')
    BY <2>1, <2>3
  <2>7. QED
    BY <2>1, <2>5, <2>6
<1>3. QED
  BY <1>1, <1>2

LEMMA FormUnchanged == FormInv /\ UNCHANGED formVars => FormInv'
  BY DEF formVars

\* Only the form's own actions and changes of the view touch the form.
LEMMA LabSteps ==
  ASSUME [LabNext]_labVars
  PROVE  \/ NetForm!FormNext \/ NetForm!Mount \/ NetForm!Unmount
         \/ UNCHANGED formVars
<1>1. ASSUME NEW i \in DOMAIN widgets, User(i) \/ NumberTimeout(i)
      PROVE  UNCHANGED formVars
  BY <1>1 DEF User, NumberTimeout, EnterNumber, ChangeNumber, BlurNumber,
              SlideRange, ReleaseRange, PressDial, TurnDial, ReleaseDial,
              ClickToggle, ClickButton, Emit, NoEmit
<1>2. CASE OpenTab
  BY <1>2 DEF OpenTab
<1>3. CASE ChooseDial
  BY <1>3 DEF ChooseDial
<1>4. CASE RateLimitTimer \/ Arrive \/ FastTick \/ Foreign \/ Message
           \/ Disable
  BY <1>4 DEF RateLimitTimer, Arrive, FastTick, Foreign, Message, Disable
<1>5. CASE Form
  BY <1>5 DEF Form
<1>6. CASE UNCHANGED labVars
  BY <1>6 DEF labVars
<1>7. QED
  BY <1>1, <1>2, <1>3, <1>4, <1>5, <1>6 DEF LabNext

\* The rest of the form's types; the request that loads the form is only on the
\* network while the view is open.
FormFlags ==
  /\ entered \in BOOLEAN /\ mixed \in BOOLEAN /\ intended \subseteq Ssids
  /\ wifi \in {"ready", "trying", "saving"}

LoadInv ==
  \A e \in exchanges :
    e.number <= submits /\ (e.number = 0 => tab = NetworkUpdate)

LEMMA FormFlagsInit == NetForm!Init => FormFlags /\ LoadInv
<1> SUFFICES ASSUME NetForm!Init PROVE FormFlags /\ LoadInv
  OBVIOUS
<1>1. device_conf \in Confs /\ exchanges = {} /\ intended \subseteq Ssids
  BY DEF NetForm!Init
<1>2. /\ entered \in BOOLEAN /\ mixed \in BOOLEAN
      /\ wifi \in {"ready", "trying", "saving"}
  BY Zenon DEF NetForm!Init
<1>3. QED
  BY <1>1, <1>2 DEF FormFlags, LoadInv

LEMMA FormFlagsStep ==
  ASSUME FormInv, FormFlags, NetForm!FormNext \/ NetForm!Mount
         \/ NetForm!Unmount
  PROVE  FormFlags'
<1> USE DEF NetForm!network, NetForm!history
<1>1. form.ap \in BOOLEAN /\ form.ssid \in Ssids
  OBVIOUS
<1>2. CASE NetForm!set_ap_mode_defaults \/ NetForm!ChooseStation
  BY <1>2, Zenon
     DEF NetForm!set_ap_mode_defaults, NetForm!ChooseStation, FormFlags
<1>3. CASE NetForm!submit_net_conf
  <2>1. UNCHANGED <<entered, mixed, wifi>>
        /\ intended' = IF entered THEN intended \cup {form.ssid} ELSE intended
    BY <1>3, Zenon DEF NetForm!submit_net_conf
  <2>2. QED
    BY <1>1, <2>1, Zenon DEF FormFlags
<1>4. CASE NetForm!SaveMode \/ NetForm!SaveSsid \/ NetForm!Restart
           \/ NetForm!RestoreDefaults
  BY <1>4, Zenon DEF NetForm!SaveMode, NetForm!SaveSsid, NetForm!Restart,
                     NetForm!RestoreDefaults, FormFlags
<1>5. ASSUME NEW ssid \in Ssids, NetForm!EnterSsid(ssid)
      PROVE  FormFlags'
  BY <1>1, <1>5, Zenon DEF NetForm!EnterSsid, FormFlags
<1>6. ASSUME NEW e \in exchanges, NetForm!Answer(e)
      PROVE  FormFlags'
  BY <1>6, Zenon DEF NetForm!Answer, FormFlags
<1>7. ASSUME NEW e \in exchanges, NetForm!update_net_conf(e) \/ NetForm!Lose(e)
      PROVE  FormFlags'
  BY <1>7, Zenon DEF NetForm!update_net_conf, NetForm!Lose, FormFlags
<1>8. CASE NetForm!Mount \/ NetForm!Unmount
  BY <1>8, Zenon DEF NetForm!Mount, NetForm!Unmount, FormFlags
<1>9. QED
  BY <1>2, <1>3, <1>4, <1>5, <1>6, <1>7, <1>8 DEF NetForm!FormNext

LEMMA LoadStep ==
  ASSUME FormInv, LoadInv, NetForm!FormNext, tab' = tab
  PROVE  LoadInv'
<1> USE DEF NetForm!network, NetForm!history, LoadInv
<1>1. CASE NetForm!set_ap_mode_defaults \/ NetForm!ChooseStation
           \/ NetForm!SaveMode \/ NetForm!SaveSsid \/ NetForm!Restart
           \/ NetForm!RestoreDefaults
  BY <1>1 DEF NetForm!set_ap_mode_defaults, NetForm!ChooseStation,
     NetForm!SaveMode, NetForm!SaveSsid, NetForm!Restart,
     NetForm!RestoreDefaults
<1>2. CASE NetForm!submit_net_conf
  BY <1>2 DEF NetForm!submit_net_conf, NetForm!Request
<1>3. ASSUME NEW ssid \in Ssids, NetForm!EnterSsid(ssid)
      PROVE  LoadInv'
  BY <1>3 DEF NetForm!EnterSsid
<1>4. ASSUME NEW e \in exchanges, NetForm!Answer(e)
      PROVE  LoadInv'
  <2> DEFINE a == [e EXCEPT !.answer = TRUE, !.conf = device_conf']
  <2>1. exchanges' = (exchanges \ {e}) \cup {a} /\ submits' = submits
    BY <1>4 DEF NetForm!Answer
  <2>2. a.number = e.number
    OBVIOUS
  <2> HIDE DEF a
  <2>3. QED
    BY <2>1, <2>2
<1>5. ASSUME NEW e \in exchanges, NetForm!update_net_conf(e) \/ NetForm!Lose(e)
      PROVE  LoadInv'
  BY <1>5 DEF NetForm!update_net_conf, NetForm!Lose
<1>6. QED
  BY <1>1, <1>2, <1>3, <1>4, <1>5 DEF NetForm!FormNext

\* When the view is opened or left.
LEMMA LoadMounts ==
  ASSUME FormInv, LoadInv,
         \/ NetForm!Mount /\ tab' = NetworkUpdate
         \/ NetForm!Unmount
         \/ UNCHANGED formVars /\ tab # NetworkUpdate
  PROVE  LoadInv'
<1>1. CASE NetForm!Mount /\ tab' = NetworkUpdate
  BY <1>1 DEF NetForm!Mount, NetForm!Request, LoadInv
<1>2. CASE NetForm!Unmount
  BY <1>2 DEF NetForm!Unmount, LoadInv
<1>3. CASE UNCHANGED formVars /\ tab # NetworkUpdate
  BY <1>3 DEF formVars, LoadInv
<1>4. QED
  BY <1>1, <1>2, <1>3

LEMMA FormTypesSuffice == FormInv /\ FormFlags /\ LoadInv => NetForm!TypeOK
<1> SUFFICES ASSUME FormInv, FormFlags, LoadInv PROVE NetForm!TypeOK
  OBVIOUS
<1>1. \A e \in exchanges : e.conf \in Confs /\ e.number \in 0 .. submits
  BY DEF LoadInv
<1>2. {form, device_conf, saved_conf} \subseteq Confs
  OBVIOUS
<1>3. submits \in 0 .. MaxSubmits /\ {entered, mixed} \subseteq BOOLEAN
  <2>1. {entered, mixed} \subseteq BOOLEAN
    BY Zenon DEF FormFlags
  <2>2. QED
    BY <2>1
<1> HIDE DEF Confs, FormTypes, FormInv, NetForm!Confs
<1>4. QED
  BY <1>1, <1>2, <1>3, Zenon
     DEF NetForm!TypeOK, LoadInv, FormFlags, Confs, NetForm!Confs

-----------------------------------------------------------------------------
HIDE DEF Confs, Exchanges, FormTypes, Fit, FormInv, NetForm!Confs,
         NetForm!FormDefaults

FormSession == FormInv /\ FormFlags /\ LoadInv

-----------------------------------------------------------------------------
\* The flags of the client and the count of the other client's commands.
LabFlags ==
  /\ disabled \in BOOLEAN /\ hasty \in BOOLEAN
  /\ foreign \in 0 .. session.foreign

LEMMA LabFlagsInit == LabInit => LabFlags
<1> SUFFICES ASSUME LabInit PROVE LabFlags
  OBVIOUS
<1>1. disabled \in BOOLEAN /\ hasty \in BOOLEAN
  BY Zenon DEF LabInit
<1>2. foreign = 0 /\ session.foreign \in Nat
  BY SessionsAssumption DEF LabInit
<1>3. QED
  BY <1>1, <1>2 DEF LabFlags

LEMMA LabFlagsStep ==
  ASSUME LabFlags, session \in Sessions, [LabNext]_labVars
  PROVE  LabFlags'
<1> DEFINE Same == UNCHANGED <<session, disabled, hasty, foreign>>
<1>1. Same => LabFlags'
  BY DEF LabFlags
<1>2. ASSUME NEW name, NEW value, Emit(name, value)
      PROVE  LabFlags'
  <2>1. UNCHANGED <<session, disabled, foreign>>
    BY <1>2 DEF Emit, hardwareVars
  <2>2. hasty' \in BOOLEAN
    BY <1>2, Zenon DEF Emit
  <2>3. QED
    BY <2>1, <2>2 DEF LabFlags
<1>3. ASSUME NEW i \in DOMAIN widgets, User(i) \/ NumberTimeout(i)
      PROVE  LabFlags'
  <2>1. NoEmit => Same
    BY DEF NoEmit, record, hardwareVars
  <2>2. NoEmit \/ \E name, value : Emit(name, value)
    BY <1>3 DEF User, NumberTimeout, EnterNumber, ChangeNumber, BlurNumber,
      SlideRange, ReleaseRange, PressDial, TurnDial, ReleaseDial, ClickToggle,
      ClickButton
  <2>3. QED
    BY <1>1, <1>2, <2>1, <2>2
<1>4. CASE OpenTab \/ ChooseDial
  BY <1>1, <1>4 DEF OpenTab, ChooseDial, record, hardwareVars
<1>5. CASE RateLimitTimer \/ Arrive \/ FastTick \/ Form
  BY <1>1, <1>5 DEF RateLimitTimer, Arrive, FastTick, Form, client, record,
                    hardwareVars
<1>6. CASE Foreign
  <2>1. UNCHANGED <<session, disabled, hasty>>
    BY <1>6 DEF Foreign, client, record
  <2>2. foreign < session.foreign /\ foreign' = foreign + 1
    BY <1>6 DEF Foreign
  <2>3. session.foreign \in Nat
    BY SessionsAssumption
  <2>4. foreign' \in 0 .. session.foreign
    BY <2>2, <2>3 DEF LabFlags
  <2>5. QED
    BY <2>1, <2>4 DEF LabFlags
<1>7. CASE Message \/ Disable
  <2>1. UNCHANGED <<session, hasty, foreign>>
    BY <1>7 DEF Message, Disable, record, hardwareVars
  <2>2. disabled' \in BOOLEAN
    BY <1>7, Zenon DEF Message, Disable
  <2>3. QED
    BY <2>1, <2>2 DEF LabFlags
<1>8. CASE UNCHANGED labVars
  BY <1>1, <1>8 DEF labVars, client, record, hardwareVars
<1>9. QED
  BY <1>3, <1>4, <1>5, <1>6, <1>7, <1>8 DEF LabNext

-----------------------------------------------------------------------------

LEMMA FormSessionInit == LabInit => FormSession
  BY FormInit, FormFlagsInit DEF LabInit, FormSession

LEMMA FormSessionStep ==
  ASSUME FormSession, [LabNext]_labVars
  PROVE  FormSession'
<1>1. FormInv'
  BY LabSteps, FormStep, MountStep, FormUnchanged DEF FormSession
<1>2. FormFlags'
  <2>1. UNCHANGED formVars => FormFlags'
    BY DEF FormSession, FormFlags, formVars
  <2>2. QED
    BY <2>1, LabSteps, FormFlagsStep DEF FormSession
<1>3. LoadInv'
  <2>1. CASE OpenTab
    <3>1. \/ NetForm!Mount /\ tab' = NetworkUpdate
          \/ NetForm!Unmount
          \/ UNCHANGED formVars /\ tab # NetworkUpdate
      BY <2>1 DEF OpenTab
    <3>2. QED
      BY <3>1, LoadMounts DEF FormSession
  <2>2. CASE Form
    <3>1. NetForm!FormNext /\ tab' = tab
      BY <2>2 DEF Form, client
    <3>2. QED
      BY <3>1, LoadStep DEF FormSession
  <2>3. CASE ~OpenTab /\ ~Form
    <3>1. UNCHANGED <<formVars, tab>>
      <4>1. ASSUME NEW i \in DOMAIN widgets, User(i) \/ NumberTimeout(i)
            PROVE  UNCHANGED <<formVars, tab>>
        BY <4>1 DEF User, NumberTimeout, EnterNumber, ChangeNumber, BlurNumber,
              SlideRange, ReleaseRange, PressDial, TurnDial, ReleaseDial,
              ClickToggle, ClickButton, Emit, NoEmit
      <4>2. QED
        BY <2>3, <4>1
           DEF LabNext, ChooseDial, RateLimitTimer, Arrive, FastTick,
              Foreign, Message, Disable, labVars, client
    <3>2. QED
      BY <3>1 DEF FormSession, LoadInv, formVars
  <2>4. QED
    BY <2>1, <2>2, <2>3
<1>4. QED
  BY <1>1, <1>2, <1>3 DEF FormSession

LEMMA SessionHolds == LabSpec => [](ControlsInv /\ FormSession /\ LabFlags)
<1>1. ControlsInv => session \in Sessions
  BY DEF ControlsInv, SessionInv
<1>2. QED
  BY ControlsInit, ControlsStep, FormSessionInit, FormSessionStep,
     LabFlagsInit, LabFlagsStep, <1>1, PTL DEF LabSpec

\* All variables keep their types, whatever the user, another client and the
\* network do, and a number input that is edited always has its timeout
\* running (LiveNumberInput.vue).
THEOREM LabTypeCorrect == LabSpec => []LabTypeOK
<1>1. ControlsInv /\ FormSession /\ LabFlags => LabTypeOK
  <2> SUFFICES ASSUME ControlsInv, FormSession, LabFlags PROVE LabTypeOK
    OBVIOUS
  <2>1. TypeOK
    BY CommandTypesSuffice DEF ControlsInv, CommandsInv
  <2>2. NetForm!TypeOK
    BY FormTypesSuffice DEF FormSession
  <2>3. /\ state \in [DOMAIN StateDefaults -> 0 .. MaxValue + 1]
        /\ hardware \in [DOMAIN StateDefaults -> 0 .. MaxValue + 1]
    BY DEF ControlsInv, Fitting, Fields
  <2>4. ASSUME NEW i \in DOMAIN widgets
        PROVE  /\ widgets[i].phase \in Phases
               /\ widgets[i].shown \in Values \cup {NaN}
               /\ Kind(i) = "number" /\ Editing(widgets[i]) => widgets[i].timer
    <3>1. Proper(session.controls[i], widgets[i])
      BY DEF ControlsInv, WidgetInv
    <3>2. QED
      BY <3>1, ValuesAreNumbers DEF Proper, WidgetFor, Kind, Entered
  <2>5. SessionInv
    BY DEF ControlsInv
  <2>6. /\ targets \in [frequency : Values, duty : Values]
        /\ commands \in [Requests -> Commands]
        /\ shown_request \in Requests \cup {None}
    <3>1. targets \in Targets /\ CommandTypes
      BY DEF ControlsInv
    <3>2. \A r \in Requests : commands[r] \in Commands
      BY <3>1 DEF CommandTypes, Sound, Commands, Names, Entered
    <3>3. commands \in [Requests -> Commands]
      BY <3>1, <3>2 DEF CommandTypes
    <3>4. QED
      BY <3>1, <3>3 DEF Targets, CommandTypes, Requests, None
  <2>7. /\ {disabled, hasty} \subseteq BOOLEAN
        /\ foreign \in 0 .. session.foreign
    BY Zenon DEF LabFlags
  <2>8. QED
    BY <2>1, <2>2, <2>3, <2>4, <2>5, <2>6, <2>7 DEF LabTypeOK, SessionInv
<1>2. QED
  BY <1>1, SessionHolds, PTL

\* On the device the dead times never exceed their sum, as long as each one is
\* entered after the effect of the one before was shown and requests are
\* neither lost nor reordered (OperationSettings.vue:334-341,
\* app_state_model.cpp:47-50).
THEOREM DeadTimesAlwaysFit == LabSpec => []DeadTimesFit
<1>1. ControlsInv => DeadTimesFit
  <2> SUFFICES
        ASSUME ControlsInv, ~hasty, ~disturbed, foreign = 0
        PROVE  hardware.lead_dt + hardware.lag_dt <= hardware.dt_sum_max_hw
    BY DEF DeadTimesFit
  <2>1. hardware["lead_dt"] + hardware["lag_dt"] <= MaxValue + 1
    BY DEF ControlsInv, DeadTimesInv, Calm
  <2>2. hardware["dt_sum_max_hw"] = MaxValue + 1
    BY DEF ControlsInv, Fitting
  <2>3. QED
    BY <2>1, <2>2
<1>2. QED
  BY <1>1, SessionHolds, PTL

\* Whatever answers overwrite in the form and whatever configurations fail, the
\* device is not configured as an access point under an SSID that nobody gave
\* an access point, unless it has at some time refused the SSID of a request
\* for the other mode or lost its power during a save
\* (NetworkAndUpdate.vue:237-260, wifi_configurator.cpp:195-222, 368-387).
THEOREM ApSsidIsIntended == LabSpec => []NoAccidentalApSsid
<1>1. FormSession => NoAccidentalApSsid
  BY DEF FormSession, FormInv, Fit, NoAccidentalApSsid,
     NetForm!NoAccidentalApSsid
<1>2. QED
  BY <1>1, SessionHolds, PTL

=============================================================================
