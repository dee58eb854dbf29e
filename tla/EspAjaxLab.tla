----------------------------- MODULE EspAjaxLab -----------------------------
(***************************************************************************)
(* The web application as its user sees it (vue_app/src/EspAjaxLab.vue):   *)
(* widgets in views, the rate limited commands, the device that executes   *)
(* them and the state it pushes back.  Another client may operate the      *)
(* device at the same time.                                                *)
(*                                                                         *)
(* A behaviour follows the controls of one session: the one or two the     *)
(* user operates in it.  The views keep no state together, so these are    *)
(* the ones whose interplay can be seen.  The connection with its watchdog *)
(* (module ApiStore) appears as the flag disabled, which any message       *)
(* clears and which is set at any time.                                    *)
(***************************************************************************)
EXTENDS RequestGenerator, Widgets, Views, Sequences

CONSTANTS
  Sessions,              \* records of the controls and views used, and bounds
  Ssids, TooLong, DefaultSsid, MaxSubmits

ASSUME SessionsAssumption ==
  \A s \in Sessions :
    /\ s.controls \in Seq(Controls) /\ Len(s.controls) <= 2
    /\ s.tabs \subseteq Tabs /\ s.entries \subseteq Values \cup {NaN}
    /\ s.requests \in 0 .. MaxRequests /\ s.foreign \in Nat

ASSUME SsidsAssumption ==
  DefaultSsid \in Ssids \ TooLong /\ MaxSubmits \in Nat

VARIABLES
  session,
  tab,               \* the route
  dials,             \* setpoints with "Dial" chosen instead of "Slider"
  widgets,           \* the session's widgets
  disabled,
  state,             \* the state object of the store
  shown_request,     \* history: the last request whose effect was pushed
  commands,          \* history: the requests by number
  hasty,             \* history: a dead time entered before the last was shown
  hardware,          \* the device's state, as it is pushed
  targets,           \* frequency_target and duty_target
  foreign,           \* commands of the other client so far
  form, exchanges, submits, device_conf, saved_conf, wifi,
  entered, intended, mixed

NetForm == INSTANCE NetworkAndUpdate WITH mounted <- tab = NetworkUpdate

client == <<tab, dials, widgets, disabled, state, shown_request>>
record == <<commands, hasty>>
hardwareVars == <<hardware, targets, foreign>>
formVars == <<form, exchanges, submits, device_conf, saved_conf, wifi,
              entered, intended, mixed>>
labVars == <<session, vars, client, record, hardwareVars, formVars>>

Kind(i) == session.controls[i].kind
NoCommand == [name |-> "", value |-> 0]
Commands == [name : {""} \cup {c.action : c \in Controls},
             value : Values \cup {NaN}]

\* A range input and the dial of a setpoint are rendered in turn.
RenderedIn(c, view, chosen) ==
  /\ c.tab = view
  /\ c.kind = "range" => c.feedback \notin chosen
  /\ c.kind = "dial" => c.feedback \in chosen

Rendered(c) == RenderedIn(c, tab, dials)

(***************************************************************************)
(* The application starts with its route "/app"; the device has been       *)
(* operated before, so the state object's defaults do not fit.             *)
(***************************************************************************)
LabInit ==
  /\ Init
  /\ session \in Sessions
  /\ tab = LiveControl
  /\ dials = {}
  /\ widgets = [i \in 1 .. Len(session.controls) |->
       LET c == session.controls[i]
       IN IF Rendered(c) THEN Mounted(c.kind, PropsOf(c, StateDefaults))
                         ELSE Unmounted]
  /\ disabled = TRUE
  /\ state = StateDefaults
  /\ shown_request = None
  /\ commands = [r \in Requests |-> NoCommand]
  /\ hasty = FALSE
  /\ hardware = [StateDefaults EXCEPT !.lead_dt = 1, !.lag_dt = 1,
                   !.frequency = 1, !.relay_ref_active = 1, !.temp_1_limit = 2]
  /\ targets = [frequency |-> 1, duty |-> 0]
  /\ foreign = 0
  /\ NetForm!Init
  /\ NetworkUpdate \in session.tabs \/ device_conf = NetForm!FormDefaults

-----------------------------------------------------------------------------
(***************************************************************************)
(* The user.  Widgets that are disabled take no input.                     *)
(***************************************************************************)

\* dispatch_nv, dispatch_btn, dispatch_action: any emitted event is sent.
Emit(name, value) ==
  LET dead_time(n) == n \in {"set_lead_dt", "set_lag_dt"}
  IN /\ issued < session.requests
     /\ SendCmd
     /\ commands' = [commands EXCEPT ![issued'] = [name |-> name, value |-> value]]
     /\ hasty' = \/ hasty
                 \/ /\ dead_time(name)
                    /\ \E r \in shown_request + 1 .. issued : dead_time(commands[r].name)
     /\ UNCHANGED <<session, tab, dials, disabled, state, shown_request,
                    hardwareVars, formVars>>

NoEmit ==
  UNCHANGED <<session, tab, dials, disabled, state, shown_request,
              vars, record, hardwareVars, formVars>>

Becomes(i, w) == widgets' = [widgets EXCEPT ![i] = w]

Available(i, kind) ==
  Kind(i) = kind /\ Rendered(session.controls[i]) /\ ~disabled

EnterNumber(i) ==
  /\ Available(i, "number")
  /\ \E val \in session.entries : Becomes(i, number_on_input(widgets[i], val))
  /\ NoEmit

ChangeNumber(i) ==
  /\ Available(i, "number") /\ widgets[i].phase = "typing"
  /\ Becomes(i, number_on_change(widgets[i]))
  /\ Emit(session.controls[i].action, number_emits(widgets[i]))

BlurNumber(i) ==
  /\ Kind(i) = "number" /\ Editing(widgets[i])
  /\ Becomes(i, number_leave_edit_mode(widgets[i]))
  /\ NoEmit

NumberTimeout(i) ==
  /\ Kind(i) = "number" /\ widgets[i].timer
  /\ Becomes(i, number_timeout(widgets[i]))
  /\ NoEmit

SlideRange(i) ==
  /\ Available(i, "range")
  /\ \E val \in widgets[i].props.min .. widgets[i].props.max :
       /\ Becomes(i, range_on_input(widgets[i], val))
       /\ Emit(session.controls[i].action, val)

ReleaseRange(i) ==
  /\ Kind(i) = "range" /\ Editing(widgets[i]) /\ Rendered(session.controls[i])
  /\ Becomes(i, range_on_change(widgets[i]))
  /\ NoEmit

PressDial(i) ==
  /\ Kind(i) = "dial" /\ Rendered(session.controls[i])
  /\ Becomes(i, on_dial_mousedown(widgets[i]))
  /\ NoEmit

\* on_dial_mousemove; a disabled dial is turned back.
TurnDial(i) ==
  /\ Available(i, "dial") /\ Editing(widgets[i])
  /\ \E val \in widgets[i].props.min .. widgets[i].props.max :
       Emit(session.controls[i].action, val)
  /\ UNCHANGED widgets

ReleaseDial(i) ==
  /\ Kind(i) = "dial" /\ Editing(widgets[i]) /\ Rendered(session.controls[i])
  /\ Becomes(i, on_dial_mouseup(widgets[i]))
  /\ NoEmit

ClickToggle(i) ==
  /\ Available(i, "toggle")
  /\ Becomes(i, toggle_on_change(widgets[i]))
  /\ Emit(session.controls[i].action, 1 - widgets[i].shown)

ClickButton(i) ==
  /\ Available(i, "button")
  /\ \E val \in {0, 1} : Emit(session.controls[i].action, val)
  /\ UNCHANGED widgets

\* Widgets are created and destroyed with their view.  Of a setpoint's slider
\* and dial the one that is not rendered is kept alive, and takes the new
\* properties when it is rendered again.
Rerendered(i, opened) ==
  LET c == session.controls[i]
      w == widgets[i]
      visible == RenderedIn(c, tab', dials')
      created == opened \/ w.phase = "unmounted"
  IN CASE visible /\ created -> Mounted(c.kind, PropsOf(c, state))
       [] visible /\ ~created -> Patched(c.kind, w, PropsOf(c, state))
       [] ~visible /\ opened -> Unmounted
       [] ~visible /\ ~opened -> w

\* open_tab
OpenTab ==
  /\ tab' \in session.tabs \ {tab}
  /\ dials' = {}
  /\ widgets' = [i \in DOMAIN widgets |-> Rerendered(i, TRUE)]
  /\ CASE tab' = NetworkUpdate -> NetForm!Mount
       [] tab = NetworkUpdate -> NetForm!Unmount
       [] OTHER -> UNCHANGED formVars
  /\ UNCHANGED <<session, vars, record, disabled, state, shown_request,
                 hardwareVars>>

\* The radio buttons "Slider" and "Dial".
ChooseDial ==
  /\ tab = LiveControl
  /\ \E f \in {"frequency", "duty"} :
       /\ \E i \in DOMAIN widgets : session.controls[i].feedback = f
       /\ dials' = IF f \in dials THEN dials \ {f} ELSE dials \cup {f}
  /\ UNCHANGED tab
  /\ widgets' = [i \in DOMAIN widgets |-> Rerendered(i, FALSE)]
  /\ UNCHANGED <<session, vars, record, disabled, state, shown_request,
                 hardwareVars, formVars>>

-----------------------------------------------------------------------------
(***************************************************************************)
(* The device.                                                             *)
(***************************************************************************)

\* The setters that store a value (AppController::_register_http_api).
Setters ==
  [set_frequency_min |-> "frequency_min", set_frequency_max |-> "frequency_max",
   set_frequency_changerate |-> "frequency_changerate",
   set_duty_min |-> "duty_min", set_duty_max |-> "duty_max",
   set_duty_changerate |-> "duty_changerate",
   set_lag_dt |-> "lag_dt", set_lead_dt |-> "lead_dt",
   set_oneshot_len |-> "oneshot_len", set_current_limit |-> "current_limit",
   set_temp_1_limit |-> "temp_1_limit", set_temp_2_limit |-> "temp_2_limit",
   set_relay_ref_active |-> "relay_ref_active",
   set_relay_dut_active |-> "relay_dut_active",
   set_fan_override |-> "fan_override"]

\* Bug: the second setter was copied from the first and still stores there.
CopiedSetter(name) ==
  CASE name = "set_temp_2_limit" -> "temp_1_limit"
    [] OTHER -> Setters[name]

\* The field that a setter stores to.
Stores(name) == Setters[name]

\* String::toFloat: zero for what is not a number (api_server.cpp:73).
ToFloat(value) == IF value = NaN THEN 0 ELSE value

\* A command: a plain store, a limited target, the start of a soft start, or
\* one without effect on what is displayed.  Switching the output on may be
\* refused (module PowerOutput).
Perform(cmd) ==
  LET n == ToFloat(cmd.value)
  IN CASE cmd.name \in DOMAIN Setters ->
            hardware' = [hardware EXCEPT ![Stores(cmd.name)] = n] /\ UNCHANGED targets
       [] cmd.name = "set_frequency" ->
            /\ targets' = [targets EXCEPT !.frequency =
                 Limit(n, hardware.frequency_min, hardware.frequency_max)]
            /\ UNCHANGED hardware
       [] cmd.name = "set_duty" ->
            /\ targets' = [targets EXCEPT !.duty =
                 Limit(n, hardware.duty_min, hardware.duty_max)]
            /\ UNCHANGED hardware
       [] cmd.name \in {"set_power_pwm_active", "trigger_oneshot"} ->
            /\ hardware' \in {hardware, [hardware EXCEPT !.duty = 0]}
            /\ UNCHANGED targets
       [] OTHER -> UNCHANGED <<hardware, targets>>

\* A command arrives, or is lost.
Arrive ==
  /\ \E request \in Requests :
       \/ Execute(request) /\ Perform(commands[request])
       \/ Fail(request) /\ UNCHANGED <<hardware, targets>>
  /\ UNCHANGED <<session, client, record, foreign, formVars>>

\* Another client operates one of the controls.
Foreign ==
  /\ foreign < session.foreign
  /\ foreign' = foreign + 1
  /\ \E i \in DOMAIN widgets :
       \E val \in IF Kind(i) \in {"toggle", "button"} THEN {0, 1} ELSE Values :
         Perform([name |-> session.controls[i].action, value |-> val])
  /\ UNCHANGED <<session, vars, client, record, formVars>>

Throttled(current, target, increment) ==
  CASE target > current + increment -> current + increment
    [] target < current - increment -> current - increment
    [] OTHER -> target

\* The fast tick: the setpoints move to their targets (module SoftStart).
FastTick ==
  /\ hardware' = [hardware EXCEPT
       !.duty = Throttled(@, targets.duty, hardware.duty_changerate),
       !.frequency = Throttled(@, targets.frequency, hardware.frequency_changerate)]
  /\ hardware' # hardware
  /\ UNCHANGED <<session, vars, client, record, targets, foreign, formVars>>

RateLimitTimer ==
  /\ TimerExpires
  /\ UNCHANGED <<session, client, record, hardwareVars, formVars>>

-----------------------------------------------------------------------------
(***************************************************************************)
(* Events.                                                                 *)
(***************************************************************************)

\* A push arrives: update_state copies every key that both sides know, and
\* the widgets that are rendered get new properties.  duty_max_hw is a
\* constant of the client.
Message ==
  /\ state' = [hardware EXCEPT !.duty_max_hw = state.duty_max_hw]
  /\ shown_request' = device
  /\ disabled' = FALSE
  /\ widgets' = [i \in DOMAIN widgets |->
       LET c == session.controls[i]
       IN IF Rendered(c) THEN Patched(c.kind, widgets[i], PropsOf(c, state'))
                         ELSE widgets[i]]
  /\ UNCHANGED <<session, vars, tab, dials, record, hardwareVars, formVars>>

\* The watchdog has expired.
Disable ==
  /\ disabled' = TRUE
  /\ UNCHANGED <<session, vars, tab, dials, widgets, state, shown_request,
                 record, hardwareVars, formVars>>

\* In sessions without the network form the device keeps its configuration.
Form ==
  /\ NetworkUpdate \in session.tabs
  /\ NetForm!FormNext
  /\ UNCHANGED <<session, vars, client, record, hardwareVars>>

User(i) ==
  \/ EnterNumber(i) \/ ChangeNumber(i) \/ BlurNumber(i)
  \/ SlideRange(i) \/ ReleaseRange(i)
  \/ PressDial(i) \/ TurnDial(i) \/ ReleaseDial(i)
  \/ ClickToggle(i) \/ ClickButton(i)

LabNext ==
  \/ \E i \in DOMAIN widgets : User(i) \/ NumberTimeout(i)
  \/ OpenTab \/ ChooseDial
  \/ RateLimitTimer \/ Arrive \/ FastTick \/ Foreign
  \/ Message \/ Disable
  \/ Form

LabSpec == LabInit /\ [][LabNext]_labVars

(***************************************************************************)
(* Timers expire, a request arrives or fails, the ramps go on, and the     *)
(* device pushes its state periodically to a client that is connected      *)
(* again and again.  Users owe nothing.                                    *)
(***************************************************************************)
FairSpec ==
  /\ LabSpec
  /\ WF_labVars(RateLimitTimer) /\ WF_labVars(Arrive)
  /\ WF_labVars(FastTick) /\ WF_labVars(Message)
  /\ \A i \in 1 .. 2 : WF_labVars(i \in DOMAIN widgets /\ NumberTimeout(i))

-----------------------------------------------------------------------------
(***************************************************************************)
(* Properties.                                                             *)
(***************************************************************************)

\* Every variable keeps its type.  A number input that is being edited always
\* has its timeout running, so it cannot be left showing the input for good.
LabTypeOK ==
  /\ TypeOK /\ NetForm!TypeOK
  /\ session \in Sessions /\ tab \in Tabs /\ dials \subseteq {"frequency", "duty"}
  /\ state \in [DOMAIN StateDefaults -> 0 .. MaxValue + 1]
  /\ hardware \in [DOMAIN StateDefaults -> 0 .. MaxValue + 1]
  /\ targets \in [frequency : Values, duty : Values]
  /\ commands \in [Requests -> Commands] /\ shown_request \in Requests \cup {None}
  /\ {disabled, hasty} \subseteq BOOLEAN /\ foreign \in 0 .. session.foreign
  /\ \A i \in DOMAIN widgets :
       /\ widgets[i].phase \in Phases /\ widgets[i].shown \in Values \cup {NaN}
       /\ Kind(i) = "number" /\ Editing(widgets[i]) => widgets[i].timer

Displayed(i, kinds) ==
  i \in DOMAIN widgets /\ Kind(i) \in kinds /\ Rendered(session.controls[i])

\* What the control shows while nobody edits it.  The dial clamps, and keeps a
\* clamped value when another client narrows and then widens its limits.
InSync(i) ==
  LET c == session.controls[i]
      value == hardware[c.feedback]
      min == LimitOf(c.min, hardware)
      max == LimitOf(c.max, hardware)
  IN IF c.kind = "dial"
     THEN \/ widgets[i].shown = set_value(value, [min |-> min, max |-> max])
          \/ foreign > 1
     ELSE widgets[i].shown = value

\* "this control acts as a live view of its reactive value_feedback"
\* (LiveNumberInput.vue, LiveRangeInput.vue, LiveJogDial.vue): when the device
\* no longer changes, each control that is displayed shows its value unless it
\* is being edited, however edits, timeouts, pushes and renderings fell; and
\* number inputs are always left again.
ControlsShowDevice ==
  /\ \A i \in 1 .. 2 : []<>~(Displayed(i, {"number"}) /\ Editing(widgets[i]))
  /\ <>[](\A i \in DOMAIN widgets :
             Displayed(i, {"number", "range", "dial"}) =>
               Editing(widgets[i]) \/ InSync(i))

\* The user's last command has its effect on the field that the operated
\* control displays, through rate limit, slot, name of the command and ramp,
\* unless the network was disturbed or another client interfered.
OperatedControlFollows ==
  LET cmd == commands[issued]
      n == ToFloat(cmd.value)
      obeyed(field) ==
        CASE field = "frequency" ->
               \/ hardware.frequency_changerate = 0
               \/ hardware[field] =
                    Limit(n, hardware.frequency_min, hardware.frequency_max)
          [] field = "duty" ->
               \/ hardware.duty_changerate = 0
               \/ hardware[field] = Limit(n, hardware.duty_min, hardware.duty_max)
          [] OTHER -> hardware[field] = n
  IN <>[](issued > 0 /\ ~disturbed /\ foreign = 0 =>
            \A i \in DOMAIN widgets :
              /\ session.controls[i].action = cmd.name
              /\ Kind(i) # "button"
              => obeyed(session.controls[i].feedback))

\* The sum of the dead times never exceeds dt_sum_max_hw on the device, although
\* each one is limited by what was fed back of the other (the view allows the
\* sum itself, OperationSettings.vue:334-341), as long as each is entered after
\* the effect of the one before was shown, no other client interferes, and
\* requests are neither lost nor reordered.
DeadTimesFit ==
  ~hasty /\ ~disturbed /\ foreign = 0 =>
    hardware.lead_dt + hardware.lag_dt <= hardware.dt_sum_max_hw

NoAccidentalApSsid == NetForm!NoAccidentalApSsid

\* LiveToggleSwitch.vue:7-8 "this control acts as a live view of its reactive
\* "value_feedback" property value", on a network that is not disturbed and with
\* no other client.
TogglesShowDevice ==
  \A i \in 1 .. 2 :
    <>[](Displayed(i, {"toggle"}) /\ ~disturbed /\ foreign = 0 => InSync(i))
=============================================================================
