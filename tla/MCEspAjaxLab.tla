---------------------------- MODULE MCEspAjaxLab ----------------------------
(***************************************************************************)
(* Sessions for EspAjaxLab: every control alone, pairs of controls that    *)
(* depend on each other or compete for the slot, and the network form.     *)
(***************************************************************************)
EXTENDS EspAjaxLab

Session(controls, tabs, entries, requests, others) ==
  [controls |-> controls, tabs |-> tabs \cup {LiveControl}, entries |-> entries,
   requests |-> requests, foreign |-> others]

\* Every control alone, with all values and one command of another client.
Alone == {Session(<<c>>, {Settings}, Values \cup {NaN}, 1, 1) :
            c \in Controls}

Use(action, kind) == CHOOSE c \in Controls : c.action = action /\ c.kind = kind

Number(action) == Use(action, "number")
Slider(action) == Use(action, "range")
Dial(action) == Use(action, "dial")
Toggle(action) == Use(action, "toggle")
PowerButton == Use("set_power_pwm_active", "button")

\* A setpoint by its two interchangeable controls, and against its limit, its
\* rate of change and the start of a soft start.
Setpoints == {
  Session(<<Slider("set_frequency"), Dial("set_frequency")>>, {}, {}, 2, 0),
  Session(<<Slider("set_frequency"), Number("set_frequency_max")>>, {Settings}, {1, 3}, 2, 0),
  Session(<<Slider("set_duty"), Number("set_duty_changerate")>>, {Settings}, {1, 3}, 2, 0),
  Session(<<Dial("set_duty"), PowerButton>>, {}, {}, 2, 0)}

\* The dial while another client changes its limits.
Limited == {
  Session(<<Dial("set_duty"), Number("set_duty_max")>>, {}, {}, 1, 2)}

\* Two controls that compete for the slot of waiting requests.
Toggles == {
  Session(<<Toggle("set_fan_override"), Toggle("set_relay_ref_active")>>, {}, {}, 3, 0)}

DeadTimePair == {
  Session(<<Number("set_lead_dt"), Number("set_lag_dt")>>, {Settings}, {1, 3}, 2, 0)}

NetworkForm == {Session(<<>>, {NetworkUpdate}, {}, 0, 0)}

MCSessions ==
  UNION {Alone, Setpoints, Limited, Toggles, DeadTimePair, NetworkForm}
=============================================================================
