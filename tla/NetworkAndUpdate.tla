-------------------------- MODULE NetworkAndUpdate --------------------------
(***************************************************************************)
(* The form for the network configuration                                  *)
(* (vue_app/src/views/NetworkAndUpdate.vue) and the device that answers it *)
(* (get_wifi_config and set_wifi_config in main/wifi_configurator.cpp).    *)
(* Its requests have neither a rate limit nor a slot.  Answers come at any *)
(* time, and fill the form over what the user has entered meanwhile.  How  *)
(* the device tries a configuration is the subject of WiFiConfigurator.    *)
(*                                                                         *)
(* A configuration is the mode and the SSID.  The other fields are         *)
(* entered, sent and overwritten like the SSID of a station.  The device   *)
(* takes the fields of a request one by one, and saves them key by key.    *)
(***************************************************************************)
EXTENDS Naturals

CONSTANTS
  Ssids,         \* the SSIDs
  TooLong,       \* those the device refuses
  DefaultSsid,   \* "esp_ajax_lab"
  MaxSubmits     \* bound: submits by the user

VARIABLES
  mounted, disabled,   \* whether the view is open, and the client's flag
  form,                \* net_conf of the view
  exchanges,           \* requests and answers on the network
  submits,             \* submits so far
  device_conf,         \* state.net_conf of the device
  saved_conf,          \* the configuration in NVS
  wifi,                \* what the device is doing with device_conf
  entered,             \* history: the user gave the SSID to an access point
  intended,            \* history: SSIDs submitted for an access point
  mixed                \* history: the mode of one configuration has met the
                       \* SSID of another in the device

network == <<device_conf, saved_conf, wifi>>
history == <<entered, intended, mixed>>
formVars == <<form, exchanges, submits, network, history>>

Confs == [ap : BOOLEAN, ssid : Ssids]

\* data(): "values are only defaults".
FormDefaults == [ap |-> TRUE, ssid |-> DefaultSsid]

Init ==
  /\ form = FormDefaults
  /\ exchanges = {}
  /\ submits = 0
  /\ device_conf \in [ap : BOOLEAN, ssid : Ssids \ TooLong]
  /\ saved_conf = device_conf
  /\ wifi = "ready"
  /\ entered = FALSE
  /\ intended = {DefaultSsid} \cup (IF device_conf.ap THEN {device_conf.ssid} ELSE {})
  /\ mixed = FALSE

Request(number, conf) ==
  [number |-> number, conf |-> conf, answer |-> FALSE, alive |-> TRUE]

\* The view is created, mounted() calls get_initial_state: number 0.
Mount ==
  /\ form' = FormDefaults
  /\ exchanges' = exchanges \cup {Request(0, FormDefaults)}
  /\ entered' = FALSE
  /\ UNCHANGED <<submits, network, intended, mixed>>

\* The view is destroyed: a submitted request still has its effect, but no
\* answer reaches a form.
Unmount ==
  /\ exchanges' = {[e EXCEPT !.alive = FALSE] : e \in
                     {e \in exchanges : e.number > 0 /\ ~e.answer}}
  /\ UNCHANGED <<form, submits, network, history>>

\* The radio button "Access Point", with set_ap_mode_defaults.
set_ap_mode_defaults ==
  /\ mounted
  /\ form' = [ap |-> TRUE, ssid |-> DefaultSsid]
  /\ entered' = FALSE
  /\ UNCHANGED <<exchanges, submits, network, intended, mixed>>

ChooseStation ==
  /\ mounted
  /\ form' = [form EXCEPT !.ap = FALSE]
  /\ entered' = FALSE
  /\ UNCHANGED <<exchanges, submits, network, intended, mixed>>

EnterSsid(ssid) ==
  /\ mounted
  /\ form' = [form EXCEPT !.ssid = ssid]
  /\ entered' = form.ap
  /\ UNCHANGED <<exchanges, submits, network, intended, mixed>>

submit_net_conf ==
  /\ mounted /\ ~disabled
  /\ submits < MaxSubmits
  /\ submits' = submits + 1
  /\ exchanges' = exchanges \cup {Request(submits', form)}
  /\ intended' = IF entered THEN intended \cup {form.ssid} ELSE intended
  /\ UNCHANGED <<form, network, entered, mixed>>

(***************************************************************************)
(* The device answers a GET with its configuration.  Of a POST it takes    *)
(* each field that it does not refuse, and answers before it tries the     *)
(* result; see _on_request_do_configuration.                               *)
(***************************************************************************)
Taken(conf) ==
  [ap |-> conf.ap,
   ssid |-> IF conf.ssid \in TooLong THEN device_conf.ssid ELSE conf.ssid]

Answer(e) ==
  /\ e \in exchanges /\ ~e.answer /\ wifi = "ready"
  /\ IF e.number = 0
     THEN UNCHANGED <<network, mixed>>
     ELSE /\ device_conf' = Taken(e.conf)
          /\ mixed' = \/ mixed
                      \/ e.conf.ssid \in TooLong /\ e.conf.ap # device_conf.ap
          /\ wifi' = "trying" /\ UNCHANGED saved_conf
  /\ exchanges' = (exchanges \ {e}) \cup
                    {[e EXCEPT !.answer = TRUE, !.conf = device_conf']}
  /\ UNCHANGED <<form, submits, entered, intended>>

\* The interface works: _save_state_to_nvs writes the mode, and later the SSID.
SaveMode ==
  /\ wifi = "trying" /\ wifi' = "saving"
  /\ saved_conf' = [saved_conf EXCEPT !.ap = device_conf.ap]
  /\ UNCHANGED <<form, exchanges, submits, device_conf, history>>

SaveSsid ==
  /\ wifi = "saving" /\ wifi' = "ready"
  /\ saved_conf' = [saved_conf EXCEPT !.ssid = device_conf.ssid]
  /\ UNCHANGED <<form, exchanges, submits, device_conf, history>>

\* The interface does not work, or power is lost: the saved configuration is
\* restored.  It is mixed when the power was lost during a save.
Restart ==
  /\ wifi # "ready" /\ wifi' = "ready"
  /\ device_conf' = saved_conf
  /\ mixed' = (mixed \/ wifi = "saving")
  /\ UNCHANGED <<form, exchanges, submits, saved_conf, entered, intended>>

\* When restarts do not help either, the defaults are saved.
RestoreDefaults ==
  /\ device_conf' = FormDefaults
  /\ mixed' = (mixed \/ wifi = "saving")
  /\ wifi' = "trying"
  /\ UNCHANGED <<form, exchanges, submits, saved_conf, entered, intended>>

\* Bug: the mode in an answer is not taken over.
UpdateSsidOnly(e) ==
  /\ e \in exchanges /\ e.answer
  /\ form' = IF e.alive THEN [form EXCEPT !.ssid = e.conf.ssid] ELSE form
  /\ exchanges' = exchanges \ {e}
  /\ entered' = (entered /\ ~e.alive)
  /\ UNCHANGED <<submits, network, intended, mixed>>

\* The answer arrives: every key of the form that is in it is overwritten.
update_net_conf(e) ==
  /\ e \in exchanges /\ e.answer
  /\ form' = IF e.alive THEN e.conf ELSE form
  /\ exchanges' = exchanges \ {e}
  /\ entered' = (entered /\ ~e.alive)
  /\ UNCHANGED <<submits, network, intended, mixed>>

\* A request or an answer is lost: an alert, or nothing, and no update.
Lose(e) ==
  /\ e \in exchanges
  /\ exchanges' = exchanges \ {e}
  /\ UNCHANGED <<form, submits, network, history>>

FormNext ==
  \/ set_ap_mode_defaults \/ ChooseStation \/ submit_net_conf
  \/ SaveMode \/ SaveSsid \/ Restart \/ RestoreDefaults
  \/ \E ssid \in Ssids : EnterSsid(ssid)
  \/ \E e \in exchanges : Answer(e) \/ update_net_conf(e) \/ Lose(e)

-----------------------------------------------------------------------------
(***************************************************************************)
(* Properties.                                                             *)
(***************************************************************************)

\* Every variable keeps its type; at most one request loads the form.
TypeOK ==
  /\ {form, device_conf, saved_conf} \subseteq Confs
  /\ wifi \in {"ready", "trying", "saving"} /\ submits \in 0 .. MaxSubmits
  /\ {entered, mixed} \subseteq BOOLEAN /\ intended \subseteq Ssids
  /\ \A e \in exchanges :
       e.conf \in Confs /\ e.number \in 0 .. submits /\ (e.number = 0 => mounted)

\* "It is too easy to accidentially set a previously set infrastructure SSID
\* as our AP SSID" (NetworkAndUpdate.vue:255-256): whenever answers overwrite
\* the form, and after configurations that failed, the device is not configured
\* as an access point under an SSID that was not entered for an access point.
\* Two things can still do it: a request for the other mode with an SSID that
\* is refused, and a loss of power during a save.
NoAccidentalApSsid ==
  device_conf.ap => device_conf.ssid \in intended \/ mixed
=============================================================================
