-------------------------- MODULE WiFiConfigurator --------------------------
(***************************************************************************)
(* Getting on the network (main/wifi_configurator.cpp): begin() connects   *)
(* with the saved configuration, reboots and counts when that fails, and   *)
(* falls back to the default access point after too many reboots; a HTTP   *)
(* request changes the configuration at run time.                          *)
(*                                                                         *)
(* Three memories take part: the NVS of this class, which survives a       *)
(* restart, state.net_conf and _restart_counter in RAM, which do not, and  *)
(* the WiFi driver's own persistent station credentials, which             *)
(* WiFi.begin(ssid, psk) writes and WiFi.begin() uses.                     *)
(*                                                                         *)
(* A configuration is the mode flag ap_mode_active, an SSID and a password *)
(* (psk), which is named after the network it belongs to.  The keys of NVS *)
(* are written one after the other, each at once.  The addresses, the      *)
(* hostname and the other flags are written in between and after, and no   *)
(* step depends on them but the first attempt of _reconnect_ap_mode.       *)
(***************************************************************************)
EXTENDS Naturals

CONSTANTS
  Networks,           \* the networks users configure
  DefaultNetwork,     \* the one of NetworkConfig{}
  BadAccessPoints,    \* passwords the driver refuses for an access point
  max_reboots,
  max_reconnections,
  MaxCounter,         \* bound: no more requests from this count on
  MaxPowerLosses      \* bound: power losses

ASSUME NetworksAssumption ==
         /\ DefaultNetwork \in Networks
         /\ BadAccessPoints \subseteq Networks \ {DefaultNetwork}
ASSUME LimitsAssumption ==
         /\ max_reboots \in Nat /\ max_reconnections \in Nat \ {0, 1}
         /\ MaxCounter \in Nat /\ MaxCounter > max_reboots

ASSUME PowerAssumption == MaxPowerLosses \in Nat

VARIABLES
  nvs_conf, nvs_counter,     \* NVS
  wifi_stored,               \* the driver's station credentials (external)
  reachable,                 \* station networks in range (external)
  net_conf, restart_counter, \* RAM
  pc,                        \* where begin() or a request is
  caller,                    \* "begin", "fallback" or "request"
  retries,
  proven,                    \* history: what a request last connected with
  torn,                      \* history: power was lost in the latest save
  losses                     \* power losses so far

nvs == <<nvs_conf, nvs_counter>>
ram == <<net_conf, restart_counter, pc, caller, retries>>
history == <<proven, torn, losses>>
vars == <<nvs, wifi_stored, reachable, ram, history>>

Configs == [ap : BOOLEAN, ssid : Networks, psk : Networks]
Credentials == [ssid : Networks, psk : Networks]

\* NetworkConfig{}
DefaultConf == [ap |-> TRUE, ssid |-> DefaultNetwork, psk |-> DefaultNetwork]

CredentialsOf(conf) == [ssid |-> conf.ssid, psk |-> conf.psk]

\* An access point can be set up: always with the defaults (the comment at
\* wifi_configurator.cpp:66 supposes so).
ApWorks(conf) == conf.psk \notin BadAccessPoints

\* A station gets on a network in range with the network's own password.
StationWorks(credentials) ==
  credentials.ssid \in reachable /\ credentials.psk = credentials.ssid

\* What the device is connected with.
Effective ==
  IF net_conf.ap THEN net_conf
  ELSE [ap |-> FALSE, ssid |-> wifi_stored.ssid, psk |-> wifi_stored.psk]

Init ==
  /\ nvs_conf = DefaultConf
  /\ nvs_counter = 0
  /\ wifi_stored = CredentialsOf(DefaultConf)
  /\ reachable \in SUBSET (Networks \ {DefaultNetwork})
  /\ net_conf = DefaultConf
  /\ restart_counter = 0
  /\ pc = "boot"
  /\ caller = "begin"
  /\ retries = 0
  /\ proven = DefaultConf
  /\ torn = FALSE
  /\ losses = 0

Goto(from, to) == pc = from /\ pc' = to

(***************************************************************************)
(* begin()                                                                 *)
(***************************************************************************)

\* _restore_state_from_nvs
Restore ==
  /\ Goto("boot", "check")
  /\ net_conf' = nvs_conf
  /\ restart_counter' = nvs_counter
  /\ UNCHANGED <<nvs, wifi_stored, reachable, caller, retries, history>>

\* Too many reboots: back to the defaults, which are saved first and are
\* supposed to work.
CheckRestarts ==
  /\ \/ /\ restart_counter > max_reboots
        /\ Goto("check", "save_ap")
        /\ net_conf' = DefaultConf
        /\ caller' = "fallback"
        /\ proven' = DefaultConf
     \/ /\ restart_counter <= max_reboots
        /\ Goto("check", "connect")
        /\ UNCHANGED <<net_conf, caller, proven>>
  /\ UNCHANGED <<nvs, wifi_stored, reachable, restart_counter, retries,
                 torn, losses>>

\* Only a mode the driver (WiFi.getMode()) is not in is configured anew.
Connect ==
  /\ \E ap_mode_active \in BOOLEAN :
       Goto("connect",
            IF ap_mode_active # net_conf.ap THEN "configure" ELSE "retry")
  /\ UNCHANGED <<nvs, wifi_stored, reachable, net_conf, restart_counter,
                 caller, retries, history>>

\* _configure_ap_mode
ConfigureAp ==
  /\ net_conf.ap
  /\ Goto("configure", IF ApWorks(net_conf) THEN "connected" ELSE "retry")
  /\ UNCHANGED <<nvs, wifi_stored, reachable, net_conf, restart_counter,
                 caller, retries, history>>

\* _configure_station_mode: WiFi.begin(ssid, psk) may report success at once.
ConfigureStation ==
  /\ ~net_conf.ap
  /\ \/ Goto("configure", "connected") /\ StationWorks(net_conf)
     \/ Goto("configure", "retry")
  /\ wifi_stored' = CredentialsOf(net_conf)
  /\ UNCHANGED <<nvs, reachable, net_conf, restart_counter, caller, retries,
                 history>>

\* One attempt of _reconnect_ap_mode.  The first may find another address
\* than the configured one, which a failed attempt sets.
ReconnectAp ==
  /\ net_conf.ap /\ retries < max_reconnections
  /\ \/ /\ ApWorks(net_conf)
        /\ Goto("retry", "connected")
        /\ retries' = retries
     \/ /\ ~ApWorks(net_conf) \/ retries = 0
        /\ Goto("retry", "retry")
        /\ retries' = retries + 1
  /\ UNCHANGED <<nvs, wifi_stored, reachable, net_conf, restart_counter,
                 caller, history>>

\* Bug: one attempt too many.
ReconnectStationOnceMore ==
  /\ ~net_conf.ap /\ retries <= max_reconnections
  /\ \/ /\ StationWorks(wifi_stored)
        /\ Goto("retry", "connected")
        /\ net_conf' = [net_conf EXCEPT !.ssid = wifi_stored.ssid]
        /\ retries' = retries
     \/ /\ Goto("retry", "retry")
        /\ net_conf' = net_conf
        /\ retries' = retries + 1
  /\ UNCHANGED <<nvs, wifi_stored, reachable, restart_counter, caller,
                 history>>

\* One attempt of _reconnect_station_mode: the driver connects with its own
\* stored credentials, and the SSID is copied to the configuration.
ReconnectStation ==
  /\ ~net_conf.ap /\ retries < max_reconnections
  /\ \/ /\ StationWorks(wifi_stored)
        /\ Goto("retry", "connected")
        /\ net_conf' = [net_conf EXCEPT !.ssid = wifi_stored.ssid]
        /\ retries' = retries
     \/ /\ Goto("retry", "retry")
        /\ net_conf' = net_conf
        /\ retries' = retries + 1
  /\ UNCHANGED <<nvs, wifi_stored, reachable, restart_counter, caller,
                 history>>

GiveUp ==
  /\ retries = max_reconnections
  /\ Goto("retry", "failed")
  /\ UNCHANGED <<nvs, wifi_stored, reachable, net_conf, restart_counter,
                 caller, retries, history>>

\* A restart, by command or by power loss, leaves the RAM with its defaults.
Reboot ==
  /\ pc' = "boot"
  /\ net_conf' = DefaultConf
  /\ restart_counter' = 0
  /\ caller' = "begin"
  /\ retries' = 0

\* Bug: the count is not written before the restart.
RestartUncounted ==
  /\ pc = "failed"
  /\ Reboot
  /\ UNCHANGED <<nvs, wifi_stored, reachable, history>>

\* _counting_device_restart
CountingDeviceRestart ==
  /\ pc = "failed"
  /\ nvs_counter' = (restart_counter + 1) % 256
  /\ Reboot
  /\ UNCHANGED <<nvs_conf, wifi_stored, reachable, history>>

\* begin() is connected: the restart counter in NVS is reset.
ResetCounter ==
  /\ caller # "request"
  /\ Goto("connected", "up")
  /\ nvs_counter' = 0
  /\ UNCHANGED <<nvs_conf, wifi_stored, reachable, net_conf, restart_counter,
                 caller, retries, history>>

(***************************************************************************)
(* _on_request_do_configuration, when begin() is done.                     *)
(***************************************************************************)

\* Bug: the new configuration is saved before it is tried.
RequestSavesFirst(conf) ==
  /\ restart_counter < MaxCounter
  /\ Goto("up", "configure")
  /\ net_conf' = conf
  /\ nvs_conf' = conf
  /\ caller' = "request"
  /\ retries' = 0
  /\ UNCHANGED <<nvs_counter, wifi_stored, reachable, restart_counter,
                 history>>

\* The received values overwrite net_conf and are tried at once.  A field
\* that is missing or refused keeps its value: conf is any combination.
Request(conf) ==
  /\ restart_counter < MaxCounter
  /\ Goto("up", "configure")
  /\ net_conf' = conf
  /\ caller' = "request"
  /\ retries' = 0
  /\ UNCHANGED <<nvs, wifi_stored, reachable, restart_counter, history>>

RequestConnected ==
  /\ caller = "request"
  /\ Goto("connected", "save_ap")
  /\ proven' = Effective
  /\ UNCHANGED <<nvs, wifi_stored, reachable, net_conf, restart_counter,
                 caller, retries, torn, losses>>

(***************************************************************************)
(* _save_state_to_nvs: one key after the other.                            *)
(***************************************************************************)
SaveMode ==
  /\ Goto("save_ap", "save_ssid")
  /\ nvs_conf' = [nvs_conf EXCEPT !.ap = net_conf.ap]
  /\ UNCHANGED <<nvs_counter, wifi_stored, reachable, net_conf,
                 restart_counter, caller, retries, history>>

SaveSsid ==
  /\ Goto("save_ssid", "save_psk")
  /\ nvs_conf' = [nvs_conf EXCEPT !.ssid = net_conf.ssid]
  /\ UNCHANGED <<nvs_counter, wifi_stored, reachable, net_conf,
                 restart_counter, caller, retries, history>>

\* The caller goes on: begin() with the defaults, a request is done.
SavePsk ==
  /\ Goto("save_psk", IF caller = "fallback" THEN "connect" ELSE "up")
  /\ nvs_conf' = [nvs_conf EXCEPT !.psk = net_conf.psk]
  /\ torn' = FALSE
  /\ UNCHANGED <<nvs_counter, wifi_stored, reachable, net_conf,
                 restart_counter, caller, retries, proven, losses>>

(***************************************************************************)
(* The environment.                                                        *)
(***************************************************************************)
Saving == pc \in {"save_ap", "save_ssid", "save_psk"}

PowerLoss ==
  /\ losses < MaxPowerLosses
  /\ losses' = losses + 1
  /\ torn' = (torn \/ Saving)
  /\ Reboot
  /\ UNCHANGED <<nvs, wifi_stored, reachable, proven>>

NetworksChange ==
  /\ reachable' \in SUBSET (Networks \ {DefaultNetwork})
  /\ UNCHANGED <<nvs, wifi_stored, ram, history>>

Begin ==
  \/ Restore \/ CheckRestarts \/ Connect
  \/ ConfigureAp \/ ConfigureStation
  \/ ReconnectAp \/ ReconnectStation \/ GiveUp
  \/ CountingDeviceRestart \/ ResetCounter
  \/ RequestConnected
  \/ SaveMode \/ SaveSsid \/ SavePsk

Next ==
  \/ Begin
  \/ \E conf \in Configs : Request(conf)
  \/ PowerLoss
  \/ NetworksChange

Spec == Init /\ [][Next]_vars

\* The code that runs goes on; nothing is assumed of users and networks.
FairSpec == Spec /\ WF_vars(Begin)

-----------------------------------------------------------------------------
(***************************************************************************)
(* Properties.                                                             *)
(***************************************************************************)

\* Every variable keeps its type, and the saved restart counter, which is
\* incremented from a copy in RAM that may be older, its bound.
TypeOK ==
  /\ {nvs_conf, net_conf, proven} \subseteq Configs
  /\ {nvs_counter, restart_counter} \subseteq 0 .. MaxCounter
  /\ wifi_stored \in Credentials
  /\ reachable \subseteq Networks
  /\ pc \in {"boot", "check", "connect", "configure", "retry", "connected",
             "failed", "save_ap", "save_ssid", "save_psk", "up"}
  /\ caller \in {"begin", "fallback", "request"}
  /\ retries \in 0 .. max_reconnections
  /\ torn \in BOOLEAN
  /\ losses \in 0 .. MaxPowerLosses

\* When the power losses end, the device is up again and again, whatever was
\* saved, even a configuration of which a power loss cut off a part, and
\* however unreachable its network: the counted reboots lead to the default
\* access point (wifi_configurator.hpp:46-47).
GetsUp == []<>(pc = "up")

\* A configuration is made permanent only when it was found to work
\* (wifi_configurator.cpp:392-396).  While nothing is being saved, NVS holds
\* all of what the latest request that succeeded was connected with, or of
\* the defaults after a fall-back: mode, SSID and password, whatever failed
\* requests, restarts and the driver's own credentials did since.  Except
\* after a power loss during a save, which leaves new keys besides old ones
\* until the next complete save.
SavedWorkedBefore == ~Saving /\ ~torn => nvs_conf = proven
=============================================================================
