----------------------- MODULE WiFiConfiguratorProofs -----------------------
(***************************************************************************)
(* Theorems about WiFiConfigurator, for all networks, limits and numbers   *)
(* of power losses.                                                        *)
(*                                                                         *)
(* The bound of the saved restart counter is not obvious, since it is      *)
(* incremented from a copy in RAM that is never reset.  begin() itself     *)
(* fails with a copy of at most max_reboots only: with more it has fallen  *)
(* back to the default access point, which connects at the second attempt  *)
(* at the latest (CounterInv).                                             *)
(*                                                                         *)
(* What a request saves is read from net_conf, what the device connects    *)
(* with from the driver's own credentials.  They agree because a request   *)
(* always configures the interface before it tries again (SavedInv).       *)
(***************************************************************************)
EXTENDS WiFiConfigurator, TLAPS

USE NetworksAssumption, LimitsAssumption, PowerAssumption

Places == {"boot", "check", "connect", "configure", "retry", "connected",
           "failed", "save_ap", "save_ssid", "save_psk", "up"}

\* What the steps keep of the types whatever the counter is.
PlaceInv ==
  /\ nvs_conf \in Configs /\ net_conf \in Configs /\ proven \in Configs
  /\ wifi_stored \in Credentials /\ reachable \subseteq Networks
  /\ pc \in Places
  /\ caller \in {"begin", "fallback", "request"}
  /\ torn \in BOOLEAN

LimitInv ==
  /\ retries \in 0 .. max_reconnections
  /\ losses \in 0 .. MaxPowerLosses

\* What is saved is what the device was connected with, and a save writes all
\* of it.
SavedInv ==
  /\ ~Saving /\ ~torn => nvs_conf = proven
  /\ Saving => net_conf = proven
  /\ pc \in {"save_ssid", "save_psk"} => nvs_conf.ap = net_conf.ap
  /\ pc = "save_psk" => nvs_conf.ssid = net_conf.ssid
  /\ pc \in {"boot", "check", "connect"} => caller # "request"
  /\ caller = "request" /\ pc \in {"retry", "connected"} /\ ~net_conf.ap =>
       wifi_stored = CredentialsOf(net_conf)

CounterTypes ==
  /\ nvs_counter \in 0 .. MaxCounter
  /\ restart_counter \in 0 .. MaxCounter

CounterInv ==
  /\ CounterTypes
  /\ pc \in {"boot", "check"} => caller = "begin" /\ retries = 0
  /\ caller = "begin" /\ pc \in {"connect", "configure", "retry", "failed"} =>
       restart_counter <= max_reboots
  /\ caller = "fallback" =>
       net_conf = DefaultConf /\ retries <= 1 /\ pc # "failed"
  /\ caller = "request" => restart_counter < MaxCounter

Inv == PlaceInv /\ LimitInv /\ SavedInv /\ CounterInv

LEMMA InitInv == Init => Inv
<1> SUFFICES ASSUME Init PROVE Inv
  OBVIOUS
<1>1. DefaultConf \in Configs /\ CredentialsOf(DefaultConf) \in Credentials
  BY DEF DefaultConf, Configs, CredentialsOf, Credentials
<1>2. PlaceInv
  BY <1>1 DEF Init, PlaceInv, Places
<1>3. LimitInv /\ CounterInv
  BY DEF Init, LimitInv, CounterInv, CounterTypes
<1>4. SavedInv
  BY DEF Init, SavedInv, Saving
<1>5. QED
  BY <1>2, <1>3, <1>4 DEF Inv

LEMMA PlaceStep ==
  ASSUME PlaceInv, [Next]_vars
  PROVE  PlaceInv'
<1> USE DEF PlaceInv, Places, Goto, Reboot, nvs, ram, history, Configs,
            DefaultConf, Credentials, CredentialsOf, Effective, Saving
<1>1. CASE Restore
  BY <1>1 DEF Restore
<1>2. CASE CheckRestarts
  <2>1. /\ net_conf' \in {net_conf, DefaultConf}
        /\ caller' \in {caller, "fallback"}
        /\ pc' \in {"save_ap", "connect"}
        /\ UNCHANGED <<nvs_conf, wifi_stored, reachable, torn>>
          /\ proven' \in {proven, DefaultConf}
    BY <1>2 DEF CheckRestarts
  <2>2. DefaultConf \in Configs
    OBVIOUS
  <2>3. QED
    BY <2>1, <2>2
<1>3. CASE Connect
  BY <1>3 DEF Connect
<1>4. CASE ConfigureAp
  BY <1>4 DEF ConfigureAp
<1>5. CASE ConfigureStation
  BY <1>5 DEF ConfigureStation
<1>6. CASE ReconnectAp
  BY <1>6 DEF ReconnectAp
<1>7. CASE ReconnectStation
  BY <1>7 DEF ReconnectStation
<1>8. CASE GiveUp
  BY <1>8 DEF GiveUp
<1>9. CASE CountingDeviceRestart
  BY <1>9 DEF CountingDeviceRestart
<1>10. CASE ResetCounter
  BY <1>10 DEF ResetCounter
<1>11. CASE RequestConnected
  BY <1>11 DEF RequestConnected
<1>12. CASE SaveMode
  BY <1>12 DEF SaveMode
<1>13. CASE SaveSsid
  BY <1>13 DEF SaveSsid
<1>14. CASE SavePsk
  BY <1>14 DEF SavePsk
<1>15. ASSUME NEW conf \in Configs, Request(conf)
      PROVE  PlaceInv'
  BY <1>15 DEF Request
<1>16. CASE PowerLoss
  BY <1>16 DEF PowerLoss
<1>17. CASE NetworksChange
  BY <1>17 DEF NetworksChange
<1>18. CASE UNCHANGED vars
  BY <1>18 DEF vars
<1>19. QED
  BY <1>1, <1>2, <1>3, <1>4, <1>5, <1>6, <1>7, <1>8, <1>9,
     <1>10, <1>11, <1>12, <1>13, <1>14, <1>15, <1>16, <1>17, <1>18
     DEF Next, Begin

LEMMA LimitStep ==
  ASSUME LimitInv, [Next]_vars
  PROVE  LimitInv'
<1> USE DEF LimitInv, Goto, Reboot, nvs, ram, history, Configs, DefaultConf
<1>1. CASE Restore
  BY <1>1 DEF Restore
<1>2. CASE CheckRestarts
  BY <1>2 DEF CheckRestarts
<1>3. CASE Connect
  BY <1>3 DEF Connect
<1>4. CASE ConfigureAp
  BY <1>4 DEF ConfigureAp
<1>5. CASE ConfigureStation
  BY <1>5 DEF ConfigureStation
<1>6. CASE ReconnectAp
  BY <1>6 DEF ReconnectAp
<1>7. CASE ReconnectStation
  BY <1>7 DEF ReconnectStation
<1>8. CASE GiveUp
  BY <1>8 DEF GiveUp
<1>9. CASE CountingDeviceRestart
  BY <1>9 DEF CountingDeviceRestart
<1>10. CASE ResetCounter
  BY <1>10 DEF ResetCounter
<1>11. CASE RequestConnected
  BY <1>11 DEF RequestConnected
<1>12. CASE SaveMode
  BY <1>12 DEF SaveMode
<1>13. CASE SaveSsid
  BY <1>13 DEF SaveSsid
<1>14. CASE SavePsk
  BY <1>14 DEF SavePsk
<1>15. ASSUME NEW conf \in Configs, Request(conf)
      PROVE  LimitInv'
  BY <1>15 DEF Request
<1>16. CASE PowerLoss
  BY <1>16 DEF PowerLoss
<1>17. CASE NetworksChange
  BY <1>17 DEF NetworksChange
<1>18. CASE UNCHANGED vars
  BY <1>18 DEF vars
<1>19. QED
  BY <1>1, <1>2, <1>3, <1>4, <1>5, <1>6, <1>7, <1>8, <1>9,
     <1>10, <1>11, <1>12, <1>13, <1>14, <1>15, <1>16, <1>17, <1>18
     DEF Next, Begin

LEMMA SavedStep ==
  ASSUME PlaceInv, SavedInv, [Next]_vars
  PROVE  SavedInv'
<1> USE DEF PlaceInv, SavedInv, Goto, Reboot, nvs, ram, history, Configs,
            DefaultConf, Credentials, CredentialsOf, Effective, Saving
<1>1. CASE Restore
  BY <1>1 DEF Restore
<1>2. CASE CheckRestarts
  BY <1>2 DEF CheckRestarts
<1>3. CASE Connect
  BY <1>3 DEF Connect
<1>4. CASE ConfigureAp
  BY <1>4 DEF ConfigureAp
<1>5. CASE ConfigureStation
  BY <1>5 DEF ConfigureStation
<1>6. CASE ReconnectAp
  BY <1>6 DEF ReconnectAp
<1>7. CASE ReconnectStation
  BY <1>7 DEF ReconnectStation
<1>8. CASE GiveUp
  BY <1>8 DEF GiveUp
<1>9. CASE CountingDeviceRestart
  BY <1>9 DEF CountingDeviceRestart
<1>10. CASE ResetCounter
  BY <1>10 DEF ResetCounter
<1>11. CASE RequestConnected
  BY <1>11 DEF RequestConnected
<1>12. CASE SaveMode
  BY <1>12 DEF SaveMode
<1>13. CASE SaveSsid
  BY <1>13 DEF SaveSsid
<1>14. CASE SavePsk
  BY <1>14 DEF SavePsk
<1>15. ASSUME NEW conf \in Configs, Request(conf)
      PROVE  SavedInv'
  BY <1>15 DEF Request
<1>16. CASE PowerLoss
  BY <1>16 DEF PowerLoss
<1>17. CASE NetworksChange
  BY <1>17 DEF NetworksChange
<1>18. CASE UNCHANGED vars
  BY <1>18 DEF vars
<1>19. QED
  BY <1>1, <1>2, <1>3, <1>4, <1>5, <1>6, <1>7, <1>8, <1>9,
     <1>10, <1>11, <1>12, <1>13, <1>14, <1>15, <1>16, <1>17, <1>18
     DEF Next, Begin

LEMMA CounterStep ==
  ASSUME PlaceInv, LimitInv, CounterInv, [Next]_vars
  PROVE  CounterInv'
<1> USE DEF PlaceInv, LimitInv, CounterInv, CounterTypes, ApWorks, Goto,
            Reboot, nvs, ram, history, Configs, DefaultConf
<1>1. CASE Restore
  BY <1>1 DEF Restore
<1>2. CASE CheckRestarts
  BY <1>2 DEF CheckRestarts
<1>3. CASE Connect
  BY <1>3 DEF Connect
<1>4. CASE ConfigureAp
  BY <1>4 DEF ConfigureAp
<1>5. CASE ConfigureStation
  BY <1>5 DEF ConfigureStation
<1>6. CASE ReconnectAp
  BY <1>6 DEF ReconnectAp
<1>7. CASE ReconnectStation
  BY <1>7 DEF ReconnectStation
<1>8. CASE GiveUp
  BY <1>8 DEF GiveUp
<1>9. CASE CountingDeviceRestart
  BY <1>9 DEF CountingDeviceRestart
<1>10. CASE ResetCounter
  BY <1>10 DEF ResetCounter
<1>11. CASE RequestConnected
  BY <1>11 DEF RequestConnected
<1>12. CASE SaveMode
  BY <1>12 DEF SaveMode
<1>13. CASE SaveSsid
  BY <1>13 DEF SaveSsid
<1>14. CASE SavePsk
  BY <1>14 DEF SavePsk
<1>15. ASSUME NEW conf \in Configs, Request(conf)
      PROVE  CounterInv'
  BY <1>15 DEF Request
<1>16. CASE PowerLoss
  BY <1>16 DEF PowerLoss
<1>17. CASE NetworksChange
  BY <1>17 DEF NetworksChange
<1>18. CASE UNCHANGED vars
  BY <1>18 DEF vars
<1>19. QED
  BY <1>1, <1>2, <1>3, <1>4, <1>5, <1>6, <1>7, <1>8, <1>9,
     <1>10, <1>11, <1>12, <1>13, <1>14, <1>15, <1>16, <1>17, <1>18
     DEF Next, Begin

LEMMA Invariant == Spec => []Inv
<1>1. Inv /\ [Next]_vars => Inv'
  BY PlaceStep, LimitStep, SavedStep, CounterStep DEF Inv
<1>2. QED
  BY InitInv, <1>1, PTL DEF Spec

\* Every variable keeps its type; the saved restart counter stays within its
\* bound although it is incremented from a copy in RAM that is older
\* (wifi_configurator.cpp:96-97, 330).
THEOREM ConfiguratorTypeCorrect == Spec => []TypeOK
<1>1. Inv => TypeOK
  BY DEF Inv, PlaceInv, Places, LimitInv, CounterInv, CounterTypes, TypeOK
<1>2. QED
  BY Invariant, <1>1, PTL

\* While nothing is being saved NVS holds all of a configuration the device
\* was connected with, mode, SSID and password, or the defaults, unless power
\* was lost during the latest save: for every set of networks and any number
\* of requests, reboots, attempts and power losses
\* (wifi_configurator.cpp:392-396).
THEOREM SavedHasWorked == Spec => []SavedWorkedBefore
<1>1. Inv => SavedWorkedBefore
  BY DEF Inv, SavedInv, SavedWorkedBefore
<1>2. QED
  BY Invariant, <1>1, PTL
=============================================================================
