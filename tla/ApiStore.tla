------------------------------ MODULE ApiStore ------------------------------
(***************************************************************************)
(* The store of the web client (vue_app/src/api/useApiStore.js) joins the  *)
(* command path (module RequestGenerator) and the event path (module       *)
(* LiveView).  Commands can be given only while the watchdog has the       *)
(* controls enabled; the device executes a command only while it is up;    *)
(* and every event both resets the watchdog and copies the device's state  *)
(* into the store.                                                         *)
(*                                                                         *)
(* The state is represented by the number of the command that the device   *)
(* executed last.  That a push carries the state of that moment is the     *)
(* subject of module EventLoop.                                            *)
(***************************************************************************)
EXTENDS RequestGenerator

CONSTANT MaxTimers   \* bound: pending timers of each kind besides the latest

ASSUME MaxTimersAssumption == MaxTimers \in Nat

VARIABLES
  server_up, source, reconnect_latest, reconnect_others,
  watchdog_latest, watchdog_others, triggered, disabled, debug,
  state   \* the state object: the last command of which it shows the effect

View == INSTANCE LiveView

commands == vars
events == <<server_up, source, reconnect_latest, reconnect_others,
            watchdog_latest, watchdog_others, triggered, disabled, debug>>
storeVars == <<commands, events, state>>

\* The store's own part; its state object holds default values.
StoreInit ==
  /\ Init
  /\ View!Init
  /\ state = None

\* dispatch_action, called by a control, which does nothing while disabled.
dispatch_action ==
  /\ ~disabled
  /\ SendCmd
  /\ UNCHANGED <<events, state>>

\* on_hw_app_state with its callback update_state.
update_state ==
  /\ View!Message
  /\ state' = device
  /\ UNCHANGED commands

\* A command arrives while the device is up, or is lost.
Arrive ==
  /\ \E request \in Requests : Fail(request) \/ (server_up /\ Execute(request))
  /\ UNCHANGED <<events, state>>

RateLimitTimer == TimerExpires /\ UNCHANGED <<events, state>>

Connection ==
  /\ \/ View!Open \/ View!Error \/ View!Reconnect \/ View!WatchdogTimeout
     \/ View!DebugOn \/ View!DebugOff \/ View!ServerChanges
  /\ UNCHANGED <<commands, state>>

StoreNext ==
  \/ dispatch_action \/ RateLimitTimer \/ Arrive
  \/ update_state \/ Connection

StoreSpec == StoreInit /\ [][StoreNext]_storeVars

(***************************************************************************)
(* Timers fire, a request arrives or fails, a source connects to a server  *)
(* that is up or reports an error, and the device pushes its state         *)
(* periodically (module EventLoop).  Users and networks owe nothing.       *)
(***************************************************************************)
FairSpec ==
  /\ StoreSpec
  /\ WF_storeVars(RateLimitTimer)
  /\ WF_storeVars(Arrive)
  /\ WF_storeVars(update_state)
  /\ WF_storeVars(Connection /\ View!Open)
  /\ WF_storeVars(Connection /\ View!Error)
  /\ WF_storeVars(Connection /\ View!Reconnect)
  /\ WF_storeVars(Connection /\ View!WatchdogTimeout)

-----------------------------------------------------------------------------
(***************************************************************************)
(* Properties; LatestIsSent and SentOnceInOrder are those of module        *)
(* RequestGenerator.                                                       *)
(***************************************************************************)

\* Every variable of both parts keeps its type; the two flags of the watchdog
\* agree and the rate limit has one timer.
StoreTypeOK ==
  /\ TypeOK
  /\ View!TypeOK
  /\ state \in Requests \cup {None}

\* After any number of errors, with several reconnect timers pending that each
\* close a source that may be healthy, the view ends up connected once the
\* server stays up and nobody debugs (async_requests_sse.js:144-160).
EndsConnected == View!EndsConnected

\* Once the server is gone for good and nobody debugs, the controls get
\* disabled and stay so, whatever resets and timers there were before
\* (async_requests_sse.js:196-227).
StaleDataDisables == View!StaleDataDisables

Remote == INSTANCE RemoteControl WITH
  wanted <- issued,
  done <- device,
  shown <- state,
  disturbed <- disturbed,
  up <- server_up /\ ~debug

\* The store implements RemoteControl: with all its slots, timers and
\* connections, commands are executed in order and up to the last one unless
\* the network is slower than the rate limit or loses one, and even then the
\* state shown follows the device.
ImplementsRemoteControl == Remote!Spec
=============================================================================
