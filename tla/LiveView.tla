------------------------------ MODULE LiveView ------------------------------
(***************************************************************************)
(* The browser's side of the server-sent events                            *)
(* (vue_app/src/api/async_requests_sse.js, useApiStore.js): the event      *)
(* source, which is replaced some time after an error, and the watchdog,   *)
(* which disables the controls when no message comes.                      *)
(*                                                                         *)
(* JavaScript runs one callback at a time, so a callback is one step; what *)
(* interleaves are the callbacks of timers, messages and errors.  Timers   *)
(* have no clock here: one that is pending may fire at any time.           *)
(***************************************************************************)
EXTENDS Naturals

CONSTANT MaxTimers   \* bound: pending timers of each kind besides the latest

VARIABLES
  server_up,           \* the device answers
  source,              \* readyState of the EventSource (external)
  reconnect_latest,    \* the timer in reconnect_timer_id is pending
  reconnect_others,    \* number of pending timers that were overwritten there
  watchdog_latest,     \* likewise for the watchdog's timer_id
  watchdog_others,
  triggered,           \* _triggered
  disabled,            \* the controls
  debug

reconnect == <<reconnect_latest, reconnect_others>>
watchdog == <<watchdog_latest, watchdog_others, triggered>>
vars == <<server_up, source, reconnect, watchdog, disabled, debug>>

\* useApiStore() has run: the handler has opened its first source.
Init ==
  /\ server_up \in BOOLEAN
  /\ source = "connecting"
  /\ reconnect_latest = FALSE /\ reconnect_others = 0
  /\ watchdog_latest = FALSE /\ watchdog_others = 0
  /\ triggered = TRUE
  /\ disabled = TRUE
  /\ debug = FALSE

\* setTimeout whose id is stored over the one of a timer that may be pending.
Started(latest, others) == IF latest THEN others + 1 ELSE others

(***************************************************************************)
(* AppWatchdog.                                                            *)
(***************************************************************************)

\* Bug: the reset only stops the timer.
ResetWithoutEnable ==
  /\ watchdog_latest' = FALSE
  /\ watchdog_others' = watchdog_others
  /\ triggered' = FALSE
  /\ disabled' = (disabled /\ ~triggered)

\* disable() and, in reset(), enable() after it: the timer is started anew.
ResetWatchdog ==
  /\ watchdog_latest' = TRUE
  /\ watchdog_others' = watchdog_others
  /\ triggered' = FALSE
  /\ disabled' = (disabled /\ ~triggered)

DisableWatchdog ==
  /\ watchdog_latest' = FALSE
  /\ watchdog_others' = watchdog_others
  /\ triggered' = FALSE
  /\ disabled' = (disabled /\ ~triggered)

EnableWatchdog ==
  /\ watchdog_latest' = TRUE
  /\ watchdog_others' = Started(watchdog_latest, watchdog_others)
  /\ UNCHANGED <<triggered, disabled>>

\* Bug: the timeout is not reported to the view.
TimeoutUnreported ==
  /\ \/ /\ watchdog_latest
        /\ watchdog_latest' = FALSE /\ watchdog_others' = watchdog_others
     \/ /\ watchdog_others > 0
        /\ watchdog_others' = watchdog_others - 1
        /\ watchdog_latest' = watchdog_latest
  /\ triggered' = TRUE
  /\ UNCHANGED <<disabled, server_up, source, reconnect, debug>>

\* The timer of enable() expires.
WatchdogTimeout ==
  /\ \/ /\ watchdog_latest
        /\ watchdog_latest' = FALSE /\ watchdog_others' = watchdog_others
     \/ /\ watchdog_others > 0
        /\ watchdog_others' = watchdog_others - 1
        /\ watchdog_latest' = watchdog_latest
  /\ triggered' = TRUE
  /\ disabled' = TRUE
  /\ UNCHANGED <<server_up, source, reconnect, debug>>

(***************************************************************************)
(* ServerSentEventHandler.                                                 *)
(***************************************************************************)

\* The browser has connected the source.
Open ==
  /\ server_up
  /\ source = "connecting"
  /\ source' = "open"
  /\ UNCHANGED <<server_up, reconnect, watchdog, disabled, debug>>

\* Bug: only an error of an open connection starts the timer.
ErrorWhenOpenOnly ==
  /\ ~server_up
  /\ source \in {"connecting", "open"}
  /\ source' \in {"connecting", "closed"}
  /\ \/ /\ source = "open"
        /\ reconnect_others < MaxTimers
        /\ reconnect_latest' = TRUE
        /\ reconnect_others' = Started(reconnect_latest, reconnect_others)
     \/ /\ source # "open"
        /\ UNCHANGED reconnect
  /\ UNCHANGED <<server_up, watchdog, disabled, debug>>

\* on_error.  The browser goes on trying with the same source, or gives up.
Error ==
  /\ ~server_up
  /\ source \in {"connecting", "open"}
  /\ reconnect_others < MaxTimers
  /\ source' \in {"connecting", "closed"}
  /\ reconnect_latest' = TRUE
  /\ reconnect_others' = Started(reconnect_latest, reconnect_others)
  /\ UNCHANGED <<server_up, watchdog, disabled, debug>>

\* A reconnect timer calls connect(): the old source is closed, whatever its
\* state, and a new one is created.
Reconnect ==
  /\ \/ /\ reconnect_latest
        /\ reconnect_latest' = FALSE /\ reconnect_others' = reconnect_others
     \/ /\ reconnect_others > 0
        /\ reconnect_others' = reconnect_others - 1
        /\ reconnect_latest' = reconnect_latest
  /\ source' = "connecting"
  /\ UNCHANGED <<server_up, watchdog, disabled, debug>>

\* on_hw_app_state
Message ==
  /\ server_up
  /\ source = "open"
  /\ ResetWatchdog
  /\ UNCHANGED <<server_up, source, reconnect, debug>>

\* disable_reconnect_and_watchdog(true).  The listener it asks to remove is
\* not the one that was added, so errors still get to on_error.
DebugOn ==
  /\ ~debug
  /\ debug' = TRUE
  /\ reconnect_latest' = FALSE /\ reconnect_others' = reconnect_others
  /\ DisableWatchdog
  /\ UNCHANGED <<server_up, source>>

DebugOff ==
  /\ debug
  /\ watchdog_others < MaxTimers
  /\ debug' = FALSE
  /\ source' = "connecting"
  /\ EnableWatchdog
  /\ UNCHANGED <<server_up, reconnect>>

\* The device or the network goes away or comes back (external).
ServerChanges ==
  /\ server_up' = ~server_up
  /\ UNCHANGED <<source, reconnect, watchdog, disabled, debug>>

Next ==
  \/ Open \/ Error \/ Reconnect \/ Message
  \/ WatchdogTimeout
  \/ DebugOn \/ DebugOff
  \/ ServerChanges

Spec == Init /\ [][Next]_vars

-----------------------------------------------------------------------------
(***************************************************************************)
(* Properties.                                                             *)
(***************************************************************************)

\* Every variable keeps its type, and the watchdog's two flags agree: the
\* controls are disabled exactly when the watchdog has triggered.
TypeOK ==
  /\ {server_up, reconnect_latest, watchdog_latest, triggered, disabled,
      debug} \subseteq BOOLEAN
  /\ source \in {"connecting", "open", "closed"}
  /\ {reconnect_others, watchdog_others} \subseteq 0 .. MaxTimers
  /\ disabled = triggered

\* After any number of errors, and with several reconnect timers pending that
\* each close a source that may be healthy, the view ends up with an open
\* source once the server stays up and nobody debugs
\* (async_requests_sse.js:144-160, 184-189).
EndsConnected ==
  <>[](server_up /\ ~debug) => <>[](source = "open")

\* Controls do not stay enabled on stale data: once the server is gone for
\* good and nobody debugs, the controls get disabled and remain so, whatever
\* resets and timers there were before (async_requests_sse.js:196-227).
StaleDataDisables ==
  <>[](~server_up /\ ~debug) => <>[]disabled
=============================================================================
