--------------------------- MODULE RemoteControl ---------------------------
(***************************************************************************)
(* What the web client promises to its user, without rate limit, slots,    *)
(* connections, timers and watchdog: the device follows the user's         *)
(* commands in their order and ends up with the last one, as long as the   *)
(* network is not disturbed; and the view shows nothing but what the       *)
(* device has done, up to date whenever the device can be reached,         *)
(* disturbed or not (header comments of async_requests_sse.js and of       *)
(* EspAjaxLab.vue).                                                        *)
(***************************************************************************)
EXTENDS Naturals

VARIABLES
  wanted,      \* number of the user's latest command
  done,        \* the command the device executed last
  shown,       \* the command whose effect the view shows
  disturbed,   \* commands overtook each other or were lost
  up           \* the device can be reached

vars == <<wanted, done, shown, disturbed, up>>

Init ==
  /\ wanted = 0 /\ done = 0 /\ shown = 0
  /\ disturbed = FALSE
  /\ up \in BOOLEAN

\* A command may make the network slower than the client's rate limit.
Want ==
  /\ wanted' \in {wanted, wanted + 1}
  /\ disturbed' \in BOOLEAN /\ (disturbed => disturbed')
  /\ UNCHANGED <<done, shown, up>>

\* Commands are left out, but their order is kept.
Do ==
  /\ done' \in 1 .. wanted
  /\ disturbed \/ done' > done
  /\ UNCHANGED <<wanted, shown, disturbed, up>>

Show == shown' = done /\ UNCHANGED <<wanted, done, disturbed, up>>

Reach == up' = ~up /\ UNCHANGED <<wanted, done, shown, disturbed>>

Next == Want \/ Do \/ Show \/ Reach

\* Every command is followed by an execution, and every execution is shown.
Serve == ~disturbed /\ done < wanted /\ Do
Refresh == up /\ shown # done /\ Show

Spec == Init /\ [][Next]_vars /\ WF_vars(Serve) /\ WF_vars(Refresh)
=============================================================================
